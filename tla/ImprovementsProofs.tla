------------------------- MODULE ImprovementsProofs -------------------------
(***************************************************************************)
(* Proofs about what a task runs under and about the improvement           *)
(* proposals over it: for every set of profiles, providers, catalogs,      *)
(* policies, plans and flag combinations, and any number of tasks,         *)
(* resumes, edits of the profile, proposals and rollbacks.                 *)
(***************************************************************************)
EXTENDS Improvements, FiniteSetTheorems, SequenceTheorems, TLAPS

(* ------------------------------ sequences ------------------------------ *)

\* A sequence, whatever its elements are.
IsSeq(s) == s \in Seq(Range(s))

LEMMA SeqFacts ==
    ASSUME NEW s, IsSeq(s)
    PROVE  Len(s) \in Nat /\ DOMAIN s = 1..Len(s)
    BY LenProperties DEF IsSeq

LEMMA EmptyIsSeq == IsSeq(<< >>)
    BY EmptySeq DEF IsSeq

LEMMA AppendFacts ==
    ASSUME NEW s, IsSeq(s), NEW e
    PROVE  /\ IsSeq(Append(s, e)) /\ Len(Append(s, e)) = Len(s) + 1
           /\ DOMAIN Append(s, e) = DOMAIN s \cup {Len(s) + 1}
           /\ Append(s, e)[Len(s) + 1] = e
           /\ \A i \in DOMAIN s : Append(s, e)[i] = s[i]
<1> DEFINE T == Range(s) \cup {e}
<1>1. s \in Seq(T) /\ e \in T
  BY SeqMonotonic DEF IsSeq
<1> HIDE DEF T
<1>2. /\ Append(s, e) \in Seq(T) /\ Len(Append(s, e)) = Len(s) + 1
      /\ Append(s, e)[Len(s) + 1] = e
      /\ \A i \in 1..Len(s) : Append(s, e)[i] = s[i]
  BY <1>1
<1>3. Len(s) \in Nat /\ DOMAIN s = 1..Len(s) /\ DOMAIN Append(s, e) = 1..(Len(s) + 1)
  BY <1>1, <1>2, LenProperties
<1>4. DOMAIN Append(s, e) = DOMAIN s \cup {Len(s) + 1}
  BY <1>3
<1>5. T \subseteq Range(Append(s, e))
  BY <1>2, <1>3, <1>4 DEF Range, T
<1>6. Append(s, e) \in Seq(Range(Append(s, e)))
  BY <1>2, <1>5, SeqMonotonic
<1> QED BY <1>2, <1>3, <1>4, <1>6 DEF IsSeq

LEMMA ExceptFacts ==
    ASSUME NEW s, IsSeq(s), NEW k \in DOMAIN s, NEW e
    PROVE  /\ IsSeq([s EXCEPT ![k] = e]) /\ Len([s EXCEPT ![k] = e]) = Len(s)
           /\ DOMAIN [s EXCEPT ![k] = e] = DOMAIN s
           /\ [s EXCEPT ![k] = e][k] = e
           /\ \A i \in DOMAIN s \ {k} : [s EXCEPT ![k] = e][i] = s[i]
<1> DEFINE T == Range(s) \cup {e}
           r == [s EXCEPT ![k] = e]
<1>1. s \in Seq(T) /\ e \in T /\ k \in 1..Len(s) /\ DOMAIN s = 1..Len(s)
  BY SeqMonotonic, SeqFacts DEF IsSeq
<1> HIDE DEF T
<1>2. r \in Seq(T) /\ Len(r) = Len(s)
  BY <1>1, ExceptSeq
<1>3. DOMAIN r = DOMAIN s /\ r[k] = e /\ \A i \in DOMAIN s \ {k} : r[i] = s[i]
  OBVIOUS
<1> HIDE DEF r
<1>4. r \in [1..Len(r) -> T]
  BY <1>2, LenProperties
<1>5. r \in Seq(Range(r))
  <2>1. \A i \in 1..Len(r) : r[i] \in Range(r)
    BY <1>4 DEF Range
  <2>2. r \in [1..Len(r) -> Range(r)]
    BY <1>4, <2>1
  <2>3. Len(r) \in Nat
    BY <1>2, LenProperties
  <2> QED BY <2>2, <2>3
<1> QED BY <1>2, <1>3, <1>5 DEF IsSeq, r

\* A function on the domain of a sequence is a sequence of the same length.
LEMMA UpdateFacts ==
    ASSUME NEW s, IsSeq(s), NEW r, DOMAIN r = DOMAIN s, r = [i \in DOMAIN r |-> r[i]]
    PROVE  IsSeq(r) /\ Len(r) = Len(s)
<1>1. Len(s) \in Nat /\ DOMAIN s = 1..Len(s)
  BY SeqFacts
<1>2. r \in [1..Len(s) -> Range(r)]
  BY <1>1 DEF Range
<1>3. r \in Seq(Range(r)) /\ Len(r) = Len(s)
  BY <1>1, <1>2
<1> QED BY <1>3 DEF IsSeq

(* ------------------------- the tasks' invariant ------------------------ *)

\* The recipes, the surface and the row of a task, from what it was started with.
StartRecipes(in, doc) ==
    IF in.profile THEN Restrict(in.catalog, EffectiveIDs(doc, in.catalog)) ELSE in.catalog

StartSurface(in, doc, plan) ==
    [provider     |-> ProviderIdentity(in.provider),
     packages     |-> IF in.profile THEN doc.packages ELSE DOMAIN BuiltinRegistry,
     recipes      |-> StartRecipes(in, doc),
     writePolicy  |-> FlagWritePolicy(in.writePolicy),
     recipePolicy |-> RecipeSpec(FlagPolicy(in.recipePolicy), DOMAIN StartRecipes(in, doc)),
     plan         |-> plan]

StartContract(in, doc) ==
    IF in.profile
    THEN Resolve(doc, in.provider, in.catalog, FlagWritePolicy(in.writePolicy),
                 FlagPolicy(in.recipePolicy), in.plan)
    ELSE NoContract

StartRow(in, doc, status, plan) ==
    [status       |-> status,
     lane         |-> in.provider.lane,
     provider     |-> ProviderIdentity(in.provider),
     model        |-> in.provider.model,
     catalog      |-> in.catalog,
     writePolicy  |-> FlagWritePolicy(in.writePolicy),
     recipePolicy |-> RecipeSpec(FlagPolicy(in.recipePolicy), DOMAIN StartRecipes(in, doc)),
     plan         |-> plan,
     contract     |-> StartContract(in, doc)]

\* The histories run alongside the rows.
Shape ==
    /\ IsSeq(tasks) /\ IsSeq(account) /\ IsSeq(started) /\ IsSeq(ran)
    /\ Len(account) = Len(tasks) /\ Len(started) = Len(tasks) /\ Len(ran) = Len(tasks)
    /\ live \subseteq DOMAIN tasks /\ file \in Profiles \cup {NoProfile}

\* A row keeps what the task was started with, but for its status and a plan stored later,
\* and a task that was started had passed the preflight.
Kept(t) ==
    LET in == started[t].in
        doc == started[t].doc
    IN  /\ started[t] = [in |-> in, doc |-> doc]
        /\ in \in RunInputs
        /\ tasks[t] = StartRow(in, doc, tasks[t].status, tasks[t].plan)
        /\ Resolvable(in.provider)
        /\ in.profile => /\ StrictProfile(doc) /\ Composes(doc, in.provider, in.catalog)
                         /\ StartContract(in, doc) # NoContract

\* Every execution had the surface of the start, with no plan or the row's.
Frozen(t) ==
    \A c \in ran[t] :
        /\ c = StartSurface(started[t].in, started[t].doc, c.plan)
        /\ c.plan \in {NoPlan, tasks[t].plan}

TaskInv == Shape /\ \A t \in DOMAIN tasks : Kept(t) /\ Frozen(t)

LEMMA RecipeSpecAgain ==
    ASSUME NEW policy, NEW ids
    PROVE  RecipeSpec(RecipeSpec(policy, ids), ids) = RecipeSpec(policy, ids)
    BY DEF RecipeSpec, ModeOf

\* A new task's row and surface.
LEMMA RunStarts ==
    ASSUME NEW in \in RunInputs, RunAccepted(in), file \in Profiles \cup {NoProfile}
    PROVE  /\ TaskRow(in) = StartRow(in, file, "running", in.plan)
           /\ Effective(in.profile, in.provider, in.catalog, FlagWritePolicy(in.writePolicy),
                        FlagPolicy(in.recipePolicy), in.plan)
                = StartSurface(in, file, in.plan)
           /\ Resolvable(in.provider)
           /\ in.profile => /\ StrictProfile(file) /\ Composes(file, in.provider, in.catalog)
                            /\ StartContract(in, file) # NoContract
<1>1. EffectiveRecipes(in.profile, in.catalog) = StartRecipes(in, file)
  BY DEF EffectiveRecipes, StartRecipes
<1>2. TaskRow(in) = StartRow(in, file, "running", in.plan)
  BY <1>1 DEF TaskRow, StartRow, StoredCatalog, StartContract
<1>3. Effective(in.profile, in.provider, in.catalog, FlagWritePolicy(in.writePolicy),
                FlagPolicy(in.recipePolicy), in.plan) = StartSurface(in, file, in.plan)
  BY <1>1 DEF Effective, StartSurface
<1>4. in.profile => StrictProfile(file) /\ Composes(file, in.provider, in.catalog)
  BY DEF RunAccepted
<1>5. in.profile => StartContract(in, file) # NoContract
  BY <1>4, ContractAssumption DEF StartContract, StrictProfile
<1> QED BY <1>2, <1>3, <1>4, <1>5 DEF RunAccepted

LEMMA ScriptedIdentity ==
    ASSUME NEW p, NEW q, p.lane = "scripted", q.lane = "scripted"
    PROVE  ProviderIdentity(p) = ProviderIdentity(q)
    BY DEF ProviderIdentity

\* A resume that is accepted builds the surface of the start again.
LEMMA ResumeContinues ==
    ASSUME TaskInv, NEW t \in DOMAIN tasks, NEW in \in ResumeInputs, ResumeAccepted(t, in)
    PROVE  Effective(in.profile, in.provider, in.catalog, tasks[t].writePolicy,
                     tasks[t].recipePolicy, ResumePlan(tasks[t], in.plan))
             = StartSurface(started[t].in, started[t].doc, ResumePlan(tasks[t], in.plan))
<1> DEFINE row == tasks[t]
           plan == ResumePlan(row, in.plan)
           old == started[t].in
           doc == started[t].doc
<1>0. /\ Kept(t) /\ row = StartRow(old, doc, row.status, row.plan) /\ old \in RunInputs
      /\ old.provider \in Providers /\ old.profile \in BOOLEAN /\ in.profile \in BOOLEAN
      /\ old.profile => StartContract(old, doc) # NoContract
  BY InputAssumption DEF TaskInv, Kept
<1>1. /\ row.lane = old.provider.lane /\ row.provider = ProviderIdentity(old.provider)
      /\ row.catalog = old.catalog /\ row.writePolicy = FlagWritePolicy(old.writePolicy)
      /\ row.contract = StartContract(old, doc)
      /\ row.recipePolicy = RecipeSpec(FlagPolicy(old.recipePolicy), DOMAIN StartRecipes(old, doc))
  BY <1>0 DEF StartRow
<1>2. in.profile = old.profile
  BY <1>0, <1>1 DEF ResumeAccepted, StartContract
<1>3. ProviderIdentity(in.provider) = row.provider
  <2>1. CASE row.lane = "scripted"
    BY <1>1, <2>1, ScriptedIdentity DEF ResumeAccepted, ProviderContinues
  <2>2. CASE row.lane # "scripted"
    <3>1. row.lane \in {"omniroute", "configured"}
      BY <1>0, <1>1, <2>2, LaneAssumption
    <3> QED BY <3>1 DEF ResumeAccepted, ProviderContinues
  <2> QED BY <2>1, <2>2
<1>4. in.catalog = old.catalog
  BY <1>1 DEF ResumeAccepted, CatalogContinues
<1>5. /\ in.profile => file.packages = doc.packages
      /\ EffectiveRecipes(in.profile, in.catalog) = StartRecipes(old, doc)
  <2>1. CASE ~in.profile
    BY <1>2, <1>4, <2>1 DEF EffectiveRecipes, StartRecipes
  <2>2. CASE in.profile
    <3>1. Resolve(doc, old.provider, old.catalog, FlagWritePolicy(old.writePolicy),
                  FlagPolicy(old.recipePolicy), old.plan)
            = Resolve(file, in.provider, in.catalog, row.writePolicy, row.recipePolicy, plan)
      BY <1>1, <1>2, <2>2 DEF ResumeAccepted, FrozenCompositionHolds, StartContract
    <3>2. /\ doc.packages = file.packages
          /\ Restrict(old.catalog, EffectiveIDs(doc, old.catalog))
               = Restrict(in.catalog, EffectiveIDs(file, in.catalog))
      BY <3>1 DEF Resolve
    <3> QED BY <1>2, <2>2, <3>2 DEF EffectiveRecipes, StartRecipes
  <2> QED BY <1>0, <2>1, <2>2
<1>6. RecipeSpec(row.recipePolicy, DOMAIN StartRecipes(old, doc)) = row.recipePolicy
  BY <1>1, RecipeSpecAgain
<1> QED BY <1>1, <1>2, <1>3, <1>5, <1>6 DEF Effective, StartSurface

(* --------------------------- steps of the tasks ------------------------- *)

\* A task that was created, whether its process goes on or not.
LEMMA RunKeeps ==
    ASSUME TaskInv, NEW in \in RunInputs, NEW plan, NEW goesOn \in BOOLEAN,
           goesOn => plan = in.plan, NewTask(in, plan, goesOn)
    PROVE  TaskInv'
<1> PICK t : t = Len(tasks) + 1
  OBVIOUS
<1> PICK surfaces : surfaces = IF goesOn THEN {StartSurface(in, file, in.plan)} ELSE {}
  OBVIOUS
<1>a. [StartRow(in, file, "running", in.plan) EXCEPT !.plan = plan]
        = StartRow(in, file, "running", plan)
  BY DEF StartRow
<1>b. file \in Profiles \cup {NoProfile}
  BY DEF TaskInv, Shape
<1>0. /\ tasks' = Append(tasks, StartRow(in, file, "running", plan))
      /\ live' = live \cup (IF goesOn THEN {t} ELSE {})
      /\ account' = Append(account, AccountOfRun(in.provider, in.allowance))
      /\ started' = Append(started, [in |-> in, doc |-> file])
      /\ ran' = Append(ran, surfaces)
      /\ file' = file
      /\ Resolvable(in.provider)
      /\ in.profile => /\ StrictProfile(file) /\ Composes(file, in.provider, in.catalog)
                       /\ StartContract(in, file) # NoContract
  BY <1>a, <1>b, RunStarts DEF NewTask
<1>1. Shape
  BY DEF TaskInv
<1>2. /\ IsSeq(tasks') /\ Len(tasks') = Len(tasks) + 1 /\ DOMAIN tasks' = DOMAIN tasks \cup {t}
      /\ tasks'[t] = StartRow(in, file, "running", plan)
      /\ \A i \in DOMAIN tasks : tasks'[i] = tasks[i]
  BY <1>0, <1>1, AppendFacts DEF Shape
<1>3. IsSeq(account') /\ Len(account') = Len(tasks) + 1
  BY <1>0, <1>1, AppendFacts DEF Shape
<1>4. /\ IsSeq(started') /\ Len(started') = Len(tasks) + 1
      /\ started'[t] = [in |-> in, doc |-> file]
      /\ \A i \in DOMAIN tasks : started'[i] = started[i]
  BY <1>0, <1>1, AppendFacts, SeqFacts DEF Shape
<1>5. /\ IsSeq(ran') /\ Len(ran') = Len(tasks) + 1
      /\ ran'[t] = surfaces
      /\ \A i \in DOMAIN tasks : ran'[i] = ran[i]
  BY <1>0, <1>1, AppendFacts, SeqFacts DEF Shape
<1>6. Shape'
  BY <1>0, <1>1, <1>2, <1>3, <1>4, <1>5 DEF Shape
<1>7. ASSUME NEW i \in DOMAIN tasks PROVE Kept(i)' /\ Frozen(i)'
  BY <1>2, <1>4, <1>5 DEF TaskInv, Kept, Frozen
<1>8. Kept(t)'
  <2>1. /\ started'[t].in = in /\ started'[t].doc = file
        /\ tasks'[t].status = "running" /\ tasks'[t].plan = plan
    BY <1>2, <1>4 DEF StartRow
  <2> QED BY <1>0, <1>2, <1>4, <2>1 DEF Kept
<1>9. Frozen(t)'
  <2>1. /\ started'[t].in = in /\ started'[t].doc = file /\ tasks'[t].plan = plan
    BY <1>2, <1>4 DEF StartRow
  <2>2. StartSurface(in, file, in.plan).plan = in.plan
    BY DEF StartSurface
  <2> QED BY <1>5, <2>1, <2>2 DEF Frozen
<1>10. \A i \in DOMAIN tasks' : i = t \/ i \in DOMAIN tasks
  BY <1>2
<1> QED BY <1>6, <1>7, <1>8, <1>9, <1>10 DEF TaskInv

\* Only the status or the plan of one row moves.
LEMMA RowMoves ==
    ASSUME TaskInv, NEW t \in DOMAIN tasks, NEW status, NEW plan,
           tasks' = [tasks EXCEPT ![t] = StartRow(started[t].in, started[t].doc, status, plan)],
           plan = tasks[t].plan \/ tasks[t].plan = NoPlan,
           UNCHANGED started
    PROVE  /\ IsSeq(tasks') /\ Len(tasks') = Len(tasks) /\ DOMAIN tasks' = DOMAIN tasks
           /\ \A i \in DOMAIN tasks : Kept(i)'
           /\ \A i \in DOMAIN tasks : tasks[i].plan # NoPlan => tasks'[i].plan = tasks[i].plan
           /\ tasks'[t].plan = plan
<1> PICK row : row = StartRow(started[t].in, started[t].doc, status, plan)
  OBVIOUS
<1>1. row.status = status /\ row.plan = plan
  BY DEF StartRow
<1>a. tasks' = [tasks EXCEPT ![t] = row] /\ IsSeq(tasks)
  BY DEF TaskInv, Shape
<1>2. /\ IsSeq(tasks') /\ Len(tasks') = Len(tasks) /\ DOMAIN tasks' = DOMAIN tasks
      /\ tasks'[t] = row /\ \A i \in DOMAIN tasks \ {t} : tasks'[i] = tasks[i]
  BY <1>a, UpdateFacts
<1>3. ASSUME NEW i \in DOMAIN tasks PROVE Kept(i)'
  <2>1. Kept(i)
    BY DEF TaskInv
  <2>2. CASE i = t
    BY <1>1, <1>2, <2>1, <2>2 DEF Kept
  <2>3. CASE i # t
    BY <1>2, <2>1, <2>3 DEF Kept
  <2> QED BY <2>2, <2>3
<1>4. ASSUME NEW i \in DOMAIN tasks, tasks[i].plan # NoPlan PROVE tasks'[i].plan = tasks[i].plan
  BY <1>1, <1>2, <1>4
<1> QED BY <1>1, <1>2, <1>3, <1>4

LEMMA ResumeKeeps ==
    ASSUME TaskInv, NEW t \in DOMAIN tasks, NEW in \in ResumeInputs, Resume(t, in)
    PROVE  TaskInv'
<1> PICK plan : plan = ResumePlan(tasks[t], in.plan)
  OBVIOUS
<1> PICK surface : surface = StartSurface(started[t].in, started[t].doc, plan)
  OBVIOUS
<1>0. /\ ResumeAccepted(t, in)
      /\ tasks' = [tasks EXCEPT ![t] = [tasks[t] EXCEPT !.plan = plan]]
      /\ live' = live \cup {t} /\ account' = [account EXCEPT ![t] = AccountOfResume]
      /\ UNCHANGED <<file, started>>
  BY DEF Resume
<1>a. ran' = [ran EXCEPT ![t] = ran[t] \cup {surface}]
  BY <1>0, ResumeContinues DEF Resume
<1>b. Shape /\ Kept(t)
  BY DEF TaskInv
<1>c. [tasks[t] EXCEPT !.plan = plan]
        = StartRow(started[t].in, started[t].doc, tasks[t].status, plan)
  BY <1>b DEF Kept, StartRow
<1>d. plan = tasks[t].plan \/ tasks[t].plan = NoPlan
  BY DEF ResumePlan
<1>1. /\ IsSeq(tasks') /\ Len(tasks') = Len(tasks) /\ DOMAIN tasks' = DOMAIN tasks
      /\ \A i \in DOMAIN tasks : Kept(i)'
      /\ \A i \in DOMAIN tasks : tasks[i].plan # NoPlan => tasks'[i].plan = tasks[i].plan
      /\ tasks'[t].plan = plan
  <2>1. tasks' = [tasks EXCEPT ![t] = StartRow(started[t].in, started[t].doc, tasks[t].status, plan)]
    BY <1>0, <1>c
  <2>2. UNCHANGED started
    BY <1>0
  <2> QED BY ONLY <1>d, <2>1, <2>2, TaskInv, t \in DOMAIN tasks, RowMoves, ZenonT(40)
<1>2. DOMAIN account = DOMAIN tasks /\ DOMAIN ran = DOMAIN tasks
  BY <1>b, SeqFacts DEF Shape
<1>3. IsSeq(account') /\ Len(account') = Len(tasks)
  BY <1>0, <1>2, <1>b, UpdateFacts DEF Shape
<1>4. /\ IsSeq(ran') /\ Len(ran') = Len(tasks) /\ ran'[t] = ran[t] \cup {surface}
      /\ \A i \in DOMAIN tasks \ {t} : ran'[i] = ran[i]
  BY <1>a, <1>2, <1>b, UpdateFacts DEF Shape
<1>5. Shape'
  BY <1>0, <1>1, <1>3, <1>4, <1>b DEF Shape
<1>6. ASSUME NEW i \in DOMAIN tasks, NEW c \in ran[i]
      PROVE  /\ c = StartSurface(started[i].in, started[i].doc, c.plan)
             /\ c.plan \in {NoPlan, tasks'[i].plan}
  BY <1>1 DEF TaskInv, Frozen
<1>7. surface = StartSurface(started[t].in, started[t].doc, surface.plan) /\ surface.plan = plan
  BY DEF StartSurface
<1>8. ASSUME NEW i \in DOMAIN tasks PROVE Frozen(i)'
  <2>1. CASE i = t
    BY <1>0, <1>1, <1>4, <1>6, <1>7, <2>1 DEF Frozen
  <2>2. CASE i # t
    BY <1>0, <1>4, <1>6, <2>2 DEF Frozen
  <2> QED BY <2>1, <2>2
<1> QED BY <1>1, <1>5, <1>8 DEF TaskInv

\* The steps that end a task or leave its row alone.
LEMMA EndsKeep ==
    ASSUME TaskInv, NEW t \in DOMAIN tasks, live' = live \ {t},
           tasks' = [tasks EXCEPT ![t].status = "ended"],
           UNCHANGED <<account, file, started, ran>>
    PROVE  TaskInv'
<1>a. Shape /\ Kept(t)
  BY DEF TaskInv
<1>b. [tasks[t] EXCEPT !.status = "ended"]
        = StartRow(started[t].in, started[t].doc, "ended", tasks[t].plan)
  BY <1>a DEF Kept, StartRow
<1>c. tasks' = [tasks EXCEPT ![t] = StartRow(started[t].in, started[t].doc, "ended", tasks[t].plan)]
  BY <1>b
<1>1. /\ IsSeq(tasks') /\ Len(tasks') = Len(tasks) /\ DOMAIN tasks' = DOMAIN tasks
      /\ \A i \in DOMAIN tasks : Kept(i)'
      /\ \A i \in DOMAIN tasks : tasks[i].plan # NoPlan => tasks'[i].plan = tasks[i].plan
  BY <1>c, RowMoves
<1>2. Shape'
  BY <1>1, <1>a DEF Shape
<1>3. \A i \in DOMAIN tasks : Frozen(i)'
  BY <1>1 DEF TaskInv, Frozen
<1> QED BY <1>1, <1>2, <1>3 DEF TaskInv

LEMMA RowsStay ==
    ASSUME TaskInv, UNCHANGED <<tasks, account, started, ran>>, live' \subseteq live,
           file' \in Profiles \cup {NoProfile}
    PROVE  TaskInv'
    BY DEF TaskInv, Shape, Kept, Frozen

LEMMA TasksKeep ==
    ASSUME TaskInv, Next
    PROVE  TaskInv'
<1>1. ASSUME NEW in \in RunInputs, Run(in) \/ BootstrapCutOff(in) PROVE TaskInv'
  BY <1>1, RunKeeps DEF Run, BootstrapCutOff
<1>2. ASSUME NEW t \in DOMAIN tasks, NEW in \in ResumeInputs, Resume(t, in) PROVE TaskInv'
  BY <1>2, ResumeKeeps
<1>3. ASSUME NEW t \in DOMAIN tasks, Attempt(t) PROVE TaskInv'
  BY <1>3, RowsStay DEF Attempt, TaskInv, Shape
<1>4. ASSUME NEW t \in DOMAIN tasks, AdmissionRefused(t) \/ Finish(t) PROVE TaskInv'
  BY <1>4, EndsKeep DEF AdmissionRefused, Finish
<1>5. ASSUME NEW t \in DOMAIN tasks, Crash(t) PROVE TaskInv'
  BY <1>5, RowsStay DEF Crash, TaskInv, Shape
<1>6. ASSUME NEW doc \in Profiles \cup {NoProfile}, EditProfile(doc) PROVE TaskInv'
  BY <1>6, RowsStay DEF EditProfile
<1> QED BY <1>1, <1>2, <1>3, <1>4, <1>5, <1>6 DEF Next, TaskNext


\* A task keeps its number and what it was started with.
LEMMA StartsStay ==
    ASSUME TaskInv, Next
    PROVE  /\ DOMAIN tasks \subseteq DOMAIN tasks'
           /\ \A t \in DOMAIN tasks : started'[t] = started[t]
<1>0. Shape /\ DOMAIN tasks = DOMAIN started
  BY SeqFacts DEF TaskInv, Shape
<1>1. ASSUME NEW in \in RunInputs, NEW plan, NEW goesOn, NewTask(in, plan, goesOn)
      PROVE  /\ DOMAIN tasks \subseteq DOMAIN tasks'
             /\ \A t \in DOMAIN tasks : started'[t] = started[t]
  <2> PICK row : row = [TaskRow(in) EXCEPT !.plan = plan]
    OBVIOUS
  <2> PICK start : start = [in |-> in, doc |-> file]
    OBVIOUS
  <2>1. tasks' = Append(tasks, row) /\ started' = Append(started, start)
    BY <1>1 DEF NewTask
  <2>2. DOMAIN Append(tasks, row) = DOMAIN tasks \cup {Len(tasks) + 1}
    BY <1>0, AppendFacts DEF Shape
  <2>3. \A t \in DOMAIN started : Append(started, start)[t] = started[t]
    BY <1>0, AppendFacts DEF Shape
  <2> QED BY <1>0, <2>1, <2>2, <2>3
<1>2. ASSUME NEW t \in DOMAIN tasks, NEW in \in ResumeInputs, Resume(t, in)
      PROVE  DOMAIN tasks' = DOMAIN tasks /\ UNCHANGED started
  BY <1>2 DEF Resume
<1>3. ASSUME NEW t \in DOMAIN tasks,
             Attempt(t) \/ AdmissionRefused(t) \/ Finish(t) \/ Crash(t)
      PROVE  DOMAIN tasks' = DOMAIN tasks /\ UNCHANGED started
  BY <1>3 DEF Attempt, AdmissionRefused, Finish, Crash
<1>4. ASSUME NEW doc \in Profiles \cup {NoProfile}, EditProfile(doc)
      PROVE  UNCHANGED <<tasks, started>>
  BY <1>4 DEF EditProfile
<1> QED BY <1>1, <1>2, <1>3, <1>4 DEF Next, TaskNext, Run, BootstrapCutOff

(* ----------------------- what the tasks' invariant says ----------------- *)

LEMMA FrozenSurface ==
    ASSUME TaskInv
    PROVE  RunsUnderFrozen
<1> SUFFICES ASSUME NEW t \in DOMAIN ran, NEW a \in ran[t], NEW b \in ran[t]
             PROVE  /\ [a EXCEPT !.plan = NoPlan] = [b EXCEPT !.plan = NoPlan]
                    /\ a.plan # NoPlan /\ b.plan # NoPlan => a.plan = b.plan
  BY DEF RunsUnderFrozen
<1>1. Frozen(t)
  BY SeqFacts DEF TaskInv, Shape
<1>2. /\ a = StartSurface(started[t].in, started[t].doc, a.plan)
      /\ b = StartSurface(started[t].in, started[t].doc, b.plan)
      /\ a.plan \in {NoPlan, tasks[t].plan} /\ b.plan \in {NoPlan, tasks[t].plan}
  BY <1>1 DEF Frozen
<1>3. ASSUME NEW in, NEW doc, NEW plan
      PROVE  [StartSurface(in, doc, plan) EXCEPT !.plan = NoPlan] = StartSurface(in, doc, NoPlan)
  BY DEF StartSurface
<1> QED BY <1>2, <1>3

\* What a row says of the task's start, field by field.
LEMMA RowFields ==
    ASSUME TaskInv, NEW t \in DOMAIN tasks
    PROVE  LET old == started[t].in
               doc == started[t].doc IN
           /\ tasks[t].lane = old.provider.lane /\ tasks[t].model = old.provider.model
           /\ tasks[t].provider = ProviderIdentity(old.provider)
           /\ tasks[t].catalog = old.catalog
           /\ tasks[t].writePolicy = FlagWritePolicy(old.writePolicy)
           /\ tasks[t].recipePolicy
                = RecipeSpec(FlagPolicy(old.recipePolicy), DOMAIN StartRecipes(old, doc))
           /\ tasks[t].contract = StartContract(old, doc)
           /\ old \in RunInputs /\ old.provider \in Providers /\ old.profile \in BOOLEAN
           /\ Resolvable(old.provider)
           /\ old.profile => /\ StrictProfile(doc) /\ Composes(doc, old.provider, old.catalog)
                             /\ StartContract(old, doc) # NoContract
<1>1. Kept(t)
  BY DEF TaskInv
<1>2. /\ started[t].in \in RunInputs
      /\ tasks[t] = StartRow(started[t].in, started[t].doc, tasks[t].status, tasks[t].plan)
  BY <1>1 DEF Kept
<1> QED BY <1>1, <1>2, InputAssumption DEF Kept, StartRow

LEMMA Resumable ==
    ASSUME TaskInv
    PROVE  InterruptedIsResumable
<1> SUFFICES ASSUME NEW t \in DOMAIN tasks, NothingMoved(t)
             PROVE  ResumeAccepted(t, [StartFlags(t) EXCEPT !["recipePolicy"] = Unset])
  BY DEF InterruptedIsResumable
<1> DEFINE in == [StartFlags(t) EXCEPT !["recipePolicy"] = Unset]
           old == started[t].in
           doc == started[t].doc
           row == tasks[t]
<1>1. /\ in.profile = old.profile /\ in.provider = old.provider /\ in.catalog = old.catalog
      /\ in.writePolicy = old.writePolicy /\ in.recipePolicy = Unset /\ in.plan = old.plan
  BY DEF StartFlags
<1>2. /\ row.lane = old.provider.lane /\ row.provider = ProviderIdentity(old.provider)
      /\ row.catalog = old.catalog /\ row.writePolicy = FlagWritePolicy(old.writePolicy)
      /\ row.recipePolicy = RecipeSpec(FlagPolicy(old.recipePolicy), DOMAIN StartRecipes(old, doc))
      /\ row.contract = StartContract(old, doc)
      /\ old.provider \in Providers /\ old.profile \in BOOLEAN /\ Resolvable(old.provider)
      /\ old.profile => /\ StrictProfile(doc) /\ Composes(doc, old.provider, old.catalog)
                        /\ StartContract(old, doc) # NoContract
  BY RowFields
<1>3. /\ row.status = "running" /\ row.plan \in {NoPlan, old.plan}
      /\ row.contract # NoContract => file = doc
      /\ lane = NoAccount \/ <<lane.id, lane.model>> = OwnAccount(t)
  BY DEF NothingMoved
<1> HIDE DEF in
<1>4. in.profile <=> row.contract # NoContract
  BY <1>1, <1>2 DEF StartContract
<1>5. in.profile => StrictProfile(file) /\ file = doc
  BY <1>2, <1>3, <1>4, <1>1
<1>6. ProviderContinues(row, in.provider)
  <2>1. CASE row.lane = "scripted"
    BY <1>1, <1>2, <2>1 DEF ProviderContinues
  <2>2. CASE row.lane # "scripted"
    <3>1. row.lane \in {"omniroute", "configured"}
      BY <1>2, <2>2, LaneAssumption
    <3>2. RestoredAccountAgrees(old.provider)
      BY <1>2, <1>3, <2>2 DEF RestoredAccountAgrees, OwnAccount, ProviderIdentity
    <3> QED BY <1>1, <1>2, <3>1, <3>2 DEF ProviderContinues
  <2> QED BY <2>1, <2>2
<1>7. /\ WritePolicyContinues(row, in.writePolicy) /\ CatalogContinues(row, in.catalog)
      /\ RecipePolicyContinues(row, in.recipePolicy, in.catalog, in.profile)
      /\ PlanContinues(row, in.plan) /\ ResumePlan(row, in.plan) = old.plan
  BY <1>1, <1>2, <1>3 DEF WritePolicyContinues, FlagWritePolicy, CatalogContinues,
     RecipePolicyContinues, PlanContinues, ResumePlan
<1>8. in.profile => FrozenCompositionHolds(row, in.provider, in.catalog, ResumePlan(row, in.plan))
  <2> SUFFICES ASSUME in.profile
               PROVE  FrozenCompositionHolds(row, old.provider, old.catalog, old.plan)
    BY <1>1, <1>7
  <2>1. file = doc /\ old.profile
    BY <1>1, <1>5
  <2> DEFINE ids == EffectiveIDs(doc, old.catalog)
             policy == FlagPolicy(old.recipePolicy)
  <2>2. row.recipePolicy = RecipeSpec(policy, ids)
    <3>1. StartRecipes(old, doc) = Restrict(old.catalog, ids)
      BY <2>1 DEF StartRecipes
    <3>2. DOMAIN Restrict(old.catalog, ids) = ids
      BY DEF Restrict
    <3> QED BY <1>2, <3>1, <3>2
  <2>3. RecipeSpec(row.recipePolicy, ids) = RecipeSpec(policy, ids)
    BY <2>2, RecipeSpecAgain
  <2>4. Resolve(doc, old.provider, old.catalog, row.writePolicy, row.recipePolicy, old.plan)
          = Resolve(doc, old.provider, old.catalog, row.writePolicy, policy, old.plan)
    BY <2>3 DEF Resolve
  <2>5. row.contract
          = Resolve(doc, old.provider, old.catalog, row.writePolicy, policy, old.plan)
    BY <1>2, <2>1 DEF StartContract
  <2> QED BY <1>2, <2>1, <2>4, <2>5 DEF FrozenCompositionHolds
<1> QED BY <1>3, <1>4, <1>5, <1>6, <1>7, <1>8 DEF ResumeAccepted, in

(* ------------------------------- proposals ------------------------------ *)

Landed == {"applied", "validated", "rolled_back"}

\* A revision number is at most the number of the target's revisions.
Numbered(v) ==
    /\ versions[v].doc \in Profiles
    /\ versions[v].revision \in Nat
    /\ versions[v].revision <= Cardinality(RevisionsOf(versions[v].target))

\* A proposal that was applied has a revision of its target, later than its base.
Descends(p) ==
    LET row == proposals[p] IN
    /\ row = [target |-> row.target, base |-> row.base, doc |-> row.doc,
              status |-> row.status, version |-> row.version]
    /\ row.doc \in Profiles
    /\ row.status \in Landed =>
        /\ VerifiedVersion(row.version, row.target)
        /\ row.base # NoVersion =>
            /\ VerifiedVersion(row.base, row.target)
            /\ versions[row.base].revision < versions[row.version].revision
    /\ row.status = "rolled_back" => row.base # NoVersion

\* The contract the task was started under re-derives the revision's material.
Certified(val) ==
    /\ val.version \in DOMAIN versions /\ val.task \in DOMAIN tasks
    /\ StartContract(started[val.task].in, started[val.task].doc) # NoContract
    /\ LET material == ProfileMaterialFromProfile(versions[val.version].doc) IN
        ProfileMaterialFromContract(StartContract(started[val.task].in, started[val.task].doc),
                                    material) = material

ProposalShape ==
    /\ IsSeq(proposals) /\ IsSeq(versions)
    /\ writes \subseteq Profiles /\ evidence \subseteq DOMAIN tasks

ProposalInv ==
    /\ ProposalShape
    /\ \A v \in DOMAIN versions : Numbered(v)
    /\ \A p \in DOMAIN proposals : Descends(p)
    /\ \A val \in validations : Certified(val)

\* A new revision: the earlier ones and their numbers stay, and the count of the target grows.
LEMMA RevisionAdded ==
    ASSUME ProposalInv, NEW new, new.doc \in Profiles,
           new.revision = Cardinality(RevisionsOf(new.target)) + 1,
           versions' = Append(versions, new)
    PROVE  /\ IsSeq(versions') /\ DOMAIN versions' = DOMAIN versions \cup {Len(versions) + 1}
           /\ versions'[Len(versions) + 1] = new
           /\ \A v \in DOMAIN versions : versions'[v] = versions[v]
           /\ Cardinality(RevisionsOf(new.target)) \in Nat
           /\ \A v \in DOMAIN versions' : Numbered(v)'
<1> PICK n : n = Len(versions) + 1
  OBVIOUS
<1>1. /\ IsSeq(versions') /\ DOMAIN versions' = DOMAIN versions \cup {n}
      /\ versions'[n] = new /\ \A v \in DOMAIN versions : versions'[v] = versions[v]
  BY AppendFacts DEF ProposalInv, ProposalShape
<1>2. Len(versions) \in Nat /\ DOMAIN versions = 1..Len(versions)
  BY SeqFacts DEF ProposalInv, ProposalShape
<1>3. n \notin DOMAIN versions /\ IsFiniteSet(DOMAIN versions)
  BY <1>2, FS_Interval
<1>4. ASSUME NEW target
      PROVE  /\ IsFiniteSet(RevisionsOf(target)) /\ Cardinality(RevisionsOf(target)) \in Nat
             /\ n \notin RevisionsOf(target)
             /\ Cardinality(RevisionsOf(target) \cup {n}) = Cardinality(RevisionsOf(target)) + 1
  <2>1. RevisionsOf(target) \subseteq DOMAIN versions
    BY DEF RevisionsOf
  <2>2. IsFiniteSet(RevisionsOf(target))
    BY <1>3, <2>1, FS_Subset
  <2>3. n \notin RevisionsOf(target)
    BY <1>3, <2>1
  <2> HIDE DEF RevisionsOf
  <2> QED BY <2>2, <2>3, FS_CardinalityType, FS_AddElement
<1>5. ASSUME NEW target
      PROVE  RevisionsOf(target)'
               = IF target = new.target THEN RevisionsOf(target) \cup {n} ELSE RevisionsOf(target)
  BY <1>1, <1>3 DEF RevisionsOf
<1>6. ASSUME NEW v \in DOMAIN versions PROVE Numbered(v)'
  <2>1. Numbered(v)
    BY DEF ProposalInv
  <2> PICK target : target = versions[v].target
    OBVIOUS
  <2>2. /\ versions'[v] = versions[v] /\ versions[v].doc \in Profiles
        /\ versions[v].revision \in Nat /\ versions[v].revision <= Cardinality(RevisionsOf(target))
    BY <1>1, <2>1 DEF Numbered
  <2> PICK count, more :
        count = Cardinality(RevisionsOf(target)) /\ more = Cardinality(RevisionsOf(target) \cup {n})
    OBVIOUS
  <2>3. count \in Nat /\ more = count + 1
    BY <1>4
  <2>4. Cardinality(RevisionsOf(target)') \in {count, more}
    BY <1>5
  <2>5. versions[v].revision <= Cardinality(RevisionsOf(target)')
    BY <2>2, <2>3, <2>4
  <2>6. RevisionsOf(versions[v].target)' = RevisionsOf(target)'
    BY <2>2 DEF RevisionsOf
  <2> QED BY <2>2, <2>5, <2>6 DEF Numbered
<1>7. Numbered(n)'
  <2> PICK target : target = new.target
    OBVIOUS
  <2>1. RevisionsOf(target)' = RevisionsOf(target) \cup {n}
    BY <1>5
  <2> PICK count : count = Cardinality(RevisionsOf(target))
    OBVIOUS
  <2>2. count \in Nat /\ Cardinality(RevisionsOf(target)') = count + 1
    BY <1>4, <2>1
  <2>3. RevisionsOf(versions[n].target)' = RevisionsOf(target)'
    BY <1>1 DEF RevisionsOf
  <2>a. new.revision = count + 1
    OBVIOUS
  <2>4. new.revision \in Nat /\ new.revision <= Cardinality(RevisionsOf(target)')
    BY <2>2, <2>a
  <2> QED BY <1>1, <2>3, <2>4 DEF Numbered
<1> QED BY <1>1, <1>4, <1>6, <1>7

\* Proposals that move only in the row p, with the revisions and tasks left alone.
LEMMA ProposalMoves ==
    ASSUME TaskInv, ProposalInv, NEW p \in DOMAIN proposals, NEW status,
           proposals' = [proposals EXCEPT ![p].status = status],
           status \in Landed => proposals[p].status \in Landed,
           status = "rolled_back" => proposals[p].base # NoVersion,
           writes' \subseteq Profiles, UNCHANGED <<versions, evidence>>, UNCHANGED tcVars,
           \A val \in validations' : Certified(val)
    PROVE  ProposalInv'
<1>1. /\ IsSeq(proposals') /\ DOMAIN proposals' = DOMAIN proposals
      /\ proposals'[p] = [proposals[p] EXCEPT !.status = status]
      /\ \A i \in DOMAIN proposals \ {p} : proposals'[i] = proposals[i]
  BY UpdateFacts DEF ProposalInv, ProposalShape
<1>2. ProposalShape'
  BY <1>1 DEF ProposalInv, ProposalShape, tcVars
<1>3. \A v \in DOMAIN versions' : Numbered(v)'
  BY DEF ProposalInv, Numbered, RevisionsOf
<1>4. ASSUME NEW i \in DOMAIN proposals PROVE Descends(i)'
  <2>1. Descends(i)
    BY DEF ProposalInv
  <2>2. CASE i # p
    BY <1>1, <2>1, <2>2 DEF Descends, VerifiedVersion
  <2>3. CASE i = p
    <3>0. proposals'[p] = [target |-> proposals[p].target, base |-> proposals[p].base,
                           doc |-> proposals[p].doc, status |-> status,
                           version |-> proposals[p].version]
      BY <1>1, <2>1, <2>3 DEF Descends
    <3>1. /\ proposals'[p].doc = proposals[p].doc /\ proposals'[p].target = proposals[p].target
          /\ proposals'[p].base = proposals[p].base
          /\ proposals'[p].version = proposals[p].version
      BY <3>0
    <3>2. proposals'[p].status \in Landed => proposals[p].status \in Landed
      BY <3>0
    <3>3. proposals'[p].status = "rolled_back" => proposals[p].base # NoVersion
      BY <3>0
    <3> QED BY <2>1, <2>3, <3>0, <3>1, <3>2, <3>3 DEF Descends, VerifiedVersion
  <2> QED BY <2>2, <2>3
<1>5. \A val \in validations' : Certified(val)'
  BY DEF Certified, tcVars
<1> QED BY <1>1, <1>2, <1>3, <1>4, <1>5 DEF ProposalInv


\* A proposal is stored: nothing landed.
LEMMA ProposeKeeps ==
    ASSUME ProposalInv, NEW target, NEW base, NEW doc \in Profiles, NEW sources,
           Propose(target, base, doc, sources)
    PROVE  ProposalInv'
<1> PICK row : row = [target |-> target, base |-> base, doc |-> doc,
                      status |-> "pending", version |-> NoVersion]
  OBVIOUS
<1> PICK n : n = Len(proposals) + 1
  OBVIOUS
<1>1. proposals' = Append(proposals, row) /\ UNCHANGED <<versions, validations, evidence, writes>>
  BY DEF Propose
<1>2. UNCHANGED <<tasks, started>>
  BY DEF Propose, tcVars
<1>3. /\ IsSeq(proposals') /\ DOMAIN proposals' = DOMAIN proposals \cup {n}
      /\ proposals'[n] = row /\ \A i \in DOMAIN proposals : proposals'[i] = proposals[i]
  BY <1>1, AppendFacts DEF ProposalInv, ProposalShape
<1>4. ProposalShape'
  BY <1>1, <1>2, <1>3 DEF ProposalInv, ProposalShape
<1>5. \A v \in DOMAIN versions' : Numbered(v)'
  BY <1>1 DEF ProposalInv, Numbered, RevisionsOf
<1>6. ASSUME NEW i \in DOMAIN proposals PROVE Descends(i)'
  BY <1>1, <1>3 DEF ProposalInv, Descends, VerifiedVersion
<1>7. Descends(n)'
  <2>1. /\ row.target = target /\ row.base = base /\ row.doc = doc /\ row.status = "pending"
        /\ row.version = NoVersion
    OBVIOUS
  <2>2. row.status \notin Landed /\ row.status # "rolled_back"
    BY <2>1 DEF Landed
  <2> QED BY <1>3, <2>1, <2>2 DEF Descends
<1>8. \A val \in validations' : Certified(val)'
  BY <1>1, <1>2 DEF ProposalInv, Certified
<1> QED BY <1>3, <1>4, <1>5, <1>6, <1>7, <1>8 DEF ProposalInv

\* A revision is stored: its number is above every number of its target.
LEMMA ApplyKeeps ==
    ASSUME ProposalInv, NEW p \in DOMAIN proposals, Apply(p)
    PROVE  ProposalInv'
<1> PICK row : row = proposals[p]
  OBVIOUS
<1> PICK n : n = Len(versions) + 1
  OBVIOUS
<1> PICK new : new = [proposal |-> p, target |-> row.target, doc |-> row.doc, base |-> row.base,
                      revision |-> Cardinality(RevisionsOf(row.target)) + 1]
  OBVIOUS
<1> PICK moved : moved = [target |-> row.target, base |-> row.base, doc |-> row.doc,
                          status |-> "applied", version |-> n]
  OBVIOUS
<1>0. /\ Descends(p) /\ row.doc \in Profiles
      /\ row = [target |-> row.target, base |-> row.base, doc |-> row.doc,
                status |-> row.status, version |-> row.version]
  BY DEF ProposalInv, Descends
<1>1. /\ versions' = Append(versions, new) /\ writes' = writes \cup {row.doc}
      /\ UNCHANGED <<validations, evidence>>
      /\ row.base # NoVersion => VerifiedVersion(row.base, row.target)
  BY DEF Apply
<1>2. UNCHANGED <<tasks, started>>
  BY DEF Apply, tcVars
<1>3. proposals' = [proposals EXCEPT ![p] = moved]
  <2> PICK half : half = [target |-> row.target, base |-> row.base, doc |-> row.doc,
                          status |-> "applied", version |-> row.version]
    OBVIOUS
  <2>a. [row EXCEPT !.status = "applied"] = half
    BY <1>0
  <2>b. [half EXCEPT !.version = n] = moved
    OBVIOUS
  <2>1. [row EXCEPT !.status = "applied", !.version = n] = moved
    BY <2>a, <2>b
  <2>2. proposals' = [proposals EXCEPT ![p] = [row EXCEPT !.status = "applied", !.version = n]]
    BY DEF Apply
  <2> QED BY <2>1, <2>2
<1>4. /\ IsSeq(proposals') /\ DOMAIN proposals' = DOMAIN proposals /\ proposals'[p] = moved
      /\ \A i \in DOMAIN proposals \ {p} : proposals'[i] = proposals[i]
  BY <1>3, UpdateFacts DEF ProposalInv, ProposalShape
<1>5. /\ new.doc \in Profiles /\ new.target = row.target
      /\ new.revision = Cardinality(RevisionsOf(new.target)) + 1
  BY <1>0
<1>6. /\ IsSeq(versions') /\ DOMAIN versions' = DOMAIN versions \cup {n}
      /\ versions'[n] = new /\ \A v \in DOMAIN versions : versions'[v] = versions[v]
      /\ Cardinality(RevisionsOf(new.target)) \in Nat
      /\ \A v \in DOMAIN versions' : Numbered(v)'
  BY <1>1, <1>5, RevisionAdded
<1>7. ProposalShape'
  BY <1>0, <1>1, <1>2, <1>4, <1>6 DEF ProposalInv, ProposalShape
<1>8. ASSUME NEW i \in DOMAIN proposals, i # p PROVE Descends(i)'
  BY <1>4, <1>6, <1>8 DEF ProposalInv, Descends, VerifiedVersion
<1>9. Descends(p)'
  <2>1. /\ moved.target = row.target /\ moved.base = row.base /\ moved.doc = row.doc
        /\ moved.status = "applied" /\ moved.version = n
    OBVIOUS
  <2>2. VerifiedVersion(n, row.target)'
    BY <1>5, <1>6 DEF VerifiedVersion
  <2>3. row.base # NoVersion =>
            /\ VerifiedVersion(row.base, row.target)'
            /\ versions'[row.base].revision < versions'[n].revision
    <3> SUFFICES ASSUME row.base # NoVersion
                 PROVE  /\ VerifiedVersion(row.base, row.target)'
                        /\ versions'[row.base].revision < versions'[n].revision
      OBVIOUS
    <3>1. /\ row.base \in DOMAIN versions /\ versions[row.base].target = row.target
          /\ Numbered(row.base)
      BY <1>1 DEF VerifiedVersion, ProposalInv
    <3>2. /\ versions[row.base].revision \in Nat
          /\ versions[row.base].revision <= Cardinality(RevisionsOf(new.target))
      BY <1>5, <3>1 DEF Numbered
    <3>3. versions'[row.base] = versions[row.base] /\ row.base \in DOMAIN versions'
      BY <1>6, <3>1
    <3>4. versions[row.base].revision < new.revision
      BY <1>5, <1>6, <3>2
    <3> QED BY <1>6, <3>1, <3>3, <3>4 DEF VerifiedVersion
  <2> QED BY <1>0, <1>4, <2>1, <2>2, <2>3 DEF Descends
<1>10. \A val \in validations' : Certified(val)'
  BY <1>1, <1>2, <1>6 DEF ProposalInv, Certified
<1> QED BY <1>4, <1>6, <1>7, <1>8, <1>9, <1>10 DEF ProposalInv

LEMMA ReviewKeeps ==
    ASSUME TaskInv, ProposalInv, NEW p \in DOMAIN proposals, NEW decision, Review(p, decision)
    PROVE  ProposalInv'
<1> PICK status : status = ApplyReviewTransition(proposals[p].status, decision)
  OBVIOUS
<1>1. status # "refused" /\ status \in {"approved", "rejected", "refused"}
  BY DEF Review, ApplyReviewTransition
<1>2. /\ proposals' = [proposals EXCEPT ![p].status = status]
      /\ UNCHANGED <<versions, validations, evidence, writes>> /\ UNCHANGED tcVars
  BY DEF Review
<1>3. status \notin Landed /\ status # "rolled_back"
  BY <1>1 DEF Landed
<1>4. writes' \subseteq Profiles /\ \A val \in validations' : Certified(val)
  BY <1>2 DEF ProposalInv, ProposalShape
<1> QED BY <1>2, <1>3, <1>4, ProposalMoves

LEMMA ValidateKeeps ==
    ASSUME TaskInv, ProposalInv, NEW p \in DOMAIN proposals, NEW refs, Validate(p, refs)
    PROVE  ProposalInv'
<1>0. /\ proposals' = [proposals EXCEPT ![p].status = "validated"]
      /\ UNCHANGED <<versions, evidence, writes>> /\ UNCHANGED tcVars
      /\ VerifiedVersion(proposals[p].version, proposals[p].target)
      /\ refs \subseteq evidence
      /\ \A t \in refs : TaskContractProfile(t, proposals[p].version)
      /\ validations' = validations \cup {[version |-> proposals[p].version, task |-> t] : t \in refs}
      /\ proposals[p].status \in {"applied", "validated"}
  BY DEF Validate, Transition
<1>1. proposals[p].status \in Landed /\ "validated" # "rolled_back"
  BY <1>0 DEF Landed
<1>2. ASSUME NEW t \in refs PROVE Certified([version |-> proposals[p].version, task |-> t])
  <2>1. t \in DOMAIN tasks /\ proposals[p].version \in DOMAIN versions
    BY <1>0 DEF ProposalInv, ProposalShape, VerifiedVersion
  <2>2. tasks[t].contract = StartContract(started[t].in, started[t].doc)
    BY <2>1, RowFields
  <2>3. TaskContractProfile(t, proposals[p].version)
    BY <1>0
  <2> QED BY <2>1, <2>2, <2>3 DEF Certified, TaskContractProfile
<1>3. \A val \in validations' : Certified(val)
  BY <1>0, <1>2 DEF ProposalInv
<1>4. writes' \subseteq Profiles
  BY <1>0 DEF ProposalInv, ProposalShape
<1> QED BY <1>0, <1>1, <1>3, <1>4, ProposalMoves

LEMMA RollbackKeeps ==
    ASSUME TaskInv, ProposalInv, NEW p \in DOMAIN proposals, Rollback(p)
    PROVE  ProposalInv'
<1>0. /\ proposals' = [proposals EXCEPT ![p].status = "rolled_back"]
      /\ UNCHANGED <<versions, validations, evidence>> /\ UNCHANGED tcVars
      /\ VerifiedVersion(proposals[p].base, proposals[p].target)
      /\ writes' = writes \cup {versions[proposals[p].base].doc}
      /\ proposals[p].status \in {"applied", "validated"} /\ proposals[p].base # NoVersion
  BY DEF Rollback, Transition
<1>1. proposals[p].status \in Landed
  BY <1>0 DEF Landed
<1>2. versions[proposals[p].base].doc \in Profiles
  BY <1>0 DEF ProposalInv, Numbered, VerifiedVersion
<1>3. writes' \subseteq Profiles /\ \A val \in validations' : Certified(val)
  BY <1>0, <1>2 DEF ProposalInv, ProposalShape
<1> QED BY <1>0, <1>1, <1>3, ProposalMoves

\* The steps that leave the proposals and the revisions alone.
LEMMA ProposalsStay ==
    ASSUME ProposalInv, UNCHANGED <<proposals, versions, validations>>,
           writes' \subseteq writes, evidence' \subseteq DOMAIN tasks',
           DOMAIN tasks \subseteq DOMAIN tasks',
           \A t \in DOMAIN tasks : started'[t] = started[t]
    PROVE  ProposalInv'
<1>1. ProposalShape'
  BY DEF ProposalInv, ProposalShape
<1>2. \A v \in DOMAIN versions' : Numbered(v)'
  BY DEF ProposalInv, Numbered, RevisionsOf
<1>3. \A p \in DOMAIN proposals' : Descends(p)'
  BY DEF ProposalInv, Descends, VerifiedVersion
<1>4. \A val \in validations' : Certified(val)'
  BY DEF ProposalInv, Certified
<1> QED BY <1>1, <1>2, <1>3, <1>4 DEF ProposalInv

(* ------------------------------- accounts ------------------------------- *)

\* A task of another lane has the offline lane's model name.
Shared ==
    \E t \in DOMAIN tasks : /\ started[t].in.provider.lane # "scripted"
                            /\ started[t].in.provider.model = "scripted"

\* The account of a provider, and the account a policy admits under.
AccountOf(p) == IF p.lane = "scripted" THEN <<"scripted", "scripted">> ELSE <<p.id, p.model>>

Pair(policy) == <<policy.id, policy.model>>

\* But for a shared name: a policy that admits the task's model is the task's own, the one
\* stored account is never a foreign one under the offline model name, and every attempt was
\* under its task's own.
AccountInv ==
    /\ \A t \in DOMAIN tasks : LET p == started[t].in.provider IN
        account[t].model = p.model =>
            Pair(account[t]) = AccountOf(p) \/ (p.model = "scripted" /\ Shared)
    /\ lane = NoAccount \/ (lane.model = "scripted" => lane.id = "scripted" \/ Shared)
    /\ \A a \in attempted :
        /\ a[1] \in DOMAIN tasks /\ a[3] = started[a[1]].in.provider.model
        /\ \/ <<a[2], a[3]>> = AccountOf(started[a[1]].in.provider)
           \/ a[3] = "scripted" /\ Shared

\* A name that is shared stays shared.
LEMMA SharedStays ==
    ASSUME TaskInv, Next, Shared
    PROVE  Shared'
    BY StartsStay DEF Shared

LEMMA SharedIsShared ==
    ASSUME TaskInv, Shared
    PROVE  ScriptedNameShared
    BY RowFields DEF Shared, ScriptedNameShared

LEMMA OwnIsStarted ==
    ASSUME TaskInv, NEW t \in DOMAIN tasks
    PROVE  OwnAccount(t) = AccountOf(started[t].in.provider)
<1>1. /\ tasks[t].lane = started[t].in.provider.lane
      /\ tasks[t].provider = ProviderIdentity(started[t].in.provider)
  BY RowFields
<1>2. CASE tasks[t].lane = "scripted"
  BY <1>1, <1>2 DEF OwnAccount, AccountOf
<1>3. CASE tasks[t].lane # "scripted"
  <2>1. /\ tasks[t].provider.id = started[t].in.provider.id
        /\ tasks[t].provider.model = started[t].in.provider.model
    BY <1>1, <1>3 DEF ProviderIdentity
  <2> QED BY <1>1, <1>3, <2>1 DEF OwnAccount, AccountOf
<1> QED BY <1>2, <1>3

\* What a resume that was accepted admits under.
LEMMA ResumedAccount ==
    ASSUME TaskInv, AccountInv, NEW t \in DOMAIN tasks,
           NEW in \in ResumeInputs, ResumeAccepted(t, in),
           AccountOfResume.model = started[t].in.provider.model
    PROVE  \/ Pair(AccountOfResume) = AccountOf(started[t].in.provider)
           \/ started[t].in.provider.model = "scripted" /\ Shared
<1> PICK old : old = started[t].in.provider
  OBVIOUS
<1>1. /\ tasks[t].lane = old.lane /\ tasks[t].provider = ProviderIdentity(old)
      /\ old \in Providers
  BY RowFields
<1>2. CASE old.lane = "scripted"
  <2>1. AccountOfResume.model = "scripted" /\ AccountOf(old) = <<"scripted", "scripted">>
    BY <1>1, <1>2, LaneAssumption DEF AccountOf
  <2>2. AccountOfResume.id = "scripted" \/ Shared
    BY <2>1 DEF AccountOfResume, AccountInv
  <2> QED BY <2>1, <2>2 DEF Pair
<1>a. CASE old.lane # "scripted" /\ old.model = "scripted"
  BY <1>a DEF Shared
<1>3. CASE old.lane # "scripted" /\ old.model # "scripted"
  <2>1. old.model # "scripted" /\ old.lane \in {"omniroute", "configured"}
    BY <1>1, <1>3, LaneAssumption
  <2>2. lane # NoAccount /\ AccountOfResume = lane
    BY <2>1 DEF AccountOfResume
  <2>3. /\ in.provider.lane # "scripted" /\ ProviderIdentity(in.provider) = ProviderIdentity(old)
        /\ RestoredAccountAgrees(in.provider)
    BY <1>1, <2>1 DEF ResumeAccepted, ProviderContinues
  <2>4. in.provider.id = old.id /\ in.provider.model = old.model
    BY <1>3, <2>3 DEF ProviderIdentity
  <2>5. lane.id = old.id /\ lane.model = old.model
    BY <2>2, <2>3, <2>4 DEF RestoredAccountAgrees
  <2> QED BY <1>3, <2>2, <2>5 DEF Pair, AccountOf
<1> QED BY <1>2, <1>a, <1>3

LEMMA AccountsKeep ==
    ASSUME TaskInv, AccountInv, Next
    PROVE  AccountInv'
<1>s. Shared => Shared'
  BY SharedStays
<1>0. Shape /\ DOMAIN account = DOMAIN tasks /\ DOMAIN started = DOMAIN tasks
  BY SeqFacts DEF TaskInv, Shape
<1>1. ASSUME NEW in \in RunInputs, NEW plan, NEW goesOn, NewTask(in, plan, goesOn)
      PROVE  AccountInv'
  <2> PICK n : n = Len(tasks) + 1
    OBVIOUS
  <2> PICK row, start, policy : /\ row = [TaskRow(in) EXCEPT !.plan = plan] /\ start = [in |-> in, doc |-> file]
                                /\ policy = AccountOfRun(in.provider, in.allowance)
    OBVIOUS
  <2>1. /\ tasks' = Append(tasks, row) /\ started' = Append(started, start)
        /\ account' = Append(account, policy) /\ UNCHANGED <<lane, attempted>>
    BY <1>1 DEF NewTask
  <2>2. DOMAIN tasks' = DOMAIN tasks \cup {n}
    BY <1>0, <2>1, AppendFacts DEF Shape
  <2>3. started'[n] = start /\ \A t \in DOMAIN tasks : started'[t] = started[t]
    BY <1>0, <2>1, AppendFacts DEF Shape
  <2>4. account'[n] = policy /\ \A t \in DOMAIN tasks : account'[t] = account[t]
    BY <1>0, <2>1, AppendFacts DEF Shape
  <2>5. in.provider \in Providers /\ start.in = in
    BY InputAssumption
  <2>6. Pair(policy) = AccountOf(in.provider)
    BY <2>5, LaneAssumption DEF Pair, AccountOf, AccountOfRun
  <2>7. ASSUME NEW t \in DOMAIN tasks', account'[t].model = started'[t].in.provider.model
        PROVE  \/ Pair(account'[t]) = AccountOf(started'[t].in.provider)
               \/ started'[t].in.provider.model = "scripted" /\ Shared'
    <3>1. CASE t = n
      BY <2>3, <2>4, <2>5, <2>6, <3>1
    <3>2. CASE t \in DOMAIN tasks
      BY <1>s, <2>3, <2>4, <2>7, <3>2 DEF AccountInv
    <3> QED BY <2>2, <3>1, <3>2
  <2> QED BY <1>s, <2>1, <2>2, <2>3, <2>7 DEF AccountInv, Pair
<1>2. ASSUME NEW t \in DOMAIN tasks, NEW in \in ResumeInputs, Resume(t, in) PROVE AccountInv'
  <2> PICK policy : policy = AccountOfResume
    OBVIOUS
  <2>1. /\ ResumeAccepted(t, in) /\ DOMAIN tasks' = DOMAIN tasks
        /\ account' = [account EXCEPT ![t] = policy] /\ UNCHANGED <<lane, started, attempted>>
    BY <1>2 DEF Resume
  <2>2. policy.model = started[t].in.provider.model =>
            \/ Pair(policy) = AccountOf(started[t].in.provider)
            \/ started[t].in.provider.model = "scripted" /\ Shared
    BY <2>1, ResumedAccount
  <2>3. account'[t] = policy /\ \A i \in DOMAIN tasks \ {t} : account'[i] = account[i]
    BY <1>0, <2>1
  <2> QED BY <1>s, <2>1, <2>2, <2>3 DEF AccountInv, Pair
<1>3. ASSUME NEW t \in DOMAIN tasks, Attempt(t) PROVE AccountInv'
  <2> PICK p : p = started[t].in.provider
    OBVIOUS
  <2>1. /\ tasks[t].model = account[t].model /\ lane' = account[t]
        /\ attempted' = attempted \cup {<<t, account[t].id, account[t].model>>}
        /\ UNCHANGED <<tasks, account, started>>
    BY <1>3 DEF Attempt
  <2>2. tasks[t].model = p.model /\ p \in Providers
    BY RowFields
  <2>3. \/ <<account[t].id, account[t].model>> = AccountOf(p)
        \/ account[t].model = "scripted" /\ Shared
    BY <2>1, <2>2 DEF AccountInv, Pair
  <2>4. account[t].model = "scripted" => account[t].id = "scripted" \/ Shared
    BY <2>2, <2>1, <2>3 DEF AccountOf, Shared
  <2> QED BY <1>s, <2>1, <2>2, <2>3, <2>4 DEF AccountInv, Pair
<1>4. ASSUME NEW t \in DOMAIN tasks, AdmissionRefused(t) \/ Finish(t) \/ Crash(t)
      PROVE  AccountInv'
  <2>1. DOMAIN tasks' = DOMAIN tasks /\ UNCHANGED <<account, lane, started, attempted>>
    BY <1>4 DEF AdmissionRefused, Finish, Crash
  <2> QED BY <1>s, <2>1 DEF AccountInv, Pair
<1>5. ASSUME NEW doc \in Profiles \cup {NoProfile}, EditProfile(doc) PROVE AccountInv'
  BY <1>s, <1>5 DEF EditProfile, AccountInv, Pair
<1> QED BY <1>1, <1>2, <1>3, <1>4, <1>5 DEF Next, TaskNext, Run, BootstrapCutOff

LEMMA AccountsStay ==
    ASSUME AccountInv, UNCHANGED <<tasks, account, lane, started, attempted>>
    PROVE  AccountInv'
    BY DEF AccountInv, Pair, Shared

(* --------------------------- the specification -------------------------- *)

ContractInv == TaskInv /\ ProposalInv

LEMMA ContractInit ==
    ASSUME ImprovementInit
    PROVE  ContractInv /\ AccountInv
<1>1. /\ tasks = << >> /\ live = {} /\ account = << >> /\ started = << >> /\ ran = << >>
      /\ file = NoProfile /\ lane = NoAccount /\ attempted = {} /\ proposals = << >>
      /\ versions = << >> /\ validations = {} /\ evidence = {} /\ writes = {}
  BY DEF ImprovementInit, TaskInit
<1>2. IsSeq(<< >>) /\ DOMAIN << >> = {}
  BY EmptyIsSeq
<1>3. Shape
  BY <1>1, <1>2 DEF Shape
<1>4. TaskInv
  BY <1>1, <1>2, <1>3 DEF TaskInv
<1>5. ProposalInv
  BY <1>1, <1>2 DEF ProposalInv, ProposalShape
<1>6. AccountInv
  BY <1>1, <1>2 DEF AccountInv
<1> QED BY <1>4, <1>5, <1>6 DEF ContractInv

\* Every step is one of the tasks' steps, or leaves the tasks' rows alone.
LEMMA ContractNext ==
    ASSUME ContractInv, [ImprovementNext]_<<tcVars, impVars>>
    PROVE  /\ ContractInv'
           /\ Next \/ UNCHANGED <<tasks, account, lane, started, attempted>>
<1> DEFINE Rows == UNCHANGED <<tasks, account, lane, started, attempted>>
<1>0. TaskInv /\ ProposalInv /\ evidence \subseteq DOMAIN tasks
  BY DEF ContractInv, ProposalInv, ProposalShape
<1>a. ASSUME UNCHANGED tcVars PROVE TaskInv' /\ Rows
  <2>1. UNCHANGED <<tasks, live, account, lane, file, started, ran, attempted>>
    BY <1>a DEF tcVars
  <2>2. live' \subseteq live /\ file' \in Profiles \cup {NoProfile}
    BY <1>0, <2>1 DEF TaskInv, Shape
  <2> QED BY <1>0, <2>1, <2>2, RowsStay
<1>1. ASSUME Next, UNCHANGED impVars PROVE ContractInv'
  <2>1. /\ DOMAIN tasks \subseteq DOMAIN tasks'
        /\ \A t \in DOMAIN tasks : started'[t] = started[t]
    BY <1>0, <1>1, StartsStay
  <2>2. UNCHANGED <<proposals, versions, validations, evidence, writes>>
    BY <1>1 DEF impVars
  <2>3. evidence' \subseteq DOMAIN tasks'
    BY <1>0, <2>1, <2>2
  <2>4. ProposalInv'
    BY <1>0, <2>1, <2>2, <2>3, ProposalsStay
  <2> QED BY <1>0, <1>1, <2>4, TasksKeep DEF ContractInv
<1>2. ASSUME NEW t \in DOMAIN tasks, Evidence(t) PROVE ContractInv' /\ Rows
  <2>1. UNCHANGED tcVars /\ UNCHANGED <<tasks, started>>
    BY <1>2 DEF Evidence, tcVars
  <2>2. evidence' = evidence \cup {t} /\ UNCHANGED <<proposals, versions, validations, writes>>
    BY <1>2 DEF Evidence
  <2>3. ProposalInv'
    BY <1>0, <2>1, <2>2, ProposalsStay
  <2> QED BY <1>a, <2>1, <2>3 DEF ContractInv
<1>3. ASSUME NEW target \in Targets, NEW base \in VersionIDs, NEW doc \in Profiles,
             NEW sources \in SUBSET evidence, Propose(target, base, doc, sources)
      PROVE  ContractInv' /\ Rows
  <2>1. UNCHANGED tcVars
    BY <1>3 DEF Propose
  <2> QED BY <1>0, <1>a, <1>3, <2>1, ProposeKeeps DEF ContractInv
<1>4. ASSUME NEW p \in DOMAIN proposals, NEW decision \in {"approve", "reject"}, Review(p, decision)
      PROVE  ContractInv' /\ Rows
  <2>1. UNCHANGED tcVars
    BY <1>4 DEF Review
  <2> QED BY <1>0, <1>a, <1>4, <2>1, ReviewKeeps DEF ContractInv
<1>5. ASSUME NEW p \in DOMAIN proposals, Apply(p) PROVE ContractInv' /\ Rows
  <2>1. UNCHANGED tcVars
    BY <1>5 DEF Apply
  <2> QED BY <1>0, <1>a, <1>5, <2>1, ApplyKeeps DEF ContractInv
<1>6. ASSUME NEW p \in DOMAIN proposals, NEW refs \in SUBSET evidence, Validate(p, refs)
      PROVE  ContractInv' /\ Rows
  <2>1. UNCHANGED tcVars
    BY <1>6 DEF Validate
  <2> QED BY <1>0, <1>a, <1>6, <2>1, ValidateKeeps DEF ContractInv
<1>7. ASSUME NEW p \in DOMAIN proposals, Rollback(p) PROVE ContractInv' /\ Rows
  <2>1. UNCHANGED tcVars
    BY <1>7 DEF Rollback
  <2> QED BY <1>0, <1>a, <1>7, <2>1, RollbackKeeps DEF ContractInv
<1>8. ASSUME NEW doc \in writes, Materialize(doc) PROVE ContractInv' /\ Rows
  <2>1. /\ writes' = writes \ {doc} /\ file' = doc
        /\ UNCHANGED <<proposals, versions, validations, evidence>>
        /\ UNCHANGED <<tasks, live, account, lane, started, ran, attempted>>
    BY <1>8 DEF Materialize
  <2>2. doc \in Profiles
    BY <1>0 DEF ProposalInv, ProposalShape
  <2>3. TaskInv'
    BY <1>0, <2>1, <2>2, RowsStay
  <2>4. ProposalInv'
    BY <1>0, <2>1, ProposalsStay
  <2> QED BY <2>1, <2>3, <2>4 DEF ContractInv
<1>9. ASSUME NEW doc \in writes, WriteLost(doc) PROVE ContractInv' /\ Rows
  <2>1. UNCHANGED tcVars /\ UNCHANGED <<tasks, started>>
    BY <1>9 DEF WriteLost, tcVars
  <2>2. writes' = writes \ {doc} /\ UNCHANGED <<proposals, versions, validations, evidence>>
    BY <1>9 DEF WriteLost
  <2>3. ProposalInv'
    BY <1>0, <2>1, <2>2, ProposalsStay
  <2> QED BY <1>a, <2>1, <2>3 DEF ContractInv
<1>10. ASSUME UNCHANGED <<tcVars, impVars>> PROVE ContractInv' /\ Rows
  <2>1. UNCHANGED tcVars /\ UNCHANGED <<tasks, started>>
    BY <1>10 DEF tcVars
  <2>2. UNCHANGED <<proposals, versions, validations, evidence, writes>>
    BY <1>10 DEF impVars
  <2>3. ProposalInv'
    BY <1>0, <2>1, <2>2, ProposalsStay
  <2> QED BY <1>a, <2>1, <2>3 DEF ContractInv
<1> HIDE DEF Rows
<1>11. (ContractInv' /\ Rows) \/ (ContractInv' /\ Next)
  BY <1>1, <1>2, <1>3, <1>4, <1>5, <1>6, <1>7, <1>8, <1>9, <1>10 DEF ImprovementNext
<1> QED BY <1>11 DEF Rows

\* The invariant of the contracts and the proposals holds throughout.
THEOREM ContractsKept == ImprovementSpec => []ContractInv
<1>1. ImprovementInit => ContractInv
  BY ContractInit
<1>2. ContractInv /\ [ImprovementNext]_<<tcVars, impVars>> => ContractInv'
  BY ContractNext
<1> QED BY <1>1, <1>2, PTL DEF ImprovementSpec

\* Every execution of a task, the first and each after an accepted resume, has the provider,
\* packages, recipes, write policy and recipe modes the task was started with, whatever the
\* operator, the other tasks and the proposals changed in between (cmd/runstead/resume.go).
THEOREM RunsUnderFrozenHolds == ImprovementSpec => []RunsUnderFrozen
<1>1. ContractInv => RunsUnderFrozen
  BY FrozenSurface DEF ContractInv
<1> QED BY <1>1, ContractsKept, PTL

\* An interrupted task whose surroundings did not move is accepted again with its own flags:
\* what `run` stores is what `resume` compares.
THEOREM InterruptedIsResumableHolds == ImprovementSpec => []InterruptedIsResumable
<1>1. ContractInv => InterruptedIsResumable
  BY Resumable DEF ContractInv
<1> QED BY <1>1, ContractsKept, PTL

\* The executions of a task whose evidence validated a revision had the revision's packages
\* and its declared recipes and provider (internal/state/improvements.go).
THEOREM ValidatedUnderDeclaredHolds == ImprovementSpec => []ValidatedUnderDeclared
<1>1. ASSUME ContractInv, NEW val \in validations, NEW c \in ran[val.task]
      PROVE  LET doc == versions[val.version].doc IN
             /\ c.packages = doc.packages
             /\ doc.recipes # {} => DOMAIN c.recipes = doc.recipes
             /\ doc.provider # "" => c.provider.id = doc.provider
  <2> PICK in, old, doc, t : /\ t = val.task /\ in = started[t].in /\ old = started[t].doc
                             /\ doc = versions[val.version].doc
    OBVIOUS
  <2>1. /\ t \in DOMAIN tasks /\ StartContract(in, old) # NoContract
        /\ ProfileMaterialFromContract(StartContract(in, old), ProfileMaterialFromProfile(doc))
             = ProfileMaterialFromProfile(doc)
    BY <1>1 DEF ContractInv, ProposalInv, Certified
  <2>2. c = StartSurface(in, old, c.plan)
    BY <1>1, <2>1 DEF ContractInv, TaskInv, Frozen
  <2>3. in.profile
    BY <2>1 DEF StartContract
  <2>4. StartContract(in, old)
          = Resolve(old, in.provider, in.catalog, FlagWritePolicy(in.writePolicy),
                    FlagPolicy(in.recipePolicy), in.plan)
    BY <2>3 DEF StartContract
  <2>5. /\ c.packages = old.packages /\ c.provider = ProviderIdentity(in.provider)
        /\ c.recipes = Restrict(in.catalog, EffectiveIDs(old, in.catalog))
    BY <2>2, <2>3 DEF StartSurface, StartRecipes
  <2>6. /\ StartContract(in, old).packages = c.packages
        /\ StartContract(in, old).recipes = c.recipes
        /\ StartContract(in, old).provider = c.provider
    BY <2>4, <2>5 DEF Resolve
  <2>7. /\ c.packages = doc.packages
        /\ doc.recipes # {} => DOMAIN c.recipes = doc.recipes
        /\ doc.provider # "" => c.provider.id = doc.provider
    BY <2>1, <2>6 DEF ProfileMaterialFromContract, ProfileMaterialFromProfile
  <2> QED BY <2>7
<1>2. ContractInv => ValidatedUnderDeclared
  BY <1>1 DEF ValidatedUnderDeclared
<1> QED BY <1>2, ContractsKept, PTL

\* A rollback returns to an earlier revision of the proposal's own target, although the base
\* is named before that revision is looked up.
THEOREM RollbackRestoresAncestorHolds == ImprovementSpec => []RollbackRestoresAncestor
<1>1. ASSUME ContractInv, NEW p \in DOMAIN proposals, proposals[p].status = "rolled_back"
      PROVE  /\ versions[proposals[p].base].target = proposals[p].target
             /\ versions[proposals[p].base].revision < versions[proposals[p].version].revision
  <2>1. Descends(p) /\ proposals[p].status \in Landed
    BY <1>1 DEF ContractInv, ProposalInv, Landed
  <2> QED BY <1>1, <2>1 DEF Descends, VerifiedVersion
<1>2. ContractInv => RollbackRestoresAncestor
  BY <1>1 DEF RollbackRestoresAncestor
<1> QED BY <1>2, ContractsKept, PTL

\* Every provider attempt is recorded under the model of its task and the account of the
\* task's own provider, although all tasks share the one stored account; only the name
\* "scripted", once the offline lane shares it with another, stands for two accounts
\* (cmd/runstead/resume.go, internal/governor).
THEOREM AttemptsUnderOwnAccountHolds == ImprovementSpec => []AttemptsUnderOwnAccount
<1>1. ImprovementInit => ContractInv /\ AccountInv
  BY ContractInit
<1>2. ContractInv /\ AccountInv /\ [ImprovementNext]_<<tcVars, impVars>>
        => (ContractInv /\ AccountInv)'
  <2> SUFFICES ASSUME ContractInv, AccountInv, [ImprovementNext]_<<tcVars, impVars>>
               PROVE  ContractInv' /\ AccountInv'
    OBVIOUS
  <2>1. ContractInv' /\ (Next \/ UNCHANGED <<tasks, account, lane, started, attempted>>)
    BY ContractNext
  <2>2. CASE Next
    BY <2>1, <2>2, AccountsKeep DEF ContractInv
  <2>3. CASE UNCHANGED <<tasks, account, lane, started, attempted>>
    BY <2>1, <2>3, AccountsStay
  <2> QED BY <2>1, <2>2, <2>3
<1>3. ContractInv /\ AccountInv => AttemptsUnderOwnAccount
  BY OwnIsStarted, SharedIsShared, RowFields DEF ContractInv, AccountInv, AttemptsUnderOwnAccount
<1> QED BY <1>1, <1>2, <1>3, PTL DEF ImprovementSpec

=============================================================================
