---------------------------- MODULE TaskContract ----------------------------
(***************************************************************************)
(* What a task runs under, and how a resume is held to it.                 *)
(*                                                                         *)
(* `runstead run` resolves one provider, a recipe catalog, a write policy, *)
(* a recipe policy and an acceptance plan, composes them with the Profile  *)
(* document named by --profile, and stores the outcome with the task: a    *)
(* configuration snapshot and, for a profile task, the frozen execution    *)
(* contract.  `runstead resume` is given the files and flags again, at a   *)
(* time when the operator may have edited the profile or run other tasks   *)
(* in the same state directory, and must refuse every divergence before    *)
(* it executes anything.  The account identity is a singleton row          *)
(* (governor_state) that the attempts of every task overwrite.             *)
(*                                                                         *)
(* Modelled: src/cmd/runstead/main.go and resume.go (resolution and        *)
(* preflight), internal/composition, internal/config/providers.go,         *)
(* internal/provider (registry), internal/policy (recipe modes).           *)
(***************************************************************************)
EXTENDS Integers, Sequences, FiniteSets, Functions

CONSTANTS
    Profiles,       \* well formed Profile documents an operator may write
    Providers,      \* provider declarations and lanes that may be selected
    Catalogs,       \* recipe catalogs: functions from recipe id to definition
    WritePolicies,  \* effective write policies
    RecipePolicies, \* explicit --recipe-policy values: recipe id to mode
    Plans,          \* acceptance plans
    RunInputs,      \* the flag combinations `run` is tried with
    ResumeInputs,   \* the flag combinations `resume` is tried with
    MaxTasks,       \* bound on tasks created
    Unset,          \* a flag that is not given
    NoProfile,      \* the file is missing or not a strict document
    NoContract,     \* a task without a frozen execution contract
    NoPlan          \* a task without an acceptance plan

NoCatalog == << >>
NoAccount == [id |-> "", model |-> "", allowance |-> ""]

ASSUME BoundAssumption == MaxTasks \in Nat \ {0}

ASSUME InputAssumption ==
    \A in \in RunInputs \cup ResumeInputs :
        /\ in.profile \in BOOLEAN
        /\ in.provider \in Providers
        /\ in.catalog \in Catalogs
        /\ in.writePolicy \in WritePolicies \cup {Unset}
        /\ in.recipePolicy \in RecipePolicies \cup {Unset}
        /\ in.plan \in Plans \cup {NoPlan}

\* The three lanes; the offline one has a fixed model name.
ASSUME LaneAssumption ==
    \A p \in Providers :
        /\ p.lane \in {"scripted", "omniroute", "configured"}
        /\ p.lane = "scripted" => p.model = "scripted"

VARIABLES
    tasks,      \* sequence of task rows
    live,       \* tasks some process is executing
    account,    \* per task, the account policy its process admits under
    lane,       \* the governor_state singleton: last account that attempted
    file,       \* content of the file --profile names
    started,    \* history: the flags and document each task was started with
    ran,        \* history: per task, the configurations it executed under
    attempted   \* history: provider attempts, by task and account

tcVars == <<tasks, live, account, lane, file, started, ran, attempted>>

-----------------------------------------------------------------------------
(* Provider declarations.                                                  *)

RequiredCapabilities == {"text_turn", "runstead_protocol"}

SupportsRequired(p) == RequiredCapabilities \subseteq p.capabilities

\* The lane's endpoint passes the pre-flight contract: a configured provider
\* declares the required capabilities, a safe route and its authentication;
\* the OmniRoute lane is pinned to one connection.
Resolvable(p) ==
    CASE p.lane = "scripted"   -> TRUE
      [] p.lane = "omniroute"  -> p.safe
      [] p.lane = "configured" ->
            /\ SupportsRequired(p)
            /\ p.safe
            /\ p.authRequired => p.auth

\* The execution identity stored with the task; the scripted lane has none.
ProviderIdentity(p) ==
    IF p.lane = "scripted" THEN [id |-> "", model |-> "", config |-> ""]
    ELSE [id |-> p.id, model |-> p.model, config |-> p.config]

-----------------------------------------------------------------------------
(* Composition of a Profile.                                               *)

Package(actions) == [actions |-> actions, dependencies |-> {}, conflicts |-> {}]

BuiltinRegistry ==
    [ref \in {<<"repo.read", 1>>, <<"repo.write", 1>>, <<"process.recipes", 1>>} |->
        CASE ref[1] = "repo.read"       -> Package({"read_file", "search_text"})
          [] ref[1] = "repo.write"      -> Package({"write_file", "apply_patch"})
          [] ref[1] = "process.recipes" -> Package({"run_recipe"})]

\* A document the strict parser accepts: at least one package.
StrictProfile(doc) == doc # NoProfile /\ doc.packages # {}

SelectedActions(doc) ==
    UNION {BuiltinRegistry[ref].actions : ref \in doc.packages}

UsesRecipes(doc) == "run_recipe" \in SelectedActions(doc)

\* recipe_ids is an exact allowlist; without one, run_recipe selects the
\* whole configured catalog and a profile without run_recipe selects none.
EffectiveIDs(doc, catalog) ==
    IF doc.recipes # {} THEN doc.recipes
    ELSE IF UsesRecipes(doc) THEN DOMAIN catalog ELSE {}

Composes(doc, provider, catalog) ==
    /\ doc.provider # "" => ProviderIdentity(provider).id = doc.provider
    /\ doc.packages \subseteq DOMAIN BuiltinRegistry
    /\ \A a, b \in doc.packages : a[1] = b[1] => a = b
    /\ \A ref \in doc.packages :
            /\ BuiltinRegistry[ref].dependencies \subseteq doc.packages
            /\ BuiltinRegistry[ref].conflicts \cap doc.packages = {}
    /\ UsesRecipes(doc) \/ doc.recipes # {} => catalog # NoCatalog
    /\ doc.recipes \subseteq DOMAIN catalog

\* A recipe no mode is given for needs an approval.
ModeOf(policy, id) ==
    IF id \in DOMAIN policy THEN policy[id] ELSE "approval_required"

RecipeSpec(policy, ids) == [id \in ids |-> ModeOf(policy, id)]

Resolve(doc, provider, catalog, writePolicy, policy, plan) ==
    LET ids == EffectiveIDs(doc, catalog) IN
    [profile      |-> <<doc.id, doc.version>>,
     packages     |-> doc.packages,
     provider     |-> ProviderIdentity(provider),
     tools        |-> SelectedActions(doc),
     recipes      |-> Restrict(catalog, ids),
     writePolicy  |-> writePolicy,
     recipePolicy |-> RecipeSpec(policy, ids),
     plan         |-> plan]

-----------------------------------------------------------------------------
(* Starting a task.                                                        *)

FlagPolicy(flag) == IF flag = Unset THEN << >> ELSE flag

DefaultWritePolicy == "approval_required"

FlagWritePolicy(flag) == IF flag = Unset THEN DefaultWritePolicy ELSE flag

\* The stored contract of a composed task is told from a missing one.
ASSUME ContractAssumption ==
    \A in \in RunInputs, doc \in Profiles :
        Composes(doc, in.provider, in.catalog) =>
            Resolve(doc, in.provider, in.catalog, FlagWritePolicy(in.writePolicy),
                    FlagPolicy(in.recipePolicy), in.plan) # NoContract

\* The account policy of a new run: an endpoint of unknown upstream limits
\* never inherits a published quota unless the operator declares one.
AccountOfRun(p, allowance) ==
    [id        |-> IF p.lane = "scripted" THEN "scripted" ELSE p.id,
     model     |-> p.model,
     allowance |-> IF allowance # Unset THEN allowance
                   ELSE IF p.lane = "configured" THEN "unknown" ELSE "instant"]

\* A provider named by the profile is the selection, and only a declared
\* provider can be named.
ProfileProviderAgrees(doc, p) ==
    doc.provider # "" => p.lane = "configured" /\ p.id = doc.provider

RunAccepted(in) ==
    /\ in.profile => StrictProfile(file) /\ ProfileProviderAgrees(file, in.provider)
    /\ Resolvable(in.provider)
    /\ DOMAIN FlagPolicy(in.recipePolicy) \subseteq DOMAIN in.catalog
    /\ in.profile => Composes(file, in.provider, in.catalog)

EffectiveRecipes(profiled, catalog) ==
    IF profiled THEN Restrict(catalog, EffectiveIDs(file, catalog)) ELSE catalog

\* The surface the loop is built with.
Effective(profiled, provider, catalog, writePolicy, policy, plan) ==
    LET recipes == EffectiveRecipes(profiled, catalog) IN
    [provider     |-> ProviderIdentity(provider),
     packages     |-> IF profiled THEN file.packages ELSE DOMAIN BuiltinRegistry,
     recipes      |-> recipes,
     writePolicy  |-> writePolicy,
     recipePolicy |-> RecipeSpec(policy, DOMAIN recipes),
     plan         |-> plan]

\* Defect: the catalog identity stored is the one of the effective surface.
StoredCatalogEffective(in) == EffectiveRecipes(in.profile, in.catalog)

\* The identity of the FULL operator catalog is what resume compares.
StoredCatalog(in) == in.catalog

\* The durable row; the recipe policy is rendered over the effective surface.
TaskRow(in) ==
    LET policy == FlagPolicy(in.recipePolicy)
        wp     == FlagWritePolicy(in.writePolicy) IN
    [status       |-> "running",     \* or planned: resume takes either
     lane         |-> in.provider.lane,
     provider     |-> ProviderIdentity(in.provider),
     model        |-> in.provider.model,
     catalog      |-> StoredCatalog(in),
     writePolicy  |-> wp,
     recipePolicy |-> RecipeSpec(policy, DOMAIN EffectiveRecipes(in.profile, in.catalog)),
     plan         |-> in.plan,
     contract     |-> IF in.profile
                      THEN Resolve(file, in.provider, in.catalog, wp, policy, in.plan)
                      ELSE NoContract]

\* What creating a task leaves behind: the row with the plan stored so far,
\* and, if its process goes on, the surface it executes under.
NewTask(in, plan, goesOn) ==
    /\ Len(tasks) < MaxTasks
    /\ RunAccepted(in)
    /\ tasks' = Append(tasks, [TaskRow(in) EXCEPT !.plan = plan])
    /\ live' = live \cup (IF goesOn THEN {Len(tasks) + 1} ELSE {})
    /\ account' = Append(account, AccountOfRun(in.provider, in.allowance))
    /\ started' = Append(started, [in |-> in, doc |-> file])
    /\ ran' = Append(ran, IF goesOn
                          THEN {Effective(in.profile, in.provider, in.catalog,
                                          FlagWritePolicy(in.writePolicy),
                                          FlagPolicy(in.recipePolicy), in.plan)}
                          ELSE {})
    /\ UNCHANGED <<lane, file, attempted>>

Run(in) == NewTask(in, in.plan, TRUE)

\* BootstrapTask creates the task, starts it and stores its plan in three
\* transactions: a death or a failed write after the first or the second
\* leaves a task, planned or running, that resume takes for one without a plan.
\* (Without a plan to store, what is left is the row that Crash leaves.)
BootstrapCutOff(in) == in.plan # NoPlan /\ NewTask(in, NoPlan, FALSE)

-----------------------------------------------------------------------------
(* Resuming a task.                                                        *)

\* The account policy is rebuilt from the restored singleton.
AccountOfResume ==
    IF lane = NoAccount THEN [id |-> "scripted", model |-> "scripted", allowance |-> "instant"]
    ELSE lane

\* Defect: only the model of the restored account is compared.
RestoredAccountAgreesByModel(p) == lane = NoAccount \/ lane.model = p.model

RestoredAccountAgrees(p) ==
    lane = NoAccount \/ (lane.id = p.id /\ lane.model = p.model)

\* The lane the task started on, with the identity it had then.
ProviderContinues(row, p) ==
    CASE row.lane = "scripted"   -> p.lane = "scripted"
      [] row.lane = "omniroute"  ->
            /\ p.lane = "omniroute"
            /\ Resolvable(p)
            /\ ProviderIdentity(p) = row.provider
            /\ RestoredAccountAgrees(p)
      [] row.lane = "configured" ->
            /\ p.lane = "configured"
            /\ Resolvable(p)
            /\ ProviderIdentity(p) = row.provider
            /\ RestoredAccountAgrees(p)

WritePolicyContinues(row, flag) == flag = Unset \/ flag = row.writePolicy

\* Defect: the catalogs are compared by their recipe ids.
CatalogContinuesByID(row, catalog) == DOMAIN catalog = DOMAIN row.catalog

CatalogContinues(row, catalog) == catalog = row.catalog

\* An override is compared over the ids the profile lists or, when it lists
\* none, over the whole catalog.
RecipePolicyContinues(row, flag, catalog, profiled) ==
    flag # Unset =>
        /\ DOMAIN flag \subseteq DOMAIN catalog
        /\ LET ids == IF profiled /\ file.recipes # {} THEN file.recipes ELSE DOMAIN catalog
           IN  RecipeSpec(flag, ids) = RecipeSpec(row.recipePolicy, ids)

\* A stored plan is authoritative; a task without one may be given one.
PlanContinues(row, plan) == row.plan = NoPlan \/ plan = NoPlan \/ plan = row.plan

ResumePlan(row, plan) == IF row.plan = NoPlan THEN plan ELSE row.plan

FrozenCompositionHolds(row, p, catalog, plan) ==
    /\ Composes(file, p, catalog)
    /\ row.contract = Resolve(file, p, catalog, row.writePolicy, row.recipePolicy, plan)

ResumeAccepted(t, in) ==
    LET row == tasks[t] IN
    /\ row.status = "running"
    /\ in.profile <=> row.contract # NoContract
    /\ in.profile => StrictProfile(file)
    /\ ProviderContinues(row, in.provider)
    /\ WritePolicyContinues(row, in.writePolicy)
    /\ CatalogContinues(row, in.catalog)
    /\ RecipePolicyContinues(row, in.recipePolicy, in.catalog, in.profile)
    /\ PlanContinues(row, in.plan)
    /\ in.profile => FrozenCompositionHolds(row, in.provider, in.catalog, ResumePlan(row, in.plan))

\* An attached plan is stored before recovery or execution starts.
Resume(t, in) ==
    /\ ResumeAccepted(t, in)
    /\ LET row  == tasks[t]
           plan == ResumePlan(row, in.plan) IN
        /\ tasks' = [tasks EXCEPT ![t].plan = plan]
        /\ ran' = [ran EXCEPT ![t] = @ \cup
                    {Effective(in.profile, in.provider, in.catalog,
                               row.writePolicy, row.recipePolicy, plan)}]
    /\ live' = live \cup {t}
    /\ account' = [account EXCEPT ![t] = AccountOfResume]
    /\ UNCHANGED <<lane, file, started, attempted>>

-----------------------------------------------------------------------------
(* What happens meanwhile.                                                 *)

\* The governor admits only the model of its own account policy; an admitted
\* attempt stores that policy as the singleton.
Attempt(t) ==
    /\ t \in live
    /\ tasks[t].model = account[t].model
    /\ lane' = account[t]
    /\ attempted' = attempted \cup {<<t, account[t].id, account[t].model>>}
    /\ UNCHANGED <<tasks, live, account, file, started, ran>>

\* Otherwise the first admission is refused as an unsafe configuration, which
\* the loop reports as a provider failure and stores as the task's end.
AdmissionRefused(t) ==
    /\ t \in live
    /\ tasks[t].model # account[t].model
    /\ live' = live \ {t}
    /\ tasks' = [tasks EXCEPT ![t].status = "ended"]
    /\ UNCHANGED <<account, lane, file, started, ran, attempted>>

\* Any outcome that ends the task or asks for human review: not resumable.
Finish(t) ==
    /\ t \in live
    /\ live' = live \ {t}
    /\ tasks' = [tasks EXCEPT ![t].status = "ended"]
    /\ UNCHANGED <<account, lane, file, started, ran, attempted>>

Crash(t) ==
    /\ t \in live
    /\ live' = live \ {t}
    /\ UNCHANGED <<tasks, account, lane, file, started, ran, attempted>>

EditProfile(doc) ==
    /\ file # doc
    /\ file' = doc
    /\ UNCHANGED <<tasks, live, account, lane, started, ran, attempted>>

TaskInit ==
    /\ tasks = << >>
    /\ live = {}
    /\ account = << >>
    /\ lane = NoAccount
    /\ file = NoProfile
    /\ started = << >>
    /\ ran = << >>
    /\ attempted = {}

TaskNext ==
    \/ \E in \in RunInputs : Run(in) \/ BootstrapCutOff(in)
    \/ \E t \in DOMAIN tasks :
        \/ \E in \in ResumeInputs : Resume(t, in)
        \/ Attempt(t)
        \/ AdmissionRefused(t)
        \/ Finish(t)
        \/ Crash(t)

Next == TaskNext \/ \E doc \in Profiles \cup {NoProfile} : EditProfile(doc)

Spec == TaskInit /\ [][Next]_tcVars

-----------------------------------------------------------------------------
(* Properties.                                                             *)

\* Every execution of a task, however often it is resumed and whatever the
\* operator changed in between, has the provider, packages, recipe
\* definitions, write policy and recipe modes the task was started with; an
\* acceptance plan may be added once and is never replaced.
RunsUnderFrozen ==
    \A t \in DOMAIN ran : \A a, b \in ran[t] :
            /\ [a EXCEPT !.plan = NoPlan] = [b EXCEPT !.plan = NoPlan]
            /\ a.plan # NoPlan /\ b.plan # NoPlan => a.plan = b.plan

\* The account a task's provider and model stand for.
OwnAccount(t) ==
    IF tasks[t].lane = "scripted" THEN <<"scripted", "scripted">>
    ELSE <<tasks[t].provider.id, tasks[t].provider.model>>

\* Some task of another lane has a model of the offline lane's name, which
\* nothing reserves: "scripted" then stands for two accounts.
ScriptedNameShared ==
    \E t \in DOMAIN tasks : tasks[t].lane # "scripted" /\ tasks[t].model = "scripted"

\* A provider attempt is admitted and recorded under the model of its task
\* and the account of its task's own provider, although every task overwrites
\* the one stored account and resume rebuilds its account policy from it.
\* The provider is not told apart only for the model name "scripted" once
\* the offline lane shares it with another.
AttemptsUnderOwnAccount ==
    \A a \in attempted :
        /\ a[3] = tasks[a[1]].model
        /\ \/ <<a[2], a[3]>> = OwnAccount(a[1])
           \/ a[3] = "scripted" /\ ScriptedNameShared

\* The flags a task was started with, as resume takes them.
StartFlags(t) ==
    [f \in {"profile", "provider", "catalog", "writePolicy", "recipePolicy", "plan"} |->
        started[t].in[f]]

\* Nothing that resume compares has moved: the profile file holds the
\* document it held, the stored account is the task's own, and the plan is
\* the task's, or was not stored when its creation was cut off.
NothingMoved(t) ==
    /\ tasks[t].status = "running"
    /\ tasks[t].contract # NoContract => file = started[t].doc
    /\ tasks[t].plan \in {NoPlan, started[t].in.plan}
    /\ lane = NoAccount \/ <<lane.id, lane.model>> = OwnAccount(t)

\* What `run` stores is what `resume` compares: an interrupted task whose
\* surroundings did not move is accepted with its own files, the recipe
\* policy left to the stored one.
InterruptedIsResumable ==
    \A t \in DOMAIN tasks : NothingMoved(t) =>
        ResumeAccepted(t, [StartFlags(t) EXCEPT !["recipePolicy"] = Unset])

\* A resumed process admits under the provider and model of its task
\* (resume.go: "the resumed loop runs under the same restored protection as
\* the interrupted run").
ResumedUnderOwnAccount ==
    \A t \in live : <<account[t].id, account[t].model>> = OwnAccount(t)
=============================================================================
