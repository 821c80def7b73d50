--------------------------- MODULE MCTaskContract ---------------------------
(* Small instances of the task contracts and the improvement proposals. *)
EXTENDS Improvements

Doc(id, version, packages, recipes, provider) ==
    [id |-> id, version |-> version, packages |-> packages,
     recipes |-> recipes, provider |-> provider]

Read    == <<"repo.read", 1>>
Recipes == <<"process.recipes", 1>>

\* Two documents of one identity that differ in the recipes, and a later one.
ProposedProfiles ==
    {Doc("dev", 1, {Read, Recipes}, {}, ""), Doc("dev", 1, {Read, Recipes}, {"r1"}, ""),
     Doc("dev", 2, {Read}, {}, "")}

ContractProfiles ==
    {Doc("dev", 1, {Read, Recipes}, {"r1"}, ""), Doc("dev", 1, {Read, Recipes}, {}, "a")}

MCProfiles == ProposedProfiles \cup ContractProfiles

Endpoint(kind, id, config) ==
    [lane |-> kind, id |-> id, model |-> "m", config |-> config, safe |-> TRUE,
     capabilities |-> RequiredCapabilities, authRequired |-> TRUE, auth |-> TRUE]

Scripted  == [Endpoint("scripted", "", "") EXCEPT !.model = "scripted"]
EndpointA == Endpoint("configured", "a", "c1")
EndpointB == Endpoint("configured", "b", "c1")
Omni      == Endpoint("omniroute", "omniroute", "c1")
\* A declared model that happens to have the offline lane's name.
Namesake  == [Endpoint("configured", "s", "c1") EXCEPT !.model = "scripted"]

MCProviders ==
    {Scripted, EndpointA, EndpointB, Omni, Namesake,
     [EndpointA EXCEPT !.config = "c2"], [EndpointA EXCEPT !.model = "m2"],
     [EndpointA EXCEPT !.auth = FALSE], [Omni EXCEPT !.config = "c2"]}

Catalog == [r \in {"r1", "r2"} |-> 1]
MCCatalogs == {NoCatalog, Catalog, [Catalog EXCEPT !["r1"] = 2], Restrict(Catalog, {"r1"})}

MCWritePolicies == {"approval_required", "allow"}
MCRecipePolicies == {[r \in {"r1"} |-> "allow"], [r \in {"r2"} |-> "deny"]}
MCPlans == {"plan1", "plan2"}

In(profile, provider, catalog, writePolicy, recipePolicy, plan, allowance) ==
    [profile |-> profile, provider |-> provider, catalog |-> catalog,
     writePolicy |-> writePolicy, recipePolicy |-> recipePolicy, plan |-> plan,
     allowance |-> allowance]

Allow1 == [r \in {"r1"} |-> "allow"]
Deny2  == [r \in {"r2"} |-> "deny"]

\* The task whose results proposals and validations cite.
CitedInputs ==
    {In(p, Scripted, Catalog, Unset, Unset, NoPlan, Unset) : p \in BOOLEAN}

ContractInputs ==
    {In(FALSE, Scripted, NoCatalog, Unset, Unset, NoPlan, Unset),
     In(FALSE, Namesake, Catalog, "allow", Allow1, "plan1", "instant"),
     In(FALSE, Omni, Catalog, Unset, Unset, "plan1", Unset),
     In(TRUE, EndpointA, Catalog, "allow", Deny2, "plan1", Unset)}

\* Refused: the declared authentication is not there.
RefusedInputs ==
    {In(FALSE, [EndpointA EXCEPT !.auth = FALSE], Catalog, Unset, Unset, NoPlan, Unset)}

MCRunInputs == CitedInputs \cup ContractInputs \cup RefusedInputs

\* Every input again, and those of the contract tasks with one flag different.
With(f, v) == {[in EXCEPT ![f] = x] : in \in ContractInputs, x \in v}

MCResumeInputs ==
    CitedInputs \cup UNION {With("profile", BOOLEAN), With("provider", MCProviders), With("catalog", MCCatalogs),
           With("writePolicy", MCWritePolicies \cup {Unset}),
           With("recipePolicy", MCRecipePolicies \cup {Unset}),
           With("plan", {"plan2", NoPlan})}

MCTargets == {"profiles/a", "profiles/b"}

\* Two instances in one run: two tasks with contracts that are resumed under
\* changed files and flags, and one task whose results proposals cite.
TwoTasks ==
    /\ \A t \in DOMAIN tasks : started[t].in \in ContractInputs
    /\ file \in ContractProfiles \cup {NoProfile}
    /\ evidence = {}

OneCitedTask ==
    /\ \A t \in DOMAIN tasks : t = 1 /\ started[t].in \in CitedInputs
    /\ file \in ProposedProfiles \cup {NoProfile}
    /\ \A p \in DOMAIN proposals : proposals[p].doc \in ProposedProfiles

MCNext == ImprovementNext /\ (TwoTasks' \/ OneCitedTask')

MCSpec == ImprovementInit /\ [][MCNext]_<<tcVars, impVars>>
=============================================================================
