---------------------------- MODULE Improvements ----------------------------
(***************************************************************************)
(* Evidence-backed improvement proposals over the tasks of TaskContract.   *)
(*                                                                         *)
(* A proposal carries a Profile document for a target.  An operator        *)
(* reviews it and applies it, which stores a numbered revision of the      *)
(* target and then, in a second step that can fail or be cut off, writes   *)
(* the document to a file.  Runs read that file.  A later task's evidence  *)
(* validates the revision when the task's frozen contract re-derives the   *)
(* revision's material; a rollback returns to the declared base revision.  *)
(*                                                                         *)
(* Modelled: src/internal/improvement/contract.go,                         *)
(* internal/state/improvements.go, cmd/runstead/improvement_cmd.go.        *)
(***************************************************************************)
EXTENDS TaskContract

CONSTANTS
    Targets,        \* profiles/<name> targets
    MaxProposals    \* bound on proposals created

ASSUME ProposalBoundAssumption == MaxProposals \in Nat

VARIABLES
    proposals,      \* sequence of proposal rows
    versions,       \* sequence of stored revisions; a version id is an index
    validations,    \* validation records: version and task of the evidence
    evidence,       \* tasks with a stored tool result
    writes          \* documents a command still has to write to the file

impVars == <<proposals, versions, validations, evidence, writes>>

NoVersion == 0
VersionIDs == 0 .. MaxProposals

\* A provider turn was answered with an action and its tool result stored.
Evidence(t) ==
    /\ t \in live
    /\ t \notin evidence
    /\ \E a \in attempted : a[1] = t
    /\ evidence' = evidence \cup {t}
    /\ UNCHANGED <<proposals, versions, validations, writes>>
    /\ UNCHANGED tcVars

-----------------------------------------------------------------------------

\* The declared base is only looked up when the proposal is applied.
Propose(target, base, doc, sources) ==
    /\ Len(proposals) < MaxProposals
    /\ StrictProfile(doc)
    /\ sources # {} /\ sources \subseteq evidence
    /\ proposals' = Append(proposals,
            [target |-> target, base |-> base, doc |-> doc,
             status |-> "pending", version |-> NoVersion])
    /\ UNCHANGED <<versions, validations, evidence, writes>>
    /\ UNCHANGED tcVars

ApplyReviewTransition(status, decision) ==
    CASE decision = "approve" /\ status = "pending"                -> "approved"
      [] decision = "reject" /\ status \in {"pending", "approved"} -> "rejected"
      [] OTHER                                                     -> "refused"

Review(p, decision) ==
    LET status == ApplyReviewTransition(proposals[p].status, decision) IN
    /\ status # "refused"
    /\ proposals' = [proposals EXCEPT ![p].status = status]
    /\ UNCHANGED <<versions, validations, evidence, writes>>
    /\ UNCHANGED tcVars

\* The lifecycle transitions of the other three commands.
Transition(row, action) ==
    CASE action = "apply"    -> row.status = "approved"
      [] action = "validate" -> row.status \in {"applied", "validated"}
      [] action = "rollback" -> row.status \in {"applied", "validated"} /\ row.base # NoVersion

\* Defect: the base is looked up but its target is not compared.
VerifiedVersionAnyTarget(id, target) == id \in DOMAIN versions

\* A version is read through its digest and must belong to the target.
VerifiedVersion(id, target) ==
    id \in DOMAIN versions /\ versions[id].target = target

RevisionsOf(target) == {v \in DOMAIN versions : versions[v].target = target}

\* A profile identity is used by one revision of a target.
IdentityFree(target, doc) ==
    \A v \in RevisionsOf(target) :
        <<versions[v].doc.id, versions[v].doc.version>> # <<doc.id, doc.version>>

\* One transaction stores the revision and advances the proposal; the file
\* is written after it.
Apply(p) ==
    LET row == proposals[p] IN
    /\ Transition(row, "apply")
    /\ row.base # NoVersion => VerifiedVersion(row.base, row.target)
    /\ IdentityFree(row.target, row.doc)
    /\ versions' = Append(versions,
            [proposal |-> p, target |-> row.target, doc |-> row.doc, base |-> row.base,
             revision |-> Cardinality(RevisionsOf(row.target)) + 1])
    /\ proposals' = [proposals EXCEPT ![p].status = "applied", ![p].version = Len(versions) + 1]
    /\ writes' = writes \cup {row.doc}
    /\ UNCHANGED <<validations, evidence>>
    /\ UNCHANGED tcVars

\* The rename that publishes the projection, or the command's end without it.
Materialize(doc) ==
    /\ doc \in writes
    /\ writes' = writes \ {doc}
    /\ file' = doc
    /\ UNCHANGED <<proposals, versions, validations, evidence>>
    /\ UNCHANGED <<tasks, live, account, lane, started, ran, attempted>>

WriteLost(doc) ==
    /\ doc \in writes
    /\ writes' = writes \ {doc}
    /\ UNCHANGED <<proposals, versions, validations, evidence>>
    /\ UNCHANGED tcVars

-----------------------------------------------------------------------------

\* The revision's projection: recipe ids and a provider only when declared.
ProfileMaterialFromProfile(doc) ==
    [profile |-> <<doc.id, doc.version>>, packages |-> doc.packages,
     recipes |-> doc.recipes, provider |-> doc.provider]

\* The task's projection, over the fields the revision declares.
ProfileMaterialFromContract(contract, schema) ==
    [profile  |-> contract.profile, packages |-> contract.packages,
     recipes  |-> IF schema.recipes = {} THEN {} ELSE DOMAIN contract.recipes,
     provider |-> IF schema.provider = "" THEN "" ELSE contract.provider.id]

\* Defect: the profile id and version stand for the material.
TaskContractProfileByIdentity(t, v) ==
    /\ tasks[t].contract # NoContract
    /\ tasks[t].contract.profile = <<versions[v].doc.id, versions[v].doc.version>>

\* The task ran under a frozen contract that re-derives the material.
TaskContractProfile(t, v) ==
    /\ tasks[t].contract # NoContract
    /\ LET material == ProfileMaterialFromProfile(versions[v].doc) IN
        ProfileMaterialFromContract(tasks[t].contract, material) = material

Validate(p, refs) ==
    LET row == proposals[p] IN
    /\ Transition(row, "validate")
    /\ VerifiedVersion(row.version, row.target)
    /\ refs # {} /\ refs \subseteq evidence
    /\ \A t \in refs : TaskContractProfile(t, row.version)
    /\ validations' = validations \cup {[version |-> row.version, task |-> t] : t \in refs}
    /\ proposals' = [proposals EXCEPT ![p].status = "validated"]
    /\ UNCHANGED <<versions, evidence, writes>>
    /\ UNCHANGED tcVars

Rollback(p) ==
    LET row == proposals[p] IN
    /\ Transition(row, "rollback")
    /\ VerifiedVersion(row.base, row.target)
    /\ proposals' = [proposals EXCEPT ![p].status = "rolled_back"]
    /\ writes' = writes \cup {versions[row.base].doc}
    /\ UNCHANGED <<versions, validations, evidence>>
    /\ UNCHANGED tcVars

ImprovementInit ==
    /\ TaskInit
    /\ proposals = << >>
    /\ versions = << >>
    /\ validations = {}
    /\ evidence = {}
    /\ writes = {}

ImprovementNext ==
    \/ Next /\ UNCHANGED impVars
    \/ \E t \in DOMAIN tasks : Evidence(t)
    \/ \E target \in Targets, base \in VersionIDs, doc \in Profiles, sources \in SUBSET evidence :
            Propose(target, base, doc, sources)
    \/ \E p \in DOMAIN proposals :
        \/ \E decision \in {"approve", "reject"} : Review(p, decision)
        \/ Apply(p)
        \/ \E refs \in SUBSET evidence : Validate(p, refs)
        \/ Rollback(p)
    \/ \E doc \in writes : Materialize(doc) \/ WriteLost(doc)

ImprovementSpec == ImprovementInit /\ [][ImprovementNext]_<<tcVars, impVars>>

-----------------------------------------------------------------------------
(* Properties.                                                             *)

\* Every execution, the ones after a resume included, of a task whose
\* evidence validated a revision had the revision's packages and, where the
\* revision declares them, exactly its recipes and its provider.
ValidatedUnderDeclared ==
    \A val \in validations : \A c \in ran[val.task] :
        LET doc == versions[val.version].doc IN
        /\ c.packages = doc.packages
        /\ doc.recipes # {} => DOMAIN c.recipes = doc.recipes
        /\ doc.provider # "" => c.provider.id = doc.provider

\* What a rollback returns to is an earlier revision of the same target,
\* although the base was named before that revision was looked up.
RollbackRestoresAncestor ==
    \A p \in DOMAIN proposals : proposals[p].status = "rolled_back" =>
        LET row == proposals[p] IN
        /\ versions[row.base].target = row.target
        /\ versions[row.base].revision < versions[row.version].revision
=============================================================================
