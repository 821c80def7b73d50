---------------------------- MODULE MCAgentLoop ----------------------------
(* A small instance of one task for TLC. *)
EXTENDS AgentLoop, TLC

CONSTANTS write, patch, recipe, look, a, b, c

\* A write that needs the operator, the patch that goes on from what the write
\* leaves, a recipe and a read.
MCKind == [p \in Proposals |->
  CASE p = write -> "write_file" [] p = patch -> "apply_patch"
    [] p = recipe -> "run_recipe" [] OTHER -> "read"]
MCMode == [p \in Proposals |-> IF p = write THEN "approval_required" ELSE "allow"]
MCBefore == [p \in Proposals |-> IF p = patch THEN b ELSE a]
MCAfter == [p \in Proposals |-> IF p = patch THEN c ELSE b]
=============================================================================
