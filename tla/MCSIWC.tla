------------------------------- MODULE MCSIWC -------------------------------
(* SIWC with processes, people and directories as symmetric model values. *)
EXTENDS SIWC, TLC

Symmetry == Permutations(Procs) \cup Permutations(Subjects) \cup Permutations(Dirs)

=============================================================================
