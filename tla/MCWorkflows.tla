---------------------------- MODULE MCWorkflows ----------------------------
(* Small instances of Workflows for TLC. *)
EXTENDS Workflows, TLC

\* Processes are interchangeable, and so are run rows.
Symmetry == Permutations(Procs) \cup Permutations(Runs)
=============================================================================
