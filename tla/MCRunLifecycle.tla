--------------------------- MODULE MCRunLifecycle ---------------------------
(* Small instances of RunLifecycle for TLC. *)
EXTENDS RunLifecycle, TLC

\* Approvals are interchangeable, and so are processes: sound for the runs
\* that check no liveness.
Symmetry == Permutations(Approvals) \cup Permutations(Insts)
=============================================================================
