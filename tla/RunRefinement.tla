--------------------------- MODULE RunRefinement ----------------------------
(* RunLifecycle implements RunContract when nobody answers an approval       *)
(* before its run is suspended (EarlyDecisions = FALSE).                     *)
EXTENDS MCRunLifecycle

Contract == INSTANCE RunContract WITH
  status <- run.status, answer <- appr, sent <- spent

\* Every step of goroutines, processes and jobs is a step of the contract or
\* invisible to it: the whole RunLifecycle, checkpoints and crashes included.
ImplementsContract == Contract!Spec
=============================================================================
