----------------------------- MODULE Delegation ------------------------------
(***************************************************************************)
(* What the two ends of a delegation share: the rows of the team's runs,   *)
(* what the orchestrator knows of its tasks, the requests that serve them, *)
(* and what a team run that is over owes those requests.  TeamRuns is the  *)
(* system that writes them.                                                *)
(***************************************************************************)
CONSTANTS
  Leads,   \* runs of orchestrators
  Tasks    \* delegated tasks, each the id of its specialist's run

VARIABLES
  run,     \* workflow_runs rows
  lead,    \* where each orchestrator's goroutine is
  task,    \* what the orchestrator knows of each task
  server   \* where the request serving each task is

\* A task that is not yet anybody's has the pc "none".
Plan(l) == {t \in Tasks : task[t].pc # "none" /\ task[t].lead = l}

\* When a team run is over, however it ended, no request still serves one of
\* its tasks with somebody on the line: each was answered, or its connection
\* is closed and its context with it (RunSpecialist: "canceling the
\* orchestrator's run ... correctly propagates all the way down").
NoneServedAfterTheEnd ==
  \A l \in Leads : run[l] \in {"completed", "failed", "cancelled"} =>
    \A t \in Plan(l) : ~server[t].open
=============================================================================
