---------------------------- MODULE RunContract -----------------------------
(***************************************************************************)
(* What a run promises to the people who watch it, with no goroutine, no   *)
(* checkpoint and no process in sight: the status they see, the approvals  *)
(* they are asked for and the gated calls sent in their name.  It is the   *)
(* reading of workflow_runs.status that the run list, the stream handler   *)
(* (runInFlight) and the approvals inbox rely on.  RunRefinement shows     *)
(* that RunLifecycle implements it.                                        *)
(***************************************************************************)
EXTENDS Naturals

CONSTANTS Approvals, BatchLen

VARIABLES
  status,  \* what GET /runs/{id} shows
  answer,  \* the approvals as the inbox shows them
  sent     \* gated calls sent under each approval

contractVars == <<status, answer, sent>>

Over == {"completed", "failed", "cancelled"}

Init ==
  /\ status = "pending"
  /\ answer = [a \in Approvals |-> "none"]
  /\ sent = [a \in Approvals |-> 0]

Begin ==
  /\ status = "pending"
  /\ status' = "running"
  /\ UNCHANGED <<answer, sent>>

\* Only a running run asks, and it asks for one thing at a time.
Ask(a) ==
  /\ status = "running"
  /\ answer[a] = "none"
  /\ \A b \in Approvals : answer[b] # "pending"
  /\ answer' = [answer EXCEPT ![a] = "pending"]
  /\ UNCHANGED <<status, sent>>

\* A run suspends for somebody to answer.
Suspend ==
  /\ status = "running"
  /\ \E a \in Approvals : answer[a] = "pending"
  /\ status' = "awaiting_approval"
  /\ UNCHANGED <<answer, sent>>

Answer(a) ==
  /\ status = "awaiting_approval"
  /\ answer[a] = "pending"
  /\ \E s \in {"approved", "rejected", "expired"} : answer' = [answer EXCEPT ![a] = s]
  /\ UNCHANGED <<status, sent>>

\* A gated call: only once granted, only before the run is over, and no more
\* than were shown to the approver.
Send(a) ==
  /\ status \notin Over
  /\ answer[a] = "approved"
  /\ sent[a] < BatchLen
  /\ sent' = [sent EXCEPT ![a] = @ + 1]
  /\ UNCHANGED <<status, answer>>

\* A suspended run moves on only once it has been answered.
Continue ==
  /\ status = "awaiting_approval"
  /\ \A a \in Approvals : answer[a] # "pending"
  /\ status' = "running"
  /\ UNCHANGED <<answer, sent>>

\* An unanswered suspension does not end; success comes from running.
End ==
  /\ status \notin Over
  /\ status = "awaiting_approval" => \A a \in Approvals : answer[a] # "pending"
  /\ status' \in (IF status = "running" THEN Over ELSE Over \ {"completed"})
  /\ UNCHANGED <<answer, sent>>

Next ==
  \/ Begin \/ Suspend \/ Continue \/ End
  \/ \E a \in Approvals : Ask(a) \/ Answer(a) \/ Send(a)

Spec == Init /\ [][Next]_contractVars
=============================================================================
