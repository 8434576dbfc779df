---------------------------- MODULE RunLifecycle ----------------------------
(***************************************************************************)
(* The life of one row of workflow_runs: the goroutine Launcher.Launch     *)
(* starts for it, the approvals its executor asks for, the goroutines      *)
(* Launcher.Resume starts when an approval is decided or expires, and      *)
(* everything that can reach the row meanwhile: cancel requests on this or *)
(* another API process, the reaper, a process that dies.                   *)
(*                                                                         *)
(* A driver is one such goroutine.  Each driver is named by what started   *)
(* it: Launch, or the approval whose decision resumed the run.  A step of  *)
(* a driver is one database transaction or one external call, together     *)
(* with the in-memory work up to the next one: tenant.WithTx opens a fresh *)
(* short transaction for every read and write, so anything may happen      *)
(* between two steps.                                                      *)
(***************************************************************************)
EXTENDS Naturals, FiniteSets

CONSTANTS
  Insts,          \* the API processes
  Approvals,      \* ids of the approvals rows one run can ask for (a bound)
  Launch,         \* the driver Launcher.Launch starts
  None,           \* no approval, no driver, no checkpoint
  BatchLen,       \* tool calls in a batch that needs an approval
  MaxToolCalls,   \* policy_scope.max_tool_calls
  MaxCrashes,     \* process deaths (a bound)
  DbFaults,       \* may a database write fail?
  EarlyDecisions  \* may an approval be decided before its run is suspended?

ASSUME LaunchAssumption  == Launch \notin Approvals /\ None \notin Approvals
ASSUME BatchAssumption   == BatchLen \in Nat \ {0}
ASSUME CapAssumption     == MaxToolCalls \in Nat \ {0}
ASSUME BoundAssumption   == MaxCrashes \in Nat
ASSUME BooleanAssumption == DbFaults \in BOOLEAN /\ EarlyDecisions \in BOOLEAN

VARIABLES
  run,      \* the workflow_runs row
  appr,     \* approvals.status, "none" while the row does not exist
  drv,      \* the drivers
  cancels,  \* Engine.cancels, this run's entry, on each process
  relayed,  \* processes the Redis cancel message may still reach
  crashes,  \* process deaths so far
  effects,  \* ghost: the gated tool calls sent to a provider
  spent,    \* ghost: how many gated calls each approval's driver has sent
  attempts, \* ghost: tool calls sent, gated or not
  accruals  \* ghost: times hours_saved was folded into the org's total

vars == <<run, appr, drv, cancels, relayed, crashes,
          effects, spent, attempts, accruals>>

Drivers  == Approvals \cup {Launch}
Terminal == {"completed", "failed", "cancelled"}
InFlight == {"pending", "running"}
Decided  == {"approved", "rejected", "expired"}

\* RunState.Approval
Verdicts == {"none", "yes", "no"}

\* graph.NodeName; NodeComplete is the empty string, and so reads a NULL
\* current_node.
Nodes == {"planner", "executor", "approval_gate", "validator", "reporter", ""}

\* RunState, the part that decides what a driver does: the decision Resume put
\* in it, the approval its PendingToolCalls wait for, and ToolCallCount.
RunStates == [verdict: Verdicts, pending: Approvals \cup {None}, calls: Nat]

\* A NULL checkpoint_state is no RunState.
ASSUME NoneAssumption == None \notin RunStates

FreshState == [verdict |-> "none", pending |-> None, calls |-> 0]

\* stale: updated_at is more than the reaper's hour old.
Rows == [status: InFlight \cup Terminal \cup {"awaiting_approval"},
         node: Nodes, saved: RunStates \cup {None}, stale: BOOLEAN]

\* Where a driver is.  build..load: before the engine; enter..ckpt: in
\* Engine.runFrom; final..emark: the Launcher's own bookkeeping after it.
EnginePCs == {"enter", "llm", "gate", "call", "save", "fail", "ckpt"}
PCs == {"none", "build", "start", "load", "final", "accrue",
        "contain", "cmark", "check", "emark", "done"} \cup EnginePCs

\* cancelled: the driver's context was cancelled.  err: the engine returned an
\* error.  batch: the approval that was asked for the calls being executed.
DriverStates == [pc: PCs, home: Insts, node: Nodes, next: Nodes,
                 state: RunStates, left: Nat, batch: Approvals \cup {None},
                 cancelled: BOOLEAN, err: BOOLEAN]

Effects == [by: Drivers, batch: Approvals, key: Nat]

\* Launch, Resume: a new goroutine on process i with a background context.
NewDriver(i, verdict, p) ==
  [pc |-> p, home |-> i, node |-> "planner", next |-> "planner",
   state |-> [FreshState EXCEPT !.verdict = verdict], left |-> 0, batch |-> None,
   cancelled |-> FALSE, err |-> FALSE]

\* Driver d goes on as r.
Become(d, r) == drv' = [drv EXCEPT ![d] = r]

Alive(d)    == drv[d].pc \notin {"none", "done"}
InEngine(d) == drv[d].pc \in EnginePCs

-----------------------------------------------------------------------------

\* The handler inserted the row as 'pending' and called Launcher.Launch.
Init ==
  /\ run = [status |-> "pending", node |-> "", saved |-> None, stale |-> FALSE]
  /\ appr = [a \in Approvals |-> "none"]
  /\ \E i \in Insts :
       drv = [d \in Drivers |->
                NewDriver(i, "none", IF d = Launch THEN "build" ELSE "none")]
  /\ cancels = [i \in Insts |-> None]
  /\ relayed = {}
  /\ crashes = 0
  /\ effects = {}
  /\ spent = [a \in Approvals |-> 0]
  /\ attempts = 0
  /\ accruals = 0

ghosts == <<effects, spent, attempts, accruals>>
others == <<appr, relayed, crashes, effects, spent, attempts, accruals>>

-----------------------------------------------------------------------------
(* Writes to the row, and the engine's cancel table.                       *)

\* UpdateRunCheckpoint: no guard on the status it overwrites.
Checkpoint(s, n, status) ==
  run' = [status |-> status, node |-> n, saved |-> s, stale |-> FALSE]

SetStatus(status) == run' = [run EXCEPT !.status = status, !.stale = FALSE]

\* A write through the driver's own context.
CtxWrite(d, write, failed) ==
  \/ ~drv[d].cancelled /\ write
  \/ (drv[d].cancelled \/ DbFaults) /\ failed

\* A write that a cancelled context does not stop.
SureWrite(write) == write \/ (DbFaults /\ UNCHANGED run)

Register(d)   == cancels' = [cancels EXCEPT ![drv[d].home] = d]

\* runFrom's deferred delete is by run id: it removes whatever is there.
Unregister(d) == cancels' = [cancels EXCEPT ![drv[d].home] = None]

\* runFrom returned, with or without an error.
Return(d, err) ==
  /\ Become(d, [drv[d] EXCEPT !.pc = "final", !.err = err])
  /\ Unregister(d)

-----------------------------------------------------------------------------
(* From the goroutine's first statement to Engine.runFrom.                 *)

\* buildNodesForRun: agent, key, tool catalogue and policy may all have gone.
Build(d) ==
  /\ drv[d].pc = "build"
  /\ \/ Become(d, [drv[d] EXCEPT !.pc = IF d = Launch THEN "start" ELSE "load"])
     \/ Become(d, [drv[d] EXCEPT !.pc = "check", !.err = TRUE])
  /\ UNCHANGED <<run, cancels, others>>

\* markRunStarted, then runFrom registers the context's cancel function.
Start(d) ==
  /\ drv[d].pc = "start"
  /\ \/ /\ SetStatus("running")
        /\ Become(d, [drv[d] EXCEPT !.pc = "enter", !.node = "planner"])
        /\ Register(d)
     \/ /\ DbFaults
        /\ Become(d, [drv[d] EXCEPT !.pc = "check", !.err = TRUE])
        /\ UNCHANGED <<run, cancels>>
  /\ UNCHANGED others

\* Engine.Resume looks for a checkpoint; the row's status is not consulted.
Resumable == run.saved # None /\ run.node # ""

Load(d) ==
  /\ drv[d].pc = "load"
  /\ \/ /\ Resumable
        /\ Become(d, [drv[d] EXCEPT
             !.pc = "enter", !.node = run.node,
             !.state = [run.saved EXCEPT !.verdict = drv[d].state.verdict]])
        /\ Register(d)
     \/ /\ ~Resumable \/ DbFaults
        /\ Become(d, [drv[d] EXCEPT !.err = TRUE,
             !.pc = IF run.saved # None THEN "final" ELSE "check"])
        /\ UNCHANGED cancels
  /\ UNCHANGED <<run, others>>

-----------------------------------------------------------------------------
(* The engine's loop: one action per node.                                 *)

\* ctx.Err() at the top of the loop.
LoopCancelled(d) ==
  /\ drv[d].pc = "enter"
  /\ drv[d].cancelled
  /\ SureWrite(Checkpoint(drv[d].state, drv[d].node, "cancelled"))
  /\ Return(d, TRUE)
  /\ UNCHANGED others

AtNode(d, n) == drv[d].pc = "enter" /\ drv[d].node = n /\ ~drv[d].cancelled

\* A node that only computes hands the engine the node that follows it.
Hands(d, n) == Become(d, [drv[d] EXCEPT !.pc = "ckpt", !.next = n])

Planner(d) ==
  /\ AtNode(d, "planner")
  /\ Hands(d, "executor")
  /\ UNCHANGED <<run, cancels, others>>

Executor(d) ==
  /\ AtNode(d, "executor")
  /\ Become(d, [drv[d] EXCEPT !.pc = "llm"])
  /\ UNCHANGED <<run, cancels, others>>

Validator(d) ==
  /\ AtNode(d, "validator")
  /\ Hands(d, "reporter")
  /\ UNCHANGED <<run, cancels, others>>

Reporter(d) ==
  /\ AtNode(d, "reporter")
  /\ Hands(d, "")
  /\ UNCHANGED <<run, cancels, others>>

\* Mutant of ApprovalGate: the decision is not looked at.
ApprovalGateBlind(d) ==
  LET pending == drv[d].state.pending IN
  /\ AtNode(d, "approval_gate")
  /\ pending # None
  /\ Become(d, [drv[d] EXCEPT !.state = [drv[d].state EXCEPT !.pending = None], !.batch = pending,
                        !.left = BatchLen, !.next = "executor", !.pc = "call"])
  /\ UNCHANGED <<run, cancels, others>>

\* approval_gate on resume.  Its "no Approval decision set" branch is dead:
\* only Resume enters the graph here, and it has set the decision.
ApprovalGate(d) ==
  LET pending == drv[d].state.pending
      runs    == drv[d].state.verdict = "yes" /\ pending # None
  IN
  /\ AtNode(d, "approval_gate")
  /\ Become(d, [drv[d] EXCEPT
       !.state = [drv[d].state EXCEPT !.pending = None],
       !.batch = IF runs THEN pending ELSE None,
       !.left  = IF runs THEN BatchLen ELSE 0,
       !.next  = IF drv[d].state.verdict = "yes" THEN "executor" ELSE "reporter",
       !.pc    = IF runs THEN "call" ELSE "ckpt"])
  /\ UNCHANGED <<run, cancels, others>>

\* One model turn of the executor: an answer, a batch that may run, a batch
\* that must be approved, or an error (the provider, a tool outside the
\* policy, the same batch twice, a cancelled context).
LLMTurn(d) ==
  /\ drv[d].pc = "llm"
  /\ \/ Become(d, [drv[d] EXCEPT !.pc = "fail"])
     \/ /\ ~drv[d].cancelled
        /\ \/ Hands(d, "validator")
           \/ Become(d, [drv[d] EXCEPT !.pc = "call", !.left = 1, !.batch = None])
           \/ /\ \E a \in Approvals : appr[a] = "none"  \* the bound on Approvals
              /\ Become(d, [drv[d] EXCEPT !.pc = "gate"])
  /\ UNCHANGED <<run, cancels, others>>

\* Mutant of Gate: one approvals row per risky call of the batch.
GatePerCall(d) ==
  /\ drv[d].pc = "gate"
  /\ ~drv[d].cancelled
  /\ \E a, b \in Approvals :
       /\ appr[a] = "none" /\ appr[b] = "none"
       /\ appr' = [appr EXCEPT ![a] = "pending", ![b] = "pending"]
       /\ Become(d, [drv[d] EXCEPT !.state = [drv[d].state EXCEPT !.pending = a],
                             !.pc = "ckpt", !.next = "approval_gate"])
  /\ UNCHANGED <<run, cancels, relayed, crashes, ghosts>>

\* writeApprovalGate commits the approvals row; the checkpoint that suspends
\* the run is a later transaction.
Gate(d) ==
  /\ drv[d].pc = "gate"
  /\ \/ /\ ~drv[d].cancelled
        /\ \E a \in Approvals :
             /\ appr[a] = "none"
             /\ appr' = [appr EXCEPT ![a] = "pending"]
             /\ Become(d, [drv[d] EXCEPT !.state = [drv[d].state EXCEPT !.pending = a],
                                   !.pc = "ckpt", !.next = "approval_gate"])
     \/ /\ drv[d].cancelled \/ DbFaults
        /\ Become(d, [drv[d] EXCEPT !.pc = "fail"])
        /\ UNCHANGED appr
  /\ UNCHANGED <<run, cancels, relayed, crashes, ghosts>>

\* Gateway.ExecuteTool, unless the call is malformed.  A gated call carries the
\* idempotency key <run id>-<ToolCallCount>; whatever it answers, an error
\* included, goes to the model.
Call(d) ==
  /\ drv[d].pc = "call"
  /\ \/ /\ Become(d, [drv[d] EXCEPT !.pc = "save"])
        /\ attempts' = attempts + 1
        /\ IF drv[d].batch = None
           THEN UNCHANGED <<effects, spent>>
           ELSE /\ effects' = effects \cup
                     {[by |-> d, batch |-> drv[d].batch, key |-> drv[d].state.calls]}
                /\ spent' = [spent EXCEPT ![d] = @ + 1]
     \/ Become(d, [drv[d] EXCEPT !.pc = "fail"]) /\ UNCHANGED <<attempts, effects, spent>>
  /\ UNCHANGED <<run, appr, cancels, relayed, crashes, accruals>>

\* Mutant of CountCall: ToolCallCount is not incremented.
CountNothing(s) == s

\* state.ToolCallCount++.
CountCall(s) == [s EXCEPT !.calls = @ + 1]

\* Mutant of WithinCap: the cap compared with > instead of >=.
WithinCapOffByOne(s) == s.calls <= MaxToolCalls

\* CheckCaps: the run goes on only below the cap.
WithinCap(s) == s.calls < MaxToolCalls

\* The checkpoint after a tool call, then CheckCaps (the cost cap may trip on
\* any call, the call cap at MaxToolCalls).
Save(d) ==
  LET s == CountCall(drv[d].state)
      more ==
        \/ drv[d].left > 1 /\ Become(d, [drv[d] EXCEPT !.state = s, !.pc = "call",
                                                 !.left = @ - 1])
        \/ drv[d].left = 1 /\ Become(d, [drv[d] EXCEPT !.state = s, !.left = 0,
             !.pc = IF drv[d].node = "approval_gate" THEN "ckpt" ELSE "llm"])
      stop == Become(d, [drv[d] EXCEPT !.state = s, !.pc = "fail"])
  IN
  /\ drv[d].pc = "save"
  /\ CtxWrite(d,
       /\ Checkpoint(s, "executor", "running")
       /\ stop \/ (WithinCap(s) /\ more),
       stop /\ UNCHANGED run)
  /\ UNCHANGED <<cancels, others>>

\* The node returned an error: classify it by the context, write it whatever
\* the context says, ignore a failure of that write.
Fail(d) ==
  /\ drv[d].pc = "fail"
  /\ SureWrite(Checkpoint(drv[d].state, drv[d].node,
                 IF drv[d].cancelled THEN "cancelled" ELSE "failed"))
  /\ Return(d, TRUE)
  /\ UNCHANGED others

\* The checkpoint after a node, through the context a cancel ends.
StatusAfter(n) == CASE n = ""              -> "completed"
                    [] n = "approval_gate" -> "awaiting_approval"
                    [] OTHER               -> "running"

\* Mutant of Stops: runFrom goes on after it has suspended the run.
StopsAtEnd == {""}

\* Where runFrom returns to its caller.
Stops == {"", "approval_gate"}

NodeCheckpoint(d) ==
  LET n == drv[d].next IN
  /\ drv[d].pc = "ckpt"
  /\ CtxWrite(d,
       /\ Checkpoint(drv[d].state, n, StatusAfter(n))
       /\ IF n \in Stops
          THEN Return(d, FALSE)
          ELSE /\ Become(d, [drv[d] EXCEPT !.pc = "enter", !.node = n])
               /\ UNCHANGED cancels,
       Return(d, TRUE) /\ UNCHANGED run)
  /\ UNCHANGED others

-----------------------------------------------------------------------------
(* The Launcher's bookkeeping after the engine.                            *)

\* Launch and Resume look at the row again when the driver returned an error.
AfterFinalize(d) == IF drv[d].err THEN "check" ELSE "done"

\* finalizeIfTerminal reads the status; FinalizeRun writes summary columns only.
\* An error of theirs is logged.
Final(d) ==
  /\ drv[d].pc = "final"
  /\ \/ run.status = "completed" /\ Become(d, [drv[d] EXCEPT !.pc = "accrue"])
     \/ /\ run.status # "completed" \/ DbFaults
        /\ Become(d, [drv[d] EXCEPT !.pc = AfterFinalize(d)])
  /\ UNCHANGED <<run, cancels, others>>

\* accrueHoursSaved: the run's hours and the org's total in one transaction.
Accrue(d) ==
  /\ drv[d].pc = "accrue"
  /\ Become(d, [drv[d] EXCEPT !.pc = AfterFinalize(d)])
  /\ accruals' = accruals + 1 \/ (DbFaults /\ UNCHANGED accruals)
  /\ UNCHANGED <<run, appr, cancels, relayed, crashes, effects, spent, attempts>>

\* Mutant of NotStarted: Resume copies Launch's check.
NotStartedPending(d) == "pending"

\* The status a driver that returned an error may still move to failed.
NotStarted(d) == IF d = Launch THEN "pending" ELSE "awaiting_approval"

ErrorCheck(d) ==
  /\ drv[d].pc = "check"
  /\ \/ run.status = NotStarted(d) /\ Become(d, [drv[d] EXCEPT !.pc = "emark"])
     \/ /\ run.status # NotStarted(d) \/ DbFaults
        /\ Become(d, [drv[d] EXCEPT !.pc = "done"])
  /\ UNCHANGED <<run, cancels, others>>

ErrorMark(d) ==
  /\ drv[d].pc = "emark"
  /\ SureWrite(SetStatus("failed"))
  /\ Become(d, [drv[d] EXCEPT !.pc = "done"])
  /\ UNCHANGED <<cancels, others>>

\* A panic in the engine, a node or a tool unwinds to containRun.
Panic(d) ==
  /\ drv[d].pc \in {"enter", "llm", "gate", "call", "save"}
  /\ Become(d, [drv[d] EXCEPT !.pc = "contain", !.err = TRUE])
  /\ Unregister(d)
  /\ UNCHANGED <<run, others>>

\* A status it cannot read counts as not terminal.
ContainRead(d) ==
  /\ drv[d].pc = "contain"
  /\ \/ run.status \in Terminal /\ Become(d, [drv[d] EXCEPT !.pc = "check"])
     \/ /\ run.status \notin Terminal \/ DbFaults
        /\ Become(d, [drv[d] EXCEPT !.pc = "cmark"])
  /\ UNCHANGED <<run, cancels, others>>

ContainMark(d) ==
  /\ drv[d].pc = "cmark"
  /\ SureWrite(SetStatus("failed"))
  /\ Become(d, [drv[d] EXCEPT !.pc = "check"])
  /\ UNCHANGED <<cancels, others>>

\* The steps the goroutine takes by itself.
Step(d) ==
  \/ Build(d) \/ Start(d) \/ Load(d)
  \/ LoopCancelled(d)
  \/ Planner(d) \/ Executor(d) \/ ApprovalGate(d) \/ Validator(d) \/ Reporter(d)
  \/ LLMTurn(d) \/ Gate(d) \/ Call(d) \/ Save(d) \/ Fail(d) \/ NodeCheckpoint(d)
  \/ Final(d) \/ Accrue(d) \/ ErrorCheck(d) \/ ErrorMark(d)
  \/ ContainRead(d) \/ ContainMark(d)

-----------------------------------------------------------------------------
(* What reaches the run from outside.                                      *)

\* Mutant of MayDecide: the UPDATE has no "AND status = 'pending'".
MayDecideAgain(a) == appr[a] # "none" /\ (EarlyDecisions \/ run.status = "awaiting_approval")

\* With EarlyDecisions FALSE nobody answers before the run is suspended: the
\* gap is one transaction long, and a person or a 24-hour timer is not that
\* quick.  It is an assumption about the environment: the code has no such
\* guard.
MayDecide(a) == appr[a] = "pending" /\ (EarlyDecisions \/ run.status = "awaiting_approval")

\* The guarded UPDATE ... WHERE status = 'pending' moved the approval to s, and
\* process i starts Resume.  The pre-checks of decide (permission, deadline,
\* kill switch) only refuse more.
Resolve(a, i, s) ==
  /\ MayDecide(a)
  /\ appr' = [appr EXCEPT ![a] = s]
  /\ Become(a, NewDriver(i, IF s = "approved" THEN "yes" ELSE "no", "build"))
  /\ UNCHANGED <<run, cancels, relayed, crashes, ghosts>>

\* POST /approvals/{id}/approve and /reject.
Decide(a, i) == \E s \in {"approved", "rejected"} : Resolve(a, i, s)

\* Mutant of ExpireOne: a status the column does not have.
ExpireUnknown(a, i) == Resolve(a, i, "timed_out")

\* The sweep, by any process.
ExpireOne(a, i) == Resolve(a, i, "expired")

\* Engine.Cancel on process i: the cancel function of whichever driver holds
\* the entry.
CancelOn(i) ==
  /\ cancels[i] # None
  /\ Become(cancels[i], [drv[cancels[i]] EXCEPT !.cancelled = TRUE])

\* POST /runs/{id}/cancel on the process that executes the run.
CancelHere(i) ==
  /\ CancelOn(i)
  /\ UNCHANGED <<run, cancels, others>>

\* ... and on a process that does not: ask the others through Redis.
CancelElsewhere(i) ==
  /\ cancels[i] = None
  /\ run.status \in InFlight
  /\ relayed' = Insts
  /\ UNCHANGED <<run, appr, drv, cancels, crashes, ghosts>>

\* ListenForCancels.  The message may also never come: nothing obliges this.
DeliverCancel(i) ==
  /\ i \in relayed
  /\ relayed' = relayed \ {i}
  /\ IF cancels[i] = None THEN UNCHANGED drv ELSE CancelOn(i)
  /\ UNCHANGED <<run, appr, cancels, crashes, ghosts>>

\* The process exits, after a graceful shutdown or without one: its
\* goroutines, its cancel table and its subscription are gone.
Crash(i) ==
  /\ crashes < MaxCrashes
  /\ crashes' = crashes + 1
  /\ drv' = [d \in Drivers |->
               IF drv[d].home = i /\ Alive(d) THEN [drv[d] EXCEPT !.pc = "done"]
                                              ELSE drv[d]]
  /\ cancels' = [cancels EXCEPT ![i] = None]
  /\ relayed' = relayed \ {i}
  /\ UNCHANGED <<run, appr, ghosts>>

\* An hour without a checkpoint.  A live driver writes one more often than
\* that: a model turn ends within 3 x 120 s, a tool call within 15 s, a
\* specialist's answer within 10 minutes.
Age ==
  /\ run.status \in InFlight
  /\ ~run.stale
  /\ \A d \in Drivers : ~Alive(d)
  /\ run' = [run EXCEPT !.stale = TRUE]
  /\ UNCHANGED <<drv, cancels, others>>

\* Mutants of Reap: no look at updated_at; 'running' left out; 'pending' left
\* out.
ReapFresh ==
  run.status \in InFlight /\ SetStatus("failed") /\ UNCHANGED <<drv, cancels, others>>
ReapPendingOnly ==
  run.status = "pending" /\ run.stale /\ SetStatus("failed") /\ UNCHANGED <<drv, cancels, others>>
ReapRunningOnly ==
  run.status = "running" /\ run.stale /\ SetStatus("failed") /\ UNCHANGED <<drv, cancels, others>>

\* ReapStaleRuns.
Reap ==
  /\ run.status \in InFlight
  /\ run.stale
  /\ SetStatus("failed")
  /\ UNCHANGED <<drv, cancels, others>>

Next ==
  \/ \E d \in Drivers : Step(d) \/ Panic(d)
  \/ \E a \in Approvals, i \in Insts : Decide(a, i) \/ ExpireOne(a, i)
  \/ \E i \in Insts : CancelHere(i) \/ CancelElsewhere(i) \/ DeliverCancel(i) \/ Crash(i)
  \/ Age \/ Reap

Spec == Init /\ [][Next]_vars

\* Goroutines run on, an hour passes, the scheduler's tick reaps, the expiry
\* job sweeps.  Nobody has to cancel, decide or crash.
Fairness ==
  /\ \A d \in Drivers : WF_vars(Step(d))
  /\ WF_vars(Age) /\ WF_vars(Reap)
  /\ \A a \in Approvals : WF_vars(\E i \in Insts : ExpireOne(a, i))

FairSpec == Spec /\ Fairness

-----------------------------------------------------------------------------
(* Properties.                                                             *)

\* The shape of the state.
TypeOK ==
  /\ run \in Rows
  /\ appr \in [Approvals -> {"none", "pending"} \cup Decided]
  /\ drv \in [Drivers -> DriverStates]
  /\ cancels \in [Insts -> Drivers \cup {None}]
  /\ relayed \subseteq Insts
  /\ crashes \in 0 .. MaxCrashes
  /\ effects \subseteq Effects
  /\ spent \in [Approvals -> Nat]
  /\ attempts \in Nat
  /\ accruals \in Nat

\* A gated call reaches a provider only under an approval a person granted,
\* and one grant pays for one batch: whatever the interleaving of drivers,
\* retried decisions, expiry sweeps and crashes (executorNode's gate, decide,
\* approvalGateNode).
GrantBacksExecution ==
  /\ \A e \in effects : e.by \in Approvals /\ appr[e.by] = "approved"
  /\ \A a \in Approvals : spent[a] > 0 => spent[a] <= BatchLen /\ appr[a] = "approved"

\* A decision is final: a double click, a second instance's sweep or a sweep
\* racing a person never changes it (UpdateApprovalStatus).
DecisionIsFinal ==
  [][\A a \in Approvals : appr[a] \in Decided => appr'[a] = appr[a]]_vars

\* At most one goroutine drives the run through the graph (expireOne: resuming
\* again "would drive it twice").
SingleDriver ==
  \A d, e \in Drivers : InEngine(d) /\ InEngine(e) => d = e

\* The calls executed are the calls of the approval that was granted, not
\* another batch found in the checkpoint (writeApprovalGate's context_data
\* against RunState.PendingToolCalls).
ExecutesWhatWasGranted == \A e \in effects : e.batch = e.by

\* No two gated calls share an idempotency key: a provider would answer the
\* second with the first one's result (executeOneToolCall).
KeysAreUnique ==
  \A e, f \in effects : e.key = f.key => e = f

\* max_tool_calls bounds the calls sent over the run's whole life, across
\* suspensions, resumptions and crashes (CheckCaps, RunState.ToolCallCount).
CapHolds == attempts <= MaxToolCalls

\* A row that reached a terminal status keeps it: no late checkpoint, resume,
\* reaper or error path resurrects or relabels it.
TerminalIsFinal ==
  [][run.status \in Terminal => run'.status = run.status]_vars

\* No lost wake-up: while a run is suspended and no goroutine works on it, the
\* approval its checkpoint names is still open for somebody to answer
\* (NodeCheckpoint's suspension, decide and expireOne starting Resume).
SuspensionIsAnswerable ==
  run.status = "awaiting_approval" /\ (\A d \in Drivers : ~Alive(d)) =>
    run.saved # None /\ \E a \in Approvals : a = run.saved.pending /\ appr[a] = "pending"

\* A pending or running row does not stay so: a driver moves it on or, when
\* every driver is gone, the reaper does (ReapStaleRuns).
InFlightEnds == run.status \in InFlight ~> run.status \notin InFlight

\* Every run ends: nobody has to answer, the expiry job does it for them.
EveryRunEnds == <>(run.status \in Terminal)

\* An approval does not outlive its run's patience: a suspended run leaves
\* awaiting_approval (workflows.sql: the approval-expiry job resolves it).
SuspensionEnds == run.status = "awaiting_approval" ~> run.status # "awaiting_approval"

\* A run whose driver was cancelled and has returned does not sit in
\* 'running' (Engine.CancelAll).
CancelledRunIsMarked ==
  run.status = "running" =>
    ~\E d \in Drivers : drv[d].cancelled /\ drv[d].pc = "done"

\* hours_saved is folded into the org's total once (FinalizeRunHoursSaved).
HoursAccruedOnce == accruals <= 1

\* A run stopped by a rejected or expired approval saved nobody any time
\* (finalizeIfTerminal).
RejectionSavesNothing ==
  accruals > 0 => \A a \in Approvals : appr[a] \notin {"rejected", "expired"}

\* A driver started by a refusal or an expiry only reports: it neither asks the
\* model again nor calls a tool ("rejection must not have gone back through the
\* model", the executor's integration tests).
RefusalOnlyReports ==
  \A a \in Approvals :
    drv[a].state.verdict = "no" => drv[a].pc \notin {"llm", "gate", "call", "save"}
=============================================================================
