------------------------------ MODULE Workflows ------------------------------
(***************************************************************************)
(* When a run starts: the workflows and agents of one organisation, the    *)
(* console requests that edit and run them, and the scheduler every API    *)
(* process ticks.  What a started run does is RunLifecycle's subject; here *)
(* its row is pending, running or waiting, and then no longer in flight.   *)
(*                                                                         *)
(* Time is relative, so that it needs no bound: a schedule's next_run_at   *)
(* is the time left until it is due, and a run row's age is the time since *)
(* its updated_at, counted no further than the reaper looks.               *)
(***************************************************************************)
EXTENDS Naturals, FiniteSets

CONSTANTS
  Flows, Agents, Names,
  Providers,   \* LLM providers the organisation may bring a key of
  Procs,       \* API processes
  Callers,     \* console requests at one time
  Runs,        \* run rows in flight at one time
  Periods,     \* cron expressions, by the gap between their firings
  MinInterval, \* the shortest gap cronutil accepts
  MaxActive,   \* MaxActiveRunsPerOrg
  MaxFlows, MaxAgents,           \* the plan's limits
  Stale,       \* the age after which ReapStaleRuns fails a run
  MaxEdits, MaxCrashes           \* bounds

ASSUME PeriodsAssumption ==
  Periods \subseteq Nat \ {0} /\ \E p \in Periods : \A q \in Periods : q <= p
ASSUME LimitsAssumption ==
  {MinInterval, MaxActive, MaxFlows, MaxAgents, Stale, MaxEdits, MaxCrashes} \subseteq Nat

VARIABLES
  org,      \* what the organisation's row and keys say about starting runs
  agent,    \* agents rows
  flow,     \* workflows rows
  run,      \* workflow_runs rows in flight
  holder,   \* the process whose transaction holds the flow's row lock
  tick,     \* where each process's scheduler is
  call,     \* where each console request is
  early,    \* ghost: a workflow was fired that was not due, or not active
  used      \* how much of each bound is used up

vars == <<org, agent, flow, run, holder, tick, call, early, used>>

NULL == "null"
ASSUME NamesAssumption == NULL \notin Procs
NoCron == 0            \* a NULL cron_expression
Triggers == {"manual", "scheduled"}    \* "webhook" is treated like "manual"
LongestPeriod == CHOOSE p \in Periods : \A q \in Periods : q <= p
Waits == 0 .. LongestPeriod
Never == LongestPeriod + 1   \* a NULL next_run_at

AgentRows == [there: BOOLEAN, name: Names, active: BOOLEAN]
FlowRows == [there: BOOLEAN, agent: Agents, trigger: Triggers,
             cron: Periods \cup {NoCron}, next: Waits \cup {Never}, active: BOOLEAN]

NoRun == [status |-> "over"]
InFlightStatuses == {"pending", "running", "awaiting_approval"}
\* host: the process whose goroutine drives the run, if any does.
RunRows == [status: InFlightStatuses, flow: Flows, scheduled: BOOLEAN,
            age: 0 .. Stale + 1, host: Procs \cup {NULL}]

Due == [flow: Flows, cron: Periods]
Ticks == [pc: {"idle", "next"}, due: SUBSET Due] \cup
         [pc: {"preflight", "skip", "inFlight", "insert", "launch"},
          due: SUBSET Due, flow: Flows, next: Waits, run: Runs \cup {NULL}]
IdleTick == [pc |-> "idle", due |-> {}]

\* What a PATCH supplies.
Edits == [trigger: Triggers \cup {NULL}, cron: Periods \cup {NoCron},
          active: {NULL, "on", "off"}]
Calls == [pc: {"idle"}] \cup
         [pc: {"read", "validate", "count", "insert"}, flow: Flows] \cup
         [pc: {"launch"}, flow: Flows, run: Runs] \cup
         [pc: {"write"}, flow: Flows, edit: Edits]
IdleCall == [pc |-> "idle"]

TypeOK ==
  /\ org \in [paused: BOOLEAN, provider: Providers \cup {NULL}, keys: SUBSET Providers, active: BOOLEAN]
  /\ agent \in [Agents -> AgentRows]
  /\ flow \in [Flows -> FlowRows]
  /\ run \in [Runs -> RunRows \cup {NoRun}]
  /\ holder \in [Flows -> Procs \cup {NULL}]
  /\ tick \in [Procs -> Ticks]
  /\ call \in [Callers -> Calls]
  /\ early \in BOOLEAN
  /\ used \in [edits: 0 .. MaxEdits, crashes: 0 .. MaxCrashes]

Init ==
  /\ \E k \in Providers : org = [paused |-> FALSE, provider |-> k, keys |-> {k}, active |-> TRUE]
  /\ \E n \in Names : agent = [a \in Agents |-> [there |-> FALSE, name |-> n, active |-> FALSE]]
  /\ \E a \in Agents, p \in Periods :
       flow = [w \in Flows |-> [there |-> FALSE, agent |-> a, trigger |-> "manual",
                                cron |-> NoCron, next |-> Never, active |-> FALSE]]
  /\ run = [r \in Runs |-> NoRun]
  /\ holder = [w \in Flows |-> NULL]
  /\ tick = [p \in Procs |-> IdleTick]
  /\ call = [c \in Callers |-> IdleCall]
  /\ early = FALSE
  /\ used = [edits |-> 0, crashes |-> 0]

-----------------------------------------------------------------------------
\* Statements.

InFlight(r) == run[r] # NoRun

ListWorkflows == {w \in Flows : flow[w].there}

CountActiveAgents == Cardinality({a \in Agents : agent[a].active})
CountActiveWorkflows == Cardinality({w \in Flows : flow[w].active})
CountActiveRuns == Cardinality({r \in Runs : InFlight(r)})
\* A run that waits for an approval is taken not to be in progress.
HasInFlightRunNotWaiting(w) ==
  \E r \in Runs : InFlight(r) /\ run[r].flow = w /\ run[r].status # "awaiting_approval"
HasInFlightRun(w) == \E r \in Runs : InFlight(r) /\ run[r].flow = w
ValidateAgentForOrg(a) == agent[a].active

WorkflowLimitReached == CountActiveWorkflows >= MaxFlows

Waiting(w) == flow[w].trigger = "scheduled" /\ flow[w].active /\ flow[w].next = 0
DueScheduled(w) == org.active /\ Waiting(w)

ListDueScheduledWorkflows == {w \in Flows : DueScheduled(w)}

\* A claim that relies on the list.
ClaimListed(w) == holder[w] = NULL
ClaimDueScheduledWorkflow(w) == DueScheduled(w) /\ holder[w] = NULL

InsertRun(r, row) ==
  /\ ~InFlight(r)
  /\ run' = [run EXCEPT ![r] = row]

PendingRun(w) == [status |-> "pending", flow |-> w, scheduled |-> FALSE, age |-> 0, host |-> NULL]
InsertWorkflowRun(r, w) == InsertRun(r, PendingRun(w))
SystemInsertWorkflowRun(r, w) == InsertRun(r, [PendingRun(w) EXCEPT !.scheduled = TRUE])

InsertWorkflow(w, a, trigger, s) ==
  flow' = [flow EXCEPT ![w] = [there |-> TRUE, agent |-> a, trigger |-> trigger,
                               cron |-> s.cron, next |-> s.next, active |-> TRUE]]

DeactivateWorkflow(w) ==
  /\ flow[w].active
  /\ flow' = [flow EXCEPT ![w].active = FALSE]

NameTaken(n) == \E a \in Agents : agent[a].active /\ agent[a].name = n

\* The insert gives way to an active agent of the same name; a rename meets
\* the same partial unique index.
InsertAgent(a, n) ==
  /\ ~NameTaken(n)
  /\ agent' = [agent EXCEPT ![a] = [there |-> TRUE, name |-> n, active |-> TRUE]]

RenameAgent(a, n) ==
  /\ agent[a].active /\ n # agent[a].name => ~NameTaken(n)
  /\ agent' = [agent EXCEPT ![a].name = n]

DeactivateAgent(a) ==
  /\ agent[a].active
  /\ agent' = [agent EXCEPT ![a].active = FALSE]

GetActiveKeyByOrgIDAndProvider(k) == k \in org.keys
Preflight ==
  /\ ~org.paused
  /\ org.provider # NULL /\ GetActiveKeyByOrgIDAndProvider(org.provider)

Validate(cron) == cron >= MinInterval

\* The schedule a trigger and a cron expression make, or none if refused.
computeSchedule(trigger, cron) ==
  IF trigger # "scheduled" THEN {[cron |-> NoCron, next |-> Never]}
  ELSE IF cron # NoCron /\ Validate(cron) THEN {[cron |-> cron, next |-> cron]}
  ELSE {}

-----------------------------------------------------------------------------
\* Console requests that are one transaction: POST, PATCH and DELETE of
\* /agents, POST and DELETE of /workflows.

Edit ==
  /\ used.edits < MaxEdits
  /\ used' = [used EXCEPT !.edits = @ + 1]

CreateAgent(a, n) ==
  /\ ~agent[a].there
  /\ CountActiveAgents < MaxAgents
  /\ InsertAgent(a, n)
  /\ UNCHANGED <<org, flow, run, holder, tick, call, early, used>>

UpdateAgent(a, n) ==
  /\ Edit
  /\ agent[a].there
  /\ RenameAgent(a, n)
  /\ UNCHANGED <<org, flow, run, holder, tick, call, early>>

\* The workflows of the agent stay as they are.
DeleteAgent(a) ==
  /\ Edit
  /\ DeactivateAgent(a)
  /\ UNCHANGED <<org, flow, run, holder, tick, call, early>>

Create(w, a, trigger, cron) ==
  /\ ~flow[w].there
  /\ ~WorkflowLimitReached
  /\ ValidateAgentForOrg(a)
  /\ \E s \in computeSchedule(trigger, cron) : InsertWorkflow(w, a, trigger, s)
  /\ UNCHANGED <<org, agent, run, holder, tick, call, early, used>>

\* A write waits for the row's lock.
Delete(w) ==
  /\ Edit
  /\ w \in ListWorkflows /\ holder[w] = NULL
  /\ DeactivateWorkflow(w)
  /\ UNCHANGED <<org, agent, run, holder, tick, call, early>>

\* The kill switch and the organisation itself go and come back.
ChangeOrg ==
  /\ Edit
  /\ \E f \in {"paused", "active"} : org' = [org EXCEPT ![f] = ~@]
  /\ UNCHANGED <<agent, flow, run, holder, tick, call, early>>

UpsertAPIKey(k) == org.keys \cup {k}
SetOrganizationActiveApiKey(k) == [org EXCEPT !.keys = UpsertAPIKey(k), !.provider = k]

\* A key the provider accepts: its provider becomes the active one.
SubmitAPIKey(k) ==
  /\ Edit
  /\ org' = SetOrganizationActiveApiKey(k)
  /\ UNCHANGED <<agent, flow, run, holder, tick, call, early>>

DeactivateKeyByProvider(k) == org.keys \ {k}
ClearOrganizationActiveApiKeyForProvider(k) == IF org.provider = k THEN NULL ELSE org.provider

DeleteAPIKey(k) ==
  /\ Edit
  /\ org' = [org EXCEPT !.keys = DeactivateKeyByProvider(k),
                        !.provider = ClearOrganizationActiveApiKeyForProvider(k)]
  /\ UNCHANGED <<agent, flow, run, holder, tick, call, early>>

-----------------------------------------------------------------------------
\* PATCH /workflows reads the row and writes it in one transaction, without
\* a lock in between.

ReachesLimit(w, edit) ==
  edit.active = "on" /\ ~flow[w].active /\ WorkflowLimitReached

\* What the trigger and the cron expression will be: the request's, else the
\* row's.
Effective(w, edit) ==
  [edit EXCEPT !.trigger = IF @ = NULL THEN flow[w].trigger ELSE @,
               !.cron = IF @ = NoCron THEN flow[w].cron ELSE @]

UpdateRead(c, w, edit) ==
  /\ Edit
  /\ call[c] = IdleCall
  /\ w \in ListWorkflows
  /\ ~ReachesLimit(w, edit)
  /\ computeSchedule(Effective(w, edit).trigger, Effective(w, edit).cron) # {}
  /\ call' = [call EXCEPT ![c] = [pc |-> "write", flow |-> w, edit |-> Effective(w, edit)]]
  /\ UNCHANGED <<org, agent, flow, run, holder, tick, early>>

\* The columns taken one by one, each kept when the request leaves it out.
UpdateByColumn(w, edit, s) ==
  [flow[w] EXCEPT !.trigger = edit.trigger,
                  !.cron = IF s.cron = NoCron THEN @ ELSE s.cron,
                  !.next = IF s.next = Never THEN @ ELSE s.next,
                  !.active = IF edit.active = NULL THEN @ ELSE edit.active = "on"]
UpdateWorkflow(w, edit, s) ==
  [flow[w] EXCEPT !.trigger = edit.trigger, !.cron = s.cron, !.next = s.next,
                  !.active = IF edit.active = NULL THEN @ ELSE edit.active = "on"]

UpdateWrite(c) ==
  /\ call[c].pc = "write"
  /\ LET w == call[c].flow
         edit == call[c].edit
     IN  /\ holder[w] = NULL
         /\ \E s \in computeSchedule(edit.trigger, edit.cron) :
              flow' = [flow EXCEPT ![w] = UpdateWorkflow(w, edit, s)]
  /\ call' = [call EXCEPT ![c] = IdleCall]
  /\ UNCHANGED <<org, agent, run, holder, tick, early, used>>

-----------------------------------------------------------------------------
\* POST /workflows/:id/run.  Its reads and its insert are statements of one
\* transaction, and nothing keeps other transactions from between them.

Go(c, from, to, ok) ==
  /\ call[c].pc = from
  /\ call' = [call EXCEPT ![c] = IF ok THEN [@ EXCEPT !.pc = to] ELSE IdleCall]

\* Preflight comes before the transaction.
RunNow(c, w) ==
  /\ call[c] = IdleCall
  /\ w \in ListWorkflows
  /\ Preflight
  /\ call' = [call EXCEPT ![c] = [pc |-> "read", flow |-> w]]
  /\ UNCHANGED <<org, agent, flow, run, holder, tick, early, used>>

RunRead(c) ==
  /\ Go(c, "read", "validate", flow[call[c].flow].active)
  /\ UNCHANGED <<org, agent, flow, run, holder, tick, early, used>>

RunValidate(c) ==
  /\ Go(c, "validate", "count", ValidateAgentForOrg(flow[call[c].flow].agent))
  /\ UNCHANGED <<org, agent, flow, run, holder, tick, early, used>>

RunCount(c) ==
  /\ Go(c, "count", "insert", CountActiveRuns < MaxActive)
  /\ UNCHANGED <<org, agent, flow, run, holder, tick, early, used>>

RunInsert(c, r) ==
  /\ call[c].pc = "insert"
  /\ InsertWorkflowRun(r, call[c].flow)
  /\ call' = [call EXCEPT ![c] = [pc |-> "launch", flow |-> @.flow, run |-> r]]
  /\ UNCHANGED <<org, agent, flow, holder, tick, early, used>>

HostOn(r, p) == run' = [run EXCEPT ![r] = IF @ = NoRun THEN @ ELSE [@ EXCEPT !.host = p]]

RunLaunch(c, p) ==
  /\ call[c].pc = "launch"
  /\ HostOn(call[c].run, p)
  /\ call' = [call EXCEPT ![c] = IdleCall]
  /\ UNCHANGED <<org, agent, flow, holder, tick, early, used>>

-----------------------------------------------------------------------------
\* The scheduler of a process: every minute, and once when it starts.

IsStale(r) == InFlight(r) /\ run[r].status \in {"pending", "running"} /\ run[r].age > Stale

\* A tick reaps stale runs and lists the due workflows; the two statements
\* are about different tables, and are one step here.
ReapStaleRuns == run' = [r \in Runs |-> IF IsStale(r) THEN NoRun ELSE run[r]]

Tick(p) ==
  /\ tick[p].pc = "idle"
  /\ ReapStaleRuns
  /\ tick' = [tick EXCEPT ![p] =
       [pc |-> "next",
        due |-> {[flow |-> w, cron |-> flow[w].cron] : w \in ListDueScheduledWorkflows}]]
  /\ UNCHANGED <<org, agent, flow, holder, call, early, used>>

\* fireWorkflow's claim: another process may have the row, or the slot may
\* be gone, and then the workflow is passed over.
Claim(p) ==
  /\ tick[p].pc = "next"
  /\ IF tick[p].due = {}
     THEN tick' = [tick EXCEPT ![p] = IdleTick] /\ UNCHANGED holder
     ELSE \E d \in tick[p].due :
            IF ClaimDueScheduledWorkflow(d.flow)
            THEN /\ holder' = [holder EXCEPT ![d.flow] = p]
                 /\ tick' = [tick EXCEPT ![p] =
                      [pc |-> "preflight", due |-> @.due \ {d}, flow |-> d.flow,
                       next |-> d.cron, run |-> NULL]]
            ELSE tick' = [tick EXCEPT ![p].due = @ \ {d}] /\ UNCHANGED holder
  /\ UNCHANGED <<org, agent, flow, run, call, early, used>>

\* A lookup that fails rolls back and leaves the workflow due.
FireFails(p) ==
  /\ tick[p].pc \in {"preflight", "inFlight"}
  /\ holder' = [holder EXCEPT ![tick[p].flow] = NULL]
  /\ tick' = [tick EXCEPT ![p] = [pc |-> "next", due |-> @.due]]
  /\ UNCHANGED <<org, agent, flow, run, call, early, used>>

FirePreflight(p) ==
  /\ tick[p].pc = "preflight"
  /\ tick' = [tick EXCEPT ![p].pc = IF Preflight THEN "inFlight" ELSE "skip"]
  /\ UNCHANGED <<org, agent, flow, run, holder, call, early, used>>

FireLook(p) ==
  /\ tick[p].pc = "inFlight"
  /\ tick' = [tick EXCEPT ![p].pc = IF HasInFlightRun(tick[p].flow) THEN "skip" ELSE "insert"]
  /\ UNCHANGED <<org, agent, flow, run, holder, call, early, used>>

\* UpdateWorkflowNextRunAt becomes visible when the transaction commits.
UpdateWorkflowNextRunAt(p) ==
  LET w == tick[p].flow
  IN  /\ flow' = [flow EXCEPT ![w].next = tick[p].next]
      /\ early' = (early \/ ~Waiting(w))
      /\ holder' = [holder EXCEPT ![w] = NULL]

\* A skipped slot still moves the schedule on.
FireSkip(p) ==
  /\ tick[p].pc = "skip"
  /\ UpdateWorkflowNextRunAt(p)
  /\ tick' = [tick EXCEPT ![p] = [pc |-> "next", due |-> @.due]]
  /\ UNCHANGED <<org, agent, run, call, used>>

\* The run row and the next slot commit together.
FireInsert(p, r) ==
  /\ tick[p].pc = "insert"
  /\ SystemInsertWorkflowRun(r, tick[p].flow)
  /\ UpdateWorkflowNextRunAt(p)
  /\ tick' = [tick EXCEPT ![p].pc = "launch", ![p].run = r]
  /\ UNCHANGED <<org, agent, call, used>>

FireLaunch(p) ==
  /\ tick[p].pc = "launch"
  /\ HostOn(tick[p].run, p)
  /\ tick' = [tick EXCEPT ![p] = [pc |-> "next", due |-> @.due]]
  /\ UNCHANGED <<org, agent, flow, holder, call, early, used>>

Fire(p) ==
  \/ Claim(p) \/ FirePreflight(p) \/ FireLook(p) \/ FireSkip(p) \/ FireLaunch(p)
  \/ \E r \in Runs : FireInsert(p, r)

-----------------------------------------------------------------------------
\* What drives a run, seen from its row (RunLifecycle has the detail).

Hosted(r) == InFlight(r) /\ run[r].host # NULL

\* markRunStarted and every checkpoint touch the row; a run may stop for an
\* approval and then has no goroutine.
Advance(r) ==
  /\ Hosted(r)
  /\ \E s \in {"running", "awaiting_approval"} :
       run' = [run EXCEPT ![r].status = s, ![r].age = 0,
                          ![r].host = IF s = "running" THEN @ ELSE NULL]
  /\ UNCHANGED <<org, agent, flow, holder, tick, call, early, used>>

Finish(r) ==
  /\ Hosted(r)
  /\ run' = [run EXCEPT ![r] = NoRun]
  /\ UNCHANGED <<org, agent, flow, holder, tick, call, early, used>>

\* The approval is decided, or it expires and the run is failed.
Decide(r) ==
  /\ InFlight(r) /\ run[r].status = "awaiting_approval"
  /\ \/ run' = [run EXCEPT ![r] = NoRun]
     \/ \E p \in Procs : run' = [run EXCEPT ![r].status = "running", ![r].age = 0, ![r].host = p]
  /\ UNCHANGED <<org, agent, flow, holder, tick, call, early, used>>

\* A minute or more passes.  A firing transaction is over well within one.
Time ==
  /\ \A w \in Flows : holder[w] = NULL
  /\ flow' = [w \in Flows |->
       [flow[w] EXCEPT !.next = IF @ \in {Never, 0} THEN @ ELSE @ - 1]]
  /\ run' = [r \in Runs |->
       IF InFlight(r) /\ run[r].age <= Stale THEN [run[r] EXCEPT !.age = @ + 1] ELSE run[r]]
  /\ UNCHANGED <<org, agent, holder, tick, call, early, used>>

\* A process dies with its goroutines and its open transaction, and starts
\* again: the first tick is immediate.
Crash(p) ==
  /\ used.crashes < MaxCrashes
  /\ used' = [used EXCEPT !.crashes = @ + 1]
  /\ tick' = [tick EXCEPT ![p] = IdleTick]
  /\ holder' = [w \in Flows |-> IF holder[w] = p THEN NULL ELSE holder[w]]
  /\ run' = [r \in Runs |->
       IF InFlight(r) /\ run[r].host = p THEN [run[r] EXCEPT !.host = NULL] ELSE run[r]]
  /\ \E cut \in SUBSET Callers :
       call' = [c \in Callers |-> IF c \in cut THEN IdleCall ELSE call[c]]
  /\ UNCHANGED <<org, agent, flow, early>>

Requests ==
  \/ \E a \in Agents : DeleteAgent(a) \/ \E n \in Names : CreateAgent(a, n) \/ UpdateAgent(a, n)
  \/ \E w \in Flows : Delete(w)
  \/ \E w \in Flows, a \in Agents, t \in Triggers, p \in Periods \cup {NoCron} : Create(w, a, t, p)
  \/ ChangeOrg
  \/ \E k \in Providers : SubmitAPIKey(k) \/ DeleteAPIKey(k)
  \/ \E c \in Callers, w \in Flows : RunNow(c, w) \/ \E edit \in Edits : UpdateRead(c, w, edit)

Handler(c) ==
  \/ UpdateWrite(c) \/ RunRead(c) \/ RunValidate(c) \/ RunCount(c)
  \/ \E r \in Runs : RunInsert(c, r)
  \/ \E p \in Procs : RunLaunch(c, p)

Next ==
  \/ Requests \/ Time
  \/ \E c \in Callers : Handler(c)
  \/ \E p \in Procs : Tick(p) \/ Fire(p) \/ FireFails(p) \/ Crash(p)
  \/ \E r \in Runs : Advance(r) \/ Finish(r) \/ Decide(r)

Spec == Init /\ [][Next]_vars

-----------------------------------------------------------------------------
\* Trigger, cron expression and next firing are one unit in every row, however
\* updates and firings interleave (handler.go: "one coupled unit").
ScheduleIsCoupled ==
  \A w \in Flows :
    /\ flow[w].trigger = "scheduled" <=> flow[w].cron # NoCron
    /\ flow[w].trigger = "scheduled" <=> flow[w].next # Never

\* With any number of processes ticking, the schedule never starts a run while
\* one it started is in flight, and never fires a slot that is not due or was
\* paused meanwhile (workflows.sql: "a slot never fires twice").
SlotsFireOnce ==
  /\ ~early
  /\ \A r, s \in Runs :
       InFlight(r) /\ InFlight(s) /\ run[r].scheduled /\ run[s].scheduled
         /\ run[r].flow = run[s].flow => r = s
=============================================================================
