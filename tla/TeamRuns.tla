------------------------------ MODULE TeamRuns -------------------------------
(***************************************************************************)
(* Teams of agents: their rows, the orchestrator's run, and the HTTP calls *)
(* by which it delegates one task to a specialist and waits for it.  The   *)
(* orchestrator's goroutine and the request that runs a specialist may be  *)
(* in different processes, each of which can die; the connection between   *)
(* them carries the answer one way and the cancellation the other.         *)
(* What either run does inside is RunLifecycle's subject, and which events *)
(* reach a viewer of the team run is EventStream's.                        *)
(***************************************************************************)
EXTENDS Delegation, Naturals, FiniteSets, Functions

CONSTANTS
  Agents, Roles, Teams,
  MaxTeams, MaxActive,
  MaxEdits, MaxDeaths   \* bounds

ASSUME LimitsAssumption == {MaxTeams, MaxActive, MaxEdits, MaxDeaths} \subseteq Nat
ASSUME IdsAssumption == Leads \cap Tasks = {}
ASSUME SomeAssumption == {} \notin {Agents, Roles, Teams, Leads}

VARIABLES
  active,   \* the active agents
  team,     \* agent_teams rows with their members and companion workflow
  used      \* how much of each bound is used up

vars == <<active, team, run, lead, task, server, used>>

None == "none"
NoTeam == [there |-> FALSE]

InFlightStatuses == {"pending", "running", "awaiting_approval"}
Statuses == InFlightStatuses \cup {None, "completed", "failed", "cancelled"}

Rosters == UNION {[rs -> Agents] : rs \in SUBSET Roles}
TeamRows == [there: {TRUE}, active: BOOLEAN, orchestrator: Agents, members: Rosters,
             workflow: BOOLEAN]

LeadPCs == {None, "insert", "build", "decompose", "delegate", "gone"}
LeadStates == [pc: LeadPCs, team: Teams, members: Rosters, cancelled: BOOLEAN]
TaskStates == [pc: {None, "planned", "waiting", "done"}, lead: Leads, role: Roles,
               agent: Agents, result: {None, "completed", "failed"}]
\* open: the connection of the call is up, and so the request's context.
ServerStates == [pc: {None, "verify", "check", "insert", "build", "engine", "gone"},
                 open: BOOLEAN]

TypeOK ==
  /\ active \subseteq Agents
  /\ team \in [Teams -> TeamRows \cup {NoTeam}]
  /\ run \in [Leads \cup Tasks -> Statuses]
  /\ lead \in [Leads -> LeadStates]
  /\ task \in [Tasks -> TaskStates]
  /\ server \in [Tasks -> ServerStates]
  /\ used \in [edits: 0 .. MaxEdits, deaths: 0 .. MaxDeaths]

Init ==
  /\ active = Agents
  /\ team = [t \in Teams |-> NoTeam]
  /\ run = [r \in Leads \cup Tasks |-> None]
  /\ lead = [l \in Leads |-> [pc |-> None, team |-> CHOOSE t \in Teams : TRUE,
                             members |-> [q \in {} |-> None], cancelled |-> FALSE]]
  /\ task = [t \in Tasks |->
       [pc |-> None, lead |-> CHOOSE l \in Leads : TRUE, role |-> CHOOSE q \in Roles : TRUE,
        agent |-> CHOOSE a \in Agents : TRUE, result |-> None]]
  /\ server = [x \in Tasks |-> [pc |-> None, open |-> FALSE]]
  /\ used = [edits |-> 0, deaths |-> 0]

-----------------------------------------------------------------------------
\* Statements.

Live(t) == team[t].there /\ team[t].active

GetAgentTeam(t) == Live(t)
CountActiveAgentTeams == Cardinality({t \in Teams : Live(t)})
ListAgentTeamMembers(t) == team[t].members
GetTeamWorkflow(t) == team[t].workflow
ValidateAgentForTeamMembership(a) == a \in active
CountActiveRuns == Cardinality({l \in Leads : run[l] \in InFlightStatuses})

\* One row per role; an agent with two roles has one of them picked.
GetAgentTeamMemberRole(t, a) == {q \in DOMAIN team[t].members : team[t].members[q] = a}

InsertAgentTeam(t, a, members, workflow) ==
  team' = [team EXCEPT ![t] = [there |-> TRUE, active |-> TRUE, orchestrator |-> a,
                               members |-> members, workflow |-> workflow]]

DeactivateAgentTeam(t) ==
  /\ Live(t)
  /\ team' = [team EXCEPT ![t].active = FALSE]

SetStatus(r, s) == run' = [run EXCEPT ![r] = s]

-----------------------------------------------------------------------------
\* Teams.

\* The rows of the roles that were reached.
InsertAgentTeamMember(members, qs) == Restrict(members, qs)

\* POST /teams.  A member that is no active agent ends the transaction
\* function without an error, so that what was inserted before it commits.
InsertMembers(t, a, members) ==
  LET bad == {q \in DOMAIN members : ~ValidateAgentForTeamMembership(members[q])}
  IN  IF bad = {} THEN InsertAgentTeam(t, a, InsertAgentTeamMember(members, DOMAIN members), TRUE)
      ELSE \E before \in SUBSET (DOMAIN members \ bad) :
             InsertAgentTeam(t, a, InsertAgentTeamMember(members, before), FALSE)

Create(t, a, members) ==
  /\ ~team[t].there
  /\ DOMAIN members # {}
  /\ CountActiveAgentTeams < MaxTeams
  /\ ValidateAgentForTeamMembership(a)
  /\ InsertMembers(t, a, members)
  /\ UNCHANGED <<active, run, lead, task, server, used>>

Edit ==
  /\ used.edits < MaxEdits
  /\ used' = [used EXCEPT !.edits = @ + 1]

Delete(t) ==
  /\ Edit
  /\ DeactivateAgentTeam(t)
  /\ UNCHANGED <<active, run, lead, task, server>>

\* DELETE /agents (see Workflows).
DeleteAgent(a) ==
  /\ Edit
  /\ a \in active
  /\ active' = active \ {a}
  /\ UNCHANGED <<team, run, lead, task, server>>

\* POST /teams/:id/run: the reads of its transaction, then the insert, and
\* LaunchTeam with the roster that was read.
RunRead(l, t) ==
  /\ lead[l].pc = None
  /\ GetAgentTeam(t) /\ GetTeamWorkflow(t)
  /\ LET members == ListAgentTeamMembers(t)
     IN  /\ DOMAIN members # {}
         /\ \A a \in {team[t].orchestrator} \cup Range(members) : ValidateAgentForTeamMembership(a)
         /\ CountActiveRuns < MaxActive
         /\ lead' = [lead EXCEPT ![l] = [@ EXCEPT !.pc = "insert", !.team = t, !.members = members]]
  /\ UNCHANGED <<active, team, run, task, server, used>>

RunInsert(l) ==
  /\ lead[l].pc = "insert"
  /\ SetStatus(l, "pending")
  /\ lead' = [lead EXCEPT ![l].pc = "build"]
  /\ UNCHANGED <<active, team, task, server, used>>

-----------------------------------------------------------------------------
\* The orchestrator's goroutine.

Leave(l) == lead' = [lead EXCEPT ![l].pc = "gone"]

\* runTeam: what it needs cannot be had and the pending row is failed, or
\* the run is marked started; the planner node only hands over.
Build(l) ==
  /\ lead[l].pc = "build"
  /\ \/ SetStatus(l, "failed") /\ Leave(l)
     \/ SetStatus(l, "running") /\ lead' = [lead EXCEPT ![l].pc = "decompose"]
  /\ UNCHANGED <<active, team, task, server, used>>

Ended(l) == IF lead[l].cancelled THEN "cancelled" ELSE "failed"

\* The model names subtasks by role; those without a member are dropped, and
\* without any left, or without an answer, the run has failed.
memberForRole(l, q) == lead[l].members[q]

decomposeTask(l, ts, role) ==
  task' = [t \in Tasks |->
    IF t \in ts THEN [pc |-> "planned", lead |-> l, role |-> role[t],
                      agent |-> memberForRole(l, role[t]), result |-> None]
    ELSE task[t]]

Decompose(l) ==
  /\ lead[l].pc = "decompose"
  /\ \/ SetStatus(l, Ended(l)) /\ Leave(l) /\ UNCHANGED task
     \/ /\ ~lead[l].cancelled
        /\ \E ts \in (SUBSET {t \in Tasks : task[t].pc = None}) \ {{}} :
             \E role \in [ts -> DOMAIN lead[l].members] : decomposeTask(l, ts, role)
        /\ lead' = [lead EXCEPT ![l].pc = "delegate"]
        /\ UNCHANGED run
  /\ UNCHANGED <<active, team, server, used>>

Delegating(t) == lead[task[t].lead].pc = "delegate"

Result(t, r) == task' = [task EXCEPT ![t].pc = "done", ![t].result = r]
Cut(t) == server' = [server EXCEPT ![t].open = FALSE]

\* dispatchSubtask: each subtask in a goroutine of its own.
Dispatch(t) ==
  /\ task[t].pc = "planned" /\ Delegating(t)
  /\ IF lead[task[t].lead].cancelled
     THEN Result(t, "failed") /\ UNCHANGED server
     ELSE /\ task' = [task EXCEPT ![t].pc = "waiting"]
          /\ server' = [server EXCEPT ![t] = [pc |-> "verify", open |-> TRUE]]
  /\ UNCHANGED <<active, team, run, lead, used>>

\* The client gives up after ten minutes, or has lost its connection.
GiveUp(t) ==
  /\ task[t].pc = "waiting" /\ Delegating(t)
  /\ Result(t, "failed")
  /\ Cut(t)
  /\ UNCHANGED <<active, team, run, lead, used>>

\* The run is cancelled: its context ends every call it waits for.
Cancel(l) ==
  /\ Edit
  /\ lead[l].pc \in {"decompose", "delegate"} /\ ~lead[l].cancelled
  /\ lead' = [lead EXCEPT ![l].cancelled = TRUE]
  /\ task' = [t \in Tasks |->
       IF t \in Plan(l) /\ task[t].pc = "waiting"
       THEN [task[t] EXCEPT !.pc = "done", !.result = "failed"] ELSE task[t]]
  /\ server' = [t \in Tasks |-> IF t \in Plan(l) THEN [server[t] EXCEPT !.open = FALSE] ELSE server[t]]
  /\ UNCHANGED <<active, team, run>>

SomeAnswered(l) == \E t \in Plan(l) : task[t].pc = "done"
AllAnswered(l) == \A t \in Plan(l) : task[t].pc = "done"

\* g.Wait, then one more model call over every result.
Synthesize(l) ==
  /\ lead[l].pc = "delegate"
  /\ AllAnswered(l)
  /\ \/ SetStatus(l, Ended(l))
     \/ ~lead[l].cancelled /\ SetStatus(l, "completed")
  /\ Leave(l)
  /\ UNCHANGED <<active, team, task, server, used>>

-----------------------------------------------------------------------------
\* The request POST /a2a/agents/:id/tasks/send.

At(t, pc) == server[t].pc = pc
Step(t, pc) == server' = [server EXCEPT ![t].pc = pc]

\* The answer reaches a client that still waits.
Reply(t, r) ==
  /\ server' = [server EXCEPT ![t] = [pc |-> "gone", open |-> FALSE]]
  /\ IF task[t].pc = "waiting" /\ server[t].open THEN Result(t, r) ELSE UNCHANGED task

\* A token binds the agent, the run and the task the request names, and
\* outlives the client's patience; the preflight may refuse.
Verify(t) ==
  /\ At(t, "verify")
  /\ \/ Step(t, "check") /\ UNCHANGED task
     \/ Reply(t, "failed")
  /\ UNCHANGED <<active, team, run, lead, used>>

\* The dispatching run's team, its status, the agent's place on the roster.
MayDelegate(t) ==
  LET l == task[t].lead
  IN  /\ run[l] \in InFlightStatuses
      /\ GetAgentTeamMemberRole(lead[l].team, task[t].agent) # {}

Check(t) ==
  /\ At(t, "check")
  /\ IF MayDelegate(t) THEN Step(t, "insert") /\ UNCHANGED task ELSE Reply(t, "failed")
  /\ UNCHANGED <<active, team, run, lead, used>>

\* The task's id is the row's: a second request for it fails here.
Insert(t) ==
  /\ At(t, "insert")
  /\ \/ run[t] = None /\ SetStatus(t, "pending") /\ Step(t, "build") /\ UNCHANGED task
     \/ (run[t] # None \/ ~server[t].open) /\ Reply(t, "failed") /\ UNCHANGED run
  /\ UNCHANGED <<active, team, lead, used>>

\* RunSpecialist resolves what the run needs and marks it started; when that
\* fails it answers, and the row stays pending.
StartSpecialist(t) ==
  /\ At(t, "build")
  /\ \/ Reply(t, "failed") /\ UNCHANGED run
     \/ SetStatus(t, "running") /\ Step(t, "engine") /\ UNCHANGED task
  /\ UNCHANGED <<active, team, lead, used>>

\* The engine returns: over, cancelled with its caller, or suspended, which
\* is no error and is answered as completed.
RunSpecialist(t) ==
  /\ At(t, "engine")
  /\ \/ SetStatus(t, "completed") /\ Reply(t, "completed")
     \/ SetStatus(t, "awaiting_approval") /\ Reply(t, "completed")
     \/ SetStatus(t, IF server[t].open THEN "failed" ELSE "cancelled") /\ Reply(t, "failed")
  /\ UNCHANGED <<active, team, lead, used>>

\* The approval is decided or expires, long after the answer.
Decide(t) ==
  /\ run[t] = "awaiting_approval"
  /\ \E s \in {"completed", "failed"} : SetStatus(t, s)
  /\ UNCHANGED <<active, team, lead, task, server, used>>

-----------------------------------------------------------------------------
\* Deaths, and the reaper.

Dies ==
  /\ used.deaths < MaxDeaths
  /\ used' = [used EXCEPT !.deaths = @ + 1]

\* The orchestrator's process dies: nobody waits, the connections close.
LeadDies(l) ==
  /\ Dies
  /\ lead[l].pc \notin {None, "gone"}
  /\ Leave(l)
  /\ server' = [t \in Tasks |-> IF t \in Plan(l) THEN [server[t] EXCEPT !.open = FALSE] ELSE server[t]]
  /\ UNCHANGED <<active, team, run, task>>

ServerDies(t) ==
  /\ Dies
  /\ server[t].pc \notin {None, "gone"}
  /\ server' = [server EXCEPT ![t] = [pc |-> "gone", open |-> FALSE]]
  /\ UNCHANGED <<active, team, run, lead, task>>

Undriven(r) == IF r \in Leads THEN lead[r].pc = "gone" ELSE server[r].pc = "gone"
ReapableStarted(r) == run[r] = "running" /\ Undriven(r)
Reapable(r) == run[r] \in {"pending", "running"} /\ Undriven(r)

\* An hour after its last checkpoint (see Workflows) a run nothing drives is
\* failed.
Reap(r) ==
  /\ Reapable(r)
  /\ SetStatus(r, "failed")
  /\ UNCHANGED <<active, team, lead, task, server, used>>

-----------------------------------------------------------------------------
Lead(l) == RunInsert(l) \/ Build(l) \/ Decompose(l) \/ Synthesize(l)
Serve(t) == Verify(t) \/ Check(t) \/ Insert(t) \/ StartSpecialist(t) \/ RunSpecialist(t)

Next ==
  \/ \E t \in Teams, a \in Agents, members \in Rosters : Create(t, a, members)
  \/ \E t \in Teams : Delete(t) \/ \E l \in Leads : RunRead(l, t)
  \/ \E a \in Agents : DeleteAgent(a)
  \/ \E l \in Leads : Lead(l) \/ Cancel(l) \/ LeadDies(l)
  \/ \E t \in Tasks : Dispatch(t) \/ GiveUp(t) \/ Serve(t) \/ Decide(t) \/ ServerDies(t)
  \/ \E r \in Leads \cup Tasks : Reap(r)

\* A goroutine goes on, a call is answered or given up (a deadline on each),
\* the hourly reaper and the approval expiry come round; nothing makes a user
\* ask.
Spec ==
  /\ Init /\ [][Next]_vars
  /\ \A l \in Leads : WF_vars(Lead(l))
  /\ \A t \in Tasks : WF_vars(Dispatch(t)) /\ WF_vars(GiveUp(t)) /\ WF_vars(Serve(t)) /\ WF_vars(Decide(t))
  /\ \A r \in Leads \cup Tasks : WF_vars(Reap(r))

-----------------------------------------------------------------------------
\* Every run of a team ends, the specialists' too, whoever dies, hangs up or
\* suspends in between.
TeamRunsEnd == \A r \in Leads \cup Tasks : run[r] \in InFlightStatuses ~> run[r] \notin InFlightStatuses

\* A team has the companion workflow that its runs need ("Create builds a
\* team and its member roster in one transaction, plus the one companion
\* `workflows` row").
TeamsAreWhole == \A t \in Teams : team[t].there => team[t].workflow
=============================================================================
