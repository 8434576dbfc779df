------------------------------ MODULE SopLibrary ------------------------------
(***************************************************************************)
(* One playbook of a practice's SOP library and its deployments into the   *)
(* client workspaces.  Every edit of it is a new version; a deployment     *)
(* renders one version, with the client's own overrides, onto an agent     *)
(* and perhaps a workflow of the client's, and records which.  Requests    *)
(* read the playbook and the deployment first and write in a transaction   *)
(* later, so what they render may be old by then.                          *)
(***************************************************************************)
EXTENDS Naturals, Sequences

CONSTANTS
  Workspaces,
  Procs,                   \* requests at work
  Texts,                   \* what an agent's prompt or a workflow's task may say
  Params,                  \* the keys a text may have as {{key}}
  Uses,                    \* by text: the keys it has
  Approval,                \* the override of requires_approval
  MaxOps                   \* bound: requests begun and the clients' own edits

ASSUME TextsAssumption == Uses \in [Texts -> SUBSET Params]
ASSUME ApprovalAssumption == Approval \notin Params

VARIABLES
  sop,       \* the playbook's row
  versions,  \* its versions' rows, by number
  deps,      \* the deployments' rows, each with the agent it made
  flows,     \* the workflows they made
  proc,      \* each request: its handler and what it has read
  ops

vars == <<sop, versions, deps, flows, proc, ops>>

Nothing == "nothing"
Edited == [text |-> "edited by the client", own |-> {}]
Idle == [pc |-> "idle"]

Specs == [agent : Texts, workflow : Texts \cup {Nothing}, parameters : SUBSET Params]
Overrides == SUBSET (Params \cup {Approval})
Ids(rows) == DOMAIN rows

\* Every {{key}} of a valid text is declared.
UsedBy(spec) == Uses[spec.agent] \cup IF spec.workflow = Nothing THEN {} ELSE Uses[spec.workflow]
Validate(spec) == UsedBy(spec) \subseteq spec.parameters

ValidateOverrides(spec, o) ==
  /\ o \ {Approval} \subseteq spec.parameters
  /\ Approval \in o => spec.workflow # Nothing

\* What one client gets: the text and the keys that have the client's value
\* and not the default.  An override the spec has no place for is ignored.
Fill(spec, t, o) == [text |-> t, own |-> Uses[t] \cap spec.parameters \cap o]
RenderAgent(spec, o) == Fill(spec, spec.agent, o)
RenderWorkflow(spec, o) ==
  LET w == Fill(spec, spec.workflow, o)
  IN  [w EXCEPT !.own = @ \cup (o \cap {Approval})]

Init ==
  /\ sop = [status |-> "none"]
  /\ versions = <<>> /\ deps = <<>> /\ flows = <<>>
  /\ proc = [p \in Procs |-> Idle]
  /\ ops = 0

Happens == ops < MaxOps /\ ops' = ops + 1
Becomes(p, state) == proc' = [proc EXCEPT ![p] = state]
Ends(p) == Becomes(p, Idle)

-----------------------------------------------------------------------------
\* The library.

InsertSopPlaybookVersion(spec) == versions' = Append(versions, spec)

\* From a configuration of the request's or from an agent of the practice's.
CreateSop(spec) ==
  /\ sop.status = "none" /\ Validate(spec) /\ Happens
  /\ sop' = [status |-> "active", version |-> 1, spec |-> spec]
  /\ InsertSopPlaybookVersion(spec)
  /\ UNCHANGED <<deps, flows, proc>>

GetSopPlaybook == sop.status = "active"
\* Every handler of a playbook begins with its row.
loadSop(p, handler) ==
  /\ GetSopPlaybook /\ proc[p] = Idle /\ Happens
  /\ Becomes(p, [pc |-> handler, row |-> sop])
  /\ UNCHANGED <<sop, versions, deps, flows>>

\* A patch names some parts of the spec; the others stay as they were read.
Patched(spec) ==
  {[spec EXCEPT !.agent = t] : t \in Texts}
    \cup {[spec EXCEPT !.workflow = t] : t \in Texts \cup {Nothing}}
    \cup {[spec EXCEPT !.parameters = P] : P \in SUBSET Params}

BumpVersionForAgentOnly(spec) ==
  sop' = [sop EXCEPT !.version = @ + (IF spec.agent = sop.spec.agent THEN 0 ELSE 1), !.spec = spec]
BumpSopPlaybookVersion(spec) == sop' = [sop EXCEPT !.version = @ + 1, !.spec = spec]

UpdateSop(p) ==
  /\ proc[p].pc = "UpdateSop"
  /\ sop.status = "active"
  /\ \E next \in Patched(proc[p].row.spec) \ {proc[p].row.spec} :
       /\ Validate(next)
       /\ BumpSopPlaybookVersion(next)
       /\ InsertSopPlaybookVersion(next)
  /\ Ends(p)
  /\ UNCHANGED <<deps, flows, ops>>

DeactivateSopPlaybook == sop' = [sop EXCEPT !.status = "deleted"]
DetachSopDeployments == deps' = [d \in Ids(deps) |-> [deps[d] EXCEPT !.state = IF @ = "active" THEN "detached" ELSE @]]

DeleteSop(p) ==
  /\ proc[p].pc = "DeleteSop"
  /\ DeactivateSopPlaybook
  /\ DetachSopDeployments
  /\ Ends(p)
  /\ UNCHANGED <<versions, flows, ops>>

-----------------------------------------------------------------------------
\* Deployments.

HasActiveSopDeployment(w) == \E d \in Ids(deps) : deps[d].workspace = w /\ deps[d].state = "active"

insertWorkflow(d, config) == Append(flows, [of |-> d, active |-> TRUE, config |-> config])
insertAgent(config) == [active |-> TRUE, config |-> config]

InsertSopDeployment(w, row, o, flow) ==
  deps' = Append(deps, [workspace |-> w, version |-> row.version, overrides |-> o, workflow |-> flow,
                        agent |-> insertAgent(RenderAgent(row.spec, o)), state |-> "active"])

DeploySop(p) ==
  LET row == proc[p].row
  IN  /\ proc[p].pc = "DeploySop"
      /\ \E w \in Workspaces, o \in Overrides :
           /\ ~HasActiveSopDeployment(w)
           /\ ValidateOverrides(row.spec, o)
           /\ IF row.spec.workflow = Nothing
              THEN InsertSopDeployment(w, row, o, 0) /\ UNCHANGED flows
              ELSE /\ flows' = insertWorkflow(Len(deps) + 1, RenderWorkflow(row.spec, o))
                   /\ InsertSopDeployment(w, row, o, Len(flows'))
      /\ Ends(p)
      /\ UNCHANGED <<sop, versions, ops>>

GetSopDeployment(d) == deps[d].state = "active"
DeploymentHandlers == {"SyncSopDeployment", "UpdateSopDeployment", "UndeploySop"}

\* The deployment's row, read after the playbook's and before the transaction.
loadDeployment(p, d) ==
  /\ proc[p].pc \in DeploymentHandlers /\ "id" \notin DOMAIN proc[p]
  /\ GetSopDeployment(d)
  /\ Becomes(p, [pc |-> proc[p].pc, row |-> proc[p].row, id |-> d, read |-> deps[d]])
  /\ UNCHANGED <<sop, versions, deps, flows, ops>>

SyncSopWorkflow(f, config) == flows' = [flows EXCEPT ![f].config = config]
PauseSopWorkflow(f) == flows' = [flows EXCEPT ![f].active = FALSE]

SyncSopAgent(d, config) == [deps[d].agent EXCEPT !.config = config]
MarkSopDeploymentSynced(d, agent, version, o, flow) ==
  deps' = [deps EXCEPT ![d].agent = agent, ![d].version = version, ![d].overrides = o,
                       ![d].workflow = flow]

\* Renders onto the rows the deployment had when it was read.  The agent's row
\* comes first: without it the transaction ends, and its lock orders the rest.
applyDeployment(d, read, version, spec, o) ==
  LET agent == SyncSopAgent(d, RenderAgent(spec, o))
      Marked(flow) == MarkSopDeploymentSynced(d, agent, version, o, flow)
      old == read.workflow
  IN  /\ deps[d].agent.active
      /\ \/ /\ spec.workflow # Nothing /\ old # 0
            /\ SyncSopWorkflow(old, RenderWorkflow(spec, o)) /\ Marked(old)
         \/ /\ spec.workflow # Nothing /\ old = 0
            /\ flows' = insertWorkflow(d, RenderWorkflow(spec, o)) /\ Marked(Len(flows'))
         \/ /\ spec.workflow = Nothing /\ old # 0
            /\ PauseSopWorkflow(old) /\ Marked(0)
         \/ /\ spec.workflow = Nothing /\ old = 0
            /\ Marked(0) /\ UNCHANGED flows

Loaded(p, handler) == proc[p].pc = handler /\ "id" \in DOMAIN proc[p]

\* The version read with the playbook, with the overrides of the deployment.
SyncSopDeployment(p) ==
  LET r == proc[p]
  IN  /\ Loaded(p, "SyncSopDeployment")
      /\ applyDeployment(r.id, r.read, r.row.version, r.row.spec, r.read.overrides)
      /\ Ends(p)
      /\ UNCHANGED <<sop, versions, ops>>

UpdateWithCurrentSpec(p) ==
  LET r == proc[p]
  IN  /\ Loaded(p, "UpdateSopDeployment")
      /\ \E o \in Overrides :
           /\ ValidateOverrides(r.row.spec, o)
           /\ applyDeployment(r.id, r.read, r.read.version, r.row.spec, o)
      /\ Ends(p)
      /\ UNCHANGED <<sop, versions, ops>>
GetSopPlaybookVersion(v) == versions[v]
\* Other overrides, on the version the deployment had when it was read.
UpdateSopDeployment(p) ==
  LET r == proc[p]
      spec == GetSopPlaybookVersion(r.read.version)
  IN  /\ Loaded(p, "UpdateSopDeployment")
      /\ \E o \in Overrides :
           /\ ValidateOverrides(spec, o)
           /\ applyDeployment(r.id, r.read, r.read.version, spec, o)
      /\ Ends(p)
      /\ UNCHANGED <<sop, versions, ops>>

DeactivateSopAgent(d) == [deps[d].agent EXCEPT !.active = FALSE]
DeactivateSopDeployment(d) ==
  deps' = [deps EXCEPT ![d].agent = DeactivateSopAgent(d),
                       ![d].state = IF @ = "active" THEN "removed" ELSE @]

UndeploySop(p) ==
  LET r == proc[p]
  IN  /\ Loaded(p, "UndeploySop")
      /\ IF r.read.workflow = 0 THEN UNCHANGED flows ELSE PauseSopWorkflow(r.read.workflow)
      /\ DeactivateSopDeployment(r.id)
      /\ Ends(p)
      /\ UNCHANGED <<sop, versions, ops>>

\* A refusal (a plan limit, a name that is taken, an agent the client removed)
\* or a failure: the transaction rolls back.
Fails(p) ==
  /\ proc[p] # Idle
  /\ Ends(p)
  /\ UNCHANGED <<sop, versions, deps, flows, ops>>

-----------------------------------------------------------------------------
\* The client's own agents and workflows pages know nothing of the library.

UpdateAgent(d) ==
  /\ deps[d].agent.active /\ Happens
  /\ deps' = [deps EXCEPT ![d].agent.config = Edited]
  /\ UNCHANGED <<sop, versions, flows, proc>>

DeactivateAgent(d) ==
  /\ deps[d].agent.active /\ Happens
  /\ deps' = [deps EXCEPT ![d].agent.active = FALSE]
  /\ UNCHANGED <<sop, versions, flows, proc>>

UpdateWorkflow(f) ==
  /\ Happens
  /\ \/ flows' = [flows EXCEPT ![f].config = Edited]
     \/ PauseSopWorkflow(f)
  /\ UNCHANGED <<sop, versions, deps, proc>>

-----------------------------------------------------------------------------
Next ==
  \/ \E spec \in Specs : CreateSop(spec)
  \/ \E p \in Procs :
       \/ \E h \in {"UpdateSop", "DeleteSop", "DeploySop"} \cup DeploymentHandlers : loadSop(p, h)
       \/ \E d \in Ids(deps) : loadDeployment(p, d)
       \/ UpdateSop(p) \/ DeleteSop(p) \/ DeploySop(p)
       \/ SyncSopDeployment(p) \/ UpdateSopDeployment(p) \/ UndeploySop(p) \/ Fails(p)
  \/ \E d \in Ids(deps) : UpdateAgent(d) \/ DeactivateAgent(d)
  \/ \E f \in Ids(flows) : UpdateWorkflow(f)

Spec == Init /\ [][Next]_vars

-----------------------------------------------------------------------------
TypeOK ==
  /\ sop.status \in {"none", "active", "deleted"}
  /\ sop.status # "none" => sop.version \in Ids(versions) /\ sop.spec \in Specs
  /\ \A v \in Ids(versions) : versions[v] \in Specs
  /\ \A d \in Ids(deps) :
       /\ deps[d].workspace \in Workspaces /\ deps[d].version \in Ids(versions)
       /\ deps[d].overrides \in Overrides /\ deps[d].workflow \in {0} \cup Ids(flows)
       /\ deps[d].state \in {"active", "detached", "removed"}
  /\ \A f \in Ids(flows) : flows[f].of \in Ids(deps) /\ flows[f].active \in BOOLEAN
  /\ ops \in 0 .. MaxOps

\* Is what the deployment's rows hold, the client's own edits aside, what this
\* spec with its overrides renders?
Holds(d, spec) ==
  LET r == deps[d]
  IN  /\ r.agent.config \in {Edited, RenderAgent(spec, r.overrides)}
      /\ (r.workflow # 0) = (spec.workflow # Nothing)
      /\ r.workflow # 0 => flows[r.workflow].config \in {Edited, RenderWorkflow(spec, r.overrides)}

\* The version and the overrides a deployment's row records are those its agent
\* and its workflow were rendered from, whatever syncs, changes of overrides and
\* edits of the playbook overlapped: applyDeployment writes the three rows from
\* one reading, in one transaction that the agent's row orders.
RowsMatchTheRecord == \A d \in Ids(deps) : Holds(d, versions[deps[d].version])

ListSopDeployments == {d \in Ids(deps) : deps[d].state = "active"}
deploymentStatus(d) ==
  IF ~deps[d].agent.active THEN "broken"
  ELSE IF deps[d].version < sop.version THEN "update_available" ELSE "up_to_date"

\* A deployment the library lists as up to date holds what the playbook says
\* now: no edit of the playbook, not the one of two that was read before the
\* other was written, goes without a version that deployments then lag behind.
UpToDateIsCurrent ==
  \A d \in ListSopDeployments : deploymentStatus(d) = "up_to_date" => Holds(d, sop.spec)

\* Not so (see the README): that a workflow a deployment no longer has is
\* paused, that an undeployed one is, that a deleted playbook manages nothing,
\* and that only a sync moves a deployment to another version.
DroppedIsPaused ==
  \A f \in Ids(flows) : flows[f].active => deps[flows[f].of].workflow = f
UndeployStops ==
  \A f \in Ids(flows) : deps[flows[f].of].state = "removed" => ~flows[f].active
ListSopManagedResources(w) == {d \in Ids(deps) : deps[d].state = "active" /\ deps[d].workspace = w}
DeletedManagesNothing ==
  sop.status = "deleted" => \A w \in Workspaces : ListSopManagedResources(w) = {}
OverridesKeepTheVersion ==
  [][\A p \in Procs, d \in Ids(deps) :
       Loaded(p, "UpdateSopDeployment") /\ proc'[p] = Idle => deps'[d].version = deps[d].version]_vars
===============================================================================
