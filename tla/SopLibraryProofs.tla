--------------------------- MODULE SopLibraryProofs ---------------------------
(***************************************************************************)
(* Proofs about SopLibrary: what a deployment's row records is what its    *)
(* agent and its workflow were rendered from, for any number of            *)
(* workspaces, requests at work, texts, parameters and operations.         *)
(***************************************************************************)
EXTENDS SopLibrary, TLAPS

-----------------------------------------------------------------------------
(* The inductive invariant.  That every row matches its record depends on  *)
(* what requests have read: a version that never changes, and a workflow   *)
(* that was made for the same deployment.                                  *)

NoSop == [status |-> "none"]
Handlers == {"UpdateSop", "DeleteSop", "DeploySop"} \cup DeploymentHandlers

SopRows == [status : {"active", "deleted"}, version : Nat, spec : Specs]
Configs == [text : Texts \cup {Nothing, Edited.text}, own : SUBSET (Params \cup {Approval})]
Agents == [active : BOOLEAN, config : Configs]
DepRows == [workspace : Workspaces, version : Nat, overrides : Overrides, workflow : Nat,
            agent : Agents, state : {"active", "detached", "removed"}]
FlowRows == [of : Nat, active : BOOLEAN, config : Configs]
Loads == [pc : Handlers, row : SopRows]
Deployings == [pc : DeploymentHandlers, row : SopRows, id : Nat, read : DepRows]

\* A workflow of deployment d's, or none.
OwnFlow(d, f) == f = 0 \/ (f \in Ids(flows) /\ flows[f].of = d)

\* The playbook is at its newest version.
SopInv ==
  \/ sop = NoSop /\ versions = <<>>
  \/ sop \in SopRows /\ sop.version = Len(versions) /\ sop.version # 0 /\ versions[sop.version] = sop.spec

Recorded(d) == deps[d].version \in Ids(versions) /\ OwnFlow(d, deps[d].workflow)
RowTypes == versions \in Seq(Specs) /\ deps \in Seq(DepRows) /\ flows \in Seq(FlowRows)
RowInv == RowTypes /\ \A d \in Ids(deps) : Recorded(d) /\ Holds(d, versions[deps[d].version])

\* What a request has read: a version as it was written, and of a deployment
\* the overrides and a workflow of its own.
ReadInv(r) ==
  \/ r = Idle
  \/ /\ r \in Loads \cup Deployings
     /\ r.row.version \in Ids(versions) /\ versions[r.row.version] = r.row.spec
     /\ r \in Deployings =>
          /\ r.id \in Ids(deps) /\ r.read.version \in Ids(versions)
          /\ OwnFlow(r.id, r.read.workflow)

ProcInv == proc \in [Procs -> {Idle} \cup Loads \cup Deployings] /\ \A p \in Procs : ReadInv(proc[p])

LibraryInv == SopInv /\ RowInv /\ ProcInv

LEMMA RenderType ==
  ASSUME NEW spec \in Specs, NEW o \in Overrides
  PROVE  RenderAgent(spec, o) \in Configs /\ RenderWorkflow(spec, o) \in Configs
BY DEF Specs, Overrides, RenderAgent, RenderWorkflow, Fill, Configs

LEMMA InvInit == Init => LibraryInv
BY DEF Init, LibraryInv, SopInv, RowInv, RowTypes, ProcInv, ReadInv, NoSop, Ids

\* What every step does to the rows: none goes, a version stays as it is
\* written and a workflow stays with its deployment.
RowsGrow ==
  /\ \A v \in Ids(versions) : v \in Ids(versions') /\ versions'[v] = versions[v]
  /\ Ids(deps) \subseteq Ids(deps')
  /\ \A f \in Ids(flows) : f \in Ids(flows') /\ flows'[f].of = flows[f].of

\* So what was read stays right.
LEMMA ReadStays ==
  ASSUME RowsGrow, NEW r, ReadInv(r)
  PROVE  ReadInv(r)'
<1>1. ASSUME r # Idle, r.row.version \in Ids(versions), versions[r.row.version] = r.row.spec
      PROVE  r.row.version \in Ids(versions') /\ versions'[r.row.version] = r.row.spec
  BY <1>1 DEF RowsGrow
<1>2. ASSUME r \in Deployings, r.id \in Ids(deps), r.read.version \in Ids(versions), OwnFlow(r.id, r.read.workflow)
      PROVE  r.id \in Ids(deps') /\ r.read.version \in Ids(versions') /\ OwnFlow(r.id, r.read.workflow)'
  BY <1>2 DEF RowsGrow, OwnFlow
<1> QED
  BY <1>1, <1>2 DEF ReadInv

LEMMA ProcStays ==
  ASSUME ProcInv, RowsGrow, NEW p \in Procs, NEW r \in {Idle} \cup Loads \cup Deployings,
         ReadInv(r), Becomes(p, r) \/ UNCHANGED proc
  PROVE  ProcInv'
<1>1. proc' \in [Procs -> {Idle} \cup Loads \cup Deployings]
  BY DEF ProcInv, Becomes
<1>2. \A q \in Procs : proc'[q] = proc[q] \/ proc'[q] = r
  BY DEF ProcInv, Becomes
<1>3. \A q \in Procs : ReadInv(proc[q])' 
  <2> SUFFICES ASSUME NEW q \in Procs PROVE ReadInv(proc[q])'
    OBVIOUS
  <2>1. PICK s : s = proc'[q]
    OBVIOUS
  <2>2. ReadInv(s)
    BY <1>2, <2>1 DEF ProcInv
  <2>3. ReadInv(s)'
    BY <2>2, ReadStays
  <2> QED
    BY <2>1, <2>3 DEF ReadInv, OwnFlow
<1> QED
  BY <1>1, <1>3 DEF ProcInv

-----------------------------------------------------------------------------
(* A deployment's rows are written.                                        *)

\* What a write of deployment d's row is to leave: a record that its agent's
\* configuration and its workflow's match.
Matches(r, spec) ==
  /\ r.agent.config \in {Edited, RenderAgent(spec, r.overrides)}
  /\ (r.workflow # 0) = (spec.workflow # Nothing)
FlowMatches(q, r, spec) == r.workflow # 0 => q[r.workflow].config \in {Edited, RenderWorkflow(spec, r.overrides)}

LEMMA HoldsMeans ==
  ASSUME NEW d, NEW spec
  PROVE  Holds(d, spec) <=> Matches(deps[d], spec) /\ FlowMatches(flows, deps[d], spec)
BY DEF Holds, Matches, FlowMatches

\* One deployment's row becomes r and one workflow changes, or is new, which
\* is that deployment's.
LEMMA DeploymentStep ==
  ASSUME RowInv, UNCHANGED versions, NEW d \in Ids(deps), NEW r \in DepRows,
         deps' = [deps EXCEPT ![d] = r], r.version \in Ids(versions),
         flows' \in Seq(FlowRows), RowsGrow,
         \A f \in Ids(flows) : flows[f].of # d => flows'[f] = flows[f],
         OwnFlow(d, r.workflow)', Matches(r, versions[r.version]), FlowMatches(flows', r, versions[r.version])
  PROVE  RowInv'
<1>1. deps' \in Seq(DepRows) /\ Ids(deps') = Ids(deps) /\ deps'[d] = r
  BY DEF RowInv, RowTypes, Ids
<1>2. \A e \in Ids(deps) : e # d => deps'[e] = deps[e]
  BY DEF RowInv, RowTypes, Ids
<1>3. RowTypes'
  BY <1>1 DEF RowInv, RowTypes
<1>4. ASSUME NEW e \in Ids(deps), e # d
      PROVE  Recorded(e)' /\ Holds(e, versions[deps[e].version])'
  <2>1. Recorded(e) /\ Holds(e, versions[deps[e].version])
    BY DEF RowInv
  <2>2. deps'[e] = deps[e] /\ versions' = versions
    BY <1>2, <1>4
  <2>3. Recorded(e)'
    BY <2>1, <2>2 DEF Recorded, OwnFlow, RowsGrow
  <2>4. deps[e].workflow # 0 => flows'[deps[e].workflow] = flows[deps[e].workflow]
    BY <2>1, <1>4 DEF Recorded, OwnFlow
  <2>5. Matches(deps'[e], versions'[deps'[e].version]) /\ FlowMatches(flows', deps'[e], versions'[deps'[e].version])
    BY <2>1, <2>2, <2>4 DEF Holds, Matches, FlowMatches
  <2> QED
    BY <2>3, <2>5 DEF Holds, Matches, FlowMatches
<1>5. Recorded(d)' /\ Holds(d, versions[deps[d].version])'
  BY <1>1 DEF Recorded, Holds, Matches, FlowMatches
<1> QED
  BY <1>1, <1>3, <1>4, <1>5 DEF RowInv

\* A new deployment, the last, is written with its workflow.
LEMMA NewDeploymentStep ==
  ASSUME RowInv, UNCHANGED versions, NEW d, d = Len(deps) + 1, NEW r \in DepRows,
         deps' = Append(deps, r), r.version \in Ids(versions),
         flows' \in Seq(FlowRows), RowsGrow,
         \A f \in Ids(flows) : flows'[f] = flows[f],
         OwnFlow(d, r.workflow)', Matches(r, versions[r.version]),
         FlowMatches(flows', r, versions[r.version])
  PROVE  RowInv'
<1>1. deps' \in Seq(DepRows) /\ Ids(deps') = Ids(deps) \cup {d} /\ deps'[d] = r
  BY DEF RowInv, RowTypes, Ids
<1>2. \A e \in Ids(deps) : deps'[e] = deps[e]
  BY DEF RowInv, RowTypes, Ids
<1>3. RowTypes'
  BY <1>1 DEF RowInv, RowTypes
<1>4. ASSUME NEW e \in Ids(deps)
      PROVE  Recorded(e)' /\ Holds(e, versions[deps[e].version])'
  <2>1. Recorded(e) /\ Holds(e, versions[deps[e].version])
    BY DEF RowInv
  <2>2. deps'[e] = deps[e] /\ versions' = versions
    BY <1>2
  <2>3. Recorded(e)'
    BY <2>1, <2>2 DEF Recorded, OwnFlow, RowsGrow
  <2>4. deps[e].workflow # 0 => flows'[deps[e].workflow] = flows[deps[e].workflow]
    BY <2>1 DEF Recorded, OwnFlow
  <2>5. Matches(deps'[e], versions'[deps'[e].version]) /\ FlowMatches(flows', deps'[e], versions'[deps'[e].version])
    BY <2>1, <2>2, <2>4 DEF Holds, Matches, FlowMatches
  <2> QED
    BY <2>3, <2>5 DEF Holds, Matches, FlowMatches
<1>5. Recorded(d)' /\ Holds(d, versions[deps[d].version])'
  BY <1>1 DEF Recorded, Holds, Matches, FlowMatches
<1> QED
  BY <1>1, <1>3, <1>4, <1>5 DEF RowInv

\* A workflow of d's changes its configuration or is paused; one is added.
LEMMA FlowSteps ==
  ASSUME RowTypes, NEW f \in Ids(flows), NEW q \in FlowRows, q.of = flows[f].of,
         flows' = [flows EXCEPT ![f] = q]
  PROVE  /\ flows' \in Seq(FlowRows) /\ Ids(flows') = Ids(flows) /\ flows'[f] = q
         /\ \A g \in Ids(flows) : flows'[g].of = flows[g].of /\ (g # f => flows'[g] = flows[g])
BY DEF RowTypes, Ids

LEMMA NewFlow ==
  ASSUME RowTypes, NEW q \in FlowRows, flows' = Append(flows, q)
  PROVE  /\ flows' \in Seq(FlowRows) /\ Len(flows') # 0 /\ Len(flows') \in Nat
         /\ Ids(flows') = Ids(flows) \cup {Len(flows')} /\ flows'[Len(flows')] = q
         /\ \A g \in Ids(flows) : flows'[g] = flows[g]
BY DEF RowTypes, Ids

-----------------------------------------------------------------------------
(* The operations.                                                         *)

LEMMA ApplyStep ==
  ASSUME RowInv, UNCHANGED versions, NEW d \in Ids(deps), NEW read \in DepRows,
         OwnFlow(d, read.workflow), NEW version \in Ids(versions),
         NEW o \in Overrides, applyDeployment(d, read, version, versions[version], o)
  PROVE  RowInv' /\ RowsGrow
<1> DEFINE spec == versions[version]
           agent == SyncSopAgent(d, RenderAgent(spec, o))
           Row(flow) == [deps[d] EXCEPT !.agent = agent, !.version = version, !.overrides = o,
                                        !.workflow = flow]
           config == RenderWorkflow(spec, o)
<1>1. RowTypes /\ deps[d] \in DepRows /\ version \in Nat /\ spec \in Specs
  BY DEF RowInv, RowTypes, Ids
<1>2. RenderAgent(spec, o) \in Configs /\ config \in Configs
  BY <1>1, RenderType
<1>3. agent \in Agents /\ agent.config = RenderAgent(spec, o)
  BY <1>1, <1>2 DEF SyncSopAgent, DepRows, Agents
<1>4. \A flow \in Nat :
        /\ Row(flow) \in DepRows
        /\ Row(flow).workflow = flow /\ Row(flow).version = version
        /\ Row(flow).overrides = o /\ Row(flow).agent = agent
  BY <1>1, <1>3 DEF DepRows
<1>5. \A flow \in Nat : MarkSopDeploymentSynced(d, agent, version, o, flow) => deps' = [deps EXCEPT ![d] = Row(flow)]
  BY <1>1 DEF MarkSopDeploymentSynced, RowTypes, Ids, DepRows
<1>6. \A flow \in Nat : (flow # 0) = (spec.workflow # Nothing) => Matches(Row(flow), spec)
  BY <1>3, <1>4 DEF Matches
<1>7. \A flow \in Nat : MarkSopDeploymentSynced(d, agent, version, o, flow) => Ids(deps') = Ids(deps)
  BY <1>1, <1>5 DEF RowTypes, Ids
<1> HIDE DEF Row, agent, spec, config
<1>8. ASSUME NEW flow \in Nat, MarkSopDeploymentSynced(d, agent, version, o, flow),
             (flow # 0) = (spec.workflow # Nothing),
             flows' \in Seq(FlowRows), OwnFlow(d, flow)',
             flow # 0 => flows'[flow].config = config,
             \A f \in Ids(flows) : /\ f \in Ids(flows') /\ flows'[f].of = flows[f].of
                                   /\ flows[f].of # d => flows'[f] = flows[f]
      PROVE  RowInv' /\ RowsGrow
  <2>1. RowsGrow
    BY <1>7, <1>8 DEF RowsGrow
  <2>2. PICK r \in DepRows : r = Row(flow)
    BY <1>4, <1>8
  <2>3. deps' = [deps EXCEPT ![d] = r] /\ r.version = version /\ r.workflow = flow /\ r.overrides = o
    BY <1>4, <1>5, <1>8, <2>2
  <2>4. Matches(r, versions[r.version])
    BY <1>6, <1>8, <2>2, <2>3 DEF spec
  <2>5. FlowMatches(flows', r, versions[r.version])
    BY <1>8, <2>3 DEF FlowMatches, spec, config
  <2>6. OwnFlow(d, r.workflow)'
    BY <1>8, <2>3 DEF OwnFlow
  <2> QED
    BY <1>8, <2>1, <2>3, <2>4, <2>5, <2>6, DeploymentStep
<1>9. CASE /\ spec.workflow # Nothing /\ read.workflow # 0
           /\ SyncSopWorkflow(read.workflow, config)
           /\ MarkSopDeploymentSynced(d, agent, version, o, read.workflow)
  <2>1. PICK f \in Ids(flows) : f = read.workflow /\ flows[f].of = d /\ f \in Nat /\ f # 0
    BY <1>9 DEF OwnFlow, DepRows
  <2>2. flows[f] \in FlowRows
    BY <1>1 DEF RowTypes, Ids
  <2>3. [flows[f] EXCEPT !.config = config] \in FlowRows /\ [flows[f] EXCEPT !.config = config].of = d
        /\ [flows[f] EXCEPT !.config = config].config = config
    BY <1>2, <2>1, <2>2 DEF FlowRows
  <2>4. flows' = [flows EXCEPT ![f] = [flows[f] EXCEPT !.config = config]]
    BY <1>1, <1>9, <2>1 DEF SyncSopWorkflow, RowTypes, Ids
  <2>5. /\ flows' \in Seq(FlowRows) /\ Ids(flows') = Ids(flows)
        /\ flows'[f].config = config /\ flows'[f].of = d
        /\ \A g \in Ids(flows) : flows'[g].of = flows[g].of /\ (g # f => flows'[g] = flows[g])
    BY <1>1, <2>1, <2>3, <2>4, FlowSteps
  <2>6. OwnFlow(d, f)'
    BY <2>5 DEF OwnFlow
  <2> QED
    BY <1>8, <1>9, <2>1, <2>5, <2>6
<1>10. CASE /\ spec.workflow # Nothing
            /\ flows' = insertWorkflow(d, config)
            /\ MarkSopDeploymentSynced(d, agent, version, o, Len(flows'))
  <2>1. [of |-> d, active |-> TRUE, config |-> config] \in FlowRows
    BY <1>1, <1>2 DEF FlowRows, RowTypes, Ids
  <2>2. PICK f \in Nat : f = Len(flows')
    BY <2>1, <1>1, <1>10, NewFlow DEF insertWorkflow
  <2>3. /\ flows' \in Seq(FlowRows) /\ f # 0 /\ f \notin Ids(flows)
        /\ Ids(flows') = Ids(flows) \cup {f} /\ flows'[f] = [of |-> d, active |-> TRUE, config |-> config]
        /\ \A g \in Ids(flows) : flows'[g] = flows[g]
    BY <2>1, <2>2, <1>1, <1>10, NewFlow DEF insertWorkflow, RowTypes, Ids
  <2>4. OwnFlow(d, f)'
    BY <2>3 DEF OwnFlow
  <2> QED
    BY <1>8, <1>10, <2>2, <2>3, <2>4
<1>11. CASE /\ spec.workflow = Nothing /\ read.workflow # 0
            /\ PauseSopWorkflow(read.workflow)
            /\ MarkSopDeploymentSynced(d, agent, version, o, 0)
  <2>1. PICK f \in Ids(flows) : f = read.workflow /\ flows[f].of = d
    BY <1>11 DEF OwnFlow
  <2>2. flows[f] \in FlowRows
    BY <1>1 DEF RowTypes, Ids
  <2>3. [flows[f] EXCEPT !.active = FALSE] \in FlowRows /\ [flows[f] EXCEPT !.active = FALSE].of = d
    BY <2>1, <2>2 DEF FlowRows
  <2>4. flows' = [flows EXCEPT ![f] = [flows[f] EXCEPT !.active = FALSE]]
    BY <1>1, <1>11, <2>1 DEF PauseSopWorkflow, RowTypes, Ids
  <2>5. /\ flows' \in Seq(FlowRows) /\ Ids(flows') = Ids(flows)
        /\ \A g \in Ids(flows) : flows'[g].of = flows[g].of /\ (g # f => flows'[g] = flows[g])
    BY <1>1, <2>1, <2>3, <2>4, FlowSteps
  <2> QED
    BY <1>8, <1>11, <2>1, <2>5 DEF OwnFlow
<1>12. CASE /\ spec.workflow = Nothing
            /\ MarkSopDeploymentSynced(d, agent, version, o, 0) /\ UNCHANGED flows
  BY <1>1, <1>8, <1>12 DEF OwnFlow, RowTypes
<1> QED
  BY <1>9, <1>10, <1>11, <1>12 DEF applyDeployment, spec, agent, config

\* No record changes, versions may be added, and a configuration changes only
\* by the client's own edit.
LEMMA RecordsStay ==
  ASSUME RowInv, RowTypes', RowsGrow, Ids(deps') = Ids(deps),
         \A d \in Ids(deps) :
           /\ deps'[d].version = deps[d].version /\ deps'[d].overrides = deps[d].overrides
           /\ deps'[d].workflow = deps[d].workflow
           /\ deps'[d].agent.config \in {Edited, deps[d].agent.config},
         \A f \in Ids(flows) : flows'[f].config \in {Edited, flows[f].config}
  PROVE  RowInv'
<1> SUFFICES ASSUME NEW d \in Ids(deps)
             PROVE  Recorded(d)' /\ Holds(d, versions[deps[d].version])'
  BY DEF RowInv
<1>1. Recorded(d) /\ Holds(d, versions[deps[d].version])
  BY DEF RowInv
<1>2. versions'[deps'[d].version] = versions[deps[d].version]
  BY <1>1 DEF Recorded, RowsGrow
<1>3. Recorded(d)'
  BY <1>1 DEF Recorded, OwnFlow, RowsGrow
<1>4. deps[d].workflow # 0 => deps[d].workflow \in Ids(flows)
  BY <1>1 DEF Recorded, OwnFlow
<1>5. Matches(deps'[d], versions'[deps'[d].version])
  BY <1>1, <1>2 DEF Holds, Matches
<1>6. FlowMatches(flows', deps'[d], versions'[deps'[d].version])
  BY <1>1, <1>2, <1>4 DEF Holds, FlowMatches
<1> QED
  BY <1>3, <1>5, <1>6 DEF Holds, Matches, FlowMatches

\* One deployment's agent or state changes.
LEMMA AgentStep ==
  ASSUME RowInv, UNCHANGED <<versions, flows>>, NEW d \in Ids(deps), NEW r \in DepRows,
         deps' = [deps EXCEPT ![d] = r],
         r.version = deps[d].version, r.overrides = deps[d].overrides,
         r.workflow = deps[d].workflow, r.agent.config \in {Edited, deps[d].agent.config}
  PROVE  RowInv' /\ RowsGrow
<1>1. /\ deps' \in Seq(DepRows) /\ Ids(deps') = Ids(deps) /\ deps'[d] = r
      /\ \A e \in Ids(deps) : e # d => deps'[e] = deps[e]
  BY DEF RowInv, RowTypes, Ids
<1>2. RowsGrow /\ RowTypes'
  BY <1>1 DEF RowsGrow, RowInv, RowTypes
<1> QED
  BY <1>1, <1>2, RecordsStay

\* One workflow is edited or paused.
LEMMA FlowStep ==
  ASSUME RowInv, UNCHANGED <<versions, deps>>, NEW f \in Ids(flows), NEW q \in FlowRows,
         flows' = [flows EXCEPT ![f] = q], q.of = flows[f].of,
         q.config \in {Edited, flows[f].config}
  PROVE  RowInv' /\ RowsGrow
<1>1. /\ flows' \in Seq(FlowRows) /\ Ids(flows') = Ids(flows) /\ flows'[f] = q
      /\ \A g \in Ids(flows) : flows'[g].of = flows[g].of /\ (g # f => flows'[g] = flows[g])
  BY FlowSteps DEF RowInv
<1>2. RowsGrow /\ RowTypes'
  BY <1>1 DEF RowsGrow, RowInv, RowTypes
<1> QED
  BY <1>1, <1>2, RecordsStay

LEMMA UpdateAgentStep ==
  ASSUME RowInv, NEW d \in Ids(deps), UpdateAgent(d) \/ DeactivateAgent(d)
  PROVE  RowInv' /\ RowsGrow
<1>1. RowTypes /\ deps[d] \in DepRows
  BY DEF RowInv, RowTypes, Ids
<1>2. Edited \in Configs
  BY DEF Edited, Configs
<1>3. CASE UpdateAgent(d)
  <2>1. PICK r : r = [deps[d] EXCEPT !.agent.config = Edited]
    OBVIOUS
  <2>2. r \in DepRows /\ r.agent.config = Edited /\ r.version = deps[d].version
        /\ r.overrides = deps[d].overrides /\ r.workflow = deps[d].workflow
    BY <1>1, <1>2, <2>1 DEF DepRows, Agents
  <2>3. deps' = [deps EXCEPT ![d] = r]
    BY <1>1, <1>3, <2>1 DEF UpdateAgent, RowTypes, Ids
  <2> QED
    BY <1>3, <2>2, <2>3, AgentStep DEF UpdateAgent
<1>4. CASE DeactivateAgent(d)
  <2>1. PICK r : r = [deps[d] EXCEPT !.agent.active = FALSE]
    OBVIOUS
  <2>2. r \in DepRows /\ r.agent.config = deps[d].agent.config /\ r.version = deps[d].version
        /\ r.overrides = deps[d].overrides /\ r.workflow = deps[d].workflow
    BY <1>1, <2>1 DEF DepRows, Agents
  <2>3. deps' = [deps EXCEPT ![d] = r]
    BY <1>1, <1>4, <2>1 DEF DeactivateAgent, RowTypes, Ids
  <2> QED
    BY <1>4, <2>2, <2>3, AgentStep DEF DeactivateAgent
<1> QED
  BY <1>3, <1>4

LEMMA UpdateWorkflowStep ==
  ASSUME RowInv, NEW f \in Ids(flows), UpdateWorkflow(f)
  PROVE  RowInv' /\ RowsGrow
<1>1. RowTypes /\ flows[f] \in FlowRows
  BY DEF RowInv, RowTypes, Ids
<1>2. Edited \in Configs
  BY DEF Edited, Configs
<1>3. \A q \in {[flows[f] EXCEPT !.config = Edited], [flows[f] EXCEPT !.active = FALSE]} :
        q \in FlowRows /\ q.of = flows[f].of /\ q.config \in {Edited, flows[f].config}
  BY <1>1, <1>2 DEF FlowRows
<1>4. PICK q \in {[flows[f] EXCEPT !.config = Edited], [flows[f] EXCEPT !.active = FALSE]} :
        flows' = [flows EXCEPT ![f] = q]
  BY <1>1 DEF UpdateWorkflow, PauseSopWorkflow, RowTypes, Ids
<1> QED
  BY <1>3, <1>4, FlowStep DEF UpdateWorkflow

\* A request that is under way has read the playbook, and one that is about a
\* deployment that deployment too.
LEMMA Read ==
  ASSUME ProcInv, NEW p \in Procs, proc[p].pc \in Handlers
  PROVE  /\ proc[p] \in Loads \cup Deployings /\ proc[p].row \in SopRows /\ ReadInv(proc[p])
         /\ proc[p].row.version \in Ids(versions) /\ versions[proc[p].row.version] = proc[p].row.spec
         /\ "id" \in DOMAIN proc[p] => proc[p] \in Deployings
<1>1. proc[p] # Idle
  BY DEF Idle, Handlers, DeploymentHandlers
<1>2. proc[p] \in Loads \cup Deployings /\ ReadInv(proc[p])
  BY <1>1 DEF ProcInv
<1>3. \A r \in Loads : "id" \notin DOMAIN r
  BY DEF Loads
<1>4. proc[p].row \in SopRows
  BY <1>2 DEF Loads, Deployings
<1>5. "id" \in DOMAIN proc[p] => proc[p] \in Deployings
  BY <1>2, <1>3
<1> QED
  BY <1>1, <1>2, <1>4, <1>5 DEF ReadInv

LEMMA ReadDeployment ==
  ASSUME ProcInv, NEW p \in Procs, proc[p].pc \in Handlers, "id" \in DOMAIN proc[p]
  PROVE  /\ proc[p].id \in Ids(deps) /\ proc[p].read \in DepRows
         /\ proc[p].read.version \in Ids(versions) /\ proc[p].read.overrides \in Overrides
         /\ OwnFlow(proc[p].id, proc[p].read.workflow)
<1>1. proc[p] \in Deployings /\ ReadInv(proc[p]) /\ proc[p] # Idle
  BY Read DEF Idle, Handlers, DeploymentHandlers
<1>2. proc[p].read \in DepRows /\ proc[p].read.overrides \in Overrides
  BY <1>1 DEF Deployings, DepRows
<1> QED
  BY <1>1, <1>2 DEF ReadInv

LEMMA UndeployStep ==
  ASSUME RowInv, ProcInv, NEW p \in Procs, UndeploySop(p)
  PROVE  RowInv' /\ RowsGrow
<1>1. PICK d \in Ids(deps) : d = proc[p].id /\ OwnFlow(d, proc[p].read.workflow)
  BY ReadDeployment DEF UndeploySop, Loaded, Handlers, DeploymentHandlers
<1>2. RowTypes /\ deps[d] \in DepRows
  BY DEF RowInv, RowTypes, Ids
<1>3. PICK r : r = [deps[d] EXCEPT !.agent = DeactivateSopAgent(d), !.state = IF @ = "active" THEN "removed" ELSE @]
  OBVIOUS
<1>4. r \in DepRows /\ r.agent.config = deps[d].agent.config /\ r.version = deps[d].version
      /\ r.overrides = deps[d].overrides /\ r.workflow = deps[d].workflow
  BY <1>2, <1>3 DEF DepRows, Agents, DeactivateSopAgent
<1>5. deps' = [deps EXCEPT ![d] = r]
  BY <1>1, <1>2, <1>3 DEF UndeploySop, DeactivateSopDeployment, DeactivateSopAgent, RowTypes, Ids, DepRows
<1>6. /\ deps' \in Seq(DepRows) /\ Ids(deps') = Ids(deps) /\ deps'[d] = r
      /\ \A e \in Ids(deps) : e # d => deps'[e] = deps[e]
  BY <1>2, <1>4, <1>5 DEF RowTypes, Ids
<1>7. /\ flows' \in Seq(FlowRows) /\ Ids(flows') = Ids(flows)
      /\ \A f \in Ids(flows) : flows'[f].of = flows[f].of /\ flows'[f].config = flows[f].config
  <2>1. CASE proc[p].read.workflow = 0
    BY <1>2, <2>1 DEF UndeploySop, RowTypes
  <2>2. CASE proc[p].read.workflow # 0
    <3>1. PICK f \in Ids(flows) : f = proc[p].read.workflow
      BY <1>1, <2>2 DEF OwnFlow
    <3>2. flows[f] \in FlowRows
      BY <1>2 DEF RowTypes, Ids
    <3>3. PICK q : q = [flows[f] EXCEPT !.active = FALSE]
      OBVIOUS
    <3>4. q \in FlowRows /\ q.of = flows[f].of /\ q.config = flows[f].config
      BY <3>2, <3>3 DEF FlowRows
    <3>5. PauseSopWorkflow(f)
      BY <2>2, <3>1 DEF UndeploySop
    <3>6. flows' = [flows EXCEPT ![f] = q]
      BY <1>2, <3>3, <3>5 DEF PauseSopWorkflow, RowTypes, Ids
    <3>7. /\ flows' \in Seq(FlowRows) /\ Ids(flows') = Ids(flows) /\ flows'[f] = q
          /\ \A g \in Ids(flows) : flows'[g].of = flows[g].of /\ (g # f => flows'[g] = flows[g])
      BY <1>2, <3>4, <3>6, FlowSteps
    <3> QED
      BY <3>4, <3>7
  <2> QED
    BY <2>1, <2>2
<1>8. UNCHANGED versions
  BY DEF UndeploySop
<1>9. RowsGrow /\ RowTypes'
  BY <1>2, <1>6, <1>7, <1>8 DEF RowsGrow, RowTypes
<1> QED
  BY <1>4, <1>6, <1>7, <1>9, RecordsStay

LEMMA DetachStep ==
  ASSUME RowInv, UNCHANGED <<versions, flows>>, DetachSopDeployments
  PROVE  RowInv' /\ RowsGrow
<1>1. RowTypes /\ \A d \in Ids(deps) : deps[d] \in DepRows
  BY DEF RowInv, RowTypes, Ids
<1>2. \A r \in DepRows :
        LET q == [r EXCEPT !.state = IF @ = "active" THEN "detached" ELSE @]
        IN  /\ q \in DepRows /\ q.agent = r.agent /\ q.version = r.version
            /\ q.overrides = r.overrides /\ q.workflow = r.workflow
  BY DEF DepRows
<1>3. /\ deps' \in Seq(DepRows) /\ Ids(deps') = Ids(deps)
      /\ \A d \in Ids(deps) : deps'[d] = [deps[d] EXCEPT !.state = IF @ = "active" THEN "detached" ELSE @]
  BY <1>1, <1>2 DEF DetachSopDeployments, RowTypes, Ids
<1>4. RowsGrow /\ RowTypes'
  BY <1>1, <1>3 DEF RowsGrow, RowTypes
<1> QED
  BY <1>1, <1>2, <1>3, <1>4, RecordsStay

LEMMA DeployStep ==
  ASSUME RowInv, ProcInv, NEW p \in Procs, DeploySop(p)
  PROVE  RowInv' /\ RowsGrow
<1>1. PICK row \in SopRows : row = proc[p].row /\ row.version \in Ids(versions) /\ versions[row.version] = row.spec
  BY Read DEF DeploySop, Handlers
<1>2. PICK w \in Workspaces, o \in Overrides :
        IF row.spec.workflow = Nothing
        THEN InsertSopDeployment(w, row, o, 0) /\ UNCHANGED flows
        ELSE /\ flows' = insertWorkflow(Len(deps) + 1, RenderWorkflow(row.spec, o))
             /\ InsertSopDeployment(w, row, o, Len(flows'))
  BY <1>1 DEF DeploySop
<1>3. RowTypes /\ row.spec \in Specs /\ row.version \in Nat
  BY <1>1 DEF RowInv, SopRows
<1>4. RenderAgent(row.spec, o) \in Configs /\ RenderWorkflow(row.spec, o) \in Configs
  BY <1>3, RenderType
<1>5. PICK d \in Nat : d = Len(deps) + 1
  BY <1>3 DEF RowTypes
<1>6. UNCHANGED versions
  BY DEF DeploySop
<1>7. ASSUME NEW flow \in Nat, InsertSopDeployment(w, row, o, flow),
             (flow # 0) = (row.spec.workflow # Nothing),
             flows' \in Seq(FlowRows), OwnFlow(d, flow)',
             flow # 0 => flows'[flow].config = RenderWorkflow(row.spec, o),
             \A f \in Ids(flows) : f \in Ids(flows') /\ flows'[f] = flows[f]
      PROVE  RowInv' /\ RowsGrow
  <2>1. PICK r : r = [workspace |-> w, version |-> row.version, overrides |-> o, workflow |-> flow,
                      agent |-> insertAgent(RenderAgent(row.spec, o)), state |-> "active"]
    OBVIOUS
  <2>2. /\ r \in DepRows /\ r.version = row.version /\ r.workflow = flow /\ r.overrides = o
        /\ r.agent.config = RenderAgent(row.spec, o)
    BY <1>3, <1>4, <2>1 DEF DepRows, Agents, insertAgent
  <2>3. deps' = Append(deps, r)
    BY <1>7, <2>1 DEF InsertSopDeployment
  <2>4. Ids(deps) \subseteq Ids(deps')
    BY <1>3, <2>2, <2>3 DEF RowTypes, Ids
  <2>5. RowsGrow
    BY <1>6, <1>7, <2>4 DEF RowsGrow
  <2>6. Matches(r, versions[r.version]) /\ FlowMatches(flows', r, versions[r.version])
    BY <1>1, <1>7, <2>2 DEF Matches, FlowMatches
  <2>7. OwnFlow(d, r.workflow)'
    BY <1>7, <2>2 DEF OwnFlow
  <2> QED
    BY <1>1, <1>5, <1>6, <1>7, <2>2, <2>3, <2>5, <2>6, <2>7, NewDeploymentStep
<1>8. CASE row.spec.workflow = Nothing
  BY <1>2, <1>3, <1>7, <1>8 DEF OwnFlow, RowTypes
<1>9. CASE row.spec.workflow # Nothing
  <2>1. PICK q : q = [of |-> d, active |-> TRUE, config |-> RenderWorkflow(row.spec, o)]
    OBVIOUS
  <2>2. q \in FlowRows /\ q.of = d /\ q.config = RenderWorkflow(row.spec, o)
    BY <1>4, <2>1 DEF FlowRows
  <2>3. flows' = Append(flows, q) /\ InsertSopDeployment(w, row, o, Len(flows'))
    BY <1>2, <1>5, <1>9, <2>1 DEF insertWorkflow
  <2>4. PICK f \in Nat : f = Len(flows')
    BY <1>3, <2>2, <2>3, NewFlow
  <2>5. /\ flows' \in Seq(FlowRows) /\ f # 0 /\ Ids(flows') = Ids(flows) \cup {f} /\ flows'[f] = q
        /\ \A g \in Ids(flows) : flows'[g] = flows[g]
    BY <1>3, <2>2, <2>3, <2>4, NewFlow
  <2>6. OwnFlow(d, f)'
    BY <2>2, <2>5 DEF OwnFlow
  <2> QED
    BY <1>7, <1>9, <2>2, <2>3, <2>4, <2>5, <2>6
<1> QED
  BY <1>8, <1>9

\* A new version.
LEMMA VersionStep ==
  ASSUME RowInv, NEW spec \in Specs, InsertSopPlaybookVersion(spec), UNCHANGED <<deps, flows>>
  PROVE  /\ RowInv' /\ RowsGrow
         /\ Len(versions') = Len(versions) + 1 /\ versions'[Len(versions')] = spec
<1>1. /\ versions' \in Seq(Specs) /\ Len(versions') = Len(versions) + 1
      /\ versions'[Len(versions')] = spec
      /\ \A v \in Ids(versions) : v \in Ids(versions') /\ versions'[v] = versions[v]
  BY DEF RowInv, RowTypes, InsertSopPlaybookVersion, Ids
<1>2. RowsGrow /\ RowTypes'
  BY <1>1 DEF RowsGrow, RowInv, RowTypes
<1> QED
  BY <1>1, <1>2, RecordsStay

LEMMA UpdateSopStep ==
  ASSUME SopInv, RowInv, ProcInv, NEW p \in Procs, UpdateSop(p)
  PROVE  SopInv' /\ RowInv' /\ RowsGrow
<1>1. proc[p].row.spec \in Specs
  BY Read DEF UpdateSop, Handlers, SopRows
<1>2. PICK next \in Patched(proc[p].row.spec) : BumpSopPlaybookVersion(next) /\ InsertSopPlaybookVersion(next)
  BY DEF UpdateSop
<1>3. next \in Specs
  BY <1>1, <1>2 DEF Patched, Specs
<1>4. UNCHANGED <<deps, flows>>
  BY DEF UpdateSop
<1>5. RowInv' /\ RowsGrow /\ Len(versions') = Len(versions) + 1 /\ versions'[Len(versions')] = next
  BY <1>2, <1>3, <1>4, VersionStep
<1>6. sop \in SopRows /\ sop.version = Len(versions) /\ sop.version # 0
  BY DEF UpdateSop, SopInv, NoSop
<1>7. sop' \in SopRows /\ sop'.version = sop.version + 1 /\ sop'.spec = next
  <2>1. sop' = [sop EXCEPT !.version = @ + 1, !.spec = next]
    BY <1>2 DEF BumpSopPlaybookVersion
  <2>2. ASSUME NEW r \in SopRows, NEW q, q = [r EXCEPT !.version = @ + 1, !.spec = next]
        PROVE  q \in SopRows /\ q.version = r.version + 1 /\ q.spec = next
    <3>1. r.version + 1 \in Nat
      BY DEF SopRows
    <3> QED
      BY <1>3, <2>2, <3>1 DEF SopRows
  <2> QED
    BY <1>6, <2>1, <2>2
<1>8. SopInv'
  BY <1>5, <1>6, <1>7 DEF SopInv, SopRows
<1> QED
  BY <1>5, <1>8

LEMMA CreateSopStep ==
  ASSUME SopInv, RowInv, NEW spec \in Specs, CreateSop(spec)
  PROVE  SopInv' /\ RowInv' /\ RowsGrow
<1>1. versions = <<>>
  BY DEF CreateSop, SopInv, SopRows
<1>2. RowInv' /\ RowsGrow /\ Len(versions') = Len(versions) + 1 /\ versions'[Len(versions')] = spec
  BY VersionStep DEF CreateSop
<1>3. Len(versions') = 1
  BY <1>1, <1>2
<1>4. SopInv'
  BY <1>2, <1>3 DEF CreateSop, SopInv, SopRows
<1> QED
  BY <1>2, <1>4

\* What is left of the playbook's row when it is deleted.
LEMMA DeleteSopStep ==
  ASSUME SopInv, RowInv, ProcInv, NEW p \in Procs, DeleteSop(p)
  PROVE  SopInv' /\ RowInv' /\ RowsGrow
<1>1. RowInv' /\ RowsGrow
  BY DetachStep DEF DeleteSop
<1>2. sop # NoSop
  <2>1. proc[p].row.version \in Ids(versions)
    BY Read DEF DeleteSop, Handlers
  <2> QED
    BY <2>1 DEF SopInv, Ids, SopRows, NoSop
<1>3. sop \in SopRows /\ sop.version = Len(versions) /\ sop.version # 0 /\ versions[sop.version] = sop.spec
  BY <1>2 DEF SopInv
<1>4. sop' \in SopRows /\ sop'.version = sop.version /\ sop'.spec = sop.spec
  BY <1>3 DEF DeleteSop, DeactivateSopPlaybook, SopRows
<1>5. UNCHANGED versions
  BY DEF DeleteSop
<1> QED
  BY <1>1, <1>3, <1>4, <1>5 DEF SopInv

LEMMA SyncStep ==
  ASSUME RowInv, ProcInv, NEW p \in Procs, SyncSopDeployment(p) \/ UpdateSopDeployment(p)
  PROVE  RowInv' /\ RowsGrow
<1>1. proc[p].pc \in Handlers /\ "id" \in DOMAIN proc[p]
  BY DEF SyncSopDeployment, UpdateSopDeployment, Loaded, Handlers, DeploymentHandlers
<1>2. /\ proc[p].id \in Ids(deps) /\ proc[p].read \in DepRows
      /\ proc[p].read.version \in Ids(versions) /\ proc[p].read.overrides \in Overrides
      /\ OwnFlow(proc[p].id, proc[p].read.workflow)
  BY <1>1, ReadDeployment
<1>3. proc[p].row.version \in Ids(versions) /\ versions[proc[p].row.version] = proc[p].row.spec
  BY <1>1, Read
<1>4. PICK d \in Ids(deps), read \in DepRows, version \in Ids(versions), o \in Overrides :
        /\ d = proc[p].id /\ read = proc[p].read
        /\ applyDeployment(d, read, version, versions[version], o)
  <2>1. CASE SyncSopDeployment(p)
    BY <2>1, <1>2, <1>3 DEF SyncSopDeployment
  <2>2. CASE UpdateSopDeployment(p)
    BY <2>2, <1>2 DEF UpdateSopDeployment, GetSopPlaybookVersion
  <2> QED
    BY <2>1, <2>2
<1>5. OwnFlow(d, read.workflow)
  BY <1>2, <1>4
<1>6. UNCHANGED versions
  BY DEF SyncSopDeployment, UpdateSopDeployment
<1> QED
  BY <1>4, <1>5, <1>6, ApplyStep

-----------------------------------------------------------------------------
(* The requests, and the whole.                                            *)

\* A request reads, or ends.
LEMMA LoadStep ==
  ASSUME SopInv, RowInv, ProcInv, NEW p \in Procs,
         \/ \E h \in Handlers : loadSop(p, h)
         \/ \E d \in Ids(deps) : loadDeployment(p, d)
  PROVE  \E r \in {Idle} \cup Loads \cup Deployings : ReadInv(r) /\ Becomes(p, r)
<1>1. ASSUME NEW h \in Handlers, loadSop(p, h)
      PROVE  \E r \in {Idle} \cup Loads \cup Deployings : ReadInv(r) /\ Becomes(p, r)
  <2>1. sop \in SopRows /\ sop.version \in Ids(versions) /\ versions[sop.version] = sop.spec
    BY <1>1 DEF loadSop, GetSopPlaybook, SopInv, NoSop, Ids, RowInv, RowTypes, SopRows
  <2>2. PICK r : r = [pc |-> h, row |-> sop]
    OBVIOUS
  <2>3. r \in Loads /\ r.row = sop /\ Becomes(p, r)
    BY <1>1, <2>1, <2>2 DEF loadSop, Loads
  <2>4. \A s \in Deployings : "id" \in DOMAIN s
    BY DEF Deployings
  <2>5. r \notin Deployings
    BY <2>2, <2>4
  <2> QED
    BY <2>1, <2>3, <2>5 DEF ReadInv
<1>2. ASSUME NEW d \in Ids(deps), loadDeployment(p, d)
      PROVE  \E r \in {Idle} \cup Loads \cup Deployings : ReadInv(r) /\ Becomes(p, r)
  <2>1. proc[p].pc \in DeploymentHandlers /\ proc[p].pc \in Handlers
    BY <1>2 DEF loadDeployment, Handlers
  <2>2. /\ proc[p].row \in SopRows
        /\ proc[p].row.version \in Ids(versions) /\ versions[proc[p].row.version] = proc[p].row.spec
    BY <2>1, Read
  <2>3. deps[d] \in DepRows /\ Recorded(d) /\ d \in Nat
    BY DEF RowInv, RowTypes, Ids
  <2>4. PICK r : r = [pc |-> proc[p].pc, row |-> proc[p].row, id |-> d, read |-> deps[d]]
    OBVIOUS
  <2>5. r \in Deployings /\ r.row = proc[p].row /\ r.id = d /\ r.read = deps[d] /\ Becomes(p, r)
    BY <1>2, <2>1, <2>2, <2>3, <2>4 DEF loadDeployment, Deployings
  <2> QED
    BY <2>2, <2>3, <2>5 DEF ReadInv, Recorded
<1> QED
  BY <1>1, <1>2

LEMMA InvNext == LibraryInv /\ [Next]_vars => LibraryInv'
<1> SUFFICES ASSUME LibraryInv, [Next]_vars PROVE LibraryInv'
  OBVIOUS
<1>1. SopInv /\ RowInv /\ ProcInv
  BY DEF LibraryInv
\* What is left to show of each kind of step.
<1>2. ASSUME RowInv', RowsGrow, SopInv',
             NEW p \in Procs, NEW r \in {Idle} \cup Loads \cup Deployings,
             ReadInv(r), Becomes(p, r)
      PROVE  LibraryInv'
  BY <1>1, <1>2, ProcStays DEF LibraryInv
<1>3. ASSUME RowInv', RowsGrow, SopInv', UNCHANGED proc
      PROVE  LibraryInv'
  <2>1. proc' \in [Procs -> {Idle} \cup Loads \cup Deployings]
    BY <1>1, <1>3 DEF ProcInv
  <2>2. ASSUME NEW q \in Procs PROVE ReadInv(proc[q])'
    <3>1. PICK s : s = proc[q]
      OBVIOUS
    <3>2. ReadInv(s)'
      BY <1>1, <1>3, <3>1, ReadStays DEF ProcInv
    <3> QED
      BY <1>3, <3>1, <3>2 DEF ReadInv, OwnFlow
  <2> QED
    BY <1>3, <2>1, <2>2 DEF LibraryInv, ProcInv
<1>4. ASSUME UNCHANGED <<sop, versions>> PROVE RowInv' => SopInv'
  BY <1>1, <1>4 DEF SopInv
<1>5. ASSUME UNCHANGED <<sop, versions, deps, flows>> PROVE RowInv' /\ RowsGrow /\ SopInv'
  BY <1>1, <1>5 DEF SopInv, RowInv, RowTypes, Recorded, OwnFlow, Holds, RowsGrow
<1>6. ASSUME NEW spec \in Specs, CreateSop(spec) PROVE LibraryInv'
  BY <1>1, <1>3, <1>6, CreateSopStep DEF CreateSop
<1>7. ASSUME NEW p \in Procs,
             \/ \E h \in Handlers : loadSop(p, h)
             \/ \E d \in Ids(deps) : loadDeployment(p, d)
      PROVE  LibraryInv'
  <2>1. UNCHANGED <<sop, versions, deps, flows>>
    BY <1>7 DEF loadSop, loadDeployment
  <2> QED
    BY <1>1, <1>2, <1>5, <1>7, <2>1, LoadStep
<1>8. ASSUME NEW p \in Procs, UpdateSop(p) \/ DeleteSop(p)
      PROVE  LibraryInv'
  <2>1. ReadInv(Idle) /\ Becomes(p, Idle)
    BY <1>8 DEF UpdateSop, DeleteSop, Ends, ReadInv
  <2> QED
    BY <1>1, <1>2, <1>8, <2>1, UpdateSopStep, DeleteSopStep
<1>9. ASSUME NEW p \in Procs,
             DeploySop(p) \/ SyncSopDeployment(p) \/ UpdateSopDeployment(p) \/ UndeploySop(p)
      PROVE  LibraryInv'
  <2>1. ReadInv(Idle) /\ Becomes(p, Idle) /\ UNCHANGED <<sop, versions>>
    BY <1>9 DEF DeploySop, SyncSopDeployment, UpdateSopDeployment, UndeploySop, Ends, ReadInv
  <2>2. RowInv' /\ RowsGrow
    BY <1>1, <1>9, DeployStep, SyncStep, UndeployStep
  <2> QED
    BY <1>2, <1>4, <2>1, <2>2
<1>10. ASSUME NEW p \in Procs, Fails(p) PROVE LibraryInv'
  <2>1. ReadInv(Idle) /\ Becomes(p, Idle) /\ UNCHANGED <<sop, versions, deps, flows>>
    BY <1>10 DEF Fails, Ends, ReadInv
  <2> QED
    BY <1>2, <1>5, <2>1
<1>11. ASSUME NEW d \in Ids(deps), UpdateAgent(d) \/ DeactivateAgent(d) PROVE LibraryInv'
  <2>1. UNCHANGED <<sop, versions, proc>>
    BY <1>11 DEF UpdateAgent, DeactivateAgent
  <2> QED
    BY <1>1, <1>3, <1>4, <1>11, <2>1, UpdateAgentStep
<1>12. ASSUME NEW f \in Ids(flows), UpdateWorkflow(f) PROVE LibraryInv'
  <2>1. UNCHANGED <<sop, versions, proc>>
    BY <1>12 DEF UpdateWorkflow
  <2> QED
    BY <1>1, <1>3, <1>4, <1>12, <2>1, UpdateWorkflowStep
<1>13. CASE UNCHANGED vars
  <2>1. UNCHANGED <<sop, versions, deps, flows, proc>>
    BY <1>13 DEF vars
  <2> QED
    BY <1>3, <1>5, <2>1
<1> QED
  BY <1>6, <1>7, <1>8, <1>9, <1>10, <1>11, <1>12, <1>13 DEF Next, Handlers

LEMMA RowsFromInv == LibraryInv => RowsMatchTheRecord
BY DEF LibraryInv, RowInv, RowsMatchTheRecord

\* The newest version is the playbook's, so the deployment that does not lag
\* behind it has that one.
LEMMA CurrentFromInv == LibraryInv => UpToDateIsCurrent
<1> SUFFICES ASSUME LibraryInv, NEW d \in ListSopDeployments, deploymentStatus(d) = "up_to_date"
             PROVE  Holds(d, sop.spec)
  BY DEF UpToDateIsCurrent
<1>1. d \in Ids(deps) /\ deps[d].version \in Ids(versions) /\ Holds(d, versions[deps[d].version])
  BY DEF ListSopDeployments, LibraryInv, RowInv, Recorded
<1>2. sop \in SopRows /\ sop.version = Len(versions) /\ versions[sop.version] = sop.spec
  BY <1>1 DEF LibraryInv, SopInv, Ids
<1>3. versions \in Seq(Specs) /\ deps[d].version \in 1 .. Len(versions)
  BY <1>1 DEF LibraryInv, RowInv, RowTypes, Ids
<1>4. ~(deps[d].version < sop.version)
  BY DEF deploymentStatus
<1>5. deps[d].version = sop.version
  BY <1>2, <1>3, <1>4
<1> QED
  BY <1>1, <1>2, <1>5

\* The version and the overrides a deployment records are those its agent and
\* its workflow were rendered from, however many requests overlap.
THEOREM RowsAlwaysMatch == Spec => []RowsMatchTheRecord
BY InvInit, InvNext, RowsFromInv, PTL DEF Spec

\* A deployment listed as up to date holds what the playbook says now, for any
\* number of edits and syncs at once.
THEOREM UpToDateIsAlwaysCurrent == Spec => []UpToDateIsCurrent
BY InvInit, InvNext, CurrentFromInv, PTL DEF Spec
===============================================================================
