---------------------------- MODULE WorkflowsProofs ----------------------------
(***************************************************************************)
(* Proofs about Workflows: when the scheduler starts a run, for any number *)
(* of workflows, agents, processes, requests, cron expressions and run     *)
(* rows, and however often processes crash.                                *)
(***************************************************************************)
EXTENDS Workflows, TLAPS

-----------------------------------------------------------------------------
(* The inductive invariant.  A firing looks whether the flow has a run in  *)
(* flight in one step and inserts the next one in a later one; all that    *)
(* time its process holds the flow's row, so that the row stays due and    *)
(* no other process can insert a scheduled run of the flow.                *)

Firing == {"preflight", "skip", "inFlight", "insert"}

ClaimInv ==
  \A p \in Procs : tick[p].pc \in Firing =>
    /\ holder[tick[p].flow] = p /\ Waiting(tick[p].flow)
    /\ tick[p].pc = "insert" =>
         \A r \in Runs : InFlight(r) /\ run[r].scheduled => run[r].flow # tick[p].flow

\* A workflow that was never created cannot be due, so creating one never
\* meets a claim; an update is of one that was created.
ThereInv ==
  /\ \A w \in Flows : flow[w].active => flow[w].there
  /\ \A c \in Callers : call[c].pc = "write" =>
       flow[call[c].flow].there /\ call[c].edit.trigger \in Triggers

FireInv == TypeOK /\ ScheduleIsCoupled /\ SlotsFireOnce /\ ClaimInv /\ ThereInv

LEMMA LongestIsLongest ==
  /\ LongestPeriod \in Nat \ {0} /\ Periods \subseteq Nat \ {0}
  /\ Periods \subseteq Waits /\ Periods \cap {NoCron, Never} = {} /\ Never \notin Waits /\ 0 \in Waits
<1>1. LongestPeriod \in Periods /\ \A q \in Periods : q <= LongestPeriod
  BY PeriodsAssumption DEF LongestPeriod
<1>2. LongestPeriod \in Nat \ {0}
  BY <1>1, PeriodsAssumption
<1> QED
  BY <1>1, <1>2, PeriodsAssumption DEF Waits, NoCron, Never

LEMMA BoundsAreNat ==
  /\ MinInterval \in Nat /\ MaxActive \in Nat /\ MaxFlows \in Nat /\ MaxAgents \in Nat
  /\ Stale \in Nat /\ MaxEdits \in Nat /\ MaxCrashes \in Nat
BY LimitsAssumption

LEMMA InvInit == Init => FireInv
<1> SUFFICES ASSUME Init PROVE FireInv
  OBVIOUS
<1>1. TypeOK
  <2>1. org \in [paused: BOOLEAN, provider: Providers \cup {NULL}, keys: SUBSET Providers, active: BOOLEAN]
    BY DEF Init
  <2>2. agent \in [Agents -> AgentRows]
    BY DEF Init, AgentRows
  <2>3. flow \in [Flows -> FlowRows]
    BY DEF Init, FlowRows, Triggers
  <2>4. run \in [Runs -> RunRows \cup {NoRun}] /\ holder \in [Flows -> Procs \cup {NULL}]
    BY DEF Init
  <2>5. tick \in [Procs -> Ticks]
    BY DEF Init, IdleTick, Ticks
  <2>6. call \in [Callers -> Calls]
    BY DEF Init, IdleCall, Calls
  <2>7. early \in BOOLEAN
    BY DEF Init
  <2>8. used \in [edits: 0 .. MaxEdits, crashes: 0 .. MaxCrashes]
    <3>1. 0 \in 0 .. MaxEdits /\ 0 \in 0 .. MaxCrashes
      BY BoundsAreNat
    <3> QED
      BY <3>1 DEF Init
  <2> QED
    BY <2>1, <2>2, <2>3, <2>4, <2>5, <2>6, <2>7, <2>8 DEF TypeOK
<1>2. ScheduleIsCoupled
  BY DEF Init, ScheduleIsCoupled
<1>3. SlotsFireOnce
  BY DEF Init, SlotsFireOnce, InFlight
<1>4. ClaimInv
  BY DEF Init, ClaimInv, Firing, IdleTick
<1>5. ThereInv
  BY DEF Init, ThereInv, IdleCall
<1> QED
  BY <1>1, <1>2, <1>3, <1>4, <1>5 DEF FireInv

-----------------------------------------------------------------------------
(* The kinds of steps.                                                     *)

\* A run that is in flight afterwards was so before, or is a manual one.
NoNewFiring ==
  \A r \in Runs : InFlight(r)' /\ run'[r].scheduled =>
    InFlight(r) /\ run[r].scheduled /\ run'[r].flow = run[r].flow

\* The workflows and the scheduler stand; a run may start by hand, or end.
LEMMA StandingStep ==
  ASSUME FireInv, TypeOK', UNCHANGED <<flow, holder, tick, early>>, NoNewFiring,
         \A c \in Callers : call'[c].pc = "write" =>
           flow[call'[c].flow].there /\ call'[c].edit.trigger \in Triggers
  PROVE  FireInv'
<1>1. ScheduleIsCoupled'
  BY DEF FireInv, ScheduleIsCoupled
<1>2. SlotsFireOnce'
  BY DEF FireInv, SlotsFireOnce, NoNewFiring
<1>3. ClaimInv'
  BY DEF FireInv, ClaimInv, NoNewFiring, Waiting
<1>4. ThereInv'
  BY DEF FireInv, ThereInv
<1> QED
  BY <1>1, <1>2, <1>3, <1>4 DEF FireInv

\* A workflow changes that no firing has.
LEMMA EditStep ==
  ASSUME FireInv, TypeOK', UNCHANGED <<run, holder, tick, early>>,
         ScheduleIsCoupled',
         \A w \in Flows : Waiting(w) /\ holder[w] # NULL => flow'[w] = flow[w],
         \A w \in Flows : /\ flow[w].there => flow'[w].there
                          /\ flow'[w].active => flow'[w].there,
         \A c \in Callers : call'[c].pc = "write" => call'[c] = call[c] /\ call[c].flow \in Flows
  PROVE  FireInv'
<1>1. SlotsFireOnce'
  BY DEF FireInv, SlotsFireOnce, InFlight
<1>2. ASSUME NEW p \in Procs, tick[p].pc \in Firing
      PROVE  tick[p].flow \in Flows /\ flow'[tick[p].flow] = flow[tick[p].flow]
  <2>1. tick[p].flow \in Flows
    BY <1>2 DEF FireInv, TypeOK, Ticks, Firing
  <2>2. holder[tick[p].flow] = p /\ Waiting(tick[p].flow)
    BY <1>2 DEF FireInv, ClaimInv
  <2> QED
    BY <2>1, <2>2, NamesAssumption
<1>3. ClaimInv'
  BY <1>2 DEF FireInv, ClaimInv, Waiting, InFlight
<1>4. ThereInv'
  BY DEF FireInv, ThereInv
<1> QED
  BY <1>1, <1>3, <1>4 DEF FireInv

\* One process's scheduler moves and neither claims nor fires; what it lets
\* go of is its own.
LEMMA SchedulerStep ==
  ASSUME FireInv, TypeOK', NEW p \in Procs, UNCHANGED <<flow, early>>, NoNewFiring,
         \A q \in Procs \ {p} : tick'[q] = tick[q],
         \A w \in Flows : holder[w] # p => holder'[w] = holder[w],
         tick'[p].pc \in Firing =>
           /\ tick[p].pc \in Firing /\ tick'[p].flow = tick[p].flow
           /\ holder'[tick[p].flow] = p
           /\ tick'[p].pc = "insert" => ~HasInFlightRun(tick[p].flow) \/ tick[p].pc = "insert",
         \A c \in Callers : call'[c].pc = "write" => call'[c] = call[c]
  PROVE  FireInv'
<1>1. ScheduleIsCoupled'
  BY DEF FireInv, ScheduleIsCoupled
<1>2. SlotsFireOnce'
  BY DEF FireInv, SlotsFireOnce, NoNewFiring
<1>3. \A q \in Procs : tick[q].pc \in Firing => tick[q].flow \in Flows
  BY DEF FireInv, TypeOK, Ticks, Firing
<1>4. ASSUME NEW q \in Procs, tick'[q].pc \in Firing
      PROVE  tick[q].pc \in Firing /\ tick'[q].flow = tick[q].flow /\ holder'[tick[q].flow] = q
  BY <1>3, <1>4 DEF FireInv, ClaimInv
<1>5. ASSUME NEW q \in Procs, tick'[q].pc = "insert", NEW r \in Runs, InFlight(r)', run'[r].scheduled
      PROVE  run'[r].flow # tick'[q].flow
  <2>1. tick'[q].flow = tick[q].flow
    BY <1>4, <1>5 DEF Firing
  <2>2. InFlight(r) /\ run[r].scheduled /\ run'[r].flow = run[r].flow
    BY <1>5 DEF NoNewFiring
  <2>3. CASE tick[q].pc = "insert"
    BY <2>1, <2>2, <2>3 DEF FireInv, ClaimInv, Firing
  <2>4. CASE tick[q].pc # "insert"
    <3>1. q = p
      BY <1>5, <2>4
    <3>2. ~HasInFlightRun(tick[p].flow)
      BY <1>5, <2>4, <3>1 DEF Firing
    <3> QED
      BY <2>1, <2>2, <3>1, <3>2 DEF HasInFlightRun
  <2> QED
    BY <2>3, <2>4
<1>6. ClaimInv'
  <2>1. \A q \in Procs : tick[q].pc \in Firing => Waiting(tick[q].flow)
    BY DEF FireInv, ClaimInv
  <2> QED
    BY <1>4, <1>5, <2>1 DEF ClaimInv, Waiting
<1>7. ThereInv'
  BY DEF FireInv, ThereInv
<1> QED
  BY <1>1, <1>2, <1>6, <1>7 DEF FireInv

-----------------------------------------------------------------------------
(* Requests that are one transaction.                                      *)

LEMMA EditCounts ==
  ASSUME TypeOK, Edit
  PROVE  used' \in [edits: 0 .. MaxEdits, crashes: 0 .. MaxCrashes]
<1>1. used.edits \in 0 .. MaxEdits /\ used.crashes \in 0 .. MaxCrashes /\ used.edits < MaxEdits
  BY DEF TypeOK, Edit
<1>2. used.edits + 1 \in 0 .. MaxEdits
  BY <1>1, BoundsAreNat
<1> QED
  BY <1>1, <1>2 DEF TypeOK, Edit

\* The agents and the organisation change what starts later, never a schedule.
LEMMA AgentsAndOrgStep ==
  ASSUME FireInv,
         \/ \E a \in Agents : DeleteAgent(a) \/ \E n \in Names : CreateAgent(a, n) \/ UpdateAgent(a, n)
         \/ ChangeOrg
         \/ \E k \in Providers : SubmitAPIKey(k) \/ DeleteAPIKey(k)
  PROVE  FireInv'
<1>1. UNCHANGED <<flow, run, holder, tick, call, early>>
  BY DEF DeleteAgent, CreateAgent, UpdateAgent, ChangeOrg, SubmitAPIKey, DeleteAPIKey
<1>2. agent' \in [Agents -> AgentRows]
  <2>0. agent \in [Agents -> AgentRows]
    BY DEF FireInv, TypeOK
  <2>1. CASE UNCHANGED agent
    BY <2>0, <2>1
  <2>2. ASSUME NEW a \in Agents, DeleteAgent(a) PROVE agent' \in [Agents -> AgentRows]
    BY <2>0, <2>2 DEF DeleteAgent, DeactivateAgent, AgentRows
  <2>3. ASSUME NEW a \in Agents, NEW n \in Names, CreateAgent(a, n) PROVE agent' \in [Agents -> AgentRows]
    BY <2>0, <2>3 DEF CreateAgent, InsertAgent, AgentRows
  <2>4. ASSUME NEW a \in Agents, NEW n \in Names, UpdateAgent(a, n) PROVE agent' \in [Agents -> AgentRows]
    BY <2>0, <2>4 DEF UpdateAgent, RenameAgent, AgentRows
  <2> QED
    BY <2>1, <2>2, <2>3, <2>4 DEF ChangeOrg, SubmitAPIKey, DeleteAPIKey
<1>3. org' \in [paused: BOOLEAN, provider: Providers \cup {NULL}, keys: SUBSET Providers, active: BOOLEAN]
  <2>1. CASE ChangeOrg
    BY <2>1 DEF FireInv, TypeOK, ChangeOrg
  <2>2. CASE UNCHANGED org
    BY <2>2 DEF FireInv, TypeOK
  <2>3. ASSUME NEW k \in Providers, SubmitAPIKey(k) \/ DeleteAPIKey(k)
        PROVE  org' \in [paused: BOOLEAN, provider: Providers \cup {NULL}, keys: SUBSET Providers, active: BOOLEAN]
    <3>1. /\ org \in [paused: BOOLEAN, provider: Providers \cup {NULL}, keys: SUBSET Providers, active: BOOLEAN]
          /\ org.keys \in SUBSET Providers /\ org.provider \in Providers \cup {NULL}
      BY DEF FireInv, TypeOK
    <3>2. CASE SubmitAPIKey(k)
      <4>1. org' = [org EXCEPT !.keys = org.keys \cup {k}, !.provider = k]
        BY <3>2 DEF SubmitAPIKey, SetOrganizationActiveApiKey, UpsertAPIKey
      <4>2. org.keys \cup {k} \in SUBSET Providers
        BY <3>1
      <4> QED
        BY <3>1, <4>1, <4>2
    <3>3. CASE DeleteAPIKey(k)
      <4>1. org' = [org EXCEPT !.keys = org.keys \ {k},
                               !.provider = ClearOrganizationActiveApiKeyForProvider(k)]
        BY <3>3 DEF DeleteAPIKey, DeactivateKeyByProvider
      <4>2. org.keys \ {k} \in SUBSET Providers /\ ClearOrganizationActiveApiKeyForProvider(k) \in Providers \cup {NULL}
        BY <3>1 DEF ClearOrganizationActiveApiKeyForProvider
      <4> QED
        BY <3>1, <4>1, <4>2
    <3> QED
      BY <2>3, <3>2, <3>3
  <2> QED
    BY <2>1, <2>2, <2>3 DEF DeleteAgent, CreateAgent, UpdateAgent
<1>4. used' \in [edits: 0 .. MaxEdits, crashes: 0 .. MaxCrashes]
  BY EditCounts DEF FireInv, TypeOK, DeleteAgent, CreateAgent, UpdateAgent, ChangeOrg, SubmitAPIKey, DeleteAPIKey
<1>5. TypeOK'
  BY <1>1, <1>2, <1>3, <1>4 DEF FireInv, TypeOK
<1>6. NoNewFiring
  BY <1>1 DEF NoNewFiring, InFlight
<1> QED
  BY <1>1, <1>5, <1>6, StandingStep DEF FireInv, ThereInv

\* What computeSchedule accepts is coupled.
LEMMA ScheduleType ==
  ASSUME NEW trigger, NEW cron \in Periods \cup {NoCron}, NEW s \in computeSchedule(trigger, cron)
  PROVE  /\ s.cron \in Periods \cup {NoCron} /\ s.next \in Waits \cup {Never}
         /\ trigger = "scheduled" <=> s.cron # NoCron
         /\ trigger = "scheduled" <=> s.next # Never
BY LongestIsLongest DEF computeSchedule

LEMMA CreateStep ==
  ASSUME FireInv, NEW w \in Flows, NEW a \in Agents, NEW trigger \in Triggers, NEW cron \in Periods \cup {NoCron},
         Create(w, a, trigger, cron)
  PROVE  FireInv'
<1>1. UNCHANGED <<org, agent, run, holder, tick, call, early, used>> /\ ~flow[w].there
  BY DEF Create
<1>2. PICK s \in computeSchedule(trigger, cron) : InsertWorkflow(w, a, trigger, s)
  BY DEF Create
<1>3. /\ s.cron \in Periods \cup {NoCron} /\ s.next \in Waits \cup {Never}
      /\ trigger = "scheduled" <=> s.cron # NoCron
      /\ trigger = "scheduled" <=> s.next # Never
  BY ScheduleType
<1>4. /\ flow' \in [Flows -> FlowRows]
      /\ \A x \in Flows : x # w => flow'[x] = flow[x]
      /\ flow'[w].there /\ flow'[w].trigger = trigger /\ flow'[w].cron = s.cron /\ flow'[w].next = s.next
  BY <1>2, <1>3 DEF InsertWorkflow, FireInv, TypeOK, FlowRows
<1>5. TypeOK'
  BY <1>1, <1>4 DEF FireInv, TypeOK
<1>6. ScheduleIsCoupled'
  BY <1>3, <1>4 DEF FireInv, ScheduleIsCoupled
<1>7. \A x \in Flows : Waiting(x) /\ holder[x] # NULL => flow'[x] = flow[x]
  BY <1>1, <1>4 DEF FireInv, ThereInv, Waiting
<1>8. \A x \in Flows : (flow[x].there => flow'[x].there) /\ (flow'[x].active => flow'[x].there)
  BY <1>4 DEF FireInv, ThereInv
<1>9. \A c \in Callers : call[c].pc = "write" => call[c].flow \in Flows
  BY DEF FireInv, TypeOK, Calls
<1> QED
  BY <1>1, <1>5, <1>6, <1>7, <1>8, <1>9, EditStep

LEMMA DeleteStep ==
  ASSUME FireInv, NEW w \in Flows, Delete(w)
  PROVE  FireInv'
<1>1. UNCHANGED <<org, agent, run, holder, tick, call, early>> /\ flow[w].there /\ holder[w] = NULL
  BY DEF Delete, ListWorkflows
<1>2. flow' = [flow EXCEPT ![w].active = FALSE]
  BY DEF Delete, DeactivateWorkflow
<1>3. /\ flow' \in [Flows -> FlowRows]
      /\ \A x \in Flows : x # w => flow'[x] = flow[x]
      /\ flow'[w].there /\ flow'[w].trigger = flow[w].trigger
      /\ flow'[w].cron = flow[w].cron /\ flow'[w].next = flow[w].next
  BY <1>1, <1>2, ZenonT(60) DEF FireInv, TypeOK, FlowRows
<1>4. TypeOK'
  BY <1>1, <1>3, EditCounts DEF FireInv, TypeOK, Delete
<1>5. ScheduleIsCoupled'
  BY <1>3 DEF FireInv, ScheduleIsCoupled
<1>6. \A x \in Flows : (flow[x].there => flow'[x].there) /\ (flow'[x].active => flow'[x].there)
  BY <1>3 DEF FireInv, ThereInv
<1>7. \A c \in Callers : call[c].pc = "write" => call[c].flow \in Flows
  BY DEF FireInv, TypeOK, Calls
<1> QED
  BY <1>1, <1>3, <1>4, <1>5, <1>6, <1>7, EditStep

-----------------------------------------------------------------------------
(* PATCH.                                                                  *)

LEMMA UpdateReadStep ==
  ASSUME FireInv, NEW c \in Callers, NEW w \in Flows, NEW edit \in Edits, UpdateRead(c, w, edit)
  PROVE  FireInv'
<1> DEFINE e == Effective(w, edit)
           write == [pc |-> "write", flow |-> w, edit |-> e]
<1>1. /\ UNCHANGED <<org, agent, flow, run, holder, tick, early>> /\ flow[w].there
      /\ call' = [call EXCEPT ![c] = write]
  BY DEF UpdateRead, ListWorkflows
<1>2. e \in Edits /\ e.trigger \in Triggers
  BY DEF Effective, Edits, FireInv, TypeOK, FlowRows
<1>3. write \in Calls /\ write.flow = w /\ write.edit = e
  BY <1>2 DEF Calls
<1> HIDE DEF write, e
<1>4. call' \in [Callers -> Calls] /\ call'[c] = write /\ \A x \in Callers : x # c => call'[x] = call[x]
  BY <1>1, <1>3 DEF FireInv, TypeOK
<1>5. TypeOK'
  BY <1>1, <1>4, EditCounts DEF FireInv, TypeOK, UpdateRead
<1>6. NoNewFiring
  BY <1>1 DEF NoNewFiring, InFlight
<1>7. \A x \in Callers : call'[x].pc = "write" =>
        flow[call'[x].flow].there /\ call'[x].edit.trigger \in Triggers
  BY <1>1, <1>2, <1>3, <1>4 DEF FireInv, ThereInv
<1> QED
  BY <1>1, <1>5, <1>6, <1>7, StandingStep

LEMMA UpdateWriteStep ==
  ASSUME FireInv, NEW c \in Callers, UpdateWrite(c)
  PROVE  FireInv'
<1> DEFINE w == call[c].flow
           edit == call[c].edit
<1>1. /\ UNCHANGED <<org, agent, run, holder, tick, early, used>>
      /\ call' = [call EXCEPT ![c] = IdleCall] /\ call[c].pc = "write" /\ holder[w] = NULL
  BY DEF UpdateWrite
<1>2. w \in Flows /\ edit \in Edits /\ edit.trigger \in Triggers /\ flow[w].there
  BY <1>1 DEF FireInv, TypeOK, Calls, ThereInv
<1>3. PICK s \in computeSchedule(edit.trigger, edit.cron) : flow' = [flow EXCEPT ![w] = UpdateWorkflow(w, edit, s)]
  BY DEF UpdateWrite
<1>4. /\ s.cron \in Periods \cup {NoCron} /\ s.next \in Waits \cup {Never}
      /\ edit.trigger = "scheduled" <=> s.cron # NoCron
      /\ edit.trigger = "scheduled" <=> s.next # Never
  BY <1>2, ScheduleType DEF Edits
<1>5. /\ UpdateWorkflow(w, edit, s) \in FlowRows /\ UpdateWorkflow(w, edit, s).there
      /\ UpdateWorkflow(w, edit, s).trigger = edit.trigger
      /\ UpdateWorkflow(w, edit, s).cron = s.cron /\ UpdateWorkflow(w, edit, s).next = s.next
  BY <1>2, <1>4, ZenonT(60) DEF UpdateWorkflow, FlowRows, FireInv, TypeOK
<1>6. /\ flow' \in [Flows -> FlowRows] /\ flow'[w] = UpdateWorkflow(w, edit, s)
      /\ \A x \in Flows : x # w => flow'[x] = flow[x]
  BY <1>2, <1>3, <1>5 DEF FireInv, TypeOK
<1>7. call' \in [Callers -> Calls] /\ \A x \in Callers : call'[x].pc = "write" => call'[x] = call[x]
  BY <1>1 DEF FireInv, TypeOK, Calls, IdleCall
<1>8. TypeOK'
  BY <1>1, <1>6, <1>7 DEF FireInv, TypeOK
<1>9. ScheduleIsCoupled'
  BY <1>4, <1>5, <1>6 DEF FireInv, ScheduleIsCoupled
<1>10. \A x \in Flows : (flow[x].there => flow'[x].there) /\ (flow'[x].active => flow'[x].there)
  BY <1>5, <1>6 DEF FireInv, ThereInv
<1>11. \A x \in Callers : call'[x].pc = "write" => call'[x] = call[x] /\ call[x].flow \in Flows
  BY <1>7 DEF FireInv, TypeOK, Calls
<1> QED
  BY <1>1, <1>6, <1>8, <1>9, <1>10, <1>11, EditStep

-----------------------------------------------------------------------------
(* POST /workflows/:id/run, and what drives a run.                         *)

LEMMA GoType ==
  ASSUME FireInv, NEW c \in Callers, NEW from \in {"read", "validate", "count"},
         NEW to \in {"validate", "count", "insert"}, NEW ok, Go(c, from, to, ok)
  PROVE  /\ call' \in [Callers -> Calls]
         /\ \A x \in Callers : call'[x].pc = "write" => call'[x] = call[x]
<1>1. call[c].pc = from /\ call[c] \in Calls /\ call[c].flow \in Flows
  BY DEF Go, FireInv, TypeOK, Calls
<1>2. [call[c] EXCEPT !.pc = to] \in Calls /\ [call[c] EXCEPT !.pc = to].pc = to
  BY <1>1 DEF Calls
<1>3. IdleCall \in Calls /\ IdleCall.pc = "idle"
  BY DEF Calls, IdleCall
<1> QED
  BY <1>2, <1>3 DEF Go, FireInv, TypeOK

\* A request that changes only where it is.
LEMMA RequestStep ==
  ASSUME FireInv, NEW c \in Callers,
         \/ \E w \in Flows : RunNow(c, w)
         \/ RunRead(c) \/ RunValidate(c) \/ RunCount(c)
  PROVE  FireInv'
<1>1. UNCHANGED <<org, agent, flow, run, holder, tick, early, used>>
  BY DEF RunNow, RunRead, RunValidate, RunCount
<1> DEFINE Fine == /\ call' \in [Callers -> Calls]
                   /\ \A x \in Callers : call'[x].pc = "write" => call'[x] = call[x]
<1>2. Fine
  <2>1. ASSUME NEW w \in Flows, RunNow(c, w) PROVE Fine
    BY <2>1 DEF RunNow, Calls, FireInv, TypeOK
  <2>2. CASE RunRead(c)
    BY <2>2, GoType DEF RunRead
  <2>3. CASE RunValidate(c)
    BY <2>3, GoType DEF RunValidate
  <2>4. CASE RunCount(c)
    BY <2>4, GoType DEF RunCount
  <2> QED
    BY <2>1, <2>2, <2>3, <2>4
<1>3. TypeOK'
  BY <1>1, <1>2 DEF FireInv, TypeOK
<1>4. NoNewFiring
  BY <1>1 DEF NoNewFiring, InFlight
<1> QED
  BY <1>1, <1>2, <1>3, <1>4, StandingStep DEF FireInv, ThereInv

LEMMA PendingType ==
  ASSUME NEW w \in Flows
  PROVE  /\ PendingRun(w) \in RunRows /\ ~PendingRun(w).scheduled /\ PendingRun(w).flow = w
         /\ [PendingRun(w) EXCEPT !.scheduled = TRUE] \in RunRows
         /\ [PendingRun(w) EXCEPT !.scheduled = TRUE].flow = w
<1>1. 0 \in 0 .. Stale + 1
  BY BoundsAreNat
<1> QED
  BY <1>1 DEF PendingRun, RunRows, InFlightStatuses

LEMMA RowsAreRuns == NoRun \notin RunRows
BY DEF NoRun, RunRows, InFlightStatuses

LEMMA RunInsertStep ==
  ASSUME FireInv, NEW c \in Callers, NEW r \in Runs, RunInsert(c, r)
  PROVE  FireInv'
<1> DEFINE w == call[c].flow
           launch == [pc |-> "launch", flow |-> w, run |-> r]
<1>1. /\ UNCHANGED <<org, agent, flow, holder, tick, early, used>>
      /\ call' = [call EXCEPT ![c] = launch] /\ call[c].pc = "insert"
      /\ run' = [run EXCEPT ![r] = PendingRun(w)]
  BY DEF RunInsert, InsertWorkflowRun, InsertRun
<1>2. w \in Flows
  BY <1>1 DEF FireInv, TypeOK, Calls
<1>3. launch \in Calls /\ launch.pc = "launch"
  BY <1>2 DEF Calls
<1> HIDE DEF launch
<1>4. /\ call' \in [Callers -> Calls]
      /\ \A x \in Callers : call'[x].pc = "write" => call'[x] = call[x]
  BY <1>1, <1>3 DEF FireInv, TypeOK
<1>5. /\ run' \in [Runs -> RunRows \cup {NoRun}] /\ ~run'[r].scheduled
      /\ \A x \in Runs : x # r => run'[x] = run[x]
  BY <1>1, <1>2, PendingType DEF FireInv, TypeOK
<1>6. TypeOK'
  BY <1>1, <1>4, <1>5 DEF FireInv, TypeOK
<1>7. NoNewFiring
  BY <1>5 DEF NoNewFiring, InFlight
<1> QED
  BY <1>1, <1>4, <1>6, <1>7, StandingStep DEF FireInv, ThereInv

\* An EXCEPT on a run in flight keeps the flow it is of and who started it.
LEMMA RowChanges ==
  ASSUME TypeOK, NEW r \in Runs, InFlight(r), NEW status \in InFlightStatuses, NEW host \in Procs \cup {NULL}
  PROVE  /\ [run[r] EXCEPT !.host = host] \in RunRows
         /\ [run[r] EXCEPT !.host = host].flow = run[r].flow
         /\ [run[r] EXCEPT !.host = host].scheduled = run[r].scheduled
         /\ [run[r] EXCEPT !.status = status, !.age = 0, !.host = host] \in RunRows
         /\ [run[r] EXCEPT !.status = status, !.age = 0, !.host = host].flow = run[r].flow
         /\ [run[r] EXCEPT !.status = status, !.age = 0, !.host = host].scheduled = run[r].scheduled
<1>1. run[r] \in RunRows
  BY DEF TypeOK, InFlight
<1>2. 0 \in 0 .. Stale + 1
  BY BoundsAreNat
<1> QED
  BY <1>1, <1>2 DEF RunRows

LEMMA HostOnRuns ==
  ASSUME TypeOK, NEW r, NEW p \in Procs, HostOn(r, p)
  PROVE  run' \in [Runs -> RunRows \cup {NoRun}] /\ NoNewFiring
<1>1. CASE r \notin Runs \/ ~InFlight(r)
  BY <1>1 DEF HostOn, TypeOK, NoNewFiring, InFlight
<1>2. CASE r \in Runs /\ InFlight(r)
  <2>1. run' = [run EXCEPT ![r] = [run[r] EXCEPT !.host = p]]
    BY <1>2 DEF HostOn, InFlight
  <2> DEFINE row == [run[r] EXCEPT !.host = p]
  <2>2. row \in RunRows /\ row.flow = run[r].flow /\ row.scheduled = run[r].scheduled
    BY <1>2, RowChanges DEF InFlightStatuses
  <2> HIDE DEF row
  <2>3. run' = [run EXCEPT ![r] = row]
    BY <2>1 DEF row
  <2> QED
    BY <1>2, <2>2, <2>3 DEF TypeOK, NoNewFiring, InFlight
<1> QED
  BY <1>1, <1>2

LEMMA RunLaunchStep ==
  ASSUME FireInv, NEW c \in Callers, NEW p \in Procs, RunLaunch(c, p)
  PROVE  FireInv'
<1>1. /\ UNCHANGED <<org, agent, flow, holder, tick, early, used>>
      /\ call' = [call EXCEPT ![c] = IdleCall]
      /\ HostOn(call[c].run, p)
  BY DEF RunLaunch
<1>2. run' \in [Runs -> RunRows \cup {NoRun}] /\ NoNewFiring
  BY <1>1, HostOnRuns DEF FireInv
<1>3. /\ call' \in [Callers -> Calls]
      /\ \A x \in Callers : call'[x].pc = "write" => call'[x] = call[x]
  BY <1>1 DEF FireInv, TypeOK, IdleCall, Calls
<1>4. TypeOK'
  BY <1>1, <1>2, <1>3 DEF FireInv, TypeOK
<1> QED
  BY <1>1, <1>2, <1>3, <1>4, StandingStep DEF FireInv, ThereInv

LEMMA DriveStep ==
  ASSUME FireInv, NEW r \in Runs, Advance(r) \/ Finish(r) \/ Decide(r)
  PROVE  FireInv'
<1>1. UNCHANGED <<org, agent, flow, holder, tick, call, early, used>> /\ InFlight(r)
  BY DEF Advance, Finish, Decide, Hosted
<1> DEFINE EndsOrKeeps ==
      \/ run' = [run EXCEPT ![r] = NoRun]
      \/ \E row \in RunRows : /\ row.flow = run[r].flow /\ row.scheduled = run[r].scheduled
                              /\ run' = [run EXCEPT ![r] = row]
<1>2. EndsOrKeeps
  <2>1. CASE Advance(r)
    <3>1. PICK s \in {"running", "awaiting_approval"} :
            run' = [run EXCEPT ![r].status = s, ![r].age = 0,
                               ![r].host = IF s = "running" THEN @ ELSE NULL]
      BY <2>1 DEF Advance
    <3> DEFINE host == IF s = "running" THEN run[r].host ELSE NULL
    <3>2. run[r] \in RunRows /\ host \in Procs \cup {NULL}
      BY <1>1 DEF FireInv, TypeOK, InFlight, RunRows
    <3>3. run' = [run EXCEPT ![r] = [run[r] EXCEPT !.status = s, !.age = 0, !.host = host]]
      BY <3>1, <3>2 DEF FireInv, TypeOK, RunRows
    <3> DEFINE next == [run[r] EXCEPT !.status = s, !.age = 0, !.host = host]
    <3> HIDE DEF host
    <3>4. s \in InFlightStatuses
      BY DEF InFlightStatuses
    <3>5. next \in RunRows /\ next.flow = run[r].flow /\ next.scheduled = run[r].scheduled
      BY <1>1, <3>2, <3>4, RowChanges DEF FireInv
    <3>6. run' = [run EXCEPT ![r] = next]
      BY <3>3
    <3> HIDE DEF next
    <3> QED
      BY <3>5, <3>6
  <2>2. CASE Finish(r)
    BY <2>2 DEF Finish
  <2>3. ASSUME NEW p \in Procs, run' = [run EXCEPT ![r].status = "running", ![r].age = 0, ![r].host = p]
        PROVE  EndsOrKeeps
    <3>1. run[r] \in RunRows
      BY <1>1 DEF FireInv, TypeOK, InFlight
    <3>2. run' = [run EXCEPT ![r] = [run[r] EXCEPT !.status = "running", !.age = 0, !.host = p]]
      BY <2>3, <3>1 DEF FireInv, TypeOK, RunRows
    <3> DEFINE next == [run[r] EXCEPT !.status = "running", !.age = 0, !.host = p]
    <3>3. next \in RunRows /\ next.flow = run[r].flow /\ next.scheduled = run[r].scheduled
      BY <1>1, RowChanges DEF FireInv, InFlightStatuses
    <3>4. run' = [run EXCEPT ![r] = next]
      BY <3>2
    <3> HIDE DEF next
    <3> QED
      BY <3>3, <3>4
  <2> QED
    BY <2>1, <2>2, <2>3 DEF Decide
<1>3. run' \in [Runs -> RunRows \cup {NoRun}] /\ NoNewFiring
  BY <1>1, <1>2 DEF FireInv, TypeOK, NoNewFiring, InFlight
<1>4. TypeOK'
  BY <1>1, <1>3 DEF FireInv, TypeOK
<1> QED
  BY <1>1, <1>3, <1>4, StandingStep DEF FireInv, ThereInv

-----------------------------------------------------------------------------
(* The scheduler.                                                          *)

\* Where a process that has claimed a flow is.
LEMMA ClaimedTick ==
  ASSUME FireInv, NEW p \in Procs, tick[p].pc \notin {"idle", "next"}
  PROVE  /\ tick[p].due \in SUBSET Due /\ tick[p].flow \in Flows /\ tick[p].next \in Waits
         /\ [pc |-> "next", due |-> tick[p].due] \in Ticks
         /\ \A pc \in {"preflight", "skip", "inFlight", "insert", "launch"} :
              [tick[p] EXCEPT !.pc = pc] \in Ticks /\ [tick[p] EXCEPT !.pc = pc].pc = pc
                /\ [tick[p] EXCEPT !.pc = pc].flow = tick[p].flow
BY SMTT(30) DEF FireInv, TypeOK, Ticks

LEMMA TickStep ==
  ASSUME FireInv, NEW p \in Procs, Tick(p)
  PROVE  FireInv'
<1> DEFINE due == {[flow |-> w, cron |-> flow[w].cron] : w \in ListDueScheduledWorkflows}
           st == [pc |-> "next", due |-> due]
<1>1. /\ UNCHANGED <<org, agent, flow, holder, call, early, used>>
      /\ run' = [r \in Runs |-> IF IsStale(r) THEN NoRun ELSE run[r]]
      /\ tick' = [tick EXCEPT ![p] = st]
  BY DEF Tick, ReapStaleRuns
<1>2. due \in SUBSET Due
  <2> SUFFICES ASSUME NEW w \in ListDueScheduledWorkflows PROVE [flow |-> w, cron |-> flow[w].cron] \in Due
    OBVIOUS
  <2>1. w \in Flows /\ flow[w].trigger = "scheduled"
    BY DEF ListDueScheduledWorkflows, DueScheduled, Waiting
  <2>2. flow[w].cron \in Periods
    BY <2>1 DEF FireInv, TypeOK, FlowRows, ScheduleIsCoupled
  <2> QED
    BY <2>1, <2>2 DEF Due
<1>3. st \in Ticks /\ st.pc = "next"
  BY <1>2 DEF Ticks
<1> HIDE DEF st
<1>4. tick' \in [Procs -> Ticks] /\ tick'[p] = st /\ \A q \in Procs \ {p} : tick'[q] = tick[q]
  BY <1>1, <1>3 DEF FireInv, TypeOK
<1>5. run' \in [Runs -> RunRows \cup {NoRun}] /\ NoNewFiring
  BY <1>1 DEF FireInv, TypeOK, NoNewFiring, InFlight
<1>6. TypeOK'
  BY <1>1, <1>4, <1>5 DEF FireInv, TypeOK
<1> QED
  BY <1>1, <1>3, <1>4, <1>5, <1>6, SchedulerStep DEF Firing

\* What the claim finds due stays so: nobody writes a row that is held.
LEMMA ClaimStep ==
  ASSUME FireInv, NEW p \in Procs, Claim(p)
  PROVE  FireInv'
<1>1. UNCHANGED <<org, agent, flow, run, call, early, used>> /\ tick[p].pc = "next" /\ tick[p].due \in SUBSET Due
  BY DEF Claim, FireInv, TypeOK, Ticks
<1>2. NoNewFiring
  BY <1>1 DEF NoNewFiring, InFlight
<1>3. ASSUME UNCHANGED holder, NEW st \in Ticks, st.pc \in {"idle", "next"}, tick' = [tick EXCEPT ![p] = st]
      PROVE  FireInv'
  <2>1. tick' \in [Procs -> Ticks] /\ tick'[p] = st /\ \A q \in Procs \ {p} : tick'[q] = tick[q]
    BY <1>3 DEF FireInv, TypeOK
  <2>2. TypeOK'
    BY <1>1, <1>3, <2>1 DEF FireInv, TypeOK
  <2> QED
    BY <1>1, <1>2, <1>3, <2>1, <2>2, SchedulerStep DEF Firing
<1>4. CASE tick[p].due = {}
  <2>1. IdleTick \in Ticks /\ IdleTick.pc = "idle"
    BY DEF IdleTick, Ticks
  <2> QED
    BY <1>3, <1>4, <2>1 DEF Claim
<1>5. ASSUME NEW d \in tick[p].due, tick' = [tick EXCEPT ![p].due = @ \ {d}], UNCHANGED holder
      PROVE  FireInv'
  <2>1. [tick[p] EXCEPT !.due = tick[p].due \ {d}] \in Ticks /\ [tick[p] EXCEPT !.due = tick[p].due \ {d}].pc = "next"
    BY <1>1 DEF FireInv, TypeOK, Ticks
  <2>2. tick' = [tick EXCEPT ![p] = [tick[p] EXCEPT !.due = tick[p].due \ {d}]]
    BY <1>5 DEF FireInv, TypeOK
  <2> QED
    BY <1>3, <1>5, <2>1, <2>2
<1>6. ASSUME NEW d \in tick[p].due, ClaimDueScheduledWorkflow(d.flow),
             holder' = [holder EXCEPT ![d.flow] = p],
             tick' = [tick EXCEPT ![p] = [pc |-> "preflight", due |-> @.due \ {d}, flow |-> d.flow,
                                          next |-> d.cron, run |-> NULL]]
      PROVE  FireInv'
  <2> DEFINE st == [pc |-> "preflight", due |-> tick[p].due \ {d}, flow |-> d.flow, next |-> d.cron, run |-> NULL]
  <2>1. d.flow \in Flows /\ d.cron \in Waits
    BY <1>1, LongestIsLongest DEF Due
  <2>2. st \in Ticks /\ st.pc = "preflight" /\ st.flow = d.flow
    BY <1>1, <2>1 DEF Ticks
  <2>3. tick' = [tick EXCEPT ![p] = st]
    BY <1>6 DEF FireInv, TypeOK
  <2> HIDE DEF st
  <2>4. tick' \in [Procs -> Ticks] /\ tick'[p] = st /\ \A q \in Procs \ {p} : tick'[q] = tick[q]
    BY <2>2, <2>3 DEF FireInv, TypeOK
  <2>5. holder' \in [Flows -> Procs \cup {NULL}] /\ holder'[d.flow] = p /\ holder[d.flow] = NULL
        /\ \A w \in Flows \ {d.flow} : holder'[w] = holder[w]
    BY <1>6, <2>1 DEF FireInv, TypeOK, ClaimDueScheduledWorkflow
  <2>6. TypeOK'
    BY <1>1, <2>4, <2>5 DEF FireInv, TypeOK
  <2>7. Waiting(d.flow)
    BY <1>6 DEF ClaimDueScheduledWorkflow, DueScheduled
  <2>8. ASSUME NEW q \in Procs, q # p, tick[q].pc \in Firing
        PROVE  tick[q].flow \in Flows /\ tick[q].flow # d.flow
    BY <2>5, <2>8, NamesAssumption DEF FireInv, ClaimInv, TypeOK, Ticks, Firing
  <2>9. ClaimInv'
    BY <1>1, <2>2, <2>4, <2>5, <2>7, <2>8 DEF FireInv, ClaimInv, Waiting, InFlight
  <2>10. ScheduleIsCoupled' /\ SlotsFireOnce' /\ ThereInv'
    BY <1>1 DEF FireInv, ScheduleIsCoupled, SlotsFireOnce, InFlight, ThereInv
  <2> QED
    BY <2>6, <2>9, <2>10 DEF FireInv
<1> QED
  BY <1>4, <1>5, <1>6 DEF Claim

LEMMA FireFailsStep ==
  ASSUME FireInv, NEW p \in Procs, FireFails(p)
  PROVE  FireInv'
<1> DEFINE st == [pc |-> "next", due |-> tick[p].due]
           w == tick[p].flow
<1>1. /\ UNCHANGED <<org, agent, flow, run, call, early, used>> /\ tick[p].pc \in {"preflight", "inFlight"}
      /\ tick' = [tick EXCEPT ![p] = st] /\ holder' = [holder EXCEPT ![w] = NULL]
  BY DEF FireFails, FireInv, TypeOK
<1>2. st \in Ticks /\ st.pc = "next" /\ w \in Flows /\ holder[w] = p
  BY <1>1, ClaimedTick DEF FireInv, ClaimInv, Firing
<1> HIDE DEF st
<1>3. tick' \in [Procs -> Ticks] /\ tick'[p] = st /\ \A q \in Procs \ {p} : tick'[q] = tick[q]
  BY <1>1, <1>2 DEF FireInv, TypeOK
<1>4. holder' \in [Flows -> Procs \cup {NULL}] /\ \A x \in Flows : holder[x] # p => holder'[x] = holder[x]
  BY <1>1, <1>2 DEF FireInv, TypeOK
<1>5. TypeOK'
  BY <1>1, <1>3, <1>4 DEF FireInv, TypeOK
<1>6. NoNewFiring
  BY <1>1 DEF NoNewFiring, InFlight
<1> QED
  BY <1>1, <1>2, <1>3, <1>4, <1>5, <1>6, SchedulerStep DEF Firing

LEMMA FireLooksStep ==
  ASSUME FireInv, NEW p \in Procs, FirePreflight(p) \/ FireLook(p)
  PROVE  FireInv'
<1>1. /\ UNCHANGED <<org, agent, flow, run, holder, call, early, used>>
      /\ tick[p].pc \in {"preflight", "inFlight"}
  BY DEF FirePreflight, FireLook
<1>2. PICK pc \in {"inFlight", "skip", "insert"} :
        /\ tick' = [tick EXCEPT ![p].pc = pc]
        /\ pc = "insert" => ~HasInFlightRun(tick[p].flow)
  BY DEF FirePreflight, FireLook
<1> DEFINE st == [tick[p] EXCEPT !.pc = pc]
<1>3. st \in Ticks /\ st.pc = pc /\ st.flow = tick[p].flow /\ holder[tick[p].flow] = p /\ tick[p].flow \in Flows
  <2>1. tick[p].pc \notin {"idle", "next"} /\ tick[p].pc \in Firing
    BY <1>1 DEF Firing
  <2>2. holder[tick[p].flow] = p
    BY <2>1 DEF FireInv, ClaimInv
  <2>3. st \in Ticks /\ st.pc = pc /\ st.flow = tick[p].flow /\ tick[p].flow \in Flows
    BY <2>1, ClaimedTick, ZenonT(60)
  <2> QED
    BY <2>2, <2>3
<1>4. tick' = [tick EXCEPT ![p] = st]
  BY <1>2 DEF FireInv, TypeOK
<1> HIDE DEF st
<1>5. tick' \in [Procs -> Ticks] /\ tick'[p] = st /\ \A q \in Procs \ {p} : tick'[q] = tick[q]
  BY <1>3, <1>4 DEF FireInv, TypeOK
<1>6. TypeOK'
  BY <1>1, <1>5 DEF FireInv, TypeOK
<1>7. NoNewFiring
  BY <1>1 DEF NoNewFiring, InFlight
<1> QED
  BY <1>1, <1>2, <1>3, <1>5, <1>6, <1>7, SchedulerStep DEF Firing

LEMMA FireLaunchStep ==
  ASSUME FireInv, NEW p \in Procs, FireLaunch(p)
  PROVE  FireInv'
<1> DEFINE st == [pc |-> "next", due |-> tick[p].due]
<1>1. /\ UNCHANGED <<org, agent, flow, holder, call, early, used>> /\ tick[p].pc = "launch"
      /\ tick' = [tick EXCEPT ![p] = st] /\ HostOn(tick[p].run, p)
  BY DEF FireLaunch, FireInv, TypeOK
<1>2. st \in Ticks /\ st.pc = "next"
  BY <1>1, ClaimedTick
<1> HIDE DEF st
<1>3. tick' \in [Procs -> Ticks] /\ tick'[p] = st /\ \A q \in Procs \ {p} : tick'[q] = tick[q]
  BY <1>1, <1>2 DEF FireInv, TypeOK
<1>4. run' \in [Runs -> RunRows \cup {NoRun}] /\ NoNewFiring
  BY <1>1, HostOnRuns DEF FireInv
<1>5. TypeOK'
  BY <1>1, <1>3, <1>4 DEF FireInv, TypeOK
<1> QED
  BY <1>1, <1>2, <1>3, <1>4, <1>5, SchedulerStep DEF Firing

\* The slot is moved on: the row was due and nobody else's, so this is not
\* early, and another firing's flow is another one.
LEMMA SlotMoves ==
  ASSUME FireInv, NEW p \in Procs, tick[p].pc \in {"skip", "insert"}, UpdateWorkflowNextRunAt(p)
  PROVE  /\ tick[p].flow \in Flows
         /\ flow' \in [Flows -> FlowRows] /\ ScheduleIsCoupled' /\ ~early'
         /\ holder' \in [Flows -> Procs \cup {NULL}]
         /\ \A x \in Flows : flow'[x].there = flow[x].there /\ flow'[x].active = flow[x].active
         /\ \A q \in Procs \ {p} : tick[q].pc \in Firing =>
              /\ tick[q].flow \in Flows /\ tick[q].flow # tick[p].flow
              /\ holder'[tick[q].flow] = q /\ flow'[tick[q].flow] = flow[tick[q].flow]
<1> DEFINE w == tick[p].flow
<1>1. w \in Flows /\ tick[p].next \in Waits
  BY ClaimedTick
<1>2. holder[w] = p /\ Waiting(w)
  BY DEF FireInv, ClaimInv, Firing
<1>3. /\ flow' = [flow EXCEPT ![w].next = tick[p].next]
      /\ early' = (early \/ ~Waiting(w))
      /\ holder' = [holder EXCEPT ![w] = NULL]
  BY DEF UpdateWorkflowNextRunAt
<1>4. ~early'
  BY <1>2, <1>3 DEF FireInv, SlotsFireOnce
<1>5. /\ flow' \in [Flows -> FlowRows]
      /\ \A x \in Flows : /\ flow'[x].there = flow[x].there /\ flow'[x].active = flow[x].active
                          /\ flow'[x].trigger = flow[x].trigger /\ flow'[x].cron = flow[x].cron
                          /\ x # w => flow'[x] = flow[x]
      /\ flow'[w].next = tick[p].next
  BY <1>1, <1>3 DEF FireInv, TypeOK, FlowRows
<1>6. ScheduleIsCoupled'
  BY <1>1, <1>2, <1>5, LongestIsLongest DEF FireInv, ScheduleIsCoupled, Waiting
<1>7. holder' \in [Flows -> Procs \cup {NULL}] /\ \A x \in Flows : x # w => holder'[x] = holder[x]
  BY <1>1, <1>3 DEF FireInv, TypeOK
<1>8. ASSUME NEW q \in Procs \ {p}, tick[q].pc \in Firing
      PROVE  /\ tick[q].flow \in Flows /\ tick[q].flow # w
             /\ holder'[tick[q].flow] = q /\ flow'[tick[q].flow] = flow[tick[q].flow]
  <2>1. tick[q].flow \in Flows
    BY <1>8, ClaimedTick DEF Firing
  <2>2. holder[tick[q].flow] = q
    BY <1>8 DEF FireInv, ClaimInv
  <2> QED
    BY <1>2, <1>5, <1>7, <2>1, <2>2
<1> QED
  BY <1>1, <1>4, <1>5, <1>6, <1>7, <1>8

LEMMA FireSkipStep ==
  ASSUME FireInv, NEW p \in Procs, FireSkip(p)
  PROVE  FireInv'
<1> DEFINE st == [pc |-> "next", due |-> tick[p].due]
<1>1. /\ UNCHANGED <<org, agent, run, call, used>> /\ tick[p].pc = "skip" /\ UpdateWorkflowNextRunAt(p)
      /\ tick' = [tick EXCEPT ![p] = st]
  BY DEF FireSkip, FireInv, TypeOK
<1>2. st \in Ticks /\ st.pc = "next"
  BY <1>1, ClaimedTick
<1> HIDE DEF st
<1>3. tick' \in [Procs -> Ticks] /\ tick'[p] = st /\ \A q \in Procs \ {p} : tick'[q] = tick[q]
  BY <1>1, <1>2 DEF FireInv, TypeOK
<1>4. /\ flow' \in [Flows -> FlowRows] /\ ScheduleIsCoupled' /\ ~early'
      /\ holder' \in [Flows -> Procs \cup {NULL}]
      /\ \A x \in Flows : flow'[x].there = flow[x].there /\ flow'[x].active = flow[x].active
      /\ \A q \in Procs \ {p} : tick[q].pc \in Firing =>
           /\ holder'[tick[q].flow] = q /\ flow'[tick[q].flow] = flow[tick[q].flow]
  BY <1>1, SlotMoves
<1>5. early' \in BOOLEAN
  BY <1>1 DEF UpdateWorkflowNextRunAt
<1>6. TypeOK'
  BY <1>1, <1>3, <1>4, <1>5 DEF FireInv, TypeOK
<1>7. SlotsFireOnce'
  BY <1>1, <1>4 DEF FireInv, SlotsFireOnce, InFlight
<1>8. ClaimInv'
  BY <1>1, <1>2, <1>3, <1>4 DEF FireInv, ClaimInv, Waiting, InFlight, Firing
<1>9. ThereInv'
  <2>1. \A c \in Callers : call[c].pc = "write" => call[c].flow \in Flows
    BY DEF FireInv, TypeOK, Calls
  <2> QED
    BY <1>1, <1>4, <2>1 DEF FireInv, ThereInv
<1> QED
  BY <1>4, <1>6, <1>7, <1>8, <1>9 DEF FireInv

LEMMA FireInsertStep ==
  ASSUME FireInv, NEW p \in Procs, NEW r \in Runs, FireInsert(p, r)
  PROVE  FireInv'
<1> DEFINE st == [tick[p] EXCEPT !.pc = "launch", !.run = r]
           w == tick[p].flow
           row == [PendingRun(w) EXCEPT !.scheduled = TRUE]
<1>1. /\ UNCHANGED <<org, agent, call, used>> /\ tick[p].pc = "insert" /\ UpdateWorkflowNextRunAt(p)
      /\ run' = [run EXCEPT ![r] = row] /\ ~InFlight(r)
      /\ tick' = [tick EXCEPT ![p].pc = "launch", ![p].run = r]
  BY DEF FireInsert, SystemInsertWorkflowRun, InsertRun
<1>2. st \in Ticks /\ st.pc = "launch"
  <2>1. tick[p] \in [pc: {"preflight", "skip", "inFlight", "insert", "launch"},
                    due: SUBSET Due, flow: Flows, next: Waits, run: Runs \cup {NULL}]
    BY <1>1 DEF FireInv, TypeOK, Ticks
  <2>2. /\ st \in [pc: {"preflight", "skip", "inFlight", "insert", "launch"},
                  due: SUBSET Due, flow: Flows, next: Waits, run: Runs \cup {NULL}]
        /\ st.pc = "launch"
    BY <2>1
  <2> QED
    BY <2>2 DEF Ticks
<1>3. tick' = [tick EXCEPT ![p] = st]
  BY <1>1 DEF FireInv, TypeOK, Ticks
<1> HIDE DEF st
<1>4. tick' \in [Procs -> Ticks] /\ tick'[p] = st /\ \A q \in Procs \ {p} : tick'[q] = tick[q]
  BY <1>2, <1>3 DEF FireInv, TypeOK
<1>5. /\ w \in Flows /\ flow' \in [Flows -> FlowRows] /\ ScheduleIsCoupled' /\ ~early'
      /\ holder' \in [Flows -> Procs \cup {NULL}]
      /\ \A x \in Flows : flow'[x].there = flow[x].there /\ flow'[x].active = flow[x].active
      /\ \A q \in Procs \ {p} : tick[q].pc \in Firing =>
           /\ tick[q].flow # w
           /\ holder'[tick[q].flow] = q /\ flow'[tick[q].flow] = flow[tick[q].flow]
  BY <1>1, SlotMoves
<1>6. row \in RunRows /\ row.flow = w
  BY <1>5, PendingType
<1> HIDE DEF row
<1>7. /\ run' \in [Runs -> RunRows \cup {NoRun}] /\ run'[r] = row
      /\ \A x \in Runs : x # r => run'[x] = run[x]
  BY <1>1, <1>6 DEF FireInv, TypeOK
<1>8. early' \in BOOLEAN
  BY <1>1 DEF UpdateWorkflowNextRunAt
<1>9. TypeOK'
  BY <1>1, <1>4, <1>5, <1>7, <1>8 DEF FireInv, TypeOK
<1>10. \A x \in Runs : InFlight(x) /\ run[x].scheduled => run[x].flow # w
  BY <1>1 DEF FireInv, ClaimInv, Firing
<1>11. SlotsFireOnce'
  BY <1>5, <1>6, <1>7, <1>10 DEF FireInv, SlotsFireOnce, InFlight
<1>12. ClaimInv'
  BY <1>2, <1>4, <1>5, <1>6, <1>7 DEF FireInv, ClaimInv, Waiting, InFlight, Firing
<1>13. ThereInv'
  <2>1. \A c \in Callers : call[c].pc = "write" => call[c].flow \in Flows
    BY DEF FireInv, TypeOK, Calls
  <2> QED
    BY <1>1, <1>5, <2>1 DEF FireInv, ThereInv
<1> QED
  BY <1>5, <1>9, <1>11, <1>12, <1>13 DEF FireInv

-----------------------------------------------------------------------------
(* Time and crashes.                                                       *)

LEMMA TimeStep ==
  ASSUME FireInv, Time
  PROVE  FireInv'
<1>1. /\ UNCHANGED <<org, agent, holder, tick, call, early, used>>
      /\ \A w \in Flows : holder[w] = NULL
      /\ flow' = [w \in Flows |-> [flow[w] EXCEPT !.next = IF @ \in {Never, 0} THEN @ ELSE @ - 1]]
      /\ run' = [r \in Runs |->
           IF InFlight(r) /\ run[r].age <= Stale THEN [run[r] EXCEPT !.age = @ + 1] ELSE run[r]]
  BY DEF Time
<1>2. ASSUME NEW w \in Flows
      PROVE  /\ flow'[w] \in FlowRows /\ flow'[w].there = flow[w].there /\ flow'[w].active = flow[w].active
             /\ flow'[w].trigger = flow[w].trigger /\ flow'[w].cron = flow[w].cron
             /\ flow'[w].next = Never <=> flow[w].next = Never
  <2>1. flow[w] \in FlowRows /\ flow[w].next \in Waits \cup {Never}
    BY DEF FireInv, TypeOK, FlowRows
  <2> DEFINE left == IF flow[w].next \in {Never, 0} THEN flow[w].next ELSE flow[w].next - 1
  <2>2. left \in Waits \cup {Never} /\ (left = Never <=> flow[w].next = Never)
    BY <2>1, LongestIsLongest DEF Waits, Never
  <2>3. flow'[w] = [flow[w] EXCEPT !.next = left]
    BY <1>1, <2>1 DEF FlowRows
  <2> HIDE DEF left
  <2> QED
    BY <2>1, <2>2, <2>3 DEF FlowRows
<1>3. flow' \in [Flows -> FlowRows]
  BY <1>1, <1>2
<1>4. ASSUME NEW r \in Runs
      PROVE  /\ run'[r] \in RunRows \cup {NoRun}
             /\ InFlight(r)' <=> InFlight(r)
             /\ InFlight(r) => run'[r].flow = run[r].flow /\ run'[r].scheduled = run[r].scheduled
  <2>1. CASE ~(InFlight(r) /\ run[r].age <= Stale)
    BY <1>1, <2>1 DEF FireInv, TypeOK, InFlight
  <2>2. CASE InFlight(r) /\ run[r].age <= Stale
    <3>1. run[r] \in RunRows /\ run[r].age \in 0 .. Stale + 1
      BY <2>2 DEF FireInv, TypeOK, InFlight, RunRows
    <3>2. run[r].age + 1 \in 0 .. Stale + 1
      BY <2>2, <3>1, BoundsAreNat
    <3>3. run'[r] = [run[r] EXCEPT !.age = run[r].age + 1]
      BY <1>1, <2>2
    <3>4. run'[r] \in RunRows /\ run'[r].flow = run[r].flow /\ run'[r].scheduled = run[r].scheduled
      BY <3>1, <3>2, <3>3 DEF RunRows
    <3> QED
      BY <2>2, <3>4, RowsAreRuns DEF InFlight
  <2> QED
    BY <2>1, <2>2
<1>5. run' \in [Runs -> RunRows \cup {NoRun}]
  BY <1>1, <1>4
<1>6. TypeOK'
  BY <1>1, <1>3, <1>5 DEF FireInv, TypeOK
<1>7. ScheduleIsCoupled'
  <2>1. \A w \in Flows : flow'[w].trigger = flow[w].trigger /\ flow'[w].cron = flow[w].cron
                         /\ (flow'[w].next = Never <=> flow[w].next = Never)
    BY <1>2
  <2> QED
    BY <2>1 DEF FireInv, ScheduleIsCoupled
<1>8. SlotsFireOnce'
  BY <1>1, <1>4, ZenonT(60) DEF FireInv, SlotsFireOnce
<1>9. ClaimInv'
  <2>1. ASSUME NEW p \in Procs, tick[p].pc \in Firing PROVE FALSE
    BY <1>1, <2>1, ClaimedTick, NamesAssumption DEF FireInv, ClaimInv, Firing
  <2> QED
    BY <1>1, <2>1 DEF ClaimInv
<1>10. ThereInv'
  <2>1. \A c \in Callers : call[c].pc = "write" => call[c].flow \in Flows
    BY DEF FireInv, TypeOK, Calls
  <2>2. \A w \in Flows : flow'[w].there = flow[w].there /\ flow'[w].active = flow[w].active
    BY <1>2
  <2>3. UNCHANGED call
    BY <1>1
  <2> QED
    BY <2>1, <2>2, <2>3 DEF FireInv, ThereInv
<1> QED
  BY <1>6, <1>7, <1>8, <1>9, <1>10 DEF FireInv

\* Its transaction is rolled back: the row is free again and still due.
LEMMA CrashStep ==
  ASSUME FireInv, NEW p \in Procs, Crash(p)
  PROVE  FireInv'
<1>1. /\ UNCHANGED <<org, agent, flow, early>>
      /\ used.crashes < MaxCrashes /\ used' = [used EXCEPT !.crashes = @ + 1]
      /\ tick' = [tick EXCEPT ![p] = IdleTick]
      /\ holder' = [w \in Flows |-> IF holder[w] = p THEN NULL ELSE holder[w]]
      /\ run' = [r \in Runs |-> IF InFlight(r) /\ run[r].host = p THEN [run[r] EXCEPT !.host = NULL] ELSE run[r]]
  BY DEF Crash
<1>2. PICK cut \in SUBSET Callers : call' = [c \in Callers |-> IF c \in cut THEN IdleCall ELSE call[c]]
  BY DEF Crash
<1>3. IdleTick \in Ticks /\ IdleTick.pc = "idle" /\ IdleCall \in Calls /\ IdleCall.pc = "idle"
  BY DEF IdleTick, Ticks, IdleCall, Calls
<1>4. tick' \in [Procs -> Ticks] /\ tick'[p] = IdleTick /\ \A q \in Procs \ {p} : tick'[q] = tick[q]
  BY <1>1, <1>3 DEF FireInv, TypeOK
<1>5. call' \in [Callers -> Calls] /\ \A c \in Callers : call'[c].pc = "write" => call'[c] = call[c]
  BY <1>2, <1>3 DEF FireInv, TypeOK
<1>6. holder' \in [Flows -> Procs \cup {NULL}] /\ \A w \in Flows : holder[w] # p => holder'[w] = holder[w]
  BY <1>1 DEF FireInv, TypeOK
<1>7. ASSUME NEW r \in Runs
      PROVE  /\ run'[r] \in RunRows \cup {NoRun}
             /\ InFlight(r)' => InFlight(r) /\ run'[r].flow = run[r].flow /\ run'[r].scheduled = run[r].scheduled
  <2>1. CASE ~InFlight(r)
    BY <1>1, <2>1 DEF FireInv, TypeOK, InFlight
  <2>2. CASE InFlight(r)
    <3>1. run'[r] = run[r] \/ run'[r] = [run[r] EXCEPT !.host = NULL]
      BY <1>1
    <3>2. run[r] \in RunRows
      BY <2>2 DEF FireInv, TypeOK, InFlight
    <3> QED
      BY <2>2, <3>1, <3>2 DEF RunRows
  <2> QED
    BY <2>1, <2>2
<1>8. run' \in [Runs -> RunRows \cup {NoRun}] /\ NoNewFiring
  BY <1>1, <1>7 DEF NoNewFiring
<1>9. used' \in [edits: 0 .. MaxEdits, crashes: 0 .. MaxCrashes]
  <2>1. used.edits \in 0 .. MaxEdits /\ used.crashes \in 0 .. MaxCrashes
    BY DEF FireInv, TypeOK
  <2>2. used.crashes + 1 \in 0 .. MaxCrashes
    BY <1>1, <2>1, BoundsAreNat
  <2> QED
    BY <1>1, <2>1, <2>2 DEF FireInv, TypeOK
<1>10. TypeOK'
  BY <1>1, <1>4, <1>5, <1>6, <1>8, <1>9 DEF FireInv, TypeOK
<1> QED
  BY <1>1, <1>3, <1>4, <1>5, <1>6, <1>8, <1>10, SchedulerStep DEF Firing

-----------------------------------------------------------------------------
LEMMA StutterStep ==
  ASSUME FireInv, UNCHANGED vars
  PROVE  FireInv'
<1>1. UNCHANGED <<org, agent, flow, run, holder, tick, call, early, used>>
  BY DEF vars
<1>2. TypeOK' /\ NoNewFiring
  BY <1>1 DEF FireInv, TypeOK, NoNewFiring, InFlight
<1> QED
  BY <1>1, <1>2, StandingStep DEF FireInv, ThereInv

LEMMA InvStep == FireInv /\ [Next]_vars => FireInv'
<1> SUFFICES ASSUME FireInv, [Next]_vars PROVE FireInv'
  OBVIOUS
<1>1. CASE Requests
  <2>1. CASE \/ \E a \in Agents : DeleteAgent(a) \/ \E n \in Names : CreateAgent(a, n) \/ UpdateAgent(a, n)
             \/ ChangeOrg
             \/ \E k \in Providers : SubmitAPIKey(k) \/ DeleteAPIKey(k)
    BY <2>1, AgentsAndOrgStep
  <2>2. ASSUME NEW w \in Flows, Delete(w) PROVE FireInv'
    BY <2>2, DeleteStep
  <2>3. ASSUME NEW w \in Flows, NEW a \in Agents, NEW t \in Triggers, NEW p \in Periods \cup {NoCron},
               Create(w, a, t, p)
        PROVE  FireInv'
    BY <2>3, CreateStep
  <2>4. ASSUME NEW c \in Callers, NEW w \in Flows, RunNow(c, w) PROVE FireInv'
    BY <2>4, RequestStep
  <2>5. ASSUME NEW c \in Callers, NEW w \in Flows, NEW edit \in Edits, UpdateRead(c, w, edit) PROVE FireInv'
    BY <2>5, UpdateReadStep
  <2> QED
    BY <1>1, <2>1, <2>2, <2>3, <2>4, <2>5 DEF Requests
<1>2. CASE Time
  BY <1>2, TimeStep
<1>3. ASSUME NEW c \in Callers, Handler(c) PROVE FireInv'
  BY <1>3, UpdateWriteStep, RequestStep, RunInsertStep, RunLaunchStep DEF Handler
<1>4. ASSUME NEW p \in Procs, Tick(p) \/ Fire(p) \/ FireFails(p) \/ Crash(p) PROVE FireInv'
  BY <1>4, TickStep, ClaimStep, FireLooksStep, FireSkipStep, FireLaunchStep, FireInsertStep,
     FireFailsStep, CrashStep DEF Fire
<1>5. ASSUME NEW r \in Runs, Advance(r) \/ Finish(r) \/ Decide(r) PROVE FireInv'
  BY <1>5, DriveStep
<1>6. CASE UNCHANGED vars
  BY <1>6, StutterStep
<1> QED
  BY <1>1, <1>2, <1>3, <1>4, <1>5, <1>6 DEF Next

LEMMA AlwaysInv == Spec => []FireInv
BY InvInit, InvStep, PTL DEF Spec

\* Every row keeps the type of its columns.
THEOREM TypeCorrect == Spec => []TypeOK
<1>1. FireInv => TypeOK
  BY DEF FireInv
<1> QED
  BY <1>1, AlwaysInv, PTL

\* Trigger, cron expression and next firing are one unit in every row (the
\* handler's "one coupled unit"), with any number of editors and schedulers.
THEOREM ScheduleIsAlwaysCoupled == Spec => []ScheduleIsCoupled
<1>1. FireInv => ScheduleIsCoupled
  BY DEF FireInv
<1> QED
  BY <1>1, AlwaysInv, PTL

\* However many processes tick, and however often they crash, no slot fires
\* twice, early or beside a run it already started (workflows.sql: "a slot
\* never fires twice").
THEOREM SlotsAlwaysFireOnce == Spec => []SlotsFireOnce
<1>1. FireInv => SlotsFireOnce
  BY DEF FireInv
<1> QED
  BY <1>1, AlwaysInv, PTL
===============================================================================
