------------------------- MODULE RunLifecycleProofs -------------------------
(***************************************************************************)
(* What RunLifecycle guarantees for every number of approvals, processes,  *)
(* calls in a batch and crashes.                                           *)
(*                                                                         *)
(* With database faults and early decisions allowed or not: its types;     *)
(* that a gated call is always backed by its own grant (GrantInv); that a  *)
(* decision is final.                                                      *)
(*                                                                         *)
(* When nobody answers an approval before its run is suspended             *)
(* (PromptInv): that one goroutine drives the run, executes what was       *)
(* granted, under keys of its own and within the cap; that a refusal only  *)
(* reports; that a suspended run can be answered; and that the whole       *)
(* implements RunContract, so that a run that is over stays so.            *)
(***************************************************************************)
EXTENDS RunRefinement, TLAPS

-----------------------------------------------------------------------------
(* What the building blocks of the actions do to the types.                *)

\* Become changes one driver and keeps the function's type.
LEMMA BecomeDriver ==
  ASSUME drv \in [Drivers -> DriverStates], NEW d \in Drivers,
         NEW r \in DriverStates, Become(d, r)
  PROVE  /\ drv' \in [Drivers -> DriverStates]
         /\ drv'[d] = r
         /\ \A e \in Drivers : e # d => drv'[e] = drv[e]
  BY DEF Become

\* A driver Launch or Resume has just started is well formed.
LEMMA NewDriverType ==
  ASSUME NEW i \in Insts, NEW v \in Verdicts, NEW p \in PCs
  PROVE  /\ NewDriver(i, v, p) \in DriverStates
         /\ NewDriver(i, v, p).pc = p
         /\ NewDriver(i, v, p).state.verdict = v
  BY DEF NewDriver, DriverStates, RunStates, FreshState, Nodes

\* What a driver's checkpoint writes is a row.
LEMMA CheckpointType ==
  ASSUME NEW s \in RunStates, NEW n \in Nodes,
         NEW st \in InFlight \cup Terminal \cup {"awaiting_approval"},
         Checkpoint(s, n, st)
  PROVE  run' \in Rows
  BY DEF Checkpoint, Rows

\* So is what a bare status update leaves.
LEMMA SetStatusType ==
  ASSUME run \in Rows, NEW st \in InFlight \cup Terminal, SetStatus(st)
  PROVE  run' \in Rows
  BY DEF SetStatus, Rows

\* The cancel table keeps its type whoever enters or leaves it.
LEMMA CancelsType ==
  ASSUME TypeOK, NEW d \in Drivers,
         Register(d) \/ Unregister(d) \/ UNCHANGED cancels
  PROVE  cancels' \in [Insts -> Drivers \cup {None}]
  BY DEF TypeOK, Register, Unregister

\* A step that leaves everything but the row, the drivers and the cancel table
\* alone keeps the types when those three keep theirs.
LEMMA OthersType ==
  ASSUME TypeOK, UNCHANGED others, run' \in Rows,
         drv' \in [Drivers -> DriverStates], cancels' \in [Insts -> Drivers \cup {None}]
  PROVE  TypeOK'
  BY DEF TypeOK, others

\* A driver that goes on as r, while the row and the cancel table keep their
\* types.
LEMMA StepType ==
  ASSUME TypeOK, NEW d \in Drivers, NEW r \in DriverStates, Become(d, r),
         UNCHANGED others, run' \in Rows,
         Register(d) \/ Unregister(d) \/ UNCHANGED cancels
  PROVE  TypeOK'
  BY BecomeDriver, CancelsType, OthersType DEF TypeOK

\* The edits the actions make to a driver.
LEMMA DriverEdits ==
  ASSUME NEW r \in DriverStates
  PROVE  /\ \A p \in PCs : [r EXCEPT !.pc = p] \in DriverStates
         /\ \A p \in PCs, e \in BOOLEAN :
              /\ [r EXCEPT !.pc = p, !.err = e] \in DriverStates
              /\ [r EXCEPT !.err = e, !.pc = p] \in DriverStates
         /\ \A p \in PCs, n \in Nodes :
              /\ [r EXCEPT !.pc = p, !.node = n] \in DriverStates
              /\ [r EXCEPT !.pc = p, !.next = n] \in DriverStates
         /\ \A e \in BOOLEAN : [r EXCEPT !.cancelled = e] \in DriverStates
  BY DEF DriverStates

\* The edits that change the RunState or the calls left.
LEMMA DriverStateEdits ==
  ASSUME NEW r \in DriverStates, NEW s \in RunStates
  PROVE  /\ \A p \in PCs : [r EXCEPT !.state = s, !.pc = p] \in DriverStates
         /\ \A p \in PCs, n \in Nodes :
              /\ [r EXCEPT !.pc = p, !.node = n, !.state = s] \in DriverStates
              /\ [r EXCEPT !.state = s, !.pc = p, !.next = n] \in DriverStates
         /\ \A p \in PCs, l \in Nat :
              /\ [r EXCEPT !.state = s, !.pc = p, !.left = l] \in DriverStates
              /\ [r EXCEPT !.state = s, !.left = l, !.pc = p] \in DriverStates
  BY DEF DriverStates

\* The edits the actions make to a RunState.
LEMMA RunStateEdits ==
  ASSUME NEW s \in RunStates, NEW v \in Verdicts, NEW b \in Approvals \cup {None}
  PROVE  /\ [s EXCEPT !.verdict = v] \in RunStates
         /\ [s EXCEPT !.pending = b] \in RunStates
         /\ CountCall(s) \in RunStates
  BY DEF RunStates, CountCall

\* The fields of a well formed driver.
LEMMA DriverFields ==
  ASSUME NEW r \in DriverStates
  PROVE  /\ r.pc \in PCs /\ r.home \in Insts /\ r.node \in Nodes /\ r.next \in Nodes
         /\ r.state \in RunStates /\ r.left \in Nat /\ r.batch \in Approvals \cup {None}
         /\ r.cancelled \in BOOLEAN /\ r.err \in BOOLEAN
         /\ r.state.verdict \in Verdicts /\ r.state.pending \in Approvals \cup {None}
         /\ r.state.calls \in Nat
  BY DEF DriverStates, RunStates

LEMMA TypedDriver ==
  ASSUME TypeOK, NEW d \in Drivers PROVE drv[d] \in DriverStates
  BY DEF TypeOK

\* Every place a driver can be, as one fact for the leaves that need several.
LEMMA Places ==
  /\ {"none", "build", "start", "load", "final", "accrue",
      "contain", "cmark", "check", "emark", "done"} \subseteq PCs
  /\ EnginePCs \subseteq PCs
  BY DEF PCs

\* Return(d, err) is such a step.
LEMMA ReturnType ==
  ASSUME TypeOK, NEW d \in Drivers, NEW err \in BOOLEAN, Return(d, err),
         UNCHANGED others, run' \in Rows
  PROVE  TypeOK'
<1> DEFINE r == [drv[d] EXCEPT !.pc = "final", !.err = err]
<1>1. r \in DriverStates
  BY TypedDriver, DriverEdits, Places
<1>2. Become(d, r) /\ Unregister(d)
  BY DEF Return
<1> QED
  BY <1>1, <1>2, StepType

-----------------------------------------------------------------------------
(* Every step keeps the types: one lemma per action.                       *)

LEMMA InitType == Init => TypeOK
<1> SUFFICES ASSUME Init PROVE TypeOK
  OBVIOUS
<1>1. run \in Rows
  BY DEF Init, Rows, InFlight, Nodes
<1>2. drv \in [Drivers -> DriverStates]
  <2>1. PICK i \in Insts : drv = [d \in Drivers |->
               NewDriver(i, "none", IF d = Launch THEN "build" ELSE "none")]
    BY DEF Init
  <2>2. \A d \in Drivers : NewDriver(i, "none", IF d = Launch THEN "build" ELSE "none") \in DriverStates
    BY NewDriverType DEF PCs, Verdicts
  <2> QED
    BY <2>1, <2>2
<1>3. appr \in [Approvals -> {"none", "pending"} \cup Decided] /\ spent \in [Approvals -> Nat]
  BY DEF Init
<1>4. cancels \in [Insts -> Drivers \cup {None}] /\ relayed \subseteq Insts
  BY DEF Init
<1>5. crashes \in 0 .. MaxCrashes /\ attempts \in Nat /\ accruals \in Nat
  <2>1. crashes = 0 /\ attempts = 0 /\ accruals = 0
    BY DEF Init
  <2> QED
    BY <2>1, BoundAssumption
<1>6. effects \subseteq Effects
  BY DEF Init
<1> QED
  BY <1>1, <1>2, <1>3, <1>4, <1>5, <1>6 DEF TypeOK

LEMMA BuildType ==
  ASSUME TypeOK, NEW d \in Drivers, Build(d) PROVE TypeOK'
<1> DEFINE ok == [drv[d] EXCEPT !.pc = IF d = Launch THEN "start" ELSE "load"]
           bad == [drv[d] EXCEPT !.pc = "check", !.err = TRUE]
<1>1. ok \in DriverStates /\ bad \in DriverStates
  BY TypedDriver, DriverEdits, Places
<1>2. run' \in Rows /\ UNCHANGED others /\ UNCHANGED cancels
  BY DEF Build, TypeOK
<1>3. Become(d, ok) \/ Become(d, bad)
  BY DEF Build
<1> QED
  BY <1>1, <1>2, <1>3, StepType

LEMMA StartType ==
  ASSUME TypeOK, NEW d \in Drivers, Start(d) PROVE TypeOK'
<1> DEFINE ok == [drv[d] EXCEPT !.pc = "enter", !.node = "planner"]
           bad == [drv[d] EXCEPT !.pc = "check", !.err = TRUE]
<1>1. ok \in DriverStates /\ bad \in DriverStates
  BY TypedDriver, DriverEdits, Places DEF EnginePCs, Nodes
<1>2. CASE SetStatus("running") /\ Become(d, ok) /\ Register(d)
  BY <1>1, <1>2, SetStatusType, StepType DEF Start, TypeOK, InFlight
<1>3. CASE Become(d, bad) /\ UNCHANGED <<run, cancels>>
  BY <1>1, <1>3, StepType DEF Start, TypeOK
<1> QED
  BY <1>2, <1>3 DEF Start

LEMMA LoadType ==
  ASSUME TypeOK, NEW d \in Drivers, Load(d) PROVE TypeOK'
<1> DEFINE s == [run.saved EXCEPT !.verdict = drv[d].state.verdict]
           ok == [drv[d] EXCEPT !.pc = "enter", !.node = run.node, !.state = s]
           bad == [drv[d] EXCEPT !.err = TRUE,
                     !.pc = IF run.saved # None THEN "final" ELSE "check"]
<1>1. drv[d] \in DriverStates /\ drv[d].state.verdict \in Verdicts
  BY TypedDriver, DriverFields
<1>2. bad \in DriverStates
  BY <1>1, DriverEdits, Places
<1>3. CASE Resumable /\ Become(d, ok) /\ Register(d)
  <2>1. run.saved \in RunStates /\ run.node \in Nodes /\ run \in Rows
    BY <1>3 DEF TypeOK, Resumable, Rows
  <2>2. s \in RunStates
    BY <1>1, <2>1, RunStateEdits
  <2>3. ok \in DriverStates
    BY <1>1, <2>1, <2>2, DriverStateEdits, Places DEF EnginePCs
  <2> QED
    BY <1>3, <2>1, <2>3, StepType DEF Load
<1>4. CASE Become(d, bad) /\ UNCHANGED cancels
  BY <1>2, <1>4, StepType DEF Load, TypeOK
<1> QED
  BY <1>3, <1>4 DEF Load

LEMMA LoopCancelledType ==
  ASSUME TypeOK, NEW d \in Drivers, LoopCancelled(d) PROVE TypeOK'
<1>1. drv[d].state \in RunStates /\ drv[d].node \in Nodes /\ run \in Rows
  BY TypedDriver, DriverFields DEF TypeOK
<1>2. run' \in Rows
  BY <1>1, CheckpointType DEF LoopCancelled, SureWrite, Terminal
<1> QED
  BY <1>2, ReturnType DEF LoopCancelled

\* A step that only moves the driver to another place.
LEMMA MoveType ==
  ASSUME TypeOK, NEW d \in Drivers, NEW p \in PCs,
         Become(d, [drv[d] EXCEPT !.pc = p]),
         UNCHANGED others, run' \in Rows,
         Register(d) \/ Unregister(d) \/ UNCHANGED cancels
  PROVE  TypeOK'
  BY TypedDriver, DriverEdits, StepType

LEMMA HandsType ==
  ASSUME TypeOK, NEW d \in Drivers, NEW n \in Nodes, Hands(d, n),
         UNCHANGED others, UNCHANGED run, UNCHANGED cancels
  PROVE  TypeOK'
<1>1. [drv[d] EXCEPT !.pc = "ckpt", !.next = n] \in DriverStates
  BY TypedDriver, DriverEdits, Places DEF EnginePCs
<1> QED
  BY <1>1, StepType DEF Hands, TypeOK

LEMMA NodeType ==
  ASSUME TypeOK, NEW d \in Drivers,
         Planner(d) \/ Executor(d) \/ Validator(d) \/ Reporter(d)
  PROVE  TypeOK'
<1>1. CASE Planner(d)
  BY <1>1, HandsType DEF Planner, Nodes
<1>2. CASE Executor(d)
  BY <1>2, MoveType, Places DEF Executor, EnginePCs, TypeOK
<1>3. CASE Validator(d)
  BY <1>3, HandsType DEF Validator, Nodes
<1>4. CASE Reporter(d)
  BY <1>4, HandsType DEF Reporter, Nodes
<1> QED
  BY <1>1, <1>2, <1>3, <1>4

\* What approval_gate makes of the driver.
GateRuns(d) == drv[d].state.verdict = "yes" /\ drv[d].state.pending # None
Gated(d) ==
  [drv[d] EXCEPT
     !.state = [drv[d].state EXCEPT !.pending = None],
     !.batch = IF GateRuns(d) THEN drv[d].state.pending ELSE None,
     !.left  = IF GateRuns(d) THEN BatchLen ELSE 0,
     !.next  = IF drv[d].state.verdict = "yes" THEN "executor" ELSE "reporter",
     !.pc    = IF GateRuns(d) THEN "call" ELSE "ckpt"]

LEMMA GatedType ==
  ASSUME TypeOK, NEW d \in Drivers PROVE Gated(d) \in DriverStates
<1> DEFINE s == [drv[d].state EXCEPT !.pending = None]
           b == IF GateRuns(d) THEN drv[d].state.pending ELSE None
           l == IF GateRuns(d) THEN BatchLen ELSE 0
           n == IF drv[d].state.verdict = "yes" THEN "executor" ELSE "reporter"
           p == IF GateRuns(d) THEN "call" ELSE "ckpt"
<1>1. drv[d] \in DriverStates
  BY TypedDriver
<1>2. s \in RunStates
  BY <1>1, DriverFields, RunStateEdits
<1>3. b \in Approvals \cup {None}
  BY <1>1, DriverFields
<1>4. l \in Nat
  BY BatchAssumption
<1>5. n \in Nodes /\ p \in PCs
  BY DEF Nodes, PCs, EnginePCs
<1>6. ASSUME NEW r \in DriverStates, NEW s1 \in RunStates, NEW b1 \in Approvals \cup {None},
             NEW l1 \in Nat, NEW n1 \in Nodes, NEW p1 \in PCs
      PROVE  [r EXCEPT !.state = s1, !.batch = b1, !.left = l1, !.next = n1, !.pc = p1] \in DriverStates
  BY DEF DriverStates
<1> HIDE DEF s, b, l, n, p
<1>7. [drv[d] EXCEPT !.state = s, !.batch = b, !.left = l, !.next = n, !.pc = p] \in DriverStates
  BY <1>1, <1>2, <1>3, <1>4, <1>5, <1>6
<1> QED
  BY <1>7 DEF Gated, s, b, l, n, p

LEMMA ApprovalGateBecomes ==
  ASSUME NEW d, ApprovalGate(d) PROVE Become(d, Gated(d))
  BY DEF ApprovalGate, Gated, GateRuns

LEMMA ApprovalGateType ==
  ASSUME TypeOK, NEW d \in Drivers, ApprovalGate(d) PROVE TypeOK'
<1>1. run' \in Rows /\ UNCHANGED others /\ UNCHANGED cancels
  BY DEF ApprovalGate, TypeOK
<1> QED
  BY <1>1, GatedType, ApprovalGateBecomes, StepType

LEMMA LLMTurnType ==
  ASSUME TypeOK, NEW d \in Drivers, LLMTurn(d) PROVE TypeOK'
<1>1. run \in Rows /\ UNCHANGED others /\ UNCHANGED cancels /\ UNCHANGED run
  BY DEF LLMTurn, TypeOK
<1>2. CASE Become(d, [drv[d] EXCEPT !.pc = "fail"])
  BY <1>1, <1>2, MoveType, Places DEF EnginePCs
<1>3. CASE Hands(d, "validator")
  BY <1>1, <1>3, HandsType DEF Nodes
<1>4. CASE Become(d, [drv[d] EXCEPT !.pc = "call", !.left = 1, !.batch = None])
  <2>1. [drv[d] EXCEPT !.pc = "call", !.left = 1, !.batch = None] \in DriverStates
    BY TypedDriver DEF DriverStates, PCs, EnginePCs
  <2> QED
    BY <1>1, <1>4, <2>1, StepType
<1>5. CASE Become(d, [drv[d] EXCEPT !.pc = "gate"])
  BY <1>1, <1>5, MoveType, Places DEF EnginePCs
<1> QED
  BY <1>2, <1>3, <1>4, <1>5 DEF LLMTurn

\* What asking for approval a makes of the driver.
Asked(d, a) ==
  [drv[d] EXCEPT !.state = [drv[d].state EXCEPT !.pending = a],
                 !.pc = "ckpt", !.next = "approval_gate"]

LEMMA AskedType ==
  ASSUME TypeOK, NEW d \in Drivers, NEW a \in Approvals PROVE Asked(d, a) \in DriverStates
<1>1. [drv[d].state EXCEPT !.pending = a] \in RunStates
  BY TypedDriver, DriverFields, RunStateEdits
<1> QED
  BY <1>1, TypedDriver, DriverStateEdits, Places DEF Asked, EnginePCs, Nodes

LEMMA GateType ==
  ASSUME TypeOK, NEW d \in Drivers, Gate(d) PROVE TypeOK'
<1>1. CASE \E a \in Approvals : appr' = [appr EXCEPT ![a] = "pending"] /\ Become(d, Asked(d, a))
  <2>1. PICK a \in Approvals : appr' = [appr EXCEPT ![a] = "pending"] /\ Become(d, Asked(d, a))
    BY <1>1
  <2>2. drv' \in [Drivers -> DriverStates]
    BY <2>1, AskedType, BecomeDriver DEF TypeOK
  <2>3. appr' \in [Approvals -> {"none", "pending"} \cup Decided]
    BY <2>1 DEF TypeOK
  <2> QED
    BY <2>2, <2>3 DEF Gate, TypeOK, ghosts
<1>2. CASE Become(d, [drv[d] EXCEPT !.pc = "fail"]) /\ UNCHANGED appr
  <2>1. UNCHANGED others /\ run' \in Rows /\ UNCHANGED cancels
    BY <1>2 DEF Gate, TypeOK, ghosts, others
  <2> QED
    BY <1>2, <2>1, MoveType, Places DEF EnginePCs
<1> QED
  BY <1>1, <1>2 DEF Gate, Asked

LEMMA CallType ==
  ASSUME TypeOK, NEW d \in Drivers, Call(d) PROVE TypeOK'
<1>1. drv' \in [Drivers -> DriverStates]
  BY TypedDriver, DriverEdits, BecomeDriver, Places DEF Call, EnginePCs, TypeOK
<1>2. attempts' \in Nat
  BY DEF Call, TypeOK
<1>3. effects' \subseteq Effects
  <2> DEFINE e == [by |-> d, batch |-> drv[d].batch, key |-> drv[d].state.calls]
  <2>1. drv[d].batch # None => e \in Effects
    BY TypedDriver, DriverFields DEF Effects
  <2>2. effects' = effects \/ (drv[d].batch # None /\ effects' = effects \cup {e})
    BY DEF Call
  <2> QED
    BY <2>1, <2>2 DEF TypeOK
<1>4. spent' \in [Approvals -> Nat]
  BY DEF Call, TypeOK
<1> QED
  BY <1>1, <1>2, <1>3, <1>4 DEF Call, TypeOK

LEMMA SaveType ==
  ASSUME TypeOK, NEW d \in Drivers, Save(d) PROVE TypeOK'
<1> DEFINE s == CountCall(drv[d].state)
           turn == IF drv[d].node = "approval_gate" THEN "ckpt" ELSE "llm"
           next == [drv[d] EXCEPT !.state = s, !.pc = "call", !.left = @ - 1]
           last == [drv[d] EXCEPT !.state = s, !.left = 0, !.pc = turn]
           stop == [drv[d] EXCEPT !.state = s, !.pc = "fail"]
<1>1. drv[d] \in DriverStates /\ s \in RunStates /\ drv[d].left \in Nat
  BY TypedDriver, DriverFields, RunStateEdits
<1>2. drv[d].left > 1 => next \in DriverStates
  <2>1. drv[d].left > 1 => drv[d].left - 1 \in Nat
    BY <1>1
  <2> QED
    BY <1>1, <2>1, DriverStateEdits, Places DEF EnginePCs
<1>3. last \in DriverStates /\ stop \in DriverStates
  <2>1. turn \in PCs /\ "fail" \in PCs
    BY Places DEF EnginePCs
  <2> QED
    BY <1>1, <2>1, DriverStateEdits
<1>4. run' \in Rows
  BY <1>1, CheckpointType DEF Save, CtxWrite, TypeOK, InFlight, Nodes
<1>5. \/ drv[d].left > 1 /\ Become(d, next)
      \/ Become(d, last)
      \/ Become(d, stop)
  BY DEF Save, CtxWrite
<1>6. UNCHANGED others /\ UNCHANGED cancels
  BY DEF Save
<1> QED
  BY <1>2, <1>3, <1>4, <1>5, <1>6, StepType

LEMMA FailType ==
  ASSUME TypeOK, NEW d \in Drivers, Fail(d) PROVE TypeOK'
<1>1. drv[d].state \in RunStates /\ drv[d].node \in Nodes /\ run \in Rows
  BY TypedDriver, DriverFields DEF TypeOK
<1>2. (IF drv[d].cancelled THEN "cancelled" ELSE "failed") \in Terminal
  BY DEF Terminal
<1>3. run' \in Rows
  BY <1>1, <1>2, CheckpointType DEF Fail, SureWrite
<1> QED
  BY <1>3, ReturnType DEF Fail

LEMMA StatusAfterType ==
  ASSUME NEW n PROVE StatusAfter(n) \in InFlight \cup Terminal \cup {"awaiting_approval"}
  BY DEF StatusAfter, InFlight, Terminal

LEMMA NodeCheckpointType ==
  ASSUME TypeOK, NEW d \in Drivers, NodeCheckpoint(d) PROVE TypeOK'
<1> DEFINE n == drv[d].next
<1>1. drv[d].state \in RunStates /\ n \in Nodes /\ run \in Rows
  BY TypedDriver, DriverFields DEF TypeOK
<1>2. UNCHANGED others
  BY DEF NodeCheckpoint
<1>3. run' \in Rows
  <2>1. Checkpoint(drv[d].state, n, StatusAfter(n)) \/ UNCHANGED run
    BY DEF NodeCheckpoint, CtxWrite
  <2> QED
    BY <1>1, <2>1, StatusAfterType, CheckpointType
<1>4. CASE Return(d, TRUE) \/ Return(d, FALSE)
  BY <1>2, <1>3, <1>4, ReturnType
<1>5. CASE Become(d, [drv[d] EXCEPT !.pc = "enter", !.node = n]) /\ UNCHANGED cancels
  <2>1. [drv[d] EXCEPT !.pc = "enter", !.node = n] \in DriverStates
    BY <1>1, TypedDriver, DriverEdits, Places DEF EnginePCs
  <2> QED
    BY <1>2, <1>3, <1>5, <2>1, StepType
<1> QED
  BY <1>4, <1>5 DEF NodeCheckpoint, CtxWrite

LEMMA BookkeepingType ==
  ASSUME TypeOK, NEW d \in Drivers,
         Final(d) \/ ErrorCheck(d) \/ ErrorMark(d) \/ Panic(d)
           \/ ContainRead(d) \/ ContainMark(d)
  PROVE  TypeOK'
<1>1. run \in Rows
  BY DEF TypeOK
<1>2. CASE Final(d)
  BY <1>1, <1>2, MoveType, Places DEF Final, AfterFinalize
<1>3. CASE ErrorCheck(d)
  BY <1>1, <1>3, MoveType, Places DEF ErrorCheck
<1>4. CASE ErrorMark(d)
  <2>1. run' \in Rows
    BY <1>1, <1>4, SetStatusType DEF ErrorMark, SureWrite, Terminal
  <2> QED
    BY <1>4, <2>1, MoveType, Places DEF ErrorMark
<1>5. CASE Panic(d)
  <2>1. [drv[d] EXCEPT !.pc = "contain", !.err = TRUE] \in DriverStates
    BY TypedDriver, DriverEdits, Places
  <2> QED
    BY <1>1, <1>5, <2>1, StepType DEF Panic
<1>6. CASE ContainRead(d)
  BY <1>1, <1>6, MoveType, Places DEF ContainRead
<1>7. CASE ContainMark(d)
  <2>1. run' \in Rows
    BY <1>1, <1>7, SetStatusType DEF ContainMark, SureWrite, Terminal
  <2> QED
    BY <1>7, <2>1, MoveType, Places DEF ContainMark
<1> QED
  BY <1>2, <1>3, <1>4, <1>5, <1>6, <1>7

LEMMA AccrueType ==
  ASSUME TypeOK, NEW d \in Drivers, Accrue(d) PROVE TypeOK'
<1>1. drv' \in [Drivers -> DriverStates]
  BY TypedDriver, DriverEdits, BecomeDriver, Places DEF Accrue, AfterFinalize, TypeOK
<1>2. accruals' \in Nat
  BY DEF Accrue, TypeOK
<1> QED
  BY <1>1, <1>2 DEF Accrue, TypeOK

LEMMA ResolveType ==
  ASSUME TypeOK, NEW a \in Approvals, NEW i \in Insts, NEW s \in Decided, Resolve(a, i, s)
  PROVE  TypeOK'
<1> DEFINE v == IF s = "approved" THEN "yes" ELSE "no"
<1>1. NewDriver(i, v, "build") \in DriverStates
  BY NewDriverType DEF Verdicts, PCs
<1>2. drv' \in [Drivers -> DriverStates]
  BY <1>1, BecomeDriver DEF Resolve, Drivers, TypeOK
<1>3. appr' \in [Approvals -> {"none", "pending"} \cup Decided]
  BY DEF Resolve, TypeOK
<1> QED
  BY <1>2, <1>3 DEF Resolve, ghosts, TypeOK

\* A cancel that reached an entry of the table only raises a flag.
LEMMA CancelOnType ==
  ASSUME TypeOK, NEW i \in Insts, CancelOn(i) PROVE drv' \in [Drivers -> DriverStates]
<1>1. cancels[i] \in Drivers
  BY DEF TypeOK, CancelOn
<1>2. [drv[cancels[i]] EXCEPT !.cancelled = TRUE] \in DriverStates
  BY <1>1, TypedDriver, DriverEdits
<1> QED
  BY <1>1, <1>2, BecomeDriver DEF CancelOn, TypeOK

LEMMA CancelType ==
  ASSUME TypeOK, NEW i \in Insts,
         CancelHere(i) \/ CancelElsewhere(i) \/ DeliverCancel(i)
  PROVE  TypeOK'
<1>1. CASE CancelHere(i)
  BY <1>1, CancelOnType, OthersType DEF CancelHere, TypeOK
<1>2. CASE CancelElsewhere(i)
  BY <1>2 DEF CancelElsewhere, ghosts, TypeOK
<1>3. CASE DeliverCancel(i)
  <2>1. drv' \in [Drivers -> DriverStates]
    BY <1>3, CancelOnType DEF DeliverCancel, TypeOK
  <2>2. relayed' \subseteq Insts
    BY <1>3 DEF DeliverCancel, TypeOK
  <2> QED
    BY <1>3, <2>1, <2>2 DEF DeliverCancel, ghosts, TypeOK
<1> QED
  BY <1>1, <1>2, <1>3

LEMMA CrashType ==
  ASSUME TypeOK, NEW i \in Insts, Crash(i) PROVE TypeOK'
<1>1. drv' \in [Drivers -> DriverStates]
  <2>1. \A d \in Drivers : drv[d] \in DriverStates /\ [drv[d] EXCEPT !.pc = "done"] \in DriverStates
    BY TypedDriver, DriverEdits, Places
  <2> QED
    BY <2>1 DEF Crash
<1>2. cancels' \in [Insts -> Drivers \cup {None}] /\ relayed' \subseteq Insts
  BY DEF Crash, TypeOK
<1>3. crashes' \in 0 .. MaxCrashes
  BY BoundAssumption DEF Crash, TypeOK
<1> QED
  BY <1>1, <1>2, <1>3 DEF Crash, ghosts, TypeOK

LEMMA TimeType ==
  ASSUME TypeOK, Age \/ Reap PROVE TypeOK'
<1>1. run' \in Rows
  BY SetStatusType DEF Age, Reap, TypeOK, Rows, Terminal
<1> QED
  BY <1>1, OthersType DEF Age, Reap, TypeOK

LEMMA NextType == TypeOK /\ [Next]_vars => TypeOK'
<1> SUFFICES ASSUME TypeOK, [Next]_vars PROVE TypeOK'
  OBVIOUS
<1>1. CASE \E d \in Drivers : Step(d) \/ Panic(d)
  <2>1. PICK d \in Drivers : Step(d) \/ Panic(d)
    BY <1>1
  <2> QED
    BY <2>1, BuildType, StartType, LoadType, LoopCancelledType, NodeType, ApprovalGateType,
       LLMTurnType, GateType, CallType, SaveType, FailType, NodeCheckpointType,
       BookkeepingType, AccrueType
    DEF Step
<1>2. CASE \E a \in Approvals, i \in Insts : Decide(a, i) \/ ExpireOne(a, i)
  BY <1>2, ResolveType DEF Decide, ExpireOne, Decided
<1>3. CASE \E i \in Insts : CancelHere(i) \/ CancelElsewhere(i) \/ DeliverCancel(i) \/ Crash(i)
  BY <1>3, CancelType, CrashType
<1>4. CASE Age \/ Reap
  BY <1>4, TimeType
<1>5. CASE UNCHANGED vars
  BY <1>5 DEF vars, TypeOK
<1> QED
  BY <1>1, <1>2, <1>3, <1>4, <1>5 DEF Next

\* In every reachable state every variable has its type.
THEOREM TypeCorrect == Spec => []TypeOK
<1>1. Init => TypeOK
  BY InitType
<1>2. TypeOK /\ [Next]_vars => TypeOK'
  BY NextType
<1> QED
  BY <1>1, <1>2, PTL DEF Spec

-----------------------------------------------------------------------------
(* The inductive invariant.  GrantBacksExecution says what was sent; to    *)
(* hold after one more call it must also say who may still send, and how   *)
(* many calls that driver has left.                                        *)

\* Driver d, being r, executes a gated batch only if it was started by a grant.
Entitled(d, r) ==
  /\ r.state.verdict = "yes" => d \in Approvals /\ appr[d] = "approved"
  /\ r.batch # None => r.state.verdict = "yes"

\* A driver that was never at the approval gate, or only just enters it.
Unspent(r) ==
  r.pc \in {"none", "build", "load"} \/ (r.pc = "enter" /\ r.node = "approval_gate")

\* A driver, being r, that has sent n gated calls.
Paid(r, n) ==
  /\ n <= BatchLen
  /\ Unspent(r) => n = 0
  /\ r.pc = "call" /\ r.batch # None => r.left >= 1 /\ n + r.left = BatchLen
  /\ r.pc = "save" /\ r.batch # None => r.left >= 1 /\ n + r.left = BatchLen + 1

\* An approval nobody decided has started no driver; one nobody granted has
\* paid for nothing.
Open(a) ==
  /\ appr[a] \notin Decided => drv[a].pc = "none"
  /\ spent[a] # 0 => appr[a] = "approved"

GrantInv ==
  /\ \A d \in Drivers : Entitled(d, drv[d])
  /\ \A a \in Approvals : Paid(drv[a], spent[a])
  /\ \A a \in Approvals : Open(a)
  /\ \A e \in effects : e.by \in Approvals /\ appr[e.by] = "approved"

-----------------------------------------------------------------------------
(* One driver moves and nothing is sent: what has to be shown.             *)

\* The places where a driver neither sends nor is about to.
QuietPCs == {"start", "llm", "gate", "fail", "ckpt", "final", "accrue",
             "contain", "cmark", "check", "emark", "done"}

\* q is r gone on with the same decision, its batch kept or dropped.
Follows(r, q) ==
  q.state.verdict = r.state.verdict /\ (q.batch = r.batch \/ q.batch = None)

LEMMA GrantStep ==
  ASSUME TypeOK, GrantInv, NEW d \in Drivers, NEW r \in DriverStates, Become(d, r),
         drv[d].pc # "none" \/ r.pc = drv[d].pc,
         Entitled(d, r), d \in Approvals => Paid(r, spent[d]),
         UNCHANGED <<appr, spent, effects>>
  PROVE  GrantInv'
<1>1. drv'[d] = r /\ \A e \in Drivers : e # d => drv'[e] = drv[e]
  BY BecomeDriver DEF TypeOK
<1>2. \A e \in Drivers : Entitled(e, drv[e])'
  BY <1>1 DEF GrantInv, Entitled
<1>3. \A a \in Approvals : Paid(drv[a], spent[a])'
  <2>1. \A a \in Approvals : Paid(drv'[a], spent[a])
    BY <1>1 DEF GrantInv, Drivers
  <2> QED
    BY <2>1 DEF Paid, Unspent
<1>4. \A a \in Approvals : Open(a)'
  BY <1>1 DEF GrantInv, Open, Drivers
<1> QED
  BY <1>2, <1>3, <1>4 DEF GrantInv

\* Where the driver goes decides what it owes: nothing, in a quiet place.
LEMMA QuietStep ==
  ASSUME TypeOK, GrantInv, NEW d \in Drivers, NEW r \in DriverStates, Become(d, r),
         drv[d].pc # "none", r.pc \in QuietPCs, Follows(drv[d], r),
         UNCHANGED <<appr, spent, effects>>
  PROVE  GrantInv'
<1>1. Entitled(d, r)
  BY DEF GrantInv, Entitled, Follows
<1>2. d \in Approvals => Paid(r, spent[d])
  BY DEF GrantInv, Paid, Unspent, QuietPCs
<1> QED
  BY <1>1, <1>2, GrantStep

\* The edits that only move a driver.
LEMMA MoveFields ==
  ASSUME NEW r \in DriverStates, NEW p \in PCs
  PROVE  LET q == [r EXCEPT !.pc = p] IN q \in DriverStates /\ q.pc = p /\ Follows(r, q)
  BY DEF DriverStates, Follows

LEMMA FinishFields ==
  ASSUME NEW r \in DriverStates, NEW p \in PCs, NEW e \in BOOLEAN
  PROVE  LET q == [r EXCEPT !.pc = p, !.err = e]
         IN  q \in DriverStates /\ q.pc = p /\ Follows(r, q)
  BY DEF DriverStates, Follows

LEMMA HandFields ==
  ASSUME NEW r \in DriverStates, NEW p \in PCs, NEW n \in Nodes
  PROVE  LET q == [r EXCEPT !.pc = p, !.next = n]
         IN  q \in DriverStates /\ q.pc = p /\ Follows(r, q)
  BY DEF DriverStates, Follows

LEMMA EnterFields ==
  ASSUME NEW r \in DriverStates, NEW p \in PCs, NEW n \in Nodes
  PROVE  LET q == [r EXCEPT !.pc = p, !.node = n]
         IN  q \in DriverStates /\ q.pc = p /\ q.node = n /\ Follows(r, q)
  BY DEF DriverStates, Follows

\* A driver moves to a quiet place.
LEMMA QuietMove ==
  ASSUME TypeOK, GrantInv, NEW d \in Drivers, NEW p \in QuietPCs,
         Become(d, [drv[d] EXCEPT !.pc = p]), drv[d].pc # "none",
         UNCHANGED <<appr, spent, effects>>
  PROVE  GrantInv'
<1>1. p \in PCs
  BY DEF QuietPCs, PCs, EnginePCs
<1>2. PICK q : q = [drv[d] EXCEPT !.pc = p]
  OBVIOUS
<1>3. q \in DriverStates /\ q.pc = p /\ Follows(drv[d], q)
  BY <1>1, <1>2, TypedDriver, MoveFields
<1> QED
  BY <1>2, <1>3, QuietStep

LEMMA QuietFinish ==
  ASSUME TypeOK, GrantInv, NEW d \in Drivers, NEW p \in QuietPCs, NEW e \in BOOLEAN,
         Become(d, [drv[d] EXCEPT !.pc = p, !.err = e]), drv[d].pc # "none",
         UNCHANGED <<appr, spent, effects>>
  PROVE  GrantInv'
<1> DEFINE q == [drv[d] EXCEPT !.pc = p, !.err = e]
<1>1. p \in PCs
  BY DEF QuietPCs, PCs, EnginePCs
<1>2. q \in DriverStates /\ q.pc = p /\ Follows(drv[d], q)
  BY <1>1, TypedDriver, FinishFields, ZenonT(60)
<1> QED
  BY <1>2, QuietStep

LEMMA QuietHands ==
  ASSUME TypeOK, GrantInv, NEW d \in Drivers, NEW n \in Nodes, Hands(d, n),
         drv[d].pc # "none", UNCHANGED <<appr, spent, effects>>
  PROVE  GrantInv'
<1>1. "ckpt" \in PCs /\ "ckpt" \in QuietPCs
  BY DEF QuietPCs, PCs, EnginePCs
<1> DEFINE q == [drv[d] EXCEPT !.pc = "ckpt", !.next = n]
<1>2. q \in DriverStates /\ q.pc = "ckpt" /\ Follows(drv[d], q)
  BY <1>1, TypedDriver, HandFields
<1>3. Become(d, q)
  BY DEF Hands
<1> QED
  BY <1>1, <1>2, <1>3, QuietStep

-----------------------------------------------------------------------------
(* Every step keeps GrantInv.                                              *)

\* The steps before the engine.
LEMMA BuildGrant ==
  ASSUME TypeOK, GrantInv, NEW d \in Drivers, Build(d) PROVE GrantInv'
<1> DEFINE start == [drv[d] EXCEPT !.pc = "start"]
           load  == [drv[d] EXCEPT !.pc = "load"]
<1>1. drv[d].pc = "build" /\ UNCHANGED <<appr, spent, effects>>
  BY DEF Build, others
<1>2. CASE d = Launch /\ Become(d, start)
  BY <1>1, <1>2, QuietMove DEF QuietPCs
<1>3. CASE d # Launch /\ Become(d, load)
  <2>1. load \in DriverStates /\ load.pc = "load" /\ Follows(drv[d], load)
    BY TypedDriver, MoveFields, Places
  <2>2. Entitled(d, load)
    BY <2>1 DEF GrantInv, Entitled, Follows
  <2>3. d \in Approvals => Paid(load, spent[d])
    BY <1>1, <2>1 DEF GrantInv, Paid, Unspent
  <2> QED
    BY <1>1, <1>3, <2>1, <2>2, <2>3, GrantStep
<1>4. CASE Become(d, [drv[d] EXCEPT !.pc = "check", !.err = TRUE])
  BY <1>1, <1>4, QuietFinish DEF QuietPCs
<1> QED
  BY <1>2, <1>3, <1>4 DEF Build

LEMMA StartGrant ==
  ASSUME TypeOK, GrantInv, NEW d \in Drivers, Start(d) PROVE GrantInv'
<1> DEFINE q == [drv[d] EXCEPT !.pc = "enter", !.node = "planner"]
<1>1. drv[d].pc = "start" /\ UNCHANGED <<appr, spent, effects>>
  BY DEF Start, others
<1>2. CASE Become(d, q)
  <2>1. q \in DriverStates /\ q.pc = "enter" /\ q.node = "planner" /\ Follows(drv[d], q)
    BY TypedDriver, EnterFields, Places DEF EnginePCs, Nodes
  <2>2. Entitled(d, q)
    BY <2>1 DEF GrantInv, Entitled, Follows
  <2>3. d \in Approvals => Paid(q, spent[d])
    BY <2>1 DEF GrantInv, Paid, Unspent
  <2> QED
    BY <1>1, <1>2, <2>1, <2>2, <2>3, GrantStep
<1>3. CASE Become(d, [drv[d] EXCEPT !.pc = "check", !.err = TRUE])
  BY <1>1, <1>3, QuietFinish DEF QuietPCs
<1> QED
  BY <1>2, <1>3 DEF Start

LEMMA LoadFields ==
  ASSUME NEW r \in DriverStates, NEW s \in RunStates, NEW n \in Nodes
  PROVE  LET t == [s EXCEPT !.verdict = r.state.verdict]
             q == [r EXCEPT !.pc = "enter", !.node = n, !.state = t]
         IN  q \in DriverStates /\ q.pc = "enter" /\ Follows(r, q)
<1> DEFINE t == [s EXCEPT !.verdict = r.state.verdict]
           q == [r EXCEPT !.pc = "enter", !.node = n, !.state = t]
<1>1. t \in RunStates /\ t.verdict = r.state.verdict
  BY DEF DriverStates, RunStates
<1>2. q \in DriverStates
  BY <1>1, DriverStateEdits, Places DEF EnginePCs
<1>3. q.pc = "enter" /\ q.state = t /\ q.batch = r.batch
  BY DEF DriverStates
<1> QED
  BY <1>1, <1>2, <1>3 DEF Follows

LEMMA LoadGrant ==
  ASSUME TypeOK, GrantInv, NEW d \in Drivers, Load(d) PROVE GrantInv'
<1>1. drv[d].pc = "load" /\ UNCHANGED <<appr, spent, effects>>
  BY DEF Load, others
<1>2. CASE Resumable /\ Become(d, [drv[d] EXCEPT !.pc = "enter", !.node = run.node,
              !.state = [run.saved EXCEPT !.verdict = drv[d].state.verdict]])
  <2> DEFINE q == [drv[d] EXCEPT !.pc = "enter", !.node = run.node,
                     !.state = [run.saved EXCEPT !.verdict = drv[d].state.verdict]]
  <2>1. run.saved \in RunStates /\ run.node \in Nodes
    BY <1>2 DEF TypeOK, Resumable, Rows
  <2>2. q \in DriverStates /\ q.pc = "enter" /\ Follows(drv[d], q)
    BY <2>1, TypedDriver, LoadFields
  <2>3. Entitled(d, q)
    BY <2>2 DEF GrantInv, Entitled, Follows
  <2>4. d \in Approvals => Paid(q, spent[d])
    BY <1>1, <2>2, BatchAssumption DEF GrantInv, Paid, Unspent
  <2> QED
    BY <1>1, <1>2, <2>2, <2>3, <2>4, GrantStep
<1>3. CASE Become(d, [drv[d] EXCEPT !.err = TRUE,
              !.pc = IF run.saved # None THEN "final" ELSE "check"])
  <2> DEFINE p == IF run.saved # None THEN "final" ELSE "check"
  <2>1. p \in QuietPCs
    BY DEF QuietPCs
  <2>2. [drv[d] EXCEPT !.err = TRUE, !.pc = p] = [drv[d] EXCEPT !.pc = p, !.err = TRUE]
    OBVIOUS
  <2> QED
    BY <1>1, <1>3, <2>1, <2>2, QuietFinish
<1> QED
  BY <1>2, <1>3 DEF Load

\* The engine returns.
LEMMA ReturnGrant ==
  ASSUME TypeOK, GrantInv, NEW d \in Drivers, NEW err \in BOOLEAN, Return(d, err),
         drv[d].pc # "none", UNCHANGED others
  PROVE  GrantInv'
  BY QuietFinish DEF Return, others, QuietPCs

LEMMA NodeGrant ==
  ASSUME TypeOK, GrantInv, NEW d \in Drivers,
         Planner(d) \/ Executor(d) \/ Validator(d) \/ Reporter(d)
  PROVE  GrantInv'
<1>1. drv[d].pc # "none" /\ UNCHANGED <<appr, spent, effects>>
  BY DEF Planner, Executor, Validator, Reporter, AtNode, others
<1>2. CASE Executor(d)
  BY <1>1, <1>2, QuietMove DEF Executor, QuietPCs
<1>3. CASE Planner(d) \/ Validator(d) \/ Reporter(d)
  BY <1>1, <1>3, QuietHands DEF Planner, Validator, Reporter, Nodes
<1> QED
  BY <1>2, <1>3

\* The approval gate hands out BatchLen calls, to a granted driver only.
LEMMA GatedFields ==
  ASSUME TypeOK, NEW d \in Drivers
  PROVE  /\ Gated(d).state.verdict = drv[d].state.verdict
         /\ Gated(d).batch # None => GateRuns(d)
         /\ Gated(d).pc \in {"call", "ckpt"}
         /\ Gated(d).pc = "call" => Gated(d).left = BatchLen
<1> DEFINE s == [drv[d].state EXCEPT !.pending = None]
<1>1. Gated(d).state = s /\ Gated(d).batch = (IF GateRuns(d) THEN drv[d].state.pending ELSE None)
      /\ Gated(d).left = (IF GateRuns(d) THEN BatchLen ELSE 0)
      /\ Gated(d).pc = (IF GateRuns(d) THEN "call" ELSE "ckpt")
  BY TypedDriver DEF Gated, DriverStates
<1>2. s.verdict = drv[d].state.verdict
  BY TypedDriver DEF DriverStates, RunStates
<1> QED
  BY <1>1, <1>2

LEMMA ApprovalGateGrant ==
  ASSUME TypeOK, GrantInv, NEW d \in Drivers, ApprovalGate(d) PROVE GrantInv'
<1> DEFINE q == Gated(d)
<1>1. /\ drv[d].pc = "enter" /\ drv[d].node = "approval_gate"
      /\ UNCHANGED <<appr, spent, effects>> /\ Become(d, q) /\ q \in DriverStates
  BY GatedType, ApprovalGateBecomes DEF ApprovalGate, AtNode, others
<1>2. Entitled(d, q)
  BY GatedFields DEF GrantInv, Entitled, GateRuns
<1>3. ASSUME d \in Approvals PROVE Paid(q, spent[d])
  <2>1. spent[d] = 0
    BY <1>1, <1>3 DEF GrantInv, Paid, Unspent
  <2>2. ~Unspent(q) /\ q.pc # "save"
    BY GatedFields DEF Unspent
  <2> QED
    BY <2>1, <2>2, GatedFields, BatchAssumption DEF Paid
<1> QED
  BY <1>1, <1>2, <1>3, GrantStep

LEMMA LLMTurnGrant ==
  ASSUME TypeOK, GrantInv, NEW d \in Drivers, LLMTurn(d) PROVE GrantInv'
<1>1. drv[d].pc = "llm" /\ UNCHANGED <<appr, spent, effects>>
  BY DEF LLMTurn, others
<1>2. CASE Become(d, [drv[d] EXCEPT !.pc = "fail"])
  BY <1>1, <1>2, QuietMove DEF QuietPCs
<1>3. CASE Hands(d, "validator")
  BY <1>1, <1>3, QuietHands DEF Nodes
<1>4. CASE Become(d, [drv[d] EXCEPT !.pc = "call", !.left = 1, !.batch = None])
  <2> DEFINE q == [drv[d] EXCEPT !.pc = "call", !.left = 1, !.batch = None]
  <2>1. ASSUME NEW r \in DriverStates, NEW n \in Nat
        PROVE LET c == [r EXCEPT !.pc = "call", !.left = n, !.batch = None]
              IN c \in DriverStates /\ c.pc = "call" /\ c.state = r.state /\ c.batch = None
    BY DEF DriverStates, PCs, EnginePCs
  <2>2. q \in DriverStates /\ q.pc = "call" /\ q.state = drv[d].state /\ q.batch = None
    BY <2>1, TypedDriver
  <2>3. Entitled(d, q)
    BY <2>2 DEF GrantInv, Entitled
  <2>4. d \in Approvals => Paid(q, spent[d])
    BY <2>2 DEF GrantInv, Paid, Unspent
  <2> QED
    BY <1>1, <1>4, <2>2, <2>3, <2>4, GrantStep
<1>5. CASE Become(d, [drv[d] EXCEPT !.pc = "gate"])
  BY <1>1, <1>5, QuietMove DEF QuietPCs
<1> QED
  BY <1>2, <1>3, <1>4, <1>5 DEF LLMTurn

\* What asking for an approval leaves of the driver.
LEMMA AskedFields ==
  ASSUME TypeOK, NEW d \in Drivers, NEW a \in Approvals
  PROVE  /\ Asked(d, a) \in DriverStates
         /\ Asked(d, a).pc = "ckpt" /\ Asked(d, a).batch = drv[d].batch
         /\ Asked(d, a).state.verdict = drv[d].state.verdict
<1> DEFINE s == [drv[d].state EXCEPT !.pending = a]
<1>1. s.verdict = drv[d].state.verdict
  BY TypedDriver DEF DriverStates, RunStates
<1>2. Asked(d, a).state = s /\ Asked(d, a).pc = "ckpt" /\ Asked(d, a).batch = drv[d].batch
  BY TypedDriver DEF Asked, DriverStates
<1> QED
  BY <1>1, <1>2, AskedType

LEMMA GateGrant ==
  ASSUME TypeOK, GrantInv, NEW d \in Drivers, Gate(d) PROVE GrantInv'
<1>1. drv[d].pc = "gate" /\ UNCHANGED <<spent, effects>>
  BY DEF Gate, ghosts
<1>2. CASE Become(d, [drv[d] EXCEPT !.pc = "fail"]) /\ UNCHANGED appr
  BY <1>1, <1>2, QuietMove DEF QuietPCs
<1>3. CASE \E a \in Approvals : /\ appr[a] = "none"
                               /\ appr' = [appr EXCEPT ![a] = "pending"]
                               /\ Become(d, Asked(d, a))
  <2>1. PICK a \in Approvals : /\ appr[a] = "none"
                              /\ appr' = [appr EXCEPT ![a] = "pending"]
                              /\ Become(d, Asked(d, a))
    BY <1>3
  <2>2. \A b \in Approvals :
          \/ appr'[b] = appr[b]
          \/ b = a /\ appr[b] \notin Decided /\ appr'[b] \notin Decided
    <3>1. appr'[a] = "pending" /\ \A b \in Approvals : b # a => appr'[b] = appr[b]
      BY <2>1 DEF TypeOK
    <3>2. appr[a] \notin Decided /\ appr'[a] \notin Decided
      BY <2>1, <3>1 DEF Decided
    <3> QED
      BY <3>1, <3>2
  <2>3. drv'[d] = Asked(d, a) /\ \A e \in Drivers : e # d => drv'[e] = drv[e]
    BY <2>1, AskedFields, BecomeDriver DEF TypeOK
  <2>4. \A e \in Drivers : Entitled(e, drv[e])'
    <3>1. \A b \in Approvals : appr[b] = "approved" => appr'[b] = "approved"
      BY <2>2 DEF Decided
    <3> QED
      BY <2>3, <3>1, AskedFields DEF GrantInv, Entitled
  <2>5. \A b \in Approvals : Paid(drv'[b], spent[b])
    BY <2>3, AskedFields DEF GrantInv, Paid, Unspent, Drivers
  <2>6. \A b \in Approvals : Paid(drv[b], spent[b])'
    BY <1>1, <2>5 DEF Paid, Unspent
  <2>7. \A b \in Approvals : Open(b)'
    BY <1>1, <2>2, <2>3 DEF GrantInv, Open, Decided, Drivers
  <2>8. \A e \in effects' : e.by \in Approvals /\ appr'[e.by] = "approved"
    BY <1>1, <2>2 DEF GrantInv, Decided
  <2> QED
    BY <2>4, <2>6, <2>7, <2>8 DEF GrantInv
<1> QED
  BY <1>2, <1>3 DEF Gate, Asked

\* The part of Call that sends.
Sends(d) ==
  /\ Become(d, [drv[d] EXCEPT !.pc = "save"])
  /\ IF drv[d].batch = None
     THEN UNCHANGED <<effects, spent>>
     ELSE /\ effects' = effects \cup
               {[by |-> d, batch |-> drv[d].batch, key |-> drv[d].state.calls]}
          /\ spent' = [spent EXCEPT ![d] = @ + 1]

\* The one step that sends: the driver's grant pays for it.
LEMMA SendsGrant ==
  ASSUME TypeOK, GrantInv, NEW d \in Drivers, drv[d].pc = "call", Sends(d), UNCHANGED appr
  PROVE  GrantInv'
<1> DEFINE q == [drv[d] EXCEPT !.pc = "save"]
<1>1. drv[d].pc = "call" /\ Become(d, q) /\ UNCHANGED appr
  BY DEF Sends
<1>2. q \in DriverStates /\ q.pc = "save" /\ q.left = drv[d].left /\ q.batch = drv[d].batch
      /\ q.state = drv[d].state
  <2>1. ASSUME NEW r \in DriverStates
        PROVE LET c == [r EXCEPT !.pc = "save"]
              IN /\ c \in DriverStates /\ c.pc = "save" /\ c.left = r.left
                 /\ c.batch = r.batch /\ c.state = r.state
    BY DEF DriverStates, PCs, EnginePCs
  <2> QED
    BY <2>1, TypedDriver
<1>3. drv'[d] = q /\ \A e \in Drivers : e # d => drv'[e] = drv[e]
  BY <1>1, <1>2, BecomeDriver DEF TypeOK
<1>4. \A e \in Drivers : Entitled(e, drv[e])'
  <2>1. \A e \in Drivers : drv'[e].state = drv[e].state /\ drv'[e].batch = drv[e].batch
    BY <1>2, <1>3
  <2> QED
    BY <1>1, <2>1 DEF GrantInv, Entitled
<1>5. CASE drv[d].batch = None
  <2>1. UNCHANGED <<effects, spent>>
    BY <1>5 DEF Sends
  <2>2. Entitled(d, q) /\ (d \in Approvals => Paid(q, spent[d]))
    BY <1>2, <1>5 DEF GrantInv, Entitled, Paid, Unspent
  <2> QED
    BY <1>1, <1>2, <2>1, <2>2, GrantStep
<1>6. CASE drv[d].batch # None
  <2>1. d \in Approvals /\ appr[d] = "approved"
    BY <1>6 DEF GrantInv, Entitled
  <2>2. /\ spent' = [spent EXCEPT ![d] = @ + 1]
        /\ effects' = effects \cup
             {[by |-> d, batch |-> drv[d].batch, key |-> drv[d].state.calls]}
    BY <1>6 DEF Sends
  <2>3. spent'[d] = spent[d] + 1 /\ \A a \in Approvals : a # d => spent'[a] = spent[a]
    BY <2>1, <2>2 DEF TypeOK
  <2>4. Paid(q, spent'[d])
    <3>1. drv[d].left >= 1 /\ spent[d] + drv[d].left = BatchLen
      BY <1>1, <1>6, <2>1 DEF GrantInv, Paid
    <3>2. spent[d] \in Nat /\ drv[d].left \in Nat
      BY <2>1, TypedDriver, DriverFields DEF TypeOK
    <3> QED
      BY <1>2, <2>3, <3>1, <3>2, BatchAssumption DEF Paid, Unspent
  <2>5. \A a \in Approvals : Paid(drv'[a], spent'[a])
    BY <1>3, <2>3, <2>4 DEF GrantInv, Drivers
  <2>6. \A a \in Approvals : Paid(drv[a], spent[a])'
    BY <2>5 DEF Paid, Unspent
  <2>7. \A a \in Approvals : Open(a)'
    BY <1>1, <1>2, <1>3, <2>1, <2>3 DEF GrantInv, Open, Drivers, Decided
  <2>8. \A e \in effects' : e.by \in Approvals /\ appr'[e.by] = "approved"
    BY <1>1, <2>1, <2>2 DEF GrantInv
  <2> QED
    BY <1>4, <2>6, <2>7, <2>8 DEF GrantInv
<1> QED
  BY <1>5, <1>6

LEMMA CallGrant ==
  ASSUME TypeOK, GrantInv, NEW d \in Drivers, Call(d) PROVE GrantInv'
<1>1. drv[d].pc = "call" /\ UNCHANGED appr
  BY DEF Call
<1>2. CASE Sends(d)
  BY <1>1, <1>2, SendsGrant
<1>3. CASE Become(d, [drv[d] EXCEPT !.pc = "fail"]) /\ UNCHANGED <<effects, spent>>
  BY <1>1, <1>3, QuietMove DEF QuietPCs
<1> QED
  BY <1>2, <1>3 DEF Call, Sends

\* The edits that count a call.
LEMMA SaveFields ==
  ASSUME NEW r \in DriverStates, NEW s \in RunStates, NEW p \in PCs
  PROVE  /\ [r EXCEPT !.state = s, !.pc = p].pc = p
         /\ [r EXCEPT !.state = s, !.pc = p].state = s
         /\ [r EXCEPT !.state = s, !.pc = p].batch = r.batch
  BY DEF DriverStates

LEMMA SaveLeftFields ==
  ASSUME NEW r \in DriverStates, NEW s \in RunStates, NEW p \in PCs, NEW l \in Nat
  PROVE  /\ [r EXCEPT !.state = s, !.pc = p, !.left = l].pc = p
         /\ [r EXCEPT !.state = s, !.pc = p, !.left = l].state = s
         /\ [r EXCEPT !.state = s, !.pc = p, !.left = l].batch = r.batch
         /\ [r EXCEPT !.state = s, !.pc = p, !.left = l].left = l
  BY DEF DriverStates

LEMMA SaveLeftOrder ==
  ASSUME NEW r \in DriverStates, NEW s \in RunStates, NEW p \in PCs, NEW l \in Nat
  PROVE  [r EXCEPT !.state = s, !.pc = p, !.left = l] = [r EXCEPT !.state = s, !.left = l, !.pc = p]
  BY DEF DriverStates

\* After a call the driver stops ...
LEMMA SaveStop ==
  ASSUME TypeOK, GrantInv, NEW d \in Drivers, NEW s \in RunStates, NEW p \in QuietPCs,
         Become(d, [drv[d] EXCEPT !.state = s, !.pc = p]),
         drv[d].pc = "save", s.verdict = drv[d].state.verdict,
         UNCHANGED <<appr, spent, effects>>
  PROVE  GrantInv'
<1>1. drv[d] \in DriverStates /\ p \in PCs
  BY TypedDriver DEF QuietPCs, PCs, EnginePCs
<1>2. [drv[d] EXCEPT !.state = s, !.pc = p] \in DriverStates
  BY <1>1, DriverStateEdits
<1>3. Follows(drv[d], [drv[d] EXCEPT !.state = s, !.pc = p])
  BY <1>1, SaveFields DEF Follows
<1>4. [drv[d] EXCEPT !.state = s, !.pc = p].pc = p
  BY <1>1, SaveFields
<1> QED
  BY <1>2, <1>3, <1>4, QuietStep

\* ... or has made the last call of its batch ...
LEMMA SaveLast ==
  ASSUME TypeOK, GrantInv, NEW d \in Drivers, NEW s \in RunStates, NEW p \in QuietPCs,
         Become(d, [drv[d] EXCEPT !.state = s, !.pc = p, !.left = 0]),
         drv[d].pc = "save", s.verdict = drv[d].state.verdict,
         UNCHANGED <<appr, spent, effects>>
  PROVE  GrantInv'
<1>1. drv[d] \in DriverStates /\ p \in PCs
  BY TypedDriver DEF QuietPCs, PCs, EnginePCs
<1>2. [drv[d] EXCEPT !.state = s, !.pc = p, !.left = 0] \in DriverStates
  BY <1>1, DriverStateEdits
<1>3. Follows(drv[d], [drv[d] EXCEPT !.state = s, !.pc = p, !.left = 0])
  BY <1>1, SaveLeftFields DEF Follows
<1>4. [drv[d] EXCEPT !.state = s, !.pc = p, !.left = 0].pc = p
  BY <1>1, SaveLeftFields
<1> QED
  BY <1>2, <1>3, <1>4, QuietStep

\* ... or has one call less to make.
LEMMA SaveNext ==
  ASSUME TypeOK, GrantInv, NEW d \in Drivers, NEW s \in RunStates, NEW l \in Nat,
         Become(d, [drv[d] EXCEPT !.state = s, !.pc = "call", !.left = l]),
         l + 1 = drv[d].left, l >= 1,
         drv[d].pc = "save", s.verdict = drv[d].state.verdict,
         UNCHANGED <<appr, spent, effects>>
  PROVE  GrantInv'
<1>1. drv[d] \in DriverStates /\ "call" \in PCs
  BY TypedDriver DEF PCs, EnginePCs
<1>2. PICK q : q = [drv[d] EXCEPT !.state = s, !.pc = "call", !.left = l]
  OBVIOUS
<1>3. q \in DriverStates
  BY <1>1, <1>2, DriverStateEdits
<1>4. q.pc = "call" /\ q.state = s /\ q.batch = drv[d].batch /\ q.left = l
  BY <1>1, <1>2, SaveLeftFields
<1>5. Entitled(d, q)
  BY <1>4 DEF GrantInv, Entitled
<1>6. ASSUME d \in Approvals PROVE Paid(q, spent[d])
  <2>1. spent[d] \in Nat /\ Paid(drv[d], spent[d])
    BY <1>6 DEF GrantInv, TypeOK
  <2> QED
    BY <1>4, <2>1, BatchAssumption DEF Paid, Unspent
<1> QED
  BY <1>2, <1>3, <1>5, <1>6, GrantStep

LEMMA SaveGrant ==
  ASSUME TypeOK, GrantInv, NEW d \in Drivers, Save(d) PROVE GrantInv'
<1>1. drv[d].pc = "save" /\ UNCHANGED <<appr, spent, effects>>
  BY DEF Save, others
<1>2. PICK s : s = CountCall(drv[d].state)
  OBVIOUS
<1>3. s \in RunStates /\ s.verdict = drv[d].state.verdict
  <2>1. ASSUME NEW r \in RunStates
        PROVE CountCall(r) \in RunStates /\ CountCall(r).verdict = r.verdict
    BY DEF RunStates, CountCall
  <2> QED
    BY <1>2, <2>1, TypedDriver, DriverFields
<1>4. PICK p : p = IF drv[d].node = "approval_gate" THEN "ckpt" ELSE "llm"
  OBVIOUS
<1>5. p \in QuietPCs /\ "fail" \in QuietPCs /\ p \in PCs
  BY <1>4 DEF QuietPCs, PCs, EnginePCs
<1>6. CASE Become(d, [drv[d] EXCEPT !.state = s, !.pc = "fail"])
  BY <1>1, <1>3, <1>5, <1>6, SaveStop
<1>7. CASE Become(d, [drv[d] EXCEPT !.state = s, !.left = 0, !.pc = p])
  <2>1. Become(d, [drv[d] EXCEPT !.state = s, !.pc = p, !.left = 0])
    BY <1>3, <1>5, <1>7, TypedDriver, SaveLeftOrder
  <2> QED
    BY <1>1, <1>3, <1>5, <2>1, SaveLast
<1>8. CASE /\ drv[d].left > 1
           /\ Become(d, [drv[d] EXCEPT !.state = s, !.pc = "call", !.left = drv[d].left - 1])
  <2>1. PICK l \in Nat : l = drv[d].left - 1 /\ l + 1 = drv[d].left /\ l >= 1
    BY <1>8, TypedDriver, DriverFields
  <2>2. Become(d, [drv[d] EXCEPT !.state = s, !.pc = "call", !.left = l])
    BY <1>8, <2>1
  <2> QED
    BY <1>1, <1>3, <2>1, <2>2, SaveNext
<1> QED
  BY <1>2, <1>4, <1>6, <1>7, <1>8 DEF Save, CtxWrite

LEMMA NodeCheckpointGrant ==
  ASSUME TypeOK, GrantInv, NEW d \in Drivers, NodeCheckpoint(d) PROVE GrantInv'
<1> DEFINE n == drv[d].next
           q == [drv[d] EXCEPT !.pc = "enter", !.node = n]
<1>1. drv[d].pc = "ckpt" /\ UNCHANGED <<appr, spent, effects>> /\ UNCHANGED others
  BY DEF NodeCheckpoint, others
<1>2. CASE Return(d, TRUE) \/ Return(d, FALSE)
  BY <1>1, <1>2, ReturnGrant
<1>3. CASE n \notin Stops /\ Become(d, q)
  <2>1. n \in Nodes /\ n # "approval_gate"
    BY <1>3, TypedDriver, DriverFields DEF Stops
  <2>2. q \in DriverStates /\ q.pc = "enter" /\ q.node = n /\ Follows(drv[d], q)
    BY <2>1, TypedDriver, EnterFields, Places DEF EnginePCs
  <2>3. Entitled(d, q)
    BY <2>2 DEF GrantInv, Entitled, Follows
  <2>4. d \in Approvals => Paid(q, spent[d])
    BY <2>1, <2>2 DEF GrantInv, Paid, Unspent
  <2> QED
    BY <1>1, <1>3, <2>2, <2>3, <2>4, GrantStep
<1> QED
  BY <1>2, <1>3 DEF NodeCheckpoint, CtxWrite

LEMMA EndGrant ==
  ASSUME TypeOK, GrantInv, NEW d \in Drivers, LoopCancelled(d) \/ Fail(d) PROVE GrantInv'
  BY ReturnGrant DEF LoopCancelled, Fail

\* The Launcher's bookkeeping sends nothing.
LEMMA BookkeepingGrant ==
  ASSUME TypeOK, GrantInv, NEW d \in Drivers,
         Final(d) \/ Accrue(d) \/ ErrorCheck(d) \/ ErrorMark(d) \/ Panic(d)
           \/ ContainRead(d) \/ ContainMark(d)
  PROVE  GrantInv'
<1>1. CASE Final(d)
  BY <1>1, QuietMove DEF Final, AfterFinalize, QuietPCs, others
<1>2. CASE Accrue(d)
  BY <1>2, QuietMove DEF Accrue, AfterFinalize, QuietPCs
<1>3. CASE ErrorCheck(d)
  BY <1>3, QuietMove DEF ErrorCheck, QuietPCs, others
<1>4. CASE ErrorMark(d)
  BY <1>4, QuietMove DEF ErrorMark, QuietPCs, others
<1>5. CASE Panic(d)
  BY <1>5, QuietFinish DEF Panic, QuietPCs, others
<1>6. CASE ContainRead(d)
  BY <1>6, QuietMove DEF ContainRead, QuietPCs, others
<1>7. CASE ContainMark(d)
  BY <1>7, QuietMove DEF ContainMark, QuietPCs, others
<1> QED
  BY <1>1, <1>2, <1>3, <1>4, <1>5, <1>6, <1>7

\* A decision starts the one driver it pays for.
LEMMA ResolveGrant ==
  ASSUME TypeOK, GrantInv, NEW a \in Approvals, NEW i \in Insts, NEW s \in Decided,
         Resolve(a, i, s)
  PROVE  GrantInv'
<1>1. PICK v \in Verdicts : v = IF s = "approved" THEN "yes" ELSE "no"
  BY DEF Verdicts
<1>2. PICK q : q = NewDriver(i, v, "build")
  OBVIOUS
<1>3. q \in DriverStates /\ q.pc = "build" /\ q.state.verdict = v
  BY <1>2, NewDriverType DEF PCs
<1>4. q.batch = None
  BY <1>2 DEF NewDriver
<1>5. /\ appr[a] = "pending" /\ appr' = [appr EXCEPT ![a] = s] /\ Become(a, q)
      /\ UNCHANGED <<spent, effects>>
  BY <1>1, <1>2 DEF Resolve, MayDecide, ghosts
<1>6. appr'[a] = s /\ \A b \in Approvals : b # a => appr'[b] = appr[b]
  BY <1>5 DEF TypeOK
<1>7. drv'[a] = q /\ \A e \in Drivers : e # a => drv'[e] = drv[e]
  BY <1>3, <1>5, BecomeDriver DEF TypeOK, Drivers
<1>8. spent[a] = 0 /\ spent' = spent /\ effects' = effects
  BY <1>5 DEF GrantInv, Open
<1>9. \A e \in Drivers : Entitled(e, drv[e])'
  <2>1. \A b \in Approvals : b # a /\ appr[b] = "approved" => appr'[b] = "approved"
    BY <1>6
  <2>2. ASSUME NEW e \in Drivers, e # a PROVE Entitled(e, drv[e])'
    <3>1. Entitled(e, drv[e])
      BY DEF GrantInv
    <3> QED
      BY <1>7, <2>1, <2>2, <3>1 DEF Entitled
  <2>3. Entitled(a, drv[a])'
    BY <1>1, <1>3, <1>4, <1>6, <1>7 DEF Entitled
  <2> QED
    BY <2>2, <2>3
<1>10. \A b \in Approvals : Paid(drv'[b], spent[b])
  <2>1. Paid(q, 0)
    BY <1>3, BatchAssumption DEF Paid, Unspent
  <2> QED
    BY <1>7, <1>8, <2>1 DEF GrantInv, Drivers
<1>11. \A b \in Approvals : Paid(drv[b], spent[b])'
  BY <1>8, <1>10 DEF Paid, Unspent
<1>12. \A b \in Approvals : Open(b)'
  <2>1. Open(a)'
    BY <1>6, <1>8 DEF Open
  <2>2. ASSUME NEW b \in Approvals, b # a PROVE Open(b)'
    BY <1>6, <1>7, <1>8, <2>2 DEF GrantInv, Open, Drivers
  <2> QED
    BY <2>1, <2>2
<1>13. \A e \in effects' : e.by \in Approvals /\ appr'[e.by] = "approved"
  BY <1>5, <1>6, <1>8 DEF GrantInv
<1> QED
  BY <1>9, <1>11, <1>12, <1>13 DEF GrantInv

\* A cancel only raises a flag.
LEMMA CancelOnGrant ==
  ASSUME TypeOK, GrantInv, NEW i \in Insts, CancelOn(i), UNCHANGED <<appr, spent, effects>>
  PROVE  GrantInv'
<1>1. PICK d \in Drivers : Become(d, [drv[d] EXCEPT !.cancelled = TRUE])
  BY DEF CancelOn, TypeOK
<1>2. PICK q : q = [drv[d] EXCEPT !.cancelled = TRUE]
  OBVIOUS
<1>3. ASSUME NEW r \in DriverStates
      PROVE  LET c == [r EXCEPT !.cancelled = TRUE]
             IN  /\ c \in DriverStates /\ c.pc = r.pc /\ c.node = r.node
                 /\ c.state = r.state /\ c.batch = r.batch /\ c.left = r.left
  BY DEF DriverStates
<1>4. /\ q \in DriverStates /\ q.pc = drv[d].pc /\ q.node = drv[d].node
      /\ q.state = drv[d].state /\ q.batch = drv[d].batch /\ q.left = drv[d].left
  BY <1>2, <1>3, TypedDriver
<1>5. Entitled(d, q)
  BY <1>4 DEF GrantInv, Entitled
<1>6. d \in Approvals => Paid(q, spent[d])
  BY <1>4 DEF GrantInv, Paid, Unspent
<1> QED
  BY <1>1, <1>2, <1>4, <1>5, <1>6, GrantStep

\* Steps that leave the drivers, the approvals and what was sent alone.
LEMMA StillGrant ==
  ASSUME GrantInv, UNCHANGED <<appr, drv, spent, effects>> PROVE GrantInv'
  BY DEF GrantInv, Entitled, Paid, Unspent, Open

LEMMA CancelGrant ==
  ASSUME TypeOK, GrantInv, NEW i \in Insts,
         CancelHere(i) \/ CancelElsewhere(i) \/ DeliverCancel(i)
  PROVE  GrantInv'
  BY CancelOnGrant, StillGrant DEF CancelHere, CancelElsewhere, DeliverCancel, ghosts, others

\* A dead driver sends nothing more.
LEMMA CrashGrant ==
  ASSUME TypeOK, GrantInv, NEW i \in Insts, Crash(i) PROVE GrantInv'
<1>1. UNCHANGED <<appr, spent, effects>>
  BY DEF Crash, ghosts
<1>2. ASSUME NEW d \in Drivers
      PROVE  /\ drv'[d] = drv[d] \/ (drv'[d].pc = "done" /\ drv[d].pc # "none")
             /\ drv'[d].state = drv[d].state /\ drv'[d].batch = drv[d].batch
  <2>1. ASSUME NEW r \in DriverStates
        PROVE  LET c == [r EXCEPT !.pc = "done"]
               IN  c.pc = "done" /\ c.state = r.state /\ c.batch = r.batch
    BY DEF DriverStates
  <2>2. drv'[d] = drv[d] \/ (drv'[d] = [drv[d] EXCEPT !.pc = "done"] /\ drv[d].pc # "none")
    BY DEF Crash, Alive
  <2> QED
    BY <2>1, <2>2, TypedDriver
<1>3. \A d \in Drivers : Entitled(d, drv[d])'
  BY <1>1, <1>2 DEF GrantInv, Entitled
<1>4. \A a \in Approvals : Paid(drv'[a], spent[a])
  BY <1>2 DEF GrantInv, Paid, Unspent, Drivers
<1>5. \A a \in Approvals : Paid(drv[a], spent[a])'
  BY <1>1, <1>4 DEF Paid, Unspent
<1>6. \A a \in Approvals : Open(a)'
  BY <1>1, <1>2 DEF GrantInv, Open, Drivers
<1> QED
  BY <1>1, <1>3, <1>5, <1>6 DEF GrantInv

-----------------------------------------------------------------------------
(* Grants and decisions.                                                   *)

LEMMA InitGrant == Init => GrantInv
<1> SUFFICES ASSUME Init PROVE GrantInv
  OBVIOUS
<1>1. PICK i \in Insts : drv = [d \in Drivers |->
              NewDriver(i, "none", IF d = Launch THEN "build" ELSE "none")]
  BY DEF Init
<1>2. ASSUME NEW d \in Drivers
      PROVE  drv[d].state.verdict = "none" /\ drv[d].batch = None /\ (d # Launch => drv[d].pc = "none")
  BY <1>1 DEF NewDriver, FreshState
<1>3. \A a \in Approvals : a # Launch /\ a \in Drivers
  BY LaunchAssumption DEF Drivers
<1>4. \A a \in Approvals : spent[a] = 0 /\ appr[a] = "none"
  BY DEF Init
<1>5. \A d \in Drivers : Entitled(d, drv[d])
  BY <1>2 DEF Entitled
<1>6. \A a \in Approvals : Paid(drv[a], spent[a])
  BY <1>2, <1>3, <1>4, BatchAssumption DEF Paid, Unspent
<1>7. \A a \in Approvals : Open(a)
  BY <1>2, <1>3, <1>4 DEF Open
<1> QED
  BY <1>5, <1>6, <1>7 DEF GrantInv, Init

LEMMA NextGrant == TypeOK /\ GrantInv /\ [Next]_vars => GrantInv'
<1> SUFFICES ASSUME TypeOK, GrantInv, [Next]_vars PROVE GrantInv'
  OBVIOUS
<1>1. CASE \E d \in Drivers : Step(d) \/ Panic(d)
  <2>1. PICK d \in Drivers : Step(d) \/ Panic(d)
    BY <1>1
  <2> QED
    BY <2>1, BuildGrant, StartGrant, LoadGrant, EndGrant, NodeGrant, ApprovalGateGrant,
       LLMTurnGrant, GateGrant, CallGrant, SaveGrant, NodeCheckpointGrant, BookkeepingGrant
    DEF Step
<1>2. CASE \E a \in Approvals, i \in Insts : Decide(a, i) \/ ExpireOne(a, i)
  BY <1>2, ResolveGrant DEF Decide, ExpireOne, Decided
<1>3. CASE \E i \in Insts : CancelHere(i) \/ CancelElsewhere(i) \/ DeliverCancel(i) \/ Crash(i)
  BY <1>3, CancelGrant, CrashGrant
<1>4. CASE Age \/ Reap
  BY <1>4, StillGrant DEF Age, Reap, others
<1>5. CASE UNCHANGED vars
  BY <1>5, StillGrant DEF vars
<1> QED
  BY <1>1, <1>2, <1>3, <1>4, <1>5 DEF Next

LEMMA GrantInvariant == Spec => []GrantInv
<1>1. Init => GrantInv
  BY InitGrant
<1>2. TypeOK /\ GrantInv /\ [Next]_vars => GrantInv'
  BY NextGrant
<1> QED
  BY <1>1, <1>2, TypeCorrect, PTL DEF Spec

\* The invariant says of the calls sent what GrantBacksExecution asks.
LEMMA GrantImplies == TypeOK /\ GrantInv => GrantBacksExecution
<1> SUFFICES ASSUME TypeOK, GrantInv PROVE GrantBacksExecution
  OBVIOUS
<1>1. ASSUME NEW a \in Approvals, spent[a] > 0 PROVE spent[a] <= BatchLen /\ appr[a] = "approved"
  <2>1. spent[a] \in Nat /\ spent[a] # 0
    BY <1>1 DEF TypeOK
  <2> QED
    BY <2>1 DEF GrantInv, Paid, Open
<1> QED
  BY <1>1 DEF GrantInv, GrantBacksExecution

\* A gated call reaches a provider only under an approval a person granted,
\* and one grant pays for one batch: no order of drivers, decisions, sweeps,
\* cancels, faults and crashes gets a call past approvalGateNode without one.
THEOREM GrantSafe == Spec => []GrantBacksExecution
<1>1. TypeOK /\ GrantInv => GrantBacksExecution
  BY GrantImplies
<1> QED
  BY <1>1, GrantInvariant, TypeCorrect, PTL

\* The steps that write approvals.status write rows that are not decided.
LEMMA NextDecision ==
  TypeOK /\ [Next]_vars => \A a \in Approvals : appr[a] \in Decided => appr'[a] = appr[a]
<1> SUFFICES ASSUME TypeOK, [Next]_vars, NEW a \in Approvals, appr[a] \in Decided
             PROVE  appr'[a] = appr[a]
  OBVIOUS
<1>1. CASE \E d \in Drivers : Step(d) \/ Panic(d)
  <2>1. PICK d \in Drivers : Step(d) \/ Panic(d)
    BY <1>1
  <2>2. CASE Gate(d)
    BY <2>2 DEF Gate, TypeOK, Decided
  <2>3. CASE Accrue(d) \/ Call(d)
    BY <2>3 DEF Accrue, Call
  <2>4. CASE \/ Build(d) \/ Start(d) \/ Load(d) \/ LoopCancelled(d)
             \/ Planner(d) \/ Executor(d) \/ ApprovalGate(d) \/ Validator(d) \/ Reporter(d)
    BY <2>4 DEF Build, Start, Load, LoopCancelled, Planner, Executor, ApprovalGate,
                Validator, Reporter, others
  <2>5. CASE \/ LLMTurn(d) \/ Save(d) \/ Fail(d) \/ NodeCheckpoint(d)
             \/ Final(d) \/ ErrorCheck(d) \/ ErrorMark(d)
             \/ ContainRead(d) \/ ContainMark(d) \/ Panic(d)
    BY <2>5 DEF LLMTurn, Save, Fail, NodeCheckpoint, Final, ErrorCheck, ErrorMark,
                ContainRead, ContainMark, Panic, others
  <2> QED
    BY <2>1, <2>2, <2>3, <2>4, <2>5 DEF Step
<1>2. CASE \E b \in Approvals, i \in Insts : Decide(b, i) \/ ExpireOne(b, i)
  BY <1>2 DEF Decide, ExpireOne, Resolve, MayDecide, TypeOK, Decided
<1>3. CASE \E i \in Insts : CancelHere(i) \/ CancelElsewhere(i) \/ DeliverCancel(i) \/ Crash(i)
  BY <1>3 DEF CancelHere, CancelElsewhere, DeliverCancel, Crash, others
<1>4. CASE Age \/ Reap
  BY <1>4 DEF Age, Reap, others
<1>5. CASE UNCHANGED vars
  BY <1>5 DEF vars
<1> QED
  BY <1>1, <1>2, <1>3, <1>4, <1>5 DEF Next

\* A decision is final: whoever clicks twice, and however often the sweep runs,
\* no step moves an approval that was decided (UpdateApprovalStatus's guard).
THEOREM DecisionSafe == Spec => DecisionIsFinal
<1>1. TypeOK /\ [Next]_vars => \A a \in Approvals : appr[a] \in Decided => appr'[a] = appr[a]
  BY NextDecision
<1> QED
  BY <1>1, TypeCorrect, PTL DEF Spec, DecisionIsFinal

-----------------------------------------------------------------------------
(* Nobody answers an approval before its run is suspended: what may then be  *)
(* said of the row, of the one driver that works on it and of the approvals. *)
(* The parts are stated of a driver r, a row w, the approvals ap, the gated  *)
(* calls ef and the number n of calls sent, so that a step's lemma can speak *)
(* of them before and after it.                                              *)

\* A driver, being r, that may still write the row.  One that returned without
\* an error only looks at it.
Busy(r) == r.pc \notin {"none", "done"} /\ (r.pc \in {"final", "accrue"} => r.err)

\* The RunState s has counted every call sent, and leaves room for one more.
Budget(s, ef, n) ==
  /\ n <= s.calls /\ s.calls < MaxToolCalls
  /\ \A e \in ef : e.key < s.calls

\* The same, while one call is sent and not yet counted.
JustSent(s, ef, n) ==
  /\ n <= s.calls + 1 /\ s.calls < MaxToolCalls
  /\ \A e \in ef : e.key <= s.calls

\* The row's checkpoint is the one that suspended the run for approval b.
Handed(b, w, ef, n) ==
  /\ w.node = "approval_gate" /\ w.saved # None
  /\ w.saved.pending = b
  /\ Budget(w.saved, ef, n)

\* Which status the row has, by where its driver is.
Position(d, r, w) ==
  /\ r.pc \in {"build", "start", "load"} =>
       IF d = Launch THEN r.pc # "load" /\ w.status = "pending"
                     ELSE r.pc # "start" /\ w.status = "awaiting_approval"
  /\ r.pc \in EnginePCs \cup {"contain", "cmark"} =>
       \/ w.status = "running"
       \/ w.status = "awaiting_approval" /\ (r.pc \in EnginePCs => r.node = "approval_gate")
  /\ r.pc = "emark" => w.status = NotStarted(d)
  /\ w.status = "awaiting_approval" => d # Launch

\* Which batch it executes, and that it goes where its node sends it.
Shape(d, r) ==
  /\ r.batch \in {None, d}
  /\ r.pc = "enter" /\ r.node = "approval_gate" => r.state.pending = d
  /\ r.pc \in {"llm", "gate"} => r.node # "approval_gate"
  /\ r.pc \in {"call", "save"} /\ r.node = "approval_gate" => r.next = "executor"
  /\ r.pc = "ckpt" /\ r.node = "approval_gate" => r.next \in {"executor", "reporter"}

\* A driver a refusal started only reports.
Reports(d, r) ==
  /\ d = Launch => r.state.verdict = "none"
  /\ r.state.verdict = "no" =>
       /\ r.pc \notin {"llm", "gate", "call", "save"}
       /\ r.pc = "enter" => r.node \in {"approval_gate", "reporter"}
       /\ r.pc = "ckpt" => r.next \in {"reporter", ""}

\* Its own count of the calls, or the checkpoint's before it has loaded it.
Counted(d, r, w, ef, n) ==
  /\ r.pc \in {"enter", "llm", "gate", "call", "ckpt"} => Budget(r.state, ef, n)
  /\ d = Launch /\ r.pc \in {"build", "start"} => Budget(r.state, ef, n)
  /\ r.pc = "save" => JustSent(r.state, ef, n)
  /\ d # Launch /\ r.pc \in {"build", "load"} => Handed(d, w, ef, n)

\* An approval is open while a driver is busy only if that driver has asked for
\* it and not suspended the run.
Asking(r, w, ap) ==
  /\ \A b \in Approvals : ap[b] = "pending" =>
       /\ w.status # "awaiting_approval"
       /\ \/ r.pc \in {"final", "accrue", "check", "emark"}
          \/ r.pc = "ckpt" /\ r.next = "approval_gate" /\ r.state.pending = b
  /\ r.pc = "ckpt" /\ r.next = "approval_gate" =>
       r.state.pending \in Approvals /\ ap[r.state.pending] = "pending"

Fits(d, r, w, ap, ef, n) ==
  /\ Position(d, r, w) /\ Shape(d, r) /\ Reports(d, r)
  /\ Counted(d, r, w, ef, n) /\ Asking(r, w, ap)

\* The approval a suspended run waits for is the one in its checkpoint.
Waiting(w, ap, ef, n) ==
  \A b \in Approvals :
    w.status = "awaiting_approval" /\ ap[b] = "pending" => Handed(b, w, ef, n)

\* What has been sent.
Sent(ef, n) ==
  /\ n <= MaxToolCalls
  /\ \A e \in ef : e.batch = e.by
  /\ \A e, f \in ef : e.key = f.key => e = f

\* An hour-old row has no driver left.
Deserted == run.stale => run.status \in InFlight /\ \A d \in Drivers : ~Alive(d)

PromptInv ==
  /\ \A d, e \in Drivers : Busy(drv[d]) /\ Busy(drv[e]) => d = e
  /\ \A d \in Drivers : Busy(drv[d]) => Fits(d, drv[d], run, appr, effects, attempts)
  /\ Waiting(run, appr, effects, attempts)
  /\ Sent(effects, attempts)
  /\ Deserted

\* A suspended run has somebody to wait for, or somebody working on it.
Attended ==
  run.status = "awaiting_approval" =>
    \/ \E a \in Approvals : appr[a] = "pending"
    \/ \E d \in Drivers : Busy(drv[d])

-----------------------------------------------------------------------------
(* One driver moves: what has to be shown.                                   *)

\* The invariant after a step, part by part.
LEMMA PromptPrimed ==
  ASSUME \A d, e \in Drivers : Busy(drv'[d]) /\ Busy(drv'[e]) => d = e,
         \A d \in Drivers : Busy(drv'[d]) => Fits(d, drv'[d], run', appr', effects', attempts'),
         Waiting(run', appr', effects', attempts'), Sent(effects', attempts'), Deserted'
  PROVE  PromptInv'
<1>1. (\A d, e \in Drivers : Busy(drv[d]) /\ Busy(drv[e]) => d = e)'
  BY DEF Busy
<1>2. (\A d \in Drivers : Busy(drv[d]) => Fits(d, drv[d], run, appr, effects, attempts))'
  BY DEF Busy, Fits, Position, Shape, Reports, Counted, Asking, Handed, Budget, JustSent, NotStarted
<1>3. Waiting(run, appr, effects, attempts)' /\ Sent(effects, attempts)'
  BY DEF Waiting, Sent, Handed, Budget
<1> QED
  BY <1>1, <1>2, <1>3 DEF PromptInv

\* Where only a driver that may write the row can be.
BusyPCs == {"build", "start", "load", "contain", "cmark", "check", "emark"} \cup EnginePCs

LEMMA BusyFits ==
  ASSUME PromptInv, NEW d \in Drivers, drv[d].pc \in BusyPCs
  PROVE  Busy(drv[d]) /\ Fits(d, drv[d], run, appr, effects, attempts)
<1>1. Busy(drv[d])
  BY DEF Busy, BusyPCs, EnginePCs
<1> QED
  BY <1>1 DEF PromptInv

\* Nobody can answer while a driver is busy.
LEMMA BusyBlocks ==
  ASSUME PromptInv, NEW d \in Drivers, Busy(drv[d]), NEW b \in Approvals, appr[b] = "pending"
  PROVE  run.status # "awaiting_approval"
  BY DEF PromptInv, Fits, Asking

LEMMA BusyStep ==
  ASSUME TypeOK, PromptInv, NEW d \in Drivers, NEW q \in DriverStates, Become(d, q),
         Busy(drv[d]),
         Busy(q) => Fits(d, q, run', appr', effects', attempts'),
         Waiting(run', appr', effects', attempts'), Sent(effects', attempts'),
         run' = run \/ run'.stale = FALSE
  PROVE  PromptInv'
<1>1. drv'[d] = q /\ \A e \in Drivers : e # d => drv'[e] = drv[e]
  BY BecomeDriver DEF TypeOK
<1>2. \A e \in Drivers : Busy(drv'[e]) => e = d
  BY <1>1 DEF PromptInv
<1>3. Deserted'
  <2>1. Alive(d)
    BY DEF Busy, Alive
  <2>2. run'.stale # TRUE
    BY <2>1 DEF PromptInv, Deserted
  <2> QED
    BY <2>2 DEF Deserted
<1> QED
  BY <1>1, <1>2, <1>3, PromptPrimed

\* A busy driver moves and writes nothing.
LEMMA BusyMove ==
  ASSUME TypeOK, PromptInv, NEW d \in Drivers, NEW q \in DriverStates, Become(d, q),
         Busy(drv[d]),
         Busy(q) => Fits(d, q, run, appr, effects, attempts),
         UNCHANGED <<run, appr, effects, attempts>>
  PROVE  PromptInv'
<1>1. Waiting(run', appr', effects', attempts') /\ Sent(effects', attempts')
  BY DEF PromptInv
<1>2. Busy(q) => Fits(d, q, run', appr', effects', attempts')
  OBVIOUS
<1> QED
  BY <1>1, <1>2, BusyStep

\* A busy driver writes the row.
LEMMA BusyWrite ==
  ASSUME TypeOK, PromptInv, NEW d \in Drivers, NEW q \in DriverStates, Become(d, q),
         Busy(drv[d]),
         Busy(q) => Fits(d, q, run', appr, effects, attempts),
         run'.status # "awaiting_approval", run'.stale = FALSE,
         UNCHANGED <<appr, effects, attempts>>
  PROVE  PromptInv'
<1>1. Waiting(run', appr', effects', attempts')
  BY DEF Waiting
<1>2. Sent(effects', attempts')
  BY DEF PromptInv
<1>3. Busy(q) => Fits(d, q, run', appr', effects', attempts')
  OBVIOUS
<1> QED
  BY <1>1, <1>2, <1>3, BusyStep

\* A driver that will write nothing more moves on, or is done.
LEMMA IdleMove ==
  ASSUME TypeOK, PromptInv, NEW d \in Drivers, NEW q \in DriverStates, Become(d, q),
         ~Busy(q), Alive(d), UNCHANGED <<run, appr, effects, attempts>>
  PROVE  PromptInv'
<1>1. drv'[d] = q /\ \A e \in Drivers : e # d => drv'[e] = drv[e]
  BY BecomeDriver DEF TypeOK
<1>2. \A e \in Drivers : Busy(drv'[e]) => e # d /\ Busy(drv[e])
  BY <1>1
<1>3. \A e \in Drivers : Busy(drv'[e]) => Fits(e, drv'[e], run', appr', effects', attempts')
  BY <1>1, <1>2 DEF PromptInv
<1>4. \A e, f \in Drivers : Busy(drv'[e]) /\ Busy(drv'[f]) => e = f
  BY <1>2 DEF PromptInv
<1>5. Deserted'
  BY DEF PromptInv, Deserted
<1>6. Waiting(run', appr', effects', attempts') /\ Sent(effects', attempts')
  BY DEF PromptInv
<1> QED
  BY <1>3, <1>4, <1>5, <1>6, PromptPrimed

\* q is r somewhere else.
Same(r, q) ==
  q.node = r.node /\ q.next = r.next /\ q.state = r.state /\ q.batch = r.batch

LEMMA MoveSame ==
  ASSUME NEW r \in DriverStates, NEW p \in PCs
  PROVE  LET q == [r EXCEPT !.pc = p]
         IN  q \in DriverStates /\ q.pc = p /\ q.err = r.err /\ Same(r, q)
  BY DEF DriverStates, Same

LEMMA FinishSame ==
  ASSUME NEW r \in DriverStates, NEW p \in PCs, NEW e \in BOOLEAN
  PROVE  LET q == [r EXCEPT !.pc = p, !.err = e]
         IN  q \in DriverStates /\ q.pc = p /\ q.err = e /\ Same(r, q)
  BY DEF DriverStates, Same

\* The conditions the places put on a driver whose node, state and batch do not
\* change: after an error it may be anywhere in the Launcher's bookkeeping ...
LEMMA AfterError ==
  ASSUME NEW d, NEW r, NEW q, NEW w, NEW w2, NEW ap, NEW ef, NEW n,
         Fits(d, r, w, ap, ef, n), r.batch = q.batch, r.state = q.state,
         q.pc \in {"final", "accrue", "check"},
         w2.status = w.status \/ w2.status # "awaiting_approval"
  PROVE  Fits(d, q, w2, ap, ef, n)
<1>1. Position(d, q, w2)
  BY DEF Fits, Position, EnginePCs
<1>2. Shape(d, q) /\ Reports(d, q) /\ Counted(d, q, w2, ef, n)
  BY DEF Fits, Shape, Reports, Counted
<1>3. Asking(q, w2, ap)
  BY DEF Fits, Asking
<1> QED
  BY <1>1, <1>2, <1>3 DEF Fits

-----------------------------------------------------------------------------
(* Every step keeps PromptInv.                                               *)

\* A driver whose record is well formed and whose condition holds.
LEMMA BuildPrompt ==
  ASSUME TypeOK, PromptInv, NEW d \in Drivers, Build(d) PROVE PromptInv'
<1>1. PICK r \in DriverStates : r = drv[d]
  BY TypedDriver
<1>2. r.pc = "build" /\ Busy(drv[d]) /\ Fits(d, r, run, appr, effects, attempts)
  BY <1>1, BusyFits DEF Build, BusyPCs
<1>3. UNCHANGED <<run, appr, effects, attempts>>
  BY DEF Build, others
<1>4. CASE Become(d, [drv[d] EXCEPT !.pc = IF d = Launch THEN "start" ELSE "load"])
  <2>1. PICK q : q = [r EXCEPT !.pc = IF d = Launch THEN "start" ELSE "load"]
    OBVIOUS
  <2>2. q \in DriverStates /\ q.pc = (IF d = Launch THEN "start" ELSE "load") /\ Same(r, q)
    BY <2>1, MoveSame, Places
  <2>3. Position(d, q, run) /\ Shape(d, q)
    BY <1>2, <2>2 DEF Fits, Position, Shape, Same, EnginePCs
  <2>4. Reports(d, q) /\ Counted(d, q, run, effects, attempts)
    BY <1>2, <2>2 DEF Fits, Reports, Counted, Same
  <2>5. Asking(q, run, appr)
    BY <1>2, <2>2 DEF Fits, Asking
  <2> QED
    BY <1>1, <1>2, <1>3, <1>4, <2>1, <2>2, <2>3, <2>4, <2>5, BusyMove DEF Fits
<1>5. CASE Become(d, [drv[d] EXCEPT !.pc = "check", !.err = TRUE])
  <2>1. PICK q : q = [r EXCEPT !.pc = "check", !.err = TRUE]
    OBVIOUS
  <2>2. q \in DriverStates /\ q.pc = "check" /\ Same(r, q)
    BY <2>1, FinishSame, Places
  <2> QED
    BY <1>1, <1>2, <1>3, <1>5, <2>1, <2>2, AfterError, BusyMove DEF Same
<1> QED
  BY <1>4, <1>5 DEF Build

LEMMA StartPrompt ==
  ASSUME TypeOK, PromptInv, NEW d \in Drivers, Start(d) PROVE PromptInv'
<1>1. PICK r \in DriverStates : r = drv[d]
  BY TypedDriver
<1>2. r.pc = "start" /\ Busy(drv[d]) /\ Fits(d, r, run, appr, effects, attempts)
  BY <1>1, BusyFits DEF Start, BusyPCs
<1>3. UNCHANGED <<appr, effects, attempts>>
  BY DEF Start, others
<1>4. CASE SetStatus("running") /\ Become(d, [drv[d] EXCEPT !.pc = "enter", !.node = "planner"])
  <2>1. PICK q : q = [r EXCEPT !.pc = "enter", !.node = "planner"]
    OBVIOUS
  <2>2. /\ q \in DriverStates /\ q.pc = "enter" /\ q.node = "planner"
        /\ q.state = r.state /\ q.batch = r.batch
    <3>1. q \in DriverStates
      BY <2>1, DriverEdits, Places DEF EnginePCs, Nodes
    <3> QED
      BY <2>1, <3>1 DEF DriverStates
  <2>3. run'.status = "running" /\ run'.stale = FALSE
    BY <1>4 DEF SetStatus, TypeOK, Rows
  <2>4. d = Launch
    BY <1>2 DEF Fits, Position
  <2>5. Position(d, q, run') /\ Shape(d, q)
    BY <1>2, <2>2, <2>3 DEF Fits, Position, Shape, EnginePCs
  <2>6. Reports(d, q) /\ Counted(d, q, run', effects, attempts)
    BY <1>2, <2>2, <2>4 DEF Fits, Reports, Counted
  <2>7. Asking(q, run', appr)
    BY <1>2, <2>2, <2>3 DEF Fits, Asking
  <2> QED
    BY <1>1, <1>2, <1>3, <1>4, <2>1, <2>2, <2>3, <2>5, <2>6, <2>7, BusyWrite DEF Fits
<1>5. CASE Become(d, [drv[d] EXCEPT !.pc = "check", !.err = TRUE]) /\ UNCHANGED run
  <2>1. PICK q : q = [r EXCEPT !.pc = "check", !.err = TRUE]
    OBVIOUS
  <2>2. q \in DriverStates /\ q.pc = "check" /\ Same(r, q)
    BY <2>1, FinishSame, Places
  <2> QED
    BY <1>1, <1>2, <1>3, <1>5, <2>1, <2>2, AfterError, BusyMove DEF Same
<1> QED
  BY <1>4, <1>5 DEF Start

\* The checkpoint a resumed driver loads is the one its approval suspended.
LEMMA LoadPrompt ==
  ASSUME TypeOK, PromptInv, NEW d \in Drivers, Load(d) PROVE PromptInv'
<1>1. PICK r \in DriverStates : r = drv[d]
  BY TypedDriver
<1>2. r.pc = "load" /\ Busy(drv[d]) /\ Fits(d, r, run, appr, effects, attempts)
  BY <1>1, BusyFits DEF Load, BusyPCs
<1>3. UNCHANGED <<run, appr, effects, attempts>>
  BY DEF Load, others
<1>4. d # Launch /\ run.status = "awaiting_approval" /\ Handed(d, run, effects, attempts)
  BY <1>2 DEF Fits, Position, Counted
<1>5. CASE Resumable /\ Become(d, [drv[d] EXCEPT !.pc = "enter", !.node = run.node,
              !.state = [run.saved EXCEPT !.verdict = drv[d].state.verdict]])
  <2>1. PICK s : s = [run.saved EXCEPT !.verdict = drv[d].state.verdict]
    OBVIOUS
  <2>2. /\ s \in RunStates /\ s.pending = run.saved.pending /\ s.calls = run.saved.calls
        /\ s.verdict = r.state.verdict
    <3>1. run.saved \in RunStates
      BY <1>5 DEF TypeOK, Resumable, Rows
    <3>2. r.state.verdict \in Verdicts
      BY DriverFields
    <3> QED
      BY <1>1, <2>1, <3>1, <3>2 DEF RunStates
  <2>3. PICK q : q = [r EXCEPT !.pc = "enter", !.node = run.node, !.state = s]
    OBVIOUS
  <2>4. /\ q \in DriverStates /\ q.pc = "enter" /\ q.node = "approval_gate"
        /\ q.state = s /\ q.batch = r.batch
    <3>1. run.node = "approval_gate" /\ run.node \in Nodes
      BY <1>4 DEF Handed, Nodes
    <3>2. q \in DriverStates
      BY <2>2, <2>3, <3>1, DriverStateEdits, Places DEF EnginePCs
    <3> QED
      BY <2>3, <3>1, <3>2 DEF DriverStates
  <2>5. Position(d, q, run) /\ Shape(d, q)
    BY <1>2, <1>4, <2>2, <2>4 DEF Fits, Position, Shape, EnginePCs, Handed
  <2>6. Reports(d, q)
    BY <1>2, <1>4, <2>2, <2>4 DEF Fits, Reports
  <2>7. Counted(d, q, run, effects, attempts)
    BY <1>4, <2>2, <2>4 DEF Counted, Handed, Budget
  <2>8. Asking(q, run, appr)
    BY <1>2, <1>4, <2>4 DEF Fits, Asking
  <2> QED
    BY <1>1, <1>2, <1>3, <1>5, <2>1, <2>3, <2>4, <2>5, <2>6, <2>7, <2>8, BusyMove DEF Fits
<1>6. CASE Become(d, [drv[d] EXCEPT !.err = TRUE,
                         !.pc = IF run.saved # None THEN "final" ELSE "check"])
  <2>1. PICK p \in PCs : p \in {"final", "check"} /\ p = IF run.saved # None THEN "final" ELSE "check"
    BY Places
  <2>2. PICK q : q = [r EXCEPT !.pc = p, !.err = TRUE]
    OBVIOUS
  <2>3. q \in DriverStates /\ q.pc = p /\ Same(r, q)
    BY <2>2, FinishSame
  <2>4. [r EXCEPT !.err = TRUE, !.pc = p] = [r EXCEPT !.pc = p, !.err = TRUE]
    OBVIOUS
  <2>5. Become(d, q)
    BY <1>1, <1>6, <2>1, <2>2, <2>4
  <2>6. Fits(d, q, run, appr, effects, attempts)
    BY <1>2, <2>1, <2>3, AfterError DEF Same
  <2> QED
    BY <1>2, <1>3, <2>3, <2>5, <2>6, BusyMove
<1> QED
  BY <1>5, <1>6 DEF Load

\* The engine returns with an error, the row as it was or closed.
LEMMA ReturnPrompt ==
  ASSUME TypeOK, PromptInv, NEW d \in Drivers, Return(d, TRUE), drv[d].pc \in EnginePCs,
         run' = run \/ (run'.status # "awaiting_approval" /\ run'.stale = FALSE),
         UNCHANGED others
  PROVE  PromptInv'
<1>1. PICK r \in DriverStates : r = drv[d]
  BY TypedDriver
<1>2. Busy(drv[d]) /\ Fits(d, r, run, appr, effects, attempts)
  BY <1>1, BusyFits DEF BusyPCs
<1>3. PICK q : q = [r EXCEPT !.pc = "final", !.err = TRUE]
  OBVIOUS
<1>4. q \in DriverStates /\ q.pc = "final" /\ Same(r, q)
  BY <1>3, FinishSame, Places
<1>5. Become(d, q) /\ UNCHANGED <<appr, effects, attempts>>
  BY <1>1, <1>3 DEF Return, others
<1>6. Fits(d, q, run', appr, effects, attempts)
  BY <1>2, <1>4, AfterError DEF Same
<1>7. CASE run' = run
  BY <1>2, <1>4, <1>5, <1>6, <1>7, BusyMove
<1>8. CASE run'.status # "awaiting_approval" /\ run'.stale = FALSE
  BY <1>2, <1>4, <1>5, <1>6, <1>8, BusyWrite
<1> QED
  BY <1>7, <1>8

\* What a checkpoint leaves in the row.
LEMMA CheckpointFields ==
  ASSUME NEW s, NEW n, NEW st, Checkpoint(s, n, st)
  PROVE  run'.status = st /\ run'.node = n /\ run'.saved = s /\ run'.stale = FALSE
  BY DEF Checkpoint

LEMMA EndPrompt ==
  ASSUME TypeOK, PromptInv, NEW d \in Drivers, LoopCancelled(d) \/ Fail(d) PROVE PromptInv'
<1>1. drv[d].pc \in EnginePCs /\ Return(d, TRUE) /\ UNCHANGED others
  BY DEF LoopCancelled, Fail, EnginePCs
<1>2. PICK st \in Terminal :
        run' = run \/ Checkpoint(drv[d].state, drv[d].node, st)
  BY DEF LoopCancelled, Fail, SureWrite, Terminal
<1>3. run' = run \/ (run'.status # "awaiting_approval" /\ run'.stale = FALSE)
  BY <1>2, CheckpointFields DEF Terminal
<1> QED
  BY <1>1, <1>3, ReturnPrompt

\* The engine is at node n, its driver being r.
LEMMA EnginePlace ==
  ASSUME TypeOK, PromptInv, NEW d \in Drivers, drv[d].pc \in EnginePCs
  PROVE  /\ drv[d] \in DriverStates /\ Busy(drv[d])
         /\ Fits(d, drv[d], run, appr, effects, attempts)
         /\ drv[d].node # "approval_gate" => run.status = "running"
         /\ drv[d].pc # "ckpt" => \A b \in Approvals : appr[b] # "pending"
<1>1. /\ drv[d] \in DriverStates /\ Busy(drv[d])
      /\ Fits(d, drv[d], run, appr, effects, attempts)
  BY TypedDriver, BusyFits DEF BusyPCs
<1>2. drv[d].node # "approval_gate" => run.status = "running"
  BY <1>1 DEF Fits, Position
<1>3. drv[d].pc # "ckpt" => \A b \in Approvals : appr[b] # "pending"
  BY <1>1 DEF Fits, Asking, EnginePCs
<1> QED
  BY <1>1, <1>2, <1>3

\* A driver hands the engine the next node.
LEMMA HandsPrompt ==
  ASSUME TypeOK, PromptInv, NEW d \in Drivers, NEW n \in Nodes, Hands(d, n),
         drv[d].pc \in {"enter", "llm"}, drv[d].node # "approval_gate", n # "approval_gate",
         drv[d].state.verdict = "no" => n \in {"reporter", ""},
         UNCHANGED <<run, appr, effects, attempts>>
  PROVE  PromptInv'
<1>1. PICK r \in DriverStates : r = drv[d]
  BY TypedDriver
<1>2. /\ Busy(drv[d]) /\ Fits(d, r, run, appr, effects, attempts)
      /\ run.status = "running" /\ \A b \in Approvals : appr[b] # "pending"
  BY <1>1, EnginePlace DEF EnginePCs
<1>3. PICK q : q = [r EXCEPT !.pc = "ckpt", !.next = n]
  OBVIOUS
<1>4. /\ q \in DriverStates /\ q.pc = "ckpt" /\ q.next = n /\ q.node = r.node
      /\ q.state = r.state /\ q.batch = r.batch
  <2>1. q \in DriverStates
    BY <1>3, DriverEdits, Places DEF EnginePCs
  <2> QED
    BY <1>3, <2>1 DEF DriverStates
<1>5. Position(d, q, run) /\ Shape(d, q)
  BY <1>1, <1>2, <1>4 DEF Fits, Position, Shape, EnginePCs
<1>6. Reports(d, q) /\ Counted(d, q, run, effects, attempts)
  BY <1>1, <1>2, <1>4 DEF Fits, Reports, Counted
<1>7. Asking(q, run, appr)
  BY <1>2, <1>4 DEF Asking
<1>8. Become(d, q)
  BY <1>1, <1>3 DEF Hands
<1> QED
  BY <1>2, <1>4, <1>5, <1>6, <1>7, <1>8, BusyMove DEF Fits

\* The engine's driver moves to another place inside its node.
LEMMA InsidePrompt ==
  ASSUME TypeOK, PromptInv, NEW d \in Drivers, NEW p \in {"llm", "gate", "fail"},
         Become(d, [drv[d] EXCEPT !.pc = p]),
         drv[d].pc \in EnginePCs \ {"ckpt"},
         p # "fail" => /\ drv[d].pc \in {"enter", "llm"} /\ drv[d].node # "approval_gate"
                       /\ drv[d].state.verdict # "no",
         UNCHANGED <<run, appr, effects, attempts>>
  PROVE  PromptInv'
<1>1. PICK r \in DriverStates : r = drv[d]
  BY TypedDriver
<1>2. /\ Busy(drv[d]) /\ Fits(d, r, run, appr, effects, attempts)
      /\ \A b \in Approvals : appr[b] # "pending"
  BY <1>1, EnginePlace DEF EnginePCs
<1>3. PICK q : q = [r EXCEPT !.pc = p]
  OBVIOUS
<1>4. q \in DriverStates /\ q.pc = p /\ Same(r, q)
  BY <1>3, MoveSame, Places DEF EnginePCs
<1>5. Position(d, q, run) /\ Shape(d, q)
  BY <1>1, <1>2, <1>4 DEF Fits, Position, Shape, EnginePCs, Same
<1>6. Reports(d, q) /\ Counted(d, q, run, effects, attempts)
  BY <1>1, <1>2, <1>4 DEF Fits, Reports, Counted, Same
<1>7. Asking(q, run, appr)
  BY <1>2, <1>4 DEF Asking
<1> QED
  BY <1>1, <1>2, <1>3, <1>4, <1>5, <1>6, <1>7, BusyMove DEF Fits

LEMMA NodePrompt ==
  ASSUME TypeOK, PromptInv, NEW d \in Drivers,
         Planner(d) \/ Executor(d) \/ Validator(d) \/ Reporter(d)
  PROVE  PromptInv'
<1>1. drv[d].pc = "enter" /\ UNCHANGED <<run, appr, effects, attempts>>
  BY DEF Planner, Executor, Validator, Reporter, AtNode, others
<1>2. Fits(d, drv[d], run, appr, effects, attempts)
  BY <1>1, EnginePlace DEF EnginePCs
<1>3. CASE Executor(d)
  <2>1. drv[d].state.verdict # "no" /\ drv[d].node # "approval_gate"
    BY <1>1, <1>2, <1>3 DEF Fits, Reports, Executor, AtNode
  <2> QED
    BY <1>1, <1>3, <2>1, InsidePrompt DEF Executor, EnginePCs
<1>4. CASE Planner(d) \/ Validator(d)
  <2>1. drv[d].state.verdict # "no" /\ drv[d].node # "approval_gate"
    BY <1>1, <1>2, <1>4 DEF Fits, Reports, Planner, Validator, AtNode
  <2> QED
    BY <1>1, <1>4, <2>1, HandsPrompt DEF Planner, Validator, Nodes
<1>5. CASE Reporter(d)
  BY <1>1, <1>5, HandsPrompt DEF Reporter, AtNode, Nodes
<1> QED
  BY <1>3, <1>4, <1>5

LEMMA LLMTurnPrompt ==
  ASSUME TypeOK, PromptInv, NEW d \in Drivers, LLMTurn(d) PROVE PromptInv'
<1>1. PICK r \in DriverStates : r = drv[d]
  BY TypedDriver
<1>2. r.pc = "llm" /\ UNCHANGED <<run, appr, effects, attempts>>
  BY <1>1 DEF LLMTurn, others
<1>3. /\ Busy(drv[d]) /\ Fits(d, r, run, appr, effects, attempts)
      /\ \A b \in Approvals : appr[b] # "pending"
  BY <1>1, <1>2, EnginePlace DEF EnginePCs
<1>4. r.node # "approval_gate" /\ r.state.verdict # "no"
  BY <1>2, <1>3 DEF Fits, Shape, Reports
<1>5. CASE Become(d, [drv[d] EXCEPT !.pc = "fail"])
  BY <1>1, <1>2, <1>5, InsidePrompt DEF EnginePCs
<1>6. CASE Hands(d, "validator")
  BY <1>1, <1>2, <1>4, <1>6, HandsPrompt DEF Nodes
<1>7. CASE Become(d, [drv[d] EXCEPT !.pc = "call", !.left = 1, !.batch = None])
  <2>1. PICK q : q = [r EXCEPT !.pc = "call", !.left = 1, !.batch = None]
    OBVIOUS
  <2>2. /\ q \in DriverStates /\ q.pc = "call" /\ q.state = r.state /\ q.batch = None
        /\ q.node = r.node
    BY <2>1 DEF DriverStates, PCs, EnginePCs
  <2>3. Position(d, q, run) /\ Shape(d, q)
    BY <1>2, <1>3, <1>4, <2>2 DEF Fits, Position, Shape, EnginePCs
  <2>4. Reports(d, q) /\ Counted(d, q, run, effects, attempts)
    BY <1>2, <1>3, <1>4, <2>2 DEF Fits, Reports, Counted
  <2>5. Asking(q, run, appr)
    BY <1>3, <2>2 DEF Asking
  <2> QED
    BY <1>1, <1>2, <1>3, <1>7, <2>1, <2>2, <2>3, <2>4, <2>5, BusyMove DEF Fits
<1>8. CASE Become(d, [drv[d] EXCEPT !.pc = "gate"])
  BY <1>1, <1>2, <1>4, <1>8, InsidePrompt DEF EnginePCs
<1> QED
  BY <1>5, <1>6, <1>7, <1>8 DEF LLMTurn

\* What approval_gate makes of the driver, field by field.
LEMMA GatedShape ==
  ASSUME TypeOK, NEW d \in Drivers
  PROVE  LET r == drv[d] q == Gated(d) IN
         /\ q.node = r.node /\ q.state.verdict = r.state.verdict
         /\ q.state.calls = r.state.calls
         /\ q.batch = (IF GateRuns(d) THEN r.state.pending ELSE None)
         /\ q.next = (IF r.state.verdict = "yes" THEN "executor" ELSE "reporter")
         /\ q.pc = (IF GateRuns(d) THEN "call" ELSE "ckpt")
<1>1. drv[d] \in DriverStates /\ drv[d].state \in RunStates
  BY TypedDriver, DriverFields
<1>2. PICK s : s = [drv[d].state EXCEPT !.pending = None]
  OBVIOUS
<1>3. s.verdict = drv[d].state.verdict /\ s.calls = drv[d].state.calls
  BY <1>1, <1>2 DEF RunStates
<1>4. Gated(d).state = s /\ Gated(d).node = drv[d].node
      /\ Gated(d).batch = (IF GateRuns(d) THEN drv[d].state.pending ELSE None)
      /\ Gated(d).next = (IF drv[d].state.verdict = "yes" THEN "executor" ELSE "reporter")
      /\ Gated(d).pc = (IF GateRuns(d) THEN "call" ELSE "ckpt")
  BY <1>1, <1>2 DEF Gated, DriverStates
<1> QED
  BY <1>3, <1>4

LEMMA ApprovalGatePrompt ==
  ASSUME TypeOK, PromptInv, NEW d \in Drivers, ApprovalGate(d) PROVE PromptInv'
<1>1. PICK r \in DriverStates : r = drv[d]
  BY TypedDriver
<1>2. /\ r.pc = "enter" /\ r.node = "approval_gate"
      /\ UNCHANGED <<run, appr, effects, attempts>>
  BY <1>1 DEF ApprovalGate, AtNode, others
<1>3. /\ Busy(drv[d]) /\ Fits(d, r, run, appr, effects, attempts)
      /\ \A b \in Approvals : appr[b] # "pending"
  BY <1>1, <1>2, EnginePlace DEF EnginePCs
<1>4. PICK q \in DriverStates : q = Gated(d) /\ Become(d, q)
  BY GatedType, ApprovalGateBecomes
<1>5. r.state.pending = d
  BY <1>2, <1>3 DEF Fits, Shape
<1>6. /\ q.node = r.node /\ q.state.verdict = r.state.verdict
      /\ q.state.calls = r.state.calls
      /\ q.batch \in {None, d}
      /\ q.next = (IF r.state.verdict = "yes" THEN "executor" ELSE "reporter")
      /\ q.pc \in {"call", "ckpt"} /\ (q.pc = "call" => r.state.verdict = "yes")
  BY <1>1, <1>4, <1>5, GatedShape DEF GateRuns
<1>7. Position(d, q, run) /\ Shape(d, q)
  BY <1>2, <1>3, <1>6 DEF Fits, Position, Shape, EnginePCs
<1>8. Reports(d, q) /\ Counted(d, q, run, effects, attempts)
  BY <1>2, <1>3, <1>6 DEF Fits, Reports, Counted, Budget
<1>9. Asking(q, run, appr)
  BY <1>3, <1>6 DEF Asking
<1> QED
  BY <1>2, <1>3, <1>4, <1>7, <1>8, <1>9, BusyMove DEF Fits

\* Asking for an approval: none was open, and the run is still running.
LEMMA GatePrompt ==
  ASSUME TypeOK, PromptInv, NEW d \in Drivers, Gate(d) PROVE PromptInv'
<1>1. PICK r \in DriverStates : r = drv[d]
  BY TypedDriver
<1>2. r.pc = "gate" /\ UNCHANGED <<run, effects, attempts>>
  BY <1>1 DEF Gate, ghosts
<1>3. /\ Busy(drv[d]) /\ Fits(d, r, run, appr, effects, attempts)
      /\ \A b \in Approvals : appr[b] # "pending"
  BY <1>1, <1>2, EnginePlace DEF EnginePCs
<1>4. r.node # "approval_gate" /\ r.state.verdict # "no" /\ run.status = "running"
  BY <1>2, <1>3 DEF Fits, Shape, Reports, Position, EnginePCs
<1>5. CASE Become(d, [drv[d] EXCEPT !.pc = "fail"]) /\ UNCHANGED appr
  BY <1>1, <1>2, <1>5, InsidePrompt DEF EnginePCs
<1>6. CASE \E a \in Approvals : /\ appr' = [appr EXCEPT ![a] = "pending"]
                               /\ Become(d, Asked(d, a))
  <2>1. PICK a \in Approvals : /\ appr' = [appr EXCEPT ![a] = "pending"]
                              /\ Become(d, Asked(d, a))
    BY <1>6
  <2>2. appr'[a] = "pending" /\ \A b \in Approvals : b # a => appr'[b] # "pending"
    BY <1>3, <2>1 DEF TypeOK
  <2>3. PICK s : s = [r.state EXCEPT !.pending = a]
    OBVIOUS
  <2>4. s.pending = a /\ s.calls = r.state.calls /\ s.verdict = r.state.verdict
    BY <2>3, DriverFields DEF RunStates
  <2>5. PICK q \in DriverStates : q = Asked(d, a)
    BY AskedType
  <2>6. /\ q.pc = "ckpt" /\ q.next = "approval_gate" /\ q.state = s
        /\ q.node = r.node /\ q.batch = r.batch
    BY <1>1, <2>3, <2>5 DEF Asked, DriverStates
  <2>7. Position(d, q, run) /\ Shape(d, q)
    BY <1>3, <1>4, <2>4, <2>6 DEF Fits, Position, Shape, EnginePCs
  <2>8. Reports(d, q) /\ Counted(d, q, run, effects, attempts)
    BY <1>2, <1>3, <1>4, <2>4, <2>6 DEF Fits, Reports, Counted, Budget
  <2>9. Asking(q, run, appr')
    BY <1>4, <2>2, <2>4, <2>6 DEF Asking
  <2>10. Waiting(run', appr', effects', attempts') /\ Sent(effects', attempts')
    BY <1>2, <1>4 DEF PromptInv, Waiting
  <2>11. Fits(d, q, run', appr', effects', attempts')
    BY <1>2, <2>7, <2>8, <2>9 DEF Fits
  <2> QED
    BY <1>2, <1>3, <2>1, <2>5, <2>10, <2>11, BusyStep
<1> QED
  BY <1>5, <1>6 DEF Gate, Asked

\* Once sent, the call's key is one no earlier call had.
LEMMA SentOne ==
  ASSUME NEW d, NEW ef, NEW n \in Nat, NEW s, s.calls \in Nat,
         Budget(s, ef, n), Sent(ef, n), \A e \in ef : e.key \in Nat
  PROVE  /\ JustSent(s, ef, n + 1) /\ Sent(ef, n + 1)
         /\ JustSent(s, ef \cup {[by |-> d, batch |-> d, key |-> s.calls]}, n + 1)
         /\ Sent(ef \cup {[by |-> d, batch |-> d, key |-> s.calls]}, n + 1)
<1> DEFINE new == [by |-> d, batch |-> d, key |-> s.calls]
<1>1. new.by = d /\ new.batch = d /\ new.key = s.calls
  OBVIOUS
<1> HIDE DEF new
<1>2. n + 1 <= MaxToolCalls /\ n + 1 <= s.calls + 1
  BY CapAssumption DEF Budget
<1>3. \A e \in ef : e.key < s.calls /\ e.key # s.calls
  BY DEF Budget
<1>4. JustSent(s, ef, n + 1) /\ Sent(ef, n + 1)
  BY <1>2, <1>3 DEF Budget, JustSent, Sent
<1>5. JustSent(s, ef \cup {new}, n + 1)
  BY <1>1, <1>2, <1>3 DEF Budget, JustSent
<1>6. Sent(ef \cup {new}, n + 1)
  BY <1>1, <1>2, <1>3 DEF Sent
<1> QED
  BY <1>4, <1>5, <1>6 DEF new

LEMMA CallPrompt ==
  ASSUME TypeOK, PromptInv, NEW d \in Drivers, Call(d) PROVE PromptInv'
<1>1. PICK r \in DriverStates : r = drv[d]
  BY TypedDriver
<1>2. r.pc = "call" /\ UNCHANGED <<run, appr>>
  BY <1>1 DEF Call
<1>3. /\ Busy(drv[d]) /\ Fits(d, r, run, appr, effects, attempts)
      /\ \A b \in Approvals : appr[b] # "pending"
  BY <1>1, <1>2, EnginePlace DEF EnginePCs
<1>4. CASE Become(d, [drv[d] EXCEPT !.pc = "fail"]) /\ UNCHANGED <<attempts, effects>>
  BY <1>1, <1>2, <1>4, InsidePrompt DEF EnginePCs
<1>5. CASE /\ Become(d, [drv[d] EXCEPT !.pc = "save"]) /\ attempts' = attempts + 1
           /\ IF drv[d].batch = None THEN UNCHANGED effects
              ELSE effects' = effects \cup
                     {[by |-> d, batch |-> drv[d].batch, key |-> drv[d].state.calls]}
  <2>1. PICK q : q = [r EXCEPT !.pc = "save"]
    OBVIOUS
  <2>2. q \in DriverStates /\ q.pc = "save" /\ Same(r, q)
    BY <2>1, MoveSame, Places DEF EnginePCs
  <2>3. JustSent(r.state, effects', attempts') /\ Sent(effects', attempts')
    <3>1. Budget(r.state, effects, attempts) /\ Sent(effects, attempts)
      BY <1>2, <1>3 DEF Fits, Counted, PromptInv
    <3>2. attempts \in Nat /\ r.state.calls \in Nat /\ \A e \in effects : e.key \in Nat
      BY DriverFields DEF TypeOK, Effects
    <3>3. r.batch \in {None, d}
      BY <1>3 DEF Fits, Shape
    <3>4. effects' = effects \/ effects' = effects \cup {[by |-> d, batch |-> d, key |-> r.state.calls]}
      BY <1>1, <1>5, <3>3
    <3>5. PICK t \in RunStates : t = r.state
      BY DriverFields
    <3>6. /\ JustSent(t, effects, attempts + 1) /\ Sent(effects, attempts + 1)
          /\ JustSent(t, effects \cup {[by |-> d, batch |-> d, key |-> t.calls]}, attempts + 1)
          /\ Sent(effects \cup {[by |-> d, batch |-> d, key |-> t.calls]}, attempts + 1)
      BY <3>1, <3>2, <3>5, SentOne
    <3>7. attempts' = attempts + 1
      BY <1>5
    <3> QED
      BY <3>4, <3>5, <3>6, <3>7
  <2>4. Position(d, q, run) /\ Shape(d, q)
    BY <1>2, <1>3, <2>2 DEF Fits, Position, Shape, EnginePCs, Same
  <2>5. Reports(d, q) /\ Counted(d, q, run, effects', attempts')
    BY <1>2, <1>3, <2>2, <2>3 DEF Fits, Reports, Counted, Same
  <2>6. Asking(q, run, appr)
    BY <1>3, <2>2 DEF Asking
  <2>7. Fits(d, q, run', appr', effects', attempts')
    BY <1>2, <2>4, <2>5, <2>6 DEF Fits
  <2>8. Waiting(run', appr', effects', attempts')
    BY <1>2, <1>3 DEF Waiting
  <2> QED
    BY <1>1, <1>2, <1>3, <1>5, <2>1, <2>2, <2>3, <2>7, <2>8, BusyStep
<1> QED
  BY <1>4, <1>5 DEF Call

\* What counting a call leaves of the RunState.
LEMMA CountCallFields ==
  ASSUME NEW s \in RunStates
  PROVE  /\ CountCall(s) \in RunStates /\ CountCall(s).calls = s.calls + 1
         /\ CountCall(s).verdict = s.verdict /\ CountCall(s).pending = s.pending
  BY DEF RunStates, CountCall

\* The driver has counted its call as s, and goes on as q: the row is written,
\* or it is not and the node fails.
LEMMA SavedStep ==
  ASSUME TypeOK, PromptInv, NEW d \in Drivers, NEW q \in DriverStates, Become(d, q),
         drv[d].pc = "save", q.state = CountCall(drv[d].state), q.batch = drv[d].batch,
         q.node = drv[d].node, q.next = drv[d].next,
         \/ q.pc = "fail" /\ run' = run
         \/ /\ run'.status = "running" /\ run'.stale = FALSE
            /\ \/ q.pc = "fail"
               \/ /\ WithinCap(q.state)
                  /\ \/ q.pc = "call"
                     \/ q.pc = "ckpt" /\ drv[d].node = "approval_gate"
                     \/ q.pc = "llm" /\ drv[d].node # "approval_gate",
         UNCHANGED <<appr, effects, attempts>>
  PROVE  PromptInv'
<1>1. PICK r \in DriverStates : r = drv[d]
  BY TypedDriver
<1>2. /\ Busy(drv[d]) /\ Fits(d, r, run, appr, effects, attempts)
      /\ \A b \in Approvals : appr[b] # "pending"
  BY <1>1, EnginePlace DEF EnginePCs
<1>3. /\ r.state \in RunStates /\ r.state.calls \in Nat
      /\ q.state.calls = r.state.calls + 1 /\ q.state.verdict = r.state.verdict
  BY <1>1, DriverFields, CountCallFields
<1>4. q.pc # "fail" => Budget(q.state, effects, attempts)
  <2>1. JustSent(r.state, effects, attempts)
    BY <1>1, <1>2 DEF Fits, Counted
  <2>2. attempts \in Nat /\ \A e \in effects : e.key \in Nat
    BY DEF TypeOK, Effects
  <2> QED
    BY <1>3, <2>1, <2>2, CapAssumption DEF JustSent, Budget, WithinCap
<1>5. Position(d, q, run')
  BY <1>1, <1>2 DEF Fits, Position, EnginePCs
<1>6. Shape(d, q) /\ Reports(d, q)
  BY <1>1, <1>2, <1>3 DEF Fits, Shape, Reports
<1>7. Counted(d, q, run', effects, attempts)
  BY <1>4 DEF Counted
<1>8. Asking(q, run', appr)
  BY <1>1, <1>2 DEF Fits, Asking, Shape
<1>9. Fits(d, q, run', appr, effects, attempts)
  BY <1>5, <1>6, <1>7, <1>8 DEF Fits
<1>10. CASE run' = run
  BY <1>2, <1>9, <1>10, BusyMove
<1>11. CASE run'.status = "running" /\ run'.stale = FALSE
  BY <1>2, <1>9, <1>11, BusyWrite
<1> QED
  BY <1>10, <1>11

LEMMA SavePrompt ==
  ASSUME TypeOK, PromptInv, NEW d \in Drivers, Save(d) PROVE PromptInv'
<1>1. PICK r \in DriverStates : r = drv[d]
  BY TypedDriver
<1>2. PICK s \in RunStates : s = CountCall(r.state)
  BY DriverFields, CountCallFields
<1>3. r.pc = "save" /\ UNCHANGED <<appr, effects, attempts>>
  BY <1>1 DEF Save, others
<1>4. PICK p \in PCs : p = IF r.node = "approval_gate" THEN "ckpt" ELSE "llm"
  BY Places DEF EnginePCs
<1>5. ASSUME Become(d, [drv[d] EXCEPT !.state = s, !.pc = "fail"]),
             run' = run \/ Checkpoint(s, "executor", "running")
      PROVE  PromptInv'
  <2>1. PICK q : q = [r EXCEPT !.state = s, !.pc = "fail"]
    OBVIOUS
  <2>2. /\ q \in DriverStates /\ q.pc = "fail" /\ q.state = s /\ q.batch = r.batch
        /\ q.node = r.node /\ q.next = r.next
    <3>1. q \in DriverStates
      BY <2>1, DriverStateEdits, Places DEF EnginePCs
    <3> QED
      BY <2>1, <3>1 DEF DriverStates
  <2>3. run' = run \/ (run'.status = "running" /\ run'.stale = FALSE)
    BY <1>5, CheckpointFields
  <2>4. Become(d, q)
    BY <1>1, <1>5, <2>1
  <2> QED
    BY <1>1, <1>2, <1>3, <2>2, <2>3, <2>4, SavedStep
<1>6. ASSUME Become(d, [drv[d] EXCEPT !.state = s, !.left = 0, !.pc = p]),
             Checkpoint(s, "executor", "running"), WithinCap(s)
      PROVE  PromptInv'
  <2>1. PICK q : q = [r EXCEPT !.state = s, !.left = 0, !.pc = p]
    OBVIOUS
  <2>2. /\ q \in DriverStates /\ q.pc = p /\ q.state = s /\ q.batch = r.batch
        /\ q.node = r.node /\ q.next = r.next
    <3>1. q \in DriverStates
      BY <2>1, DriverStateEdits
    <3> QED
      BY <2>1, <3>1 DEF DriverStates
  <2>3. Become(d, q) /\ run'.status = "running" /\ run'.stale = FALSE
    BY <1>1, <1>6, <2>1, CheckpointFields
  <2>4. \/ q.pc = "ckpt" /\ drv[d].node = "approval_gate"
        \/ q.pc = "llm" /\ drv[d].node # "approval_gate"
    BY <1>1, <1>4, <2>2
  <2> QED
    BY <1>1, <1>2, <1>3, <1>6, <2>2, <2>3, <2>4, SavedStep
<1>7. ASSUME drv[d].left > 1,
             Become(d, [drv[d] EXCEPT !.state = s, !.pc = "call", !.left = @ - 1]),
             Checkpoint(s, "executor", "running"), WithinCap(s)
      PROVE  PromptInv'
  <2>1. PICK l \in Nat : l = r.left - 1
    BY <1>1, <1>7, DriverFields
  <2>2. PICK q : q = [r EXCEPT !.state = s, !.pc = "call", !.left = l]
    OBVIOUS
  <2>3. /\ q \in DriverStates /\ q.pc = "call" /\ q.state = s /\ q.batch = r.batch
        /\ q.node = r.node /\ q.next = r.next
    <3>1. q \in DriverStates
      BY <2>2, DriverStateEdits, Places DEF EnginePCs
    <3> QED
      BY <2>2, <3>1 DEF DriverStates
  <2>4. Become(d, q)
    BY <1>1, <1>7, <2>1, <2>2
  <2>5. run'.status = "running" /\ run'.stale = FALSE
    BY <1>7, CheckpointFields
  <2> QED
    BY <1>1, <1>2, <1>3, <1>7, <2>3, <2>4, <2>5, SavedStep
<1> QED
  BY <1>1, <1>2, <1>4, <1>5, <1>6, <1>7 DEF Save, CtxWrite

\* The checkpoint after a node: the run goes on, ends or waits for the approval
\* its driver has asked for.
LEMMA NodeCheckpointPrompt ==
  ASSUME TypeOK, PromptInv, NEW d \in Drivers, NodeCheckpoint(d) PROVE PromptInv'
<1>1. PICK r \in DriverStates : r = drv[d]
  BY TypedDriver
<1>2. PICK n \in Nodes : n = r.next
  BY DriverFields
<1>3. r.pc = "ckpt" /\ UNCHANGED others /\ UNCHANGED <<appr, effects, attempts>>
  BY <1>1 DEF NodeCheckpoint, others
<1>4. Busy(drv[d]) /\ Fits(d, r, run, appr, effects, attempts)
  BY <1>1, <1>3, EnginePlace DEF EnginePCs
<1>5. CASE Return(d, TRUE) /\ UNCHANGED run
  BY <1>1, <1>3, <1>5, ReturnPrompt DEF EnginePCs
<1>6. CASE /\ Checkpoint(r.state, n, StatusAfter(n)) /\ n \notin Stops
           /\ Become(d, [drv[d] EXCEPT !.pc = "enter", !.node = n])
  <2>1. PICK q : q = [r EXCEPT !.pc = "enter", !.node = n]
    OBVIOUS
  <2>2. /\ q \in DriverStates /\ q.pc = "enter" /\ q.node = n
        /\ q.state = r.state /\ q.batch = r.batch
    <3>1. q \in DriverStates
      BY <2>1, DriverEdits, Places DEF EnginePCs
    <3> QED
      BY <2>1, <3>1 DEF DriverStates
  <2>3. n # "approval_gate" /\ n # ""
    BY <1>6 DEF Stops
  <2>4. run'.status = "running" /\ run'.stale = FALSE
    BY <1>6, <2>3, CheckpointFields DEF StatusAfter
  <2>5. Position(d, q, run') /\ Shape(d, q)
    BY <1>4, <2>2, <2>3, <2>4 DEF Fits, Position, Shape, EnginePCs
  <2>6. Reports(d, q) /\ Counted(d, q, run', effects, attempts)
    BY <1>2, <1>3, <1>4, <2>2, <2>3 DEF Fits, Reports, Counted
  <2>7. Asking(q, run', appr)
    BY <1>2, <1>3, <1>4, <2>2, <2>3 DEF Fits, Asking
  <2>8. Fits(d, q, run', appr, effects, attempts)
    BY <2>5, <2>6, <2>7 DEF Fits
  <2> QED
    BY <1>1, <1>3, <1>4, <1>6, <2>1, <2>2, <2>4, <2>8, BusyWrite
<1>7. CASE Checkpoint(r.state, n, StatusAfter(n)) /\ n \in Stops /\ Return(d, FALSE)
  <2>1. PICK q : q = [r EXCEPT !.pc = "final", !.err = FALSE]
    OBVIOUS
  <2>2. q \in DriverStates /\ q.pc = "final" /\ q.err = FALSE
    BY <2>1, FinishSame, Places
  <2>3. ~Busy(q) /\ Become(d, q)
    BY <1>1, <1>7, <2>1, <2>2 DEF Busy, Return
  <2>4. /\ run'.status = StatusAfter(n) /\ run'.node = n /\ run'.saved = r.state
        /\ run'.stale = FALSE
    BY <1>7, CheckpointFields
  <2>5. ASSUME NEW b \in Approvals, run'.status = "awaiting_approval", appr[b] = "pending"
        PROVE  Handed(b, run', effects, attempts)
    <3>1. n = "approval_gate"
      BY <1>7, <2>4, <2>5 DEF StatusAfter, Stops
    <3>2. r.state.pending = b
      BY <1>2, <1>3, <1>4, <2>5 DEF Fits, Asking
    <3>3. Budget(r.state, effects, attempts)
      BY <1>3, <1>4 DEF Fits, Counted
    <3>4. run'.saved # None
      BY <2>4, DriverFields, NoneAssumption
    <3> QED
      BY <2>4, <3>1, <3>2, <3>3, <3>4 DEF Handed
  <2>6. Waiting(run', appr', effects', attempts') /\ Sent(effects', attempts')
    BY <1>3, <2>5 DEF Waiting, PromptInv
  <2> QED
    BY <1>4, <2>2, <2>3, <2>4, <2>6, BusyStep
<1> QED
  BY <1>1, <1>2, <1>5, <1>6, <1>7 DEF NodeCheckpoint, CtxWrite

\* The Launcher's bookkeeping after the engine.
LEMMA FinalPrompt ==
  ASSUME TypeOK, PromptInv, NEW d \in Drivers, Final(d) \/ Accrue(d) PROVE PromptInv'
<1>1. PICK r \in DriverStates : r = drv[d]
  BY TypedDriver
<1>2. /\ r.pc \in {"final", "accrue"} /\ Alive(d)
      /\ UNCHANGED <<run, appr, effects, attempts>>
  BY <1>1 DEF Final, Accrue, others, Alive
<1>3. PICK p \in PCs : /\ Become(d, [r EXCEPT !.pc = p])
                      /\ p \in {"accrue", IF r.err THEN "check" ELSE "done"}
  BY <1>1, Places DEF Final, Accrue, AfterFinalize
<1>4. PICK q : q = [r EXCEPT !.pc = p]
  OBVIOUS
<1>5. q \in DriverStates /\ q.pc = p /\ q.err = r.err /\ Same(r, q)
  BY <1>4, MoveSame
<1>6. CASE r.err
  <2>1. Busy(drv[d]) /\ Fits(d, r, run, appr, effects, attempts)
    BY <1>1, <1>2, <1>6 DEF Busy, PromptInv
  <2>2. Fits(d, q, run, appr, effects, attempts)
    BY <1>3, <1>5, <1>6, <2>1, AfterError DEF Same
  <2> QED
    BY <1>2, <1>3, <1>4, <1>5, <2>1, <2>2, BusyMove
<1>7. CASE ~r.err
  <2>1. ~Busy(q)
    BY <1>3, <1>5, <1>7 DEF Busy
  <2> QED
    BY <1>2, <1>3, <1>4, <1>5, <2>1, IdleMove
<1> QED
  BY <1>6, <1>7

\* A look at the row that may lead to a write of it.
LEMMA CheckPrompt ==
  ASSUME TypeOK, PromptInv, NEW d \in Drivers,
         ErrorCheck(d) \/ ContainRead(d) \/ Panic(d)
  PROVE  PromptInv'
<1>1. PICK r \in DriverStates : r = drv[d]
  BY TypedDriver
<1>2. UNCHANGED <<run, appr, effects, attempts>>
  BY DEF ErrorCheck, ContainRead, Panic, others
<1>3. r.pc \in {"check", "contain", "enter", "llm", "gate", "call", "save"}
  BY <1>1 DEF ErrorCheck, ContainRead, Panic
<1>4. Busy(drv[d]) /\ Fits(d, r, run, appr, effects, attempts)
  BY <1>1, <1>3, BusyFits DEF BusyPCs, EnginePCs
<1>5. CASE ErrorCheck(d) \/ ContainRead(d)
  <2>1. PICK p \in PCs : /\ Become(d, [r EXCEPT !.pc = p])
                        /\ \/ p = "done"
                           \/ p = "check"
                           \/ r.pc = "check" /\ p = "emark" /\ run.status = NotStarted(d)
                           \/ r.pc = "contain" /\ p = "cmark"
    BY <1>1, <1>5, Places DEF ErrorCheck, ContainRead
  <2>2. PICK q : q = [r EXCEPT !.pc = p]
    OBVIOUS
  <2>3. q \in DriverStates /\ q.pc = p /\ Same(r, q)
    BY <2>2, MoveSame
  <2>4. CASE p = "done"
    BY <1>2, <1>4, <2>1, <2>2, <2>3, <2>4, BusyMove DEF Busy
  <2>5. CASE p = "check"
    BY <1>2, <1>4, <2>1, <2>2, <2>3, <2>5, AfterError, BusyMove DEF Same
  <2>6. CASE /\ r.pc = "check" /\ p = "emark" /\ run.status = NotStarted(d)
    <3>1. Position(d, q, run)
      BY <1>4, <2>3, <2>6 DEF Fits, Position, EnginePCs
    <3>2. Shape(d, q) /\ Reports(d, q) /\ Counted(d, q, run, effects, attempts)
      BY <1>4, <2>3, <2>6 DEF Fits, Shape, Reports, Counted, Same
    <3>3. Asking(q, run, appr)
      BY <1>4, <2>3, <2>6 DEF Fits, Asking
    <3> QED
      BY <1>2, <1>4, <2>1, <2>2, <2>3, <3>1, <3>2, <3>3, BusyMove DEF Fits
  <2>7. CASE r.pc = "contain" /\ p = "cmark"
    <3>1. Position(d, q, run)
      BY <1>4, <2>3, <2>7 DEF Fits, Position, EnginePCs
    <3>2. Shape(d, q) /\ Reports(d, q) /\ Counted(d, q, run, effects, attempts)
      BY <1>4, <2>3, <2>7 DEF Fits, Shape, Reports, Counted, Same
    <3>3. Asking(q, run, appr)
      BY <1>4, <2>3, <2>7 DEF Fits, Asking
    <3> QED
      BY <1>2, <1>4, <2>1, <2>2, <2>3, <3>1, <3>2, <3>3, BusyMove DEF Fits
  <2> QED
    BY <2>1, <2>4, <2>5, <2>6, <2>7
<1>6. CASE Panic(d)
  <2>1. PICK q : q = [r EXCEPT !.pc = "contain", !.err = TRUE]
    OBVIOUS
  <2>2. q \in DriverStates /\ q.pc = "contain" /\ Same(r, q)
    BY <2>1, FinishSame, Places
  <2>3. r.pc \in EnginePCs /\ r.pc # "ckpt"
    BY <1>1, <1>6 DEF Panic, EnginePCs
  <2>4. Position(d, q, run)
    BY <1>4, <2>2, <2>3 DEF Fits, Position, EnginePCs
  <2>5. Shape(d, q) /\ Reports(d, q) /\ Counted(d, q, run, effects, attempts)
    BY <1>4, <2>2 DEF Fits, Shape, Reports, Counted, Same
  <2>6. Asking(q, run, appr)
    BY <1>1, <2>2, <2>3, EnginePlace DEF Asking
  <2> QED
    BY <1>1, <1>2, <1>4, <1>6, <2>1, <2>2, <2>4, <2>5, <2>6, BusyMove DEF Fits, Panic
<1> QED
  BY <1>5, <1>6

\* The write that follows such a look.
LEMMA MarkPrompt ==
  ASSUME TypeOK, PromptInv, NEW d \in Drivers, ErrorMark(d) \/ ContainMark(d)
  PROVE  PromptInv'
<1>1. PICK r \in DriverStates : r = drv[d]
  BY TypedDriver
<1>2. UNCHANGED <<appr, effects, attempts>> /\ r.pc \in {"emark", "cmark"}
  BY <1>1 DEF ErrorMark, ContainMark, others
<1>3. Busy(drv[d]) /\ Fits(d, r, run, appr, effects, attempts)
  BY <1>1, <1>2, BusyFits DEF BusyPCs
<1>4. run' = run \/ (run'.status = "failed" /\ run'.stale = FALSE)
  BY DEF ErrorMark, ContainMark, SureWrite, SetStatus, TypeOK, Rows
<1>5. PICK p \in PCs : /\ Become(d, [r EXCEPT !.pc = p])
                      /\ p \in {"done", "check"}
  BY <1>1, Places DEF ErrorMark, ContainMark
<1>6. PICK q : q = [r EXCEPT !.pc = p]
  OBVIOUS
<1>7. q \in DriverStates /\ q.pc = p /\ Same(r, q)
  BY <1>6, MoveSame
<1>8. Busy(q) => Fits(d, q, run', appr, effects, attempts)
  BY <1>3, <1>4, <1>5, <1>7, AfterError DEF Busy, Same
<1>9. CASE run' = run
  BY <1>2, <1>3, <1>5, <1>6, <1>7, <1>8, <1>9, BusyMove
<1>10. CASE run'.status = "failed" /\ run'.stale = FALSE
  BY <1>2, <1>3, <1>5, <1>6, <1>7, <1>8, <1>10, BusyWrite
<1> QED
  BY <1>4, <1>9, <1>10

\* No driver becomes busy and the rest stays: drivers cancelled or gone.
LEMMA FewerDrivers ==
  ASSUME PromptInv,
         \A e \in Drivers : Busy(drv'[e]) => drv'[e] = drv[e],
         \A e \in Drivers : (drv'[e].pc \notin {"none", "done"}) => Alive(e),
         UNCHANGED <<run, appr, effects, attempts>>
  PROVE  PromptInv'
<1>1. \A e, f \in Drivers : Busy(drv'[e]) /\ Busy(drv'[f]) => e = f
  BY DEF PromptInv
<1>2. \A e \in Drivers : Busy(drv'[e]) => Fits(e, drv'[e], run', appr', effects', attempts')
  BY DEF PromptInv
<1>3. Waiting(run', appr', effects', attempts') /\ Sent(effects', attempts')
  BY DEF PromptInv
<1>4. Deserted'
  BY DEF PromptInv, Deserted, Alive
<1> QED
  BY <1>1, <1>2, <1>3, <1>4, PromptPrimed

\* Steps that leave the row, the drivers, the approvals and what was sent alone.
LEMMA StillPrompt ==
  ASSUME PromptInv, UNCHANGED <<run, drv, appr, effects, attempts>> PROVE PromptInv'
<1>1. \A e \in Drivers : (drv'[e].pc \notin {"none", "done"}) => Alive(e)
  BY DEF Alive
<1> QED
  BY <1>1, FewerDrivers

\* An answer starts the one driver its approval suspended the run for.
LEMMA ResolvePrompt ==
  ASSUME ~EarlyDecisions, TypeOK, PromptInv, NEW a \in Approvals, NEW i \in Insts,
         NEW s \in Decided, Resolve(a, i, s)
  PROVE  PromptInv'
<1>1. /\ appr[a] = "pending" /\ run.status = "awaiting_approval"
      /\ appr' = [appr EXCEPT ![a] = s]
      /\ UNCHANGED <<run, effects, attempts>>
  BY DEF Resolve, MayDecide, ghosts
<1>2. \A b \in Approvals : b # a => appr'[b] = appr[b]
  BY <1>1 DEF TypeOK
<1>3. appr'[a] # "pending"
  BY <1>1 DEF TypeOK, Decided
<1>4. Handed(a, run, effects, attempts)
  BY <1>1 DEF PromptInv, Waiting
<1>5. \A d \in Drivers : ~Busy(drv[d])
  BY <1>1, BusyBlocks
<1>6. \A b \in Approvals : appr'[b] # "pending"
  BY <1>1, <1>2, <1>3, <1>4 DEF PromptInv, Waiting, Handed
<1>7. PICK v \in Verdicts : v = IF s = "approved" THEN "yes" ELSE "no"
  BY DEF Verdicts
<1>8. PICK q \in DriverStates : q = NewDriver(i, v, "build") /\ q.pc = "build"
  BY NewDriverType, Places
<1>9. q.batch = None
  BY <1>8 DEF NewDriver
<1>10. Become(a, q)
  BY <1>7, <1>8 DEF Resolve
<1>11. drv'[a] = q /\ \A e \in Drivers : e # a => drv'[e] = drv[e]
  BY <1>10, BecomeDriver DEF TypeOK, Drivers
<1>12. a # Launch
  BY LaunchAssumption
<1>13. Position(a, q, run) /\ Shape(a, q)
  BY <1>1, <1>8, <1>9, <1>12 DEF Position, Shape, EnginePCs
<1>14. Reports(a, q) /\ Counted(a, q, run, effects, attempts)
  BY <1>4, <1>8, <1>12 DEF Reports, Counted
<1>15. Asking(q, run, appr')
  BY <1>6, <1>8 DEF Asking
<1>16. Fits(a, q, run', appr', effects', attempts')
  BY <1>1, <1>13, <1>14, <1>15 DEF Fits
<1>17. \A e \in Drivers : Busy(drv'[e]) => e = a
  BY <1>5, <1>11
<1>18. Waiting(run', appr', effects', attempts') /\ Sent(effects', attempts')
  BY <1>1, <1>6 DEF Waiting, PromptInv
<1>19. Deserted'
  BY <1>1 DEF PromptInv, Deserted, InFlight
<1> QED
  BY <1>11, <1>16, <1>17, <1>18, <1>19, PromptPrimed

\* A cancel raises a flag no condition looks at.
LEMMA CancelOnPrompt ==
  ASSUME TypeOK, PromptInv, NEW i \in Insts, CancelOn(i),
         UNCHANGED <<run, appr, effects, attempts>>
  PROVE  PromptInv'
<1>1. PICK d \in Drivers : Become(d, [drv[d] EXCEPT !.cancelled = TRUE])
  BY DEF CancelOn, TypeOK
<1>2. PICK r \in DriverStates : r = drv[d]
  BY TypedDriver
<1>3. PICK q : q = [r EXCEPT !.cancelled = TRUE]
  OBVIOUS
<1>4. q \in DriverStates /\ q.pc = r.pc /\ q.err = r.err /\ Same(r, q)
  BY <1>3 DEF DriverStates, Same
<1>5. Become(d, q)
  BY <1>1, <1>2, <1>3
<1>6. Busy(q) <=> Busy(r)
  BY <1>4 DEF Busy
<1>7. CASE Busy(r)
  <2>1. Fits(d, r, run, appr, effects, attempts)
    BY <1>2, <1>7 DEF PromptInv
  <2>2. Position(d, q, run) /\ Shape(d, q)
    BY <1>4, <2>1 DEF Fits, Position, Shape, Same
  <2>3. Reports(d, q) /\ Counted(d, q, run, effects, attempts) /\ Asking(q, run, appr)
    BY <1>4, <2>1 DEF Fits, Reports, Counted, Asking, Same
  <2> QED
    BY <1>2, <1>4, <1>5, <1>7, <2>2, <2>3, BusyMove DEF Fits
<1>8. CASE ~Busy(r)
  <2>1. drv'[d] = q /\ \A e \in Drivers : e # d => drv'[e] = drv[e]
    BY <1>4, <1>5, BecomeDriver DEF TypeOK
  <2>2. \A e \in Drivers : Busy(drv'[e]) => drv'[e] = drv[e]
    BY <1>6, <1>8, <2>1
  <2>3. \A e \in Drivers : (drv'[e].pc \notin {"none", "done"}) => Alive(e)
    BY <1>2, <1>4, <2>1 DEF Alive
  <2> QED
    BY <2>2, <2>3, FewerDrivers
<1> QED
  BY <1>7, <1>8

\* A dead driver writes nothing more.
LEMMA CrashPrompt ==
  ASSUME TypeOK, PromptInv, NEW i \in Insts, Crash(i) PROVE PromptInv'
<1>1. UNCHANGED <<run, appr, effects, attempts>>
  BY DEF Crash, ghosts
<1>2. ASSUME NEW e \in Drivers PROVE drv'[e] = drv[e] \/ (drv'[e].pc = "done" /\ Alive(e))
  <2>1. drv'[e] = drv[e] \/ (drv'[e] = [drv[e] EXCEPT !.pc = "done"] /\ Alive(e))
    BY DEF Crash
  <2>2. [drv[e] EXCEPT !.pc = "done"].pc = "done"
    BY TypedDriver DEF DriverStates
  <2> QED
    BY <2>1, <2>2
<1>3. \A e \in Drivers : Busy(drv'[e]) => drv'[e] = drv[e]
  BY <1>2 DEF Busy
<1>4. \A e \in Drivers : (drv'[e].pc \notin {"none", "done"}) => Alive(e)
  BY <1>2 DEF Alive
<1> QED
  BY <1>1, <1>3, <1>4, FewerDrivers

\* The hour that passes, and the reaper, when no driver is left.
LEMMA TimePrompt ==
  ASSUME TypeOK, PromptInv, Age \/ Reap PROVE PromptInv'
<1>1. UNCHANGED <<drv, appr, effects, attempts>>
  BY DEF Age, Reap, others
<1>2. \A d \in Drivers : ~Alive(d)
  BY DEF Age, Reap, PromptInv, Deserted
<1>3. \A d \in Drivers : ~Busy(drv'[d])
  BY <1>1, <1>2 DEF Alive, Busy
<1>4. run'.status # "awaiting_approval" /\ (run'.stale => run'.status \in InFlight)
  BY DEF Age, Reap, SetStatus, TypeOK, Rows, InFlight
<1>5. Waiting(run', appr', effects', attempts') /\ Sent(effects', attempts')
  BY <1>1, <1>4 DEF Waiting, PromptInv
<1>6. Deserted'
  BY <1>1, <1>2, <1>4 DEF Deserted, Alive
<1> QED
  BY <1>3, <1>5, <1>6, PromptPrimed

LEMMA InitPrompt == Init => PromptInv
<1> SUFFICES ASSUME Init PROVE PromptInv
  OBVIOUS
<1>1. PICK i \in Insts : drv = [d \in Drivers |->
              NewDriver(i, "none", IF d = Launch THEN "build" ELSE "none")]
  BY DEF Init
<1>2. /\ run.status = "pending" /\ run.stale = FALSE /\ effects = {} /\ attempts = 0
      /\ \A a \in Approvals : appr[a] = "none"
  BY DEF Init
<1>3. ASSUME NEW d \in Drivers
      PROVE  /\ drv[d].pc = (IF d = Launch THEN "build" ELSE "none")
             /\ drv[d].state = FreshState /\ drv[d].batch = None
  <2>1. [FreshState EXCEPT !.verdict = "none"] = FreshState
    BY DEF FreshState
  <2> QED
    BY <1>1, <2>1 DEF NewDriver
<1>4. \A d \in Drivers : Busy(drv[d]) => d = Launch
  BY <1>3 DEF Busy
<1>5. Budget(FreshState, effects, attempts)
  BY <1>2, CapAssumption DEF Budget, FreshState
<1>6. ASSUME NEW d \in Drivers, d = Launch
      PROVE  Fits(d, drv[d], run, appr, effects, attempts)
  <2>1. drv[d].pc = "build"
    BY <1>3, <1>6
  <2>2. Position(d, drv[d], run) /\ Shape(d, drv[d])
    BY <1>2, <1>3, <1>6, <2>1 DEF Position, Shape, EnginePCs
  <2>3. Reports(d, drv[d]) /\ Counted(d, drv[d], run, effects, attempts)
    BY <1>3, <1>5, <1>6, <2>1 DEF Reports, Counted, FreshState
  <2>4. Asking(drv[d], run, appr)
    BY <1>2, <2>1 DEF Asking
  <2> QED
    BY <2>2, <2>3, <2>4 DEF Fits
<1>7. Waiting(run, appr, effects, attempts) /\ Deserted
  BY <1>2 DEF Waiting, Deserted
<1>8. Sent(effects, attempts)
  BY <1>2, CapAssumption DEF Sent
<1> QED
  BY <1>4, <1>6, <1>7, <1>8 DEF PromptInv

LEMMA NextPrompt == ~EarlyDecisions /\ TypeOK /\ PromptInv /\ [Next]_vars => PromptInv'
<1> SUFFICES ASSUME ~EarlyDecisions, TypeOK, PromptInv, [Next]_vars PROVE PromptInv'
  OBVIOUS
<1>1. CASE \E d \in Drivers : Step(d) \/ Panic(d)
  <2>1. PICK d \in Drivers : Step(d) \/ Panic(d)
    BY <1>1
  <2> QED
    BY <2>1, BuildPrompt, StartPrompt, LoadPrompt, EndPrompt, NodePrompt, ApprovalGatePrompt,
       LLMTurnPrompt, GatePrompt, CallPrompt, SavePrompt, NodeCheckpointPrompt, FinalPrompt,
       CheckPrompt, MarkPrompt
    DEF Step
<1>2. CASE \E a \in Approvals, i \in Insts : Decide(a, i) \/ ExpireOne(a, i)
  BY <1>2, ResolvePrompt DEF Decide, ExpireOne, Decided
<1>3. CASE \E i \in Insts : CancelHere(i) \/ CancelElsewhere(i) \/ DeliverCancel(i)
  BY <1>3, CancelOnPrompt, StillPrompt
  DEF CancelHere, CancelElsewhere, DeliverCancel, ghosts, others
<1>4. CASE \E i \in Insts : Crash(i)
  BY <1>4, CrashPrompt
<1>5. CASE Age \/ Reap
  BY <1>5, TimePrompt
<1>6. CASE UNCHANGED vars
  BY <1>6, StillPrompt DEF vars
<1> QED
  BY <1>1, <1>2, <1>3, <1>4, <1>5, <1>6 DEF Next

-----------------------------------------------------------------------------
(* What PromptInv says.                                                      *)

LEMMA PromptSafe == ASSUME ~EarlyDecisions PROVE Spec => []PromptInv
<1>1. Init => PromptInv
  BY InitPrompt
<1>2. TypeOK /\ PromptInv /\ [Next]_vars => PromptInv'
  BY NextPrompt
<1> QED
  BY <1>1, <1>2, TypeCorrect, PTL DEF Spec

\* If nobody answers before the run is suspended, at most one goroutine drives
\* it through the graph, whoever resumes, cancels, panics, crashes or sweeps.
THEOREM SingleDriverSafe == ASSUME ~EarlyDecisions PROVE Spec => []SingleDriver
<1>1. PromptInv => SingleDriver
  BY DEF PromptInv, SingleDriver, InEngine, Busy, EnginePCs
<1> QED
  BY <1>1, PromptSafe, PTL

\* Then, too, the calls a grant pays for are those it was shown ...
THEOREM GrantedBatchSafe == ASSUME ~EarlyDecisions PROVE Spec => []ExecutesWhatWasGranted
<1>1. PromptInv => ExecutesWhatWasGranted
  BY DEF PromptInv, Sent, ExecutesWhatWasGranted
<1> QED
  BY <1>1, PromptSafe, PTL

\* ... no two of them carry the same idempotency key ...
THEOREM KeysSafe == ASSUME ~EarlyDecisions PROVE Spec => []KeysAreUnique
<1>1. PromptInv => KeysAreUnique
  BY DEF PromptInv, Sent, KeysAreUnique
<1> QED
  BY <1>1, PromptSafe, PTL

\* ... all calls together, gated or not, stay within max_tool_calls across
\* suspensions, resumptions and crashes ...
THEOREM CapSafe == ASSUME ~EarlyDecisions PROVE Spec => []CapHolds
<1>1. PromptInv => CapHolds
  BY DEF PromptInv, Sent, CapHolds
<1> QED
  BY <1>1, PromptSafe, PTL

\* ... and a driver a refusal or an expiry started only reports.
THEOREM RefusalSafe == ASSUME ~EarlyDecisions PROVE Spec => []RefusalOnlyReports
<1>1. PromptInv => RefusalOnlyReports
  <2> SUFFICES ASSUME PromptInv, NEW a \in Approvals, drv[a].state.verdict = "no",
                      drv[a].pc \in {"llm", "gate", "call", "save"}
               PROVE  FALSE
    BY DEF RefusalOnlyReports
  <2>1. a \in Drivers /\ drv[a].pc \in BusyPCs
    BY DEF Drivers, BusyPCs, EnginePCs
  <2>2. Reports(a, drv[a])
    BY <2>1, BusyFits DEF Fits
  <2> QED
    BY <2>2 DEF Reports
<1> QED
  BY <1>1, PromptSafe, PTL

-----------------------------------------------------------------------------
(* A suspension is answerable, where nothing crashes and no write fails.     *)

\* Whichever way a driver moves to one of these places, it is still busy.
LEMMA StaysBusy ==
  ASSUME TypeOK, NEW d \in Drivers, NEW q \in DriverStates, Become(d, q),
         q.pc \in BusyPCs \/ (q.pc \in {"final", "accrue"} /\ q.err)
  PROVE  Busy(drv'[d])
<1>1. drv'[d] = q
  BY BecomeDriver DEF TypeOK
<1> QED
  BY <1>1 DEF Busy, BusyPCs, EnginePCs

LEMMA MovesBusy ==
  ASSUME TypeOK, NEW d \in Drivers, NEW p \in BusyPCs, Become(d, [drv[d] EXCEPT !.pc = p])
  PROVE  Busy(drv'[d])
<1>1. p \in PCs
  BY Places DEF BusyPCs, PCs
<1> QED
  BY <1>1, TypedDriver, MoveFields, StaysBusy

LEMMA FailsBusy ==
  ASSUME TypeOK, NEW d \in Drivers, NEW p \in {"final", "check", "contain"},
         Become(d, [drv[d] EXCEPT !.pc = p, !.err = TRUE])
  PROVE  Busy(drv'[d])
<1>1. PICK r \in DriverStates : r = drv[d]
  BY TypedDriver
<1>2. PICK q : q = [r EXCEPT !.pc = p, !.err = TRUE]
  OBVIOUS
<1>3. p \in PCs /\ TRUE \in BOOLEAN
  BY Places
<1>4. q \in DriverStates /\ q.pc = p /\ q.err = TRUE
  BY <1>2, <1>3, FinishSame
<1> QED
  BY <1>1, <1>2, <1>4, StaysBusy DEF BusyPCs

LEMMA HandsBusy ==
  ASSUME TypeOK, NEW d \in Drivers, NEW n \in Nodes, Hands(d, n)
  PROVE  Busy(drv'[d])
<1>1. PICK q : q = [drv[d] EXCEPT !.pc = "ckpt", !.next = n]
  OBVIOUS
<1>2. q \in DriverStates /\ q.pc = "ckpt"
  BY <1>1, TypedDriver, HandFields, Places DEF EnginePCs
<1> QED
  BY <1>1, <1>2, StaysBusy DEF Hands, BusyPCs, EnginePCs

LEMMA EntersBusy ==
  ASSUME TypeOK, NEW d \in Drivers, NEW n \in Nodes,
         Become(d, [drv[d] EXCEPT !.pc = "enter", !.node = n])
  PROVE  Busy(drv'[d])
<1>1. PICK r \in DriverStates : r = drv[d]
  BY TypedDriver
<1>2. PICK q : q = [r EXCEPT !.pc = "enter", !.node = n]
  OBVIOUS
<1>3. q \in DriverStates /\ q.pc = "enter"
  BY <1>2, DriverEdits, Places DEF EnginePCs, DriverStates
<1> QED
  BY <1>1, <1>2, <1>3, StaysBusy DEF BusyPCs, EnginePCs

\* Where the steps of the engine and the ones before it leave their driver.
LEMMA EngineStays ==
  ASSUME TypeOK, NEW d \in Drivers,
         \/ Build(d) \/ Start(d) \/ LoopCancelled(d)
         \/ Planner(d) \/ Executor(d) \/ Validator(d) \/ Reporter(d)
         \/ LLMTurn(d) \/ Fail(d) \/ Panic(d) \/ ContainRead(d) \/ ContainMark(d)
  PROVE  Busy(drv'[d])
<1>1. CASE Build(d)
  BY <1>1, MovesBusy, FailsBusy DEF Build, BusyPCs
<1>2. CASE Start(d)
  BY <1>2, EntersBusy, FailsBusy DEF Start, Nodes
<1>3. CASE LoopCancelled(d) \/ Fail(d)
  BY <1>3, FailsBusy DEF LoopCancelled, Fail, Return
<1>4. CASE Planner(d) \/ Validator(d) \/ Reporter(d)
  BY <1>4, HandsBusy DEF Planner, Validator, Reporter, Nodes
<1>5. CASE Executor(d)
  BY <1>5, MovesBusy DEF Executor, BusyPCs, EnginePCs
<1>6. CASE LLMTurn(d)
  <2>1. CASE Become(d, [drv[d] EXCEPT !.pc = "call", !.left = 1, !.batch = None])
    <3>1. PICK q : q = [drv[d] EXCEPT !.pc = "call", !.left = 1, !.batch = None]
      OBVIOUS
    <3>2. q \in DriverStates /\ q.pc = "call"
      BY <3>1, TypedDriver DEF DriverStates, PCs, EnginePCs
    <3> QED
      BY <2>1, <3>1, <3>2, StaysBusy DEF BusyPCs, EnginePCs
  <2> QED
    BY <1>6, <2>1, MovesBusy, HandsBusy DEF LLMTurn, BusyPCs, EnginePCs, Nodes
<1>7. CASE Panic(d)
  BY <1>7, FailsBusy DEF Panic
<1>8. CASE ContainRead(d) \/ ContainMark(d)
  BY <1>8, MovesBusy DEF ContainRead, ContainMark, BusyPCs
<1> QED
  BY <1>1, <1>2, <1>3, <1>4, <1>5, <1>6, <1>7, <1>8

LEMMA CallStays ==
  ASSUME TypeOK, NEW d \in Drivers,
         Load(d) \/ ApprovalGate(d) \/ Gate(d) \/ Call(d) \/ Save(d)
  PROVE  Busy(drv'[d])
<1>1. PICK r \in DriverStates : r = drv[d]
  BY TypedDriver
<1>2. CASE Load(d)
  <2>1. CASE Resumable /\ Become(d, [r EXCEPT !.pc = "enter", !.node = run.node,
                 !.state = [run.saved EXCEPT !.verdict = r.state.verdict]])
    <3>1. run.saved \in RunStates /\ run.node \in Nodes
      BY <2>1 DEF TypeOK, Resumable, Rows
    <3>2. PICK q : q = [r EXCEPT !.pc = "enter", !.node = run.node,
                          !.state = [run.saved EXCEPT !.verdict = r.state.verdict]]
      OBVIOUS
    <3>3. q \in DriverStates /\ q.pc = "enter"
      BY <3>1, <3>2, LoadFields
    <3> QED
      BY <2>1, <3>2, <3>3, StaysBusy DEF BusyPCs, EnginePCs
  <2>2. CASE Become(d, [r EXCEPT !.err = TRUE,
                           !.pc = IF run.saved # None THEN "final" ELSE "check"])
    <3>1. PICK p \in {"final", "check"} : p = IF run.saved # None THEN "final" ELSE "check"
      OBVIOUS
    <3>2. [r EXCEPT !.err = TRUE, !.pc = p] = [r EXCEPT !.pc = p, !.err = TRUE]
      OBVIOUS
    <3> QED
      BY <1>1, <2>2, <3>1, <3>2, FailsBusy
  <2> QED
    BY <1>1, <1>2, <2>1, <2>2 DEF Load
<1>3. CASE ApprovalGate(d)
  <2>1. Become(d, Gated(d)) /\ Gated(d).pc \in {"call", "ckpt"} /\ Gated(d) \in DriverStates
    BY <1>3, ApprovalGateBecomes, GatedShape, GatedType
  <2> QED
    BY <2>1, StaysBusy DEF BusyPCs, EnginePCs
<1>4. CASE Gate(d)
  <2>1. \A a \in Approvals : Become(d, Asked(d, a)) => Busy(drv'[d])
    BY AskedFields, StaysBusy DEF BusyPCs, EnginePCs
  <2> QED
    BY <1>4, <2>1, MovesBusy DEF Gate, Asked, BusyPCs, EnginePCs
<1>5. CASE Call(d)
  BY <1>5, MovesBusy DEF Call, BusyPCs, EnginePCs
<1>6. CASE Save(d)
  <2>1. PICK s \in RunStates : s = CountCall(r.state)
    BY DriverFields, CountCallFields
  <2>2. PICK p \in PCs : /\ p = (IF r.node = "approval_gate" THEN "ckpt" ELSE "llm")
                        /\ p \in BusyPCs
    BY Places DEF EnginePCs, BusyPCs
  <2>3. CASE Become(d, [r EXCEPT !.state = s, !.pc = "fail"])
    <3>1. PICK q : q = [r EXCEPT !.state = s, !.pc = "fail"]
      OBVIOUS
    <3>2. q \in DriverStates /\ q.pc = "fail"
      BY <3>1, DriverStateEdits, Places DEF EnginePCs, DriverStates
    <3> QED
      BY <2>3, <3>1, <3>2, StaysBusy DEF BusyPCs, EnginePCs
  <2>4. CASE Become(d, [r EXCEPT !.state = s, !.left = 0, !.pc = p])
    <3>1. PICK q : q = [r EXCEPT !.state = s, !.left = 0, !.pc = p]
      OBVIOUS
    <3>2. q \in DriverStates
      BY <3>1, DriverStateEdits
    <3>3. q.pc = p
      BY <3>1, <3>2 DEF DriverStates
    <3> QED
      BY <2>2, <2>4, <3>1, <3>2, <3>3, StaysBusy
  <2>5. CASE r.left > 1 /\ Become(d, [r EXCEPT !.state = s, !.pc = "call", !.left = @ - 1])
    <3>1. PICK l \in Nat : l = r.left - 1
      BY <2>5, DriverFields
    <3>2. PICK q : q = [r EXCEPT !.state = s, !.pc = "call", !.left = l]
      OBVIOUS
    <3>3. q \in DriverStates
      BY <3>2, DriverStateEdits, Places DEF EnginePCs
    <3>4. q.pc = "call" /\ Become(d, q)
      BY <2>5, <3>1, <3>2, <3>3 DEF DriverStates
    <3> QED
      BY <3>3, <3>4, StaysBusy DEF BusyPCs, EnginePCs
  <2> QED
    BY <1>1, <1>6, <2>1, <2>2, <2>3, <2>4, <2>5 DEF Save, CtxWrite
<1> QED
  BY <1>2, <1>3, <1>4, <1>5, <1>6

\* Those that may end the driver's work leave the run answerable or over.
LEMMA EndAttends ==
  ASSUME ~DbFaults, TypeOK, PromptInv, NEW d \in Drivers, Busy(drv[d]),
         NodeCheckpoint(d) \/ Final(d) \/ Accrue(d) \/ ErrorCheck(d) \/ ErrorMark(d)
  PROVE  \/ Busy(drv'[d]) \/ run'.status # "awaiting_approval"
         \/ \E a \in Approvals : appr'[a] = "pending"
<1>1. drv[d] \in DriverStates /\ Fits(d, drv[d], run, appr, effects, attempts)
  BY TypedDriver DEF PromptInv
<1>2. CASE NodeCheckpoint(d)
  <2>1. CASE drv[d].next = "approval_gate"
    BY <1>1, <1>2, <2>1 DEF Fits, Asking, NodeCheckpoint, others
  <2>2. CASE drv[d].next = "" /\ Checkpoint(drv[d].state, drv[d].next, StatusAfter(drv[d].next))
    BY <2>2, CheckpointFields DEF StatusAfter
  <2>3. CASE Return(d, TRUE)
    BY <2>3, FailsBusy DEF Return
  <2>4. CASE Become(d, [drv[d] EXCEPT !.pc = "enter", !.node = drv[d].next])
    BY <1>1, <2>4, EntersBusy, DriverFields
  <2> QED
    BY <1>2, <2>1, <2>2, <2>3, <2>4 DEF NodeCheckpoint, CtxWrite, Stops
<1>3. CASE Final(d) \/ Accrue(d)
  <2>1. drv[d].err
    BY <1>3 DEF Final, Accrue, Busy
  <2>2. PICK q : Become(d, q) /\ q.pc \in {"accrue", "check"} /\ q.err
    BY <1>1, <1>3, <2>1 DEF Final, Accrue, AfterFinalize, DriverStates
  <2> QED
    BY <2>2 DEF Become, Busy, TypeOK
<1>4. CASE ErrorCheck(d)
  <2>1. run.status = "awaiting_approval" => NotStarted(d) = "awaiting_approval"
    BY <1>1 DEF Fits, Position, NotStarted
  <2>2. CASE Become(d, [drv[d] EXCEPT !.pc = "emark"])
    BY <1>1, <2>2 DEF Become, Busy, DriverStates, TypeOK
  <2> QED
    BY <1>4, <2>1, <2>2 DEF ErrorCheck
<1>5. CASE ErrorMark(d)
  BY <1>5 DEF ErrorMark, SureWrite, SetStatus, TypeOK, Rows
<1> QED
  BY <1>2, <1>3, <1>4, <1>5

\* The approvals and the row of a step that only moves a driver that is not
\* busy.
LEMMA IdleKeeps ==
  ASSUME TypeOK, NEW d \in Drivers, ~Busy(drv[d]), Step(d) \/ Panic(d)
  PROVE  /\ UNCHANGED <<run, appr>>
         /\ \A e \in Drivers : e # d => drv'[e] = drv[e]
<1>1. drv[d].pc \in {"none", "done", "final", "accrue"}
  BY DEF Busy
<1>2. Final(d) \/ Accrue(d)
  BY <1>1 DEF Step, Build, Start, Load, LoopCancelled, Planner, Executor, ApprovalGate, Validator,
     Reporter, AtNode, LLMTurn, Gate, Call, Save, Fail, NodeCheckpoint, ErrorCheck, ErrorMark,
     ContainRead, ContainMark, Panic
<1> QED
  BY <1>2 DEF Final, Accrue, Become, others, TypeOK

LEMMA InitAttends == Init => Attended
<1> SUFFICES ASSUME Init PROVE Attended
  OBVIOUS
<1>1. run.status = "pending"
  BY DEF Init
<1> QED
  BY <1>1 DEF Attended

LEMMA StepAttends ==
  ASSUME ~DbFaults, TypeOK, PromptInv, Attended, NEW d \in Drivers, Step(d) \/ Panic(d)
  PROVE  Attended'
<1>1. CASE Busy(drv[d])
  <2>1. \/ Busy(drv'[d]) \/ run'.status # "awaiting_approval"
        \/ \E a \in Approvals : appr'[a] = "pending"
    BY <1>1, EngineStays, CallStays, EndAttends DEF Step
  <2> QED
    BY <2>1 DEF Attended, Busy
<1>2. CASE ~Busy(drv[d])
  <2>1. UNCHANGED <<run, appr>> /\ \A e \in Drivers : e # d => drv'[e] = drv[e]
    BY <1>2, IdleKeeps
  <2>2. \A e \in Drivers : Busy(drv[e]) => Busy(drv'[e])
    BY <1>2, <2>1
  <2> QED
    BY <2>1, <2>2 DEF Attended, Busy
<1> QED
  BY <1>1, <1>2

LEMMA NextAttends ==
  ASSUME ~EarlyDecisions, ~DbFaults, MaxCrashes = 0,
         TypeOK, PromptInv, Attended, [Next]_vars
  PROVE  Attended'
<1>1. CASE \E d \in Drivers : Step(d) \/ Panic(d)
  BY <1>1, StepAttends
<1>2. CASE \E a \in Approvals, i \in Insts : Decide(a, i) \/ ExpireOne(a, i)
  <2>1. PICK a \in Approvals, i \in Insts, s \in Decided : Resolve(a, i, s)
    BY <1>2 DEF Decide, ExpireOne, Decided
  <2>2. PICK q : Become(a, q) /\ q.pc = "build"
    BY <2>1 DEF Resolve, NewDriver
  <2> QED
    BY <2>2 DEF Attended, Busy, Become, TypeOK, Drivers
<1>3. CASE \E i \in Insts : CancelHere(i) \/ CancelElsewhere(i) \/ DeliverCancel(i)
  <2>1. UNCHANGED <<run, appr>>
    BY <1>3 DEF CancelHere, CancelElsewhere, DeliverCancel, others
  <2>2. \A e \in Drivers : drv'[e].pc = drv[e].pc /\ drv'[e].err = drv[e].err
    <3>1. ASSUME NEW i \in Insts, CancelOn(i), NEW e \in Drivers
          PROVE  drv'[e].pc = drv[e].pc /\ drv'[e].err = drv[e].err
      BY <3>1 DEF CancelOn, Become, TypeOK, DriverStates
    <3> QED
      BY <1>3, <3>1 DEF CancelHere, CancelElsewhere, DeliverCancel
  <2> QED
    BY <2>1, <2>2 DEF Attended, Busy
<1>4. CASE \E i \in Insts : Crash(i)
  BY <1>4 DEF Crash, TypeOK
<1>5. CASE Age \/ Reap
  <2>1. Age => run'.status = run.status /\ run.status \in InFlight
    BY DEF Age, TypeOK, Rows
  <2>2. Reap => run'.status = "failed"
    BY DEF Reap, SetStatus, TypeOK, Rows
  <2>3. run'.status # "awaiting_approval"
    BY <1>5, <2>1, <2>2 DEF InFlight
  <2> QED
    BY <2>3 DEF Attended
<1>6. CASE UNCHANGED vars
  BY <1>6 DEF vars, Attended, Busy
<1> QED
  BY <1>1, <1>2, <1>3, <1>4, <1>5, <1>6 DEF Next

\* No lost wake-up: without crashes and failed writes a suspended run nobody
\* works on waits for the approval its checkpoint names, and that is still open.
THEOREM SuspensionSafe ==
  ASSUME ~EarlyDecisions, ~DbFaults, MaxCrashes = 0
  PROVE  Spec => []SuspensionIsAnswerable
<1>1. Init => Attended
  BY InitAttends
<1>2. TypeOK /\ PromptInv /\ Attended /\ [Next]_vars => Attended'
  BY NextAttends
<1>3. PromptInv /\ Attended => SuspensionIsAnswerable
  <2> SUFFICES ASSUME PromptInv, Attended, run.status = "awaiting_approval",
                      \A d \in Drivers : ~Alive(d)
               PROVE  run.saved # None /\ \E a \in Approvals : a = run.saved.pending /\ appr[a] = "pending"
    BY DEF SuspensionIsAnswerable
  <2>1. PICK a \in Approvals : appr[a] = "pending"
    BY DEF Attended, Busy, Alive
  <2>2. Handed(a, run, effects, attempts)
    BY <2>1 DEF PromptInv, Waiting
  <2> QED
    BY <2>1, <2>2 DEF Handed
<1> QED
  BY <1>1, <1>2, <1>3, TypeCorrect, PromptSafe, PTL DEF Spec

-----------------------------------------------------------------------------
(* RunLifecycle implements RunContract, step by step.                        *)

\* A step of the contract, or one it does not see.
ContractStep == [Contract!Next]_(Contract!contractVars)

\* The steps that move the status only.
LEMMA ContractStatus ==
  ASSUME UNCHANGED <<appr, spent>>,
         \/ run'.status = run.status
         \/ run.status = "pending" /\ run'.status = "running"
         \/ /\ run.status = "running" /\ run'.status = "awaiting_approval"
            /\ \E a \in Approvals : appr[a] = "pending"
         \/ /\ run.status = "awaiting_approval" /\ run'.status = "running"
            /\ \A a \in Approvals : appr[a] # "pending"
         \/ run.status = "running" /\ run'.status \in Terminal
         \/ /\ run.status = "awaiting_approval" /\ run'.status \in {"failed", "cancelled"}
            /\ \A a \in Approvals : appr[a] # "pending"
         \/ run.status = "pending" /\ run'.status \in {"failed", "cancelled"}
  PROVE  ContractStep
<1>1. CASE run'.status = run.status
  BY <1>1 DEF ContractStep, Contract!contractVars
<1>2. CASE run.status = "pending" /\ run'.status = "running"
  BY <1>2 DEF ContractStep, Contract!Next, Contract!Begin
<1>3. CASE /\ run.status = "running" /\ run'.status = "awaiting_approval"
           /\ \E a \in Approvals : appr[a] = "pending"
  BY <1>3 DEF ContractStep, Contract!Next, Contract!Suspend
<1>4. CASE /\ run.status = "awaiting_approval" /\ run'.status = "running"
           /\ \A a \in Approvals : appr[a] # "pending"
  BY <1>4 DEF ContractStep, Contract!Next, Contract!Continue
<1>5. CASE \/ run.status = "running" /\ run'.status \in Terminal
           \/ /\ run.status = "awaiting_approval" /\ run'.status \in {"failed", "cancelled"}
              /\ \A a \in Approvals : appr[a] # "pending"
           \/ run.status = "pending" /\ run'.status \in {"failed", "cancelled"}
  BY <1>5 DEF ContractStep, Contract!Next, Contract!End, Contract!Over, Terminal
<1> QED
  BY <1>1, <1>2, <1>3, <1>4, <1>5

\* Most steps show nothing.
LEMMA HiddenContract ==
  ASSUME NEW d \in Drivers,
         \/ Build(d) \/ Load(d) \/ Planner(d) \/ Executor(d) \/ ApprovalGate(d)
         \/ Validator(d) \/ Reporter(d) \/ LLMTurn(d) \/ Final(d) \/ Accrue(d)
         \/ ErrorCheck(d) \/ Panic(d) \/ ContainRead(d)
  PROVE  ContractStep
<1>1. UNCHANGED <<run, appr, spent>>
  BY DEF Build, Load, Planner, Executor, ApprovalGate, Validator, Reporter, LLMTurn, Final,
     Accrue, ErrorCheck, Panic, ContainRead, others
<1> QED
  BY <1>1, ContractStatus

LEMMA StartContract ==
  ASSUME TypeOK, PromptInv, NEW d \in Drivers, Start(d) PROVE ContractStep
<1>1. run.status = "pending"
  BY BusyFits DEF Start, BusyPCs, Fits, Position
<1>2. UNCHANGED <<appr, spent>> /\ (run'.status = "running" \/ run' = run)
  BY DEF Start, others, SetStatus, TypeOK, Rows
<1> QED
  BY <1>1, <1>2, ContractStatus

\* A driver in the engine, or unwinding from it: the run is running, or it was
\* suspended and has been answered.
LEMMA AtWork ==
  ASSUME PromptInv, NEW d \in Drivers, drv[d].pc \in EnginePCs \cup {"cmark"}
  PROVE  /\ Busy(drv[d]) /\ Fits(d, drv[d], run, appr, effects, attempts)
         /\ \/ run.status = "running"
            \/ run.status = "awaiting_approval" /\ \A a \in Approvals : appr[a] # "pending"
<1>1. Busy(drv[d]) /\ Fits(d, drv[d], run, appr, effects, attempts)
  BY BusyFits DEF BusyPCs
<1>2. run.status \in {"running", "awaiting_approval"}
  BY <1>1 DEF Fits, Position
<1> QED
  BY <1>1, <1>2, BusyBlocks

\* The steps that close the row.
LEMMA CloseContract ==
  ASSUME TypeOK, PromptInv, NEW d \in Drivers,
         LoopCancelled(d) \/ Fail(d) \/ ErrorMark(d) \/ ContainMark(d)
  PROVE  ContractStep
<1>1. UNCHANGED <<appr, spent>> /\ (run'.status \in {"failed", "cancelled"} \/ run' = run)
  <2>1. CASE LoopCancelled(d) \/ Fail(d)
    <3>1. PICK st \in {"failed", "cancelled"} :
            run' = run \/ Checkpoint(drv[d].state, drv[d].node, st)
      BY <2>1 DEF LoopCancelled, Fail, SureWrite
    <3> QED
      BY <2>1, <3>1, CheckpointFields DEF LoopCancelled, Fail, others
  <2>2. CASE ErrorMark(d) \/ ContainMark(d)
    BY <2>2 DEF ErrorMark, ContainMark, SureWrite, SetStatus, others, TypeOK, Rows
  <2> QED
    BY <2>1, <2>2
<1>2. CASE LoopCancelled(d) \/ Fail(d) \/ ContainMark(d)
  <2>1. drv[d].pc \in EnginePCs \cup {"cmark"}
    BY <1>2 DEF LoopCancelled, Fail, ContainMark, EnginePCs
  <2> QED
    BY <1>1, <2>1, AtWork, ContractStatus DEF Terminal
<1>3. CASE ErrorMark(d)
  <2>1. /\ Busy(drv[d])
        /\ run.status = "pending" \/ run.status = "awaiting_approval"
    BY <1>3, BusyFits DEF ErrorMark, BusyPCs, Fits, Position, NotStarted
  <2>2. run.status = "awaiting_approval" => \A a \in Approvals : appr[a] # "pending"
    BY <2>1, BusyBlocks
  <2> QED
    BY <1>1, <2>1, <2>2, ContractStatus
<1> QED
  BY <1>2, <1>3

\* Asking: the run is running and nothing else is open.
LEMMA GateContract ==
  ASSUME TypeOK, PromptInv, NEW d \in Drivers, Gate(d) PROVE ContractStep
<1>1. drv[d].pc = "gate" /\ UNCHANGED <<run, spent>>
  BY DEF Gate, ghosts
<1>2. run.status = "running" /\ \A b \in Approvals : appr[b] # "pending"
  BY <1>1, EnginePlace DEF EnginePCs, Fits, Shape
<1>3. CASE UNCHANGED appr
  BY <1>1, <1>3, ContractStatus
<1>4. CASE \E a \in Approvals : appr[a] = "none" /\ appr' = [appr EXCEPT ![a] = "pending"]
  <2>1. PICK a \in Approvals : appr[a] = "none" /\ appr' = [appr EXCEPT ![a] = "pending"]
    BY <1>4
  <2>2. Contract!Ask(a)
    BY <1>1, <1>2, <2>1 DEF Contract!Ask
  <2> QED
    BY <2>2 DEF ContractStep, Contract!Next
<1> QED
  BY <1>3, <1>4 DEF Gate

\* Sending: under the driver's own grant, and within the batch.
LEMMA CallContract ==
  ASSUME TypeOK, PromptInv, GrantInv, NEW d \in Drivers, Call(d) PROVE ContractStep
<1>1. drv[d].pc = "call" /\ UNCHANGED <<run, appr>>
  BY DEF Call
<1>2. CASE UNCHANGED spent
  BY <1>1, <1>2, ContractStatus
<1>3. CASE drv[d].batch # None /\ spent' = [spent EXCEPT ![d] = @ + 1]
  <2>1. d \in Approvals /\ appr[d] = "approved"
    BY <1>3 DEF GrantInv, Entitled
  <2>2. spent[d] < BatchLen
    <3>1. spent[d] \in Nat /\ drv[d].left \in Nat
      BY <2>1, TypedDriver, DriverFields DEF TypeOK
    <3>2. drv[d].left >= 1 /\ spent[d] + drv[d].left = BatchLen
      BY <1>1, <1>3, <2>1 DEF GrantInv, Paid
    <3> QED
      BY <3>1, <3>2, BatchAssumption
  <2>3. run.status \notin Contract!Over
    BY <1>1, AtWork DEF EnginePCs, Contract!Over
  <2>4. Contract!Send(d)
    BY <1>1, <1>3, <2>1, <2>2, <2>3 DEF Contract!Send
  <2> QED
    BY <2>1, <2>4 DEF ContractStep, Contract!Next
<1> QED
  BY <1>2, <1>3 DEF Call

\* A checkpoint: a suspended run has been answered, a completed one was running.
LEMMA SaveContract ==
  ASSUME TypeOK, PromptInv, NEW d \in Drivers, Save(d) PROVE ContractStep
<1>1. UNCHANGED <<appr, spent>> /\ (run'.status = "running" \/ run' = run)
  BY DEF Save, CtxWrite, Checkpoint, others
<1>2. drv[d].pc \in EnginePCs
  BY DEF Save, EnginePCs
<1> QED
  BY <1>1, <1>2, AtWork, ContractStatus

LEMMA NodeCheckpointContract ==
  ASSUME TypeOK, PromptInv, NEW d \in Drivers, NodeCheckpoint(d) PROVE ContractStep
<1>1. drv[d].pc = "ckpt" /\ UNCHANGED <<appr, spent>>
  BY DEF NodeCheckpoint, others
<1>2. run' = run \/ run'.status = StatusAfter(drv[d].next)
  BY CheckpointFields DEF NodeCheckpoint, CtxWrite
<1>3. /\ Fits(d, drv[d], run, appr, effects, attempts)
      /\ \/ run.status = "running"
         \/ run.status = "awaiting_approval" /\ \A a \in Approvals : appr[a] # "pending"
  BY <1>1, AtWork DEF EnginePCs
<1>4. drv[d].next \in {"", "approval_gate"} => run.status = "running"
  <2>1. drv[d].next \in {"", "approval_gate"} => drv[d].node # "approval_gate"
    BY <1>1, <1>3 DEF Fits, Shape
  <2> QED
    BY <1>1, <2>1, EnginePlace DEF EnginePCs
<1>5. CASE drv[d].next = "approval_gate"
  <2>1. \E a \in Approvals : appr[a] = "pending"
    BY <1>1, <1>3, <1>5 DEF Fits, Asking
  <2> QED
    BY <1>1, <1>2, <1>4, <1>5, <2>1, ContractStatus DEF StatusAfter
<1>6. CASE drv[d].next = ""
  BY <1>1, <1>2, <1>4, <1>6, ContractStatus DEF StatusAfter, Terminal
<1>7. CASE drv[d].next \notin {"", "approval_gate"}
  BY <1>1, <1>2, <1>3, <1>7, ContractStatus DEF StatusAfter
<1> QED
  BY <1>5, <1>6, <1>7

LEMMA ResolveContract ==
  ASSUME ~EarlyDecisions, NEW a \in Approvals, NEW i \in Insts, NEW s \in Decided,
         Resolve(a, i, s)
  PROVE  ContractStep
<1>1. Contract!Answer(a)
  BY DEF Resolve, MayDecide, ghosts, Decided, Contract!Answer
<1> QED
  BY <1>1 DEF ContractStep, Contract!Next

LEMMA NextContract ==
  ~EarlyDecisions /\ TypeOK /\ GrantInv /\ PromptInv /\ [Next]_vars => ContractStep
<1> SUFFICES ASSUME ~EarlyDecisions, TypeOK, GrantInv, PromptInv, [Next]_vars
             PROVE  ContractStep
  OBVIOUS
<1>1. CASE \E d \in Drivers : Step(d) \/ Panic(d)
  <2>1. PICK d \in Drivers : Step(d) \/ Panic(d)
    BY <1>1
  <2> QED
    BY <2>1, HiddenContract, StartContract, CloseContract, GateContract, CallContract,
       SaveContract, NodeCheckpointContract
    DEF Step
<1>2. CASE \E a \in Approvals, i \in Insts : Decide(a, i) \/ ExpireOne(a, i)
  BY <1>2, ResolveContract DEF Decide, ExpireOne, Decided
<1>3. CASE \E i \in Insts : CancelHere(i) \/ CancelElsewhere(i) \/ DeliverCancel(i) \/ Crash(i)
  <2>1. UNCHANGED <<run, appr, spent>>
    BY <1>3 DEF CancelHere, CancelElsewhere, DeliverCancel, Crash, others, ghosts
  <2> QED
    BY <2>1, ContractStatus
<1>4. CASE Age
  <2>1. UNCHANGED <<appr, spent>> /\ run'.status = run.status
    BY <1>4 DEF Age, others, TypeOK, Rows
  <2> QED
    BY <2>1, ContractStatus
<1>5. CASE Reap
  <2>1. /\ UNCHANGED <<appr, spent>> /\ run'.status = "failed"
        /\ run.status \in {"pending", "running"}
    BY <1>5 DEF Reap, SetStatus, others, TypeOK, Rows, InFlight
  <2> QED
    BY <2>1, ContractStatus DEF Terminal
<1>6. CASE UNCHANGED vars
  BY <1>6, ContractStatus DEF vars
<1> QED
  BY <1>1, <1>2, <1>3, <1>4, <1>5, <1>6 DEF Next

\* RunLifecycle implements RunContract: what the run list, the stream and the
\* approvals inbox show is a behaviour of the contract, whatever goroutines,
\* checkpoints, panics, cancels, crashes and sweeps bring it about.
THEOREM Refinement == ASSUME ~EarlyDecisions PROVE Spec => ImplementsContract
<1>1. Init => Contract!Init
  <2> SUFFICES ASSUME Init PROVE Contract!Init
    OBVIOUS
  <2>1. run.status = "pending"
    BY DEF Init
  <2> QED
    BY <2>1 DEF Init, Contract!Init
<1>2. TypeOK /\ GrantInv /\ PromptInv /\ [Next]_vars => [Contract!Next]_(Contract!contractVars)
  BY NextContract DEF ContractStep
<1> QED
  BY <1>1, <1>2, TypeCorrect, GrantInvariant, PromptSafe, PTL
  DEF Spec, ImplementsContract, Contract!Spec

\* A run that is over stays as it is: no late checkpoint, resume, reaper or
\* error path resurrects or relabels it.
THEOREM TerminalSafe == ASSUME ~EarlyDecisions PROVE Spec => TerminalIsFinal
<1>1. ContractStep => (run.status \in Terminal => run'.status = run.status)
  <2> SUFFICES ASSUME ContractStep, run.status \in Terminal PROVE run'.status = run.status
    OBVIOUS
  <2>1. CASE Contract!Next
    BY <2>1 DEF Terminal, Contract!Next, Contract!Begin, Contract!Suspend, Contract!Continue,
       Contract!End, Contract!Over, Contract!Ask, Contract!Answer, Contract!Send
  <2>2. CASE UNCHANGED Contract!contractVars
    BY <2>2 DEF Contract!contractVars
  <2> QED
    BY <2>1, <2>2 DEF ContractStep
<1>2. TypeOK /\ GrantInv /\ PromptInv /\ [Next]_vars => (run.status \in Terminal => run'.status = run.status)
  BY <1>1, NextContract
<1> QED
  BY <1>2, TypeCorrect, GrantInvariant, PromptSafe, PTL DEF Spec, TerminalIsFinal
=============================================================================
