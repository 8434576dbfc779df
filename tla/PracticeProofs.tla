---------------------------- MODULE PracticeProofs ----------------------------
(***************************************************************************)
(* Proofs about Practice: the plan's limit on client workspaces, the plan  *)
(* they run on and the restore window, for any number of workspaces,       *)
(* subscriptions, requests, plans and operations.                          *)
(***************************************************************************)
EXTENDS Practice, FiniteSetTheorems, TLAPS

WsStatuses == {"none", "active", "removed", "expired", "purged"}
WsRows == [status : WsStatuses, tier : Tiers, whole : BOOLEAN]
OrgRows == [sub : Subscriptions \cup {Nothing}, live : BOOLEAN, tier : Tiers]

\* A subscription at Stripe, as far as these proofs look at it.
StripeRow(r) == DOMAIN r = {"status", "tier", "items"} /\ r.tier \in Tiers

\* What a request's place says.
Place(r) ==
  /\ r.pc = "apply" => r.state \in OrgRows
  /\ r.pc = "change" => r.sub \in Subscriptions \cup {Nothing} /\ r.tier \in Tiers
  /\ r.pc = "capacity" => r.ws \in Workspaces /\ r.next \in {"insert", "restore"}
  /\ r.pc \in {"insert", "restore"} => r.ws \in Workspaces /\ r.tier \in Tiers

Shape ==
  /\ stripe = [s \in Subscriptions |-> stripe[s]] /\ \A s \in Subscriptions : StripeRow(stripe[s])
  /\ org \in OrgRows
  /\ ws \in [Workspaces -> WsRows]
  /\ proc = [p \in Workers |-> proc[p]] /\ \A p \in Workers : Place(proc[p])

LEMMA ShapeInit == Init => Shape
<1> SUFFICES ASSUME Init PROVE Shape
  OBVIOUS
<1>1. PICK tier \in Tiers, established \in BOOLEAN :
        /\ stripe = [r \in Subscriptions |->
             IF established /\ r = s0 THEN [status |-> "live", tier |-> tier, items |-> <<>>]
             ELSE [status |-> "none", tier |-> DefaultPlan, items |-> <<>>]]
        /\ org = IF established THEN [sub |-> s0, live |-> TRUE, tier |-> tier]
                 ELSE [sub |-> Nothing, live |-> FALSE, tier |-> DefaultPlan]
        /\ ws = [x \in Workspaces |-> [status |-> IF established /\ x = w0 THEN "active" ELSE "none",
                                       tier |-> org.tier, whole |-> TRUE]]
        /\ proc = [p \in Workers |-> Idle]
  BY DEF Init
<1>2. s0 \in Subscriptions
  BY SetsAssumption DEF s0
<1>3. org \in OrgRows
  BY <1>1, <1>2, PlansAssumption DEF OrgRows
<1>4. ws \in [Workspaces -> WsRows]
  BY <1>1, <1>3, PlansAssumption DEF WsRows, WsStatuses, OrgRows
<1>5. stripe = [s \in Subscriptions |-> stripe[s]] /\ \A s \in Subscriptions : StripeRow(stripe[s])
  BY <1>1, PlansAssumption DEF StripeRow
<1>6. proc = [p \in Workers |-> proc[p]] /\ \A p \in Workers : Place(proc[p])
  BY <1>1 DEF Place, Idle
<1> QED
  BY <1>3, <1>4, <1>5, <1>6 DEF Shape

-----------------------------------------------------------------------------
(* The inductive invariant.  The limit is checked in one step and the row  *)
(* written in a later one; between them the checker holds the practice's   *)
(* lock, the plan is the one it saw, and the number of workspaces does not *)
(* grow past it.                                                           *)

Entering == {"insert", "restore"}
LockInv ==
  \A p \in Procs : proc[p].pc \in Entering =>
    /\ lock = p /\ Cardinality(Active) < MaxClients[org.tier]
    /\ proc[p].tier = org.tier

\* A workspace that is being created has no row yet, and one creator.
Creating(r) == r.pc = "insert" \/ (r.pc = "capacity" /\ r.next = "insert")
CreateInv ==
  \A p \in Procs : Creating(proc[p]) =>
    /\ ws[proc[p].ws].status = "none"
    /\ \A q \in Procs \ {p} : Creating(proc[q]) => proc[q].ws # proc[p].ws

\* Only what is past its window is at the purge, and only that loses anything.
PurgeInv ==
  /\ \A w \in Workspaces : ws[w].status \notin {"expired", "purged"} => ws[w].whole
  /\ purging # Nothing => purging \in Workspaces /\ ws[purging].status \in {"expired", "purged"}

PracticeInv == Shape /\ LockInv /\ CreateInv /\ PurgeInv

LEMMA InvInit == Init => PracticeInv
<1> SUFFICES ASSUME Init PROVE PracticeInv
  OBVIOUS
<1>1. \A p \in Procs : proc[p] = Idle
  BY DEF Init, Workers
<1>2. \A w \in Workspaces : ws[w].whole
  BY DEF Init
<1>3. LockInv
  BY <1>1 DEF LockInv, Entering, Idle
<1>4. CreateInv
  BY <1>1 DEF CreateInv, Creating, Idle
<1>5. PurgeInv
  BY <1>2 DEF PurgeInv, Init
<1> QED
  BY <1>3, <1>4, <1>5, ShapeInit DEF PracticeInv

LEMMA ActiveIsFinite ==
  /\ Cardinality(Active) \in Nat
  /\ \A S \in SUBSET Active : Cardinality(S) \in Nat /\ Cardinality(S) <= Cardinality(Active)
  /\ \A w, S : S \subseteq Active \cup {w} =>
       Cardinality(S) \in Nat /\ Cardinality(S) <= Cardinality(Active) + 1
<1>1. IsFiniteSet(Active)
  BY SetsAssumption, FS_Subset DEF Active
<1>2. Cardinality(Active) \in Nat
  BY <1>1, FS_CardinalityType
<1>3. \A S \in SUBSET Active : Cardinality(S) \in Nat /\ Cardinality(S) <= Cardinality(Active)
  BY <1>1, FS_Subset, FS_CardinalityType
<1>4. ASSUME NEW w, NEW S, S \subseteq Active \cup {w}
      PROVE  Cardinality(S) \in Nat /\ Cardinality(S) <= Cardinality(Active) + 1
  <2>1. /\ IsFiniteSet(Active \cup {w}) /\ Cardinality(Active \cup {w}) \in Nat
        /\ Cardinality(Active \cup {w}) <= Cardinality(Active) + 1
    BY <1>1, <1>2, FS_AddElement, FS_CardinalityType
  <2>2. Cardinality(S) \in Nat /\ Cardinality(S) <= Cardinality(Active \cup {w})
    BY <1>4, <2>1, FS_Subset, FS_CardinalityType
  <2> QED
    BY <1>2, <2>1, <2>2
<1> QED
  BY <1>2, <1>3, <1>4

LEMMA LimitType == Shape => MaxClients[org.tier] \in Nat
BY PlansAssumption DEF Shape, OrgRows

LEMMA BecomeStep ==
  ASSUME Shape, NEW p \in Workers, NEW st, Place(st), Become(p, st)
  PROVE  /\ proc' = [q \in Workers |-> proc'[q]] /\ \A q \in Workers : Place(proc'[q])
         /\ proc'[p] = st /\ \A q \in Workers : q # p => proc'[q] = proc[q]
BY DEF Shape, Become

StripeShape == stripe = [s \in Subscriptions |-> stripe[s]] /\ \A s \in Subscriptions : StripeRow(stripe[s])

\* A worker goes where it neither creates nor restores, and no workspace is
\* added: most steps.
LEMMA OrdinaryStep ==
  ASSUME PracticeInv, NEW p \in Workers, NEW st, Place(st),
         st.pc \notin {"capacity", "insert", "restore"}, Become(p, st),
         lock' = lock \/ Release(p), UNCHANGED org, StripeShape',
         ws' \in [Workspaces -> WsRows], Active' \subseteq Active, PurgeInv',
         \A w \in Workspaces : ws[w].status = "none" => ws'[w].status = "none"
  PROVE  PracticeInv'
<1>1. /\ proc' = [q \in Workers |-> proc'[q]] /\ \A q \in Workers : Place(proc'[q])
      /\ proc'[p] = st /\ \A q \in Workers : q # p => proc'[q] = proc[q]
  BY BecomeStep DEF PracticeInv
<1>2. Shape'
  BY <1>1 DEF PracticeInv, Shape, StripeShape
<1>3. \A q \in Procs : proc'[q].pc \in Entering => q # p /\ proc'[q] = proc[q]
  BY <1>1 DEF Entering, Workers
<1>4. \A q \in Procs : q # p /\ lock = q => lock' = q
  BY DEF Release
<1>5. Cardinality(Active') <= Cardinality(Active) /\ Cardinality(Active') \in Nat /\ Cardinality(Active) \in Nat
  BY ActiveIsFinite
<1>6. MaxClients[org.tier] \in Nat
  BY LimitType DEF PracticeInv
<1>7. LockInv'
  BY <1>3, <1>4, <1>5, <1>6 DEF PracticeInv, LockInv
<1>8. \A q \in Procs : Creating(proc'[q]) => q # p /\ proc'[q] = proc[q] /\ proc[q].ws \in Workspaces
  BY <1>1 DEF Creating, Workers, PracticeInv, Shape, Place
<1>9. CreateInv'
  BY <1>8 DEF PracticeInv, CreateInv
<1> QED
  BY <1>2, <1>7, <1>9 DEF PracticeInv

\* The same for a step in which no worker moves.
LEMMA StandingStep ==
  ASSUME PracticeInv, UNCHANGED <<proc, lock, org>>, StripeShape',
         ws' \in [Workspaces -> WsRows], Active' \subseteq Active, PurgeInv',
         \A w \in Workspaces : ws[w].status = "none" => ws'[w].status = "none"
  PROVE  PracticeInv'
<1>1. Shape'
  BY DEF PracticeInv, Shape, StripeShape
<1>2. Cardinality(Active') <= Cardinality(Active) /\ Cardinality(Active') \in Nat /\ Cardinality(Active) \in Nat
  BY ActiveIsFinite
<1>3. MaxClients[org.tier] \in Nat
  BY LimitType DEF PracticeInv
<1>4. LockInv'
  BY <1>2, <1>3 DEF PracticeInv, LockInv
<1>5. CreateInv'
  BY DEF PracticeInv, CreateInv, Creating, Shape, Place, Workers
<1> QED
  BY <1>1, <1>4, <1>5 DEF PracticeInv

\* No workspace changes in a step of the sync or of the billing.
LEMMA NoWorkspaceStep ==
  ASSUME PracticeInv, UNCHANGED <<ws, purging>>
  PROVE  /\ ws' \in [Workspaces -> WsRows] /\ Active' \subseteq Active /\ PurgeInv'
         /\ \A w \in Workspaces : ws[w].status = "none" => ws'[w].status = "none"
BY DEF PracticeInv, Shape, Active, PurgeInv

LEMMA StripeStands == ASSUME PracticeInv, UNCHANGED stripe PROVE StripeShape'
BY DEF PracticeInv, Shape, StripeShape

LEMMA StripeRowChanges ==
  ASSUME PracticeInv, NEW s,
         \/ \E status : stripe' = [stripe EXCEPT ![s].status = status]
         \/ \E tier \in Tiers : stripe' = [stripe EXCEPT ![s].tier = tier]
         \/ \E items : stripe' = [stripe EXCEPT ![s].items = items]
  PROVE  StripeShape'
BY DEF PracticeInv, Shape, StripeShape, StripeRow

-----------------------------------------------------------------------------
(* The steps of the sync and of the billing.                               *)

\* The worker moves on, and at most Stripe changes.
LEMMA SyncStep ==
  ASSUME PracticeInv, NEW p \in Workers, NEW st, Place(st),
         st.pc \notin {"capacity", "insert", "restore"}, Become(p, st),
         UNCHANGED <<org, ws, lock, purging>>, StripeShape'
  PROVE  PracticeInv'
BY OrdinaryStep, NoWorkspaceStep

LEMMA SyncSubscriptionStep ==
  ASSUME PracticeInv, NEW p \in Procs, NEW s \in Subscriptions, NEW adopt, SyncSubscription(p, s, adopt)
  PROVE  PracticeInv'
<1> DEFINE st == [pc |-> "apply", state |-> StateFromSubscription(s), adopt |-> adopt]
<1>1. Become(p, st) /\ UNCHANGED <<stripe, org, ws, lock, purging>> /\ p \in Workers
  BY DEF SyncSubscription, Begins, Workers
<1>2. stripe[s].tier \in Tiers
  BY DEF PracticeInv, Shape, StripeRow
<1>3. StateFromSubscription(s) \in OrgRows
  BY <1>2, PlansAssumption DEF StateFromSubscription, OrgRows
<1>4. Place(st)
  BY <1>3 DEF Place
<1>5. st.pc = "apply"
  OBVIOUS
<1> HIDE DEF st
<1> QED
  BY <1>1, <1>4, <1>5, SyncStep, StripeStands

LEMMA UpgradeStep ==
  ASSUME PracticeInv, NEW p \in Procs, NEW tier \in Tiers, Upgrade(p, tier)
  PROVE  PracticeInv'
<1> DEFINE st == [pc |-> "change", sub |-> org.sub, tier |-> tier]
<1>1. Become(p, st) /\ UNCHANGED <<stripe, org, ws, lock, purging>> /\ p \in Workers
  BY DEF Upgrade, Begins, Workers
<1>2. Place(st) /\ st.pc = "change"
  BY DEF Place, PracticeInv, Shape, OrgRows
<1> HIDE DEF st
<1> QED
  BY <1>1, <1>2, SyncStep, StripeStands

LEMMA IdlePlace == Place(Idle) /\ Idle.pc = "idle"
BY DEF Place, Idle

LEMMA UsagePlace == Place([pc |-> "usage"]) /\ [pc |-> "usage"].pc = "usage"
BY DEF Place

LEMMA ChangePlanStep ==
  ASSUME PracticeInv, NEW p \in Procs, ChangePlan(p)
  PROVE  PracticeInv'
<1> DEFINE s == proc[p].sub
           tier == proc[p].tier
           st == [pc |-> "apply", adopt |-> TRUE, state |-> [sub |-> s, live |-> TRUE, tier |-> tier]]
<1>1. p \in Workers /\ UNCHANGED <<org, ws, lock, purging>>
  BY DEF ChangePlan, Workers
<1>2. CASE Become(p, Idle) /\ UNCHANGED stripe
  BY <1>1, <1>2, IdlePlace, SyncStep, StripeStands
<1>3. CASE /\ stripe[s].status = "live"
           /\ stripe' = [stripe EXCEPT ![s].tier = tier] /\ Become(p, st)
  <2>1. s \in Subscriptions \cup {Nothing} /\ tier \in Tiers
    BY <1>1 DEF ChangePlan, PracticeInv, Shape, Place
  <2>2. Place(st) /\ st.pc = "apply"
    BY <2>1 DEF Place, OrgRows
  <2>3. StripeShape'
    BY <1>3, <2>1, StripeRowChanges
  <2> HIDE DEF st
  <2> QED
    BY <1>1, <1>3, <2>2, <2>3, SyncStep
<1> QED
  BY <1>2, <1>3 DEF ChangePlan

LEMMA CancelReplacedStep ==
  ASSUME PracticeInv, NEW p \in Procs, CancelReplaced(p)
  PROVE  PracticeInv'
<1>1. p \in Workers /\ UNCHANGED <<org, ws, lock, purging>> /\ Become(p, [pc |-> "usage"])
  BY DEF CancelReplaced, Workers
<1>2. StripeShape'
  BY StripeStands, StripeRowChanges DEF CancelReplaced
<1> QED
  BY <1>1, <1>2, UsagePlace, SyncStep

LEMMA BillingStep ==
  ASSUME PracticeInv, NEW p \in Workers, GetOrgBilling(p) \/ GetSubscription(p) \/ UpdateItems(p)
  PROVE  PracticeInv'
<1>1. UNCHANGED <<org, ws, lock, purging>>
  BY DEF GetOrgBilling, GetSubscription, UpdateItems
<1>2. CASE GetOrgBilling(p)
  <2> DEFINE st == [pc |-> "items", sub |-> org.sub, tier |-> org.tier,
                    want |-> ExtraWorkspaces(org.tier, Cardinality(Active))]
  <2>1. Place(st) /\ st.pc = "items"
    BY DEF Place
  <2>2. (Become(p, st) \/ Become(p, Idle)) /\ UNCHANGED stripe
    BY <1>2 DEF GetOrgBilling
  <2> HIDE DEF st
  <2> QED
    BY <1>1, <2>1, <2>2, IdlePlace, SyncStep, StripeStands
<1>3. CASE GetSubscription(p)
  <2> DEFINE c == workspaceItemChanges(stripe[proc[p].sub].items, proc[p].tier, proc[p].want)
             st == [pc |-> "update", sub |-> proc[p].sub, changes |-> c]
  <2>1. Place(st) /\ st.pc = "update"
    BY DEF Place
  <2>2. (Become(p, st) \/ Become(p, Idle)) /\ UNCHANGED stripe
    BY <1>3 DEF GetSubscription
  <2> HIDE DEF st
  <2> QED
    BY <1>1, <2>1, <2>2, IdlePlace, SyncStep, StripeStands
<1>4. CASE UpdateItems(p)
  <2>1. Become(p, Idle)
    BY <1>4 DEF UpdateItems
  <2>2. StripeShape'
    BY <1>4, StripeStands, StripeRowChanges DEF UpdateItems
  <2> QED
    BY <1>1, <2>1, <2>2, IdlePlace, SyncStep
<1> QED
  BY <1>2, <1>3, <1>4

LEMMA JobAndGivesUpStep ==
  ASSUME PracticeInv, RunWorkspaceUsageJob \/ \E p \in Workers : GivesUp(p)
  PROVE  PracticeInv'
<1>1. Job \in Workers
  BY DEF Workers
<1> QED
  BY <1>1, IdlePlace, UsagePlace, SyncStep, StripeStands DEF RunWorkspaceUsageJob, GivesUp

LEMMA RollsBackStep ==
  ASSUME PracticeInv, NEW p \in Procs, RollsBack(p)
  PROVE  PracticeInv'
<1>1. /\ p \in Workers /\ UNCHANGED <<stripe, org, ws, purging>>
      /\ Become(p, Idle) /\ Release(p)
  BY DEF RollsBack, Workers
<1> QED
  BY <1>1, IdlePlace, OrdinaryStep, NoWorkspaceStep, StripeStands

\* The sync writes the practice's row only while nobody has it.
LEMMA ApplyStep ==
  ASSUME PracticeInv, NEW p \in Procs, Apply(p)
  PROVE  PracticeInv' /\ Active' \subseteq Active
<1> DEFINE r == proc[p]
           cancels == [pc |-> "cancel", sub |-> org.sub]
<1>1. /\ p \in Workers /\ UNCHANGED <<stripe, lock, purging>> /\ lock = Nothing
      /\ r.pc = "apply"
  BY DEF Apply, Workers, LockOrgSubscription
<1>2. Place(cancels) /\ cancels.pc = "cancel"
  BY DEF Place
<1>3. CASE Become(p, Idle) /\ UNCHANGED <<org, ws>>
  BY <1>1, <1>3, IdlePlace, SyncStep, StripeStands DEF Active
<1>4. CASE /\ org' = r.state /\ ws' = InheritPracticePlan(r.state.tier)
           /\ Become(p, cancels) \/ Become(p, [pc |-> "usage"]) \/ Become(p, Idle)
  <2>1. r.state \in OrgRows /\ r.state.tier \in Tiers
    BY <1>1 DEF PracticeInv, Shape, Place, OrgRows
  <2>2. /\ ws' \in [Workspaces -> WsRows]
        /\ \A w \in Workspaces : ws'[w].status = ws[w].status /\ ws'[w].whole = ws[w].whole
    BY <1>4, <2>1 DEF InheritPracticePlan, PracticeInv, Shape, WsRows
  <2>3. Active' = Active
    BY <2>2 DEF Active
  <2>4. PurgeInv'
    BY <1>1, <2>2 DEF PracticeInv, PurgeInv
  <2>5. PICK st : /\ Become(p, st) /\ Place(st)
                  /\ st.pc \in {"cancel", "usage", "idle"}
    BY <1>2, <1>4, IdlePlace, UsagePlace
  <2>6. /\ proc' = [q \in Workers |-> proc'[q]] /\ \A q \in Workers : Place(proc'[q])
        /\ proc'[p] = st /\ \A q \in Workers : q # p => proc'[q] = proc[q]
    BY <1>1, <2>5, BecomeStep DEF PracticeInv
  <2>7. Shape'
    BY <1>1, <1>4, <2>1, <2>2, <2>6 DEF PracticeInv, Shape, OrgRows
  <2>8. \A q \in Procs : proc'[q].pc \notin Entering
    BY <1>1, <2>5, <2>6, NamesAssumption DEF PracticeInv, LockInv, Entering, Workers
  <2>9. LockInv'
    BY <2>8 DEF LockInv
  <2>10. \A q \in Procs : Creating(proc'[q]) => q # p /\ proc'[q] = proc[q] /\ proc[q].ws \in Workspaces
    BY <2>5, <2>6 DEF Creating, Workers, PracticeInv, Shape, Place
  <2>11. CreateInv'
    BY <2>2, <2>10 DEF PracticeInv, CreateInv
  <2> QED
    BY <2>3, <2>4, <2>7, <2>9, <2>11 DEF PracticeInv
<1> HIDE DEF cancels
<1>5. \/ Become(p, Idle) /\ UNCHANGED <<org, ws>>
      \/ /\ org' = r.state /\ ws' = InheritPracticePlan(r.state.tier)
         /\ Become(p, cancels) \/ Become(p, [pc |-> "usage"]) \/ Become(p, Idle)
  BY DEF Apply, ApplySubscriptionState, cancels
<1> QED
  BY <1>3, <1>4, <1>5

-----------------------------------------------------------------------------
(* The steps of the client workspaces.                                     *)

\* A worker goes to the check, the practice's row as it was.
LEMMA ToCapacityStep ==
  ASSUME PracticeInv, NEW p \in Procs, NEW w \in Workspaces, NEW next \in {"insert", "restore"},
         Become(p, [pc |-> "capacity", next |-> next, ws |-> w]), proc[p] = Idle,
         UNCHANGED <<stripe, org, ws, lock, purging>>,
         next = "insert" => /\ ws[w].status = "none"
                            /\ \A q \in Procs : Creating(proc[q]) => proc[q].ws # w
  PROVE  PracticeInv'
<1> DEFINE st == [pc |-> "capacity", next |-> next, ws |-> w]
<1>1. p \in Workers /\ Place(st) /\ st.pc = "capacity" /\ st.next = next /\ st.ws = w
  BY DEF Place, Workers
<1> HIDE DEF st
<1>2. /\ proc' = [q \in Workers |-> proc'[q]] /\ \A q \in Workers : Place(proc'[q])
      /\ proc'[p] = st /\ \A q \in Workers : q # p => proc'[q] = proc[q]
  BY <1>1, BecomeStep DEF PracticeInv, st
<1>3. Shape'
  BY <1>2 DEF PracticeInv, Shape
<1>4. LockInv'
  BY <1>1, <1>2 DEF PracticeInv, LockInv, Entering, Active, Workers
<1>5. CreateInv'
  BY <1>1, <1>2 DEF PracticeInv, CreateInv, Creating, Workers
<1> QED
  BY <1>3, <1>4, <1>5 DEF PracticeInv, PurgeInv

LEMMA CreateClientWorkspaceStep ==
  ASSUME PracticeInv, NEW p \in Procs, NEW w \in Workspaces, CreateClientWorkspace(p, w)
  PROVE  PracticeInv'
<1>1. \A q \in Procs : Creating(proc[q]) => proc[q].ws # w
  BY DEF CreateClientWorkspace, Creating
<1> QED
  BY <1>1, ToCapacityStep DEF CreateClientWorkspace, Begins

LEMMA RestoreClientWorkspaceStep ==
  ASSUME PracticeInv, NEW p \in Procs, NEW w \in Workspaces, RestoreClientWorkspace(p, w)
  PROVE  PracticeInv'
BY ToCapacityStep DEF RestoreClientWorkspace, Begins

\* The check, and what it finds is held with the lock.
LEMMA checkCapacityStep ==
  ASSUME PracticeInv, NEW p \in Procs, checkCapacity(p)
  PROVE  PracticeInv'
<1> DEFINE st == Admitted(proc[p])
<1>1. p \in Workers /\ UNCHANGED <<stripe, org, ws, purging>> /\ lock = Nothing /\ proc[p].pc = "capacity"
  BY DEF checkCapacity, Workers, GetPracticeForUpdate
<1>2. CASE Become(p, Idle) /\ UNCHANGED lock
  BY <1>1, <1>2, IdlePlace, SyncStep, StripeStands
<1>3. CASE ~AtLimit /\ Become(p, st) /\ lock' = p
  <2>1. /\ st.pc = proc[p].next /\ st.ws = proc[p].ws /\ st.tier = org.tier
        /\ st.pc \in Entering /\ st.ws \in Workspaces /\ Place(st)
    BY <1>1 DEF PracticeInv, Shape, Place, Entering, Admitted, OrgRows
  <2> HIDE DEF st
  <2>2. /\ proc' = [q \in Workers |-> proc'[q]] /\ \A q \in Workers : Place(proc'[q])
        /\ proc'[p] = st /\ \A q \in Workers : q # p => proc'[q] = proc[q]
    BY <1>1, <1>3, <2>1, BecomeStep DEF PracticeInv
  <2>3. Shape'
    BY <1>1, <2>2 DEF PracticeInv, Shape
  <2>4. Cardinality(Active) < MaxClients[org.tier]
    BY <1>3, ActiveIsFinite, LimitType DEF AtLimit, PracticeInv
  <2>5. \A q \in Procs : q # p => proc'[q].pc \notin Entering
    BY <1>1, <2>2, NamesAssumption DEF PracticeInv, LockInv, Workers
  <2>6. LockInv'
    BY <1>1, <1>3, <2>1, <2>2, <2>4, <2>5 DEF LockInv, Active
  <2>7. \A q \in Procs : Creating(proc'[q]) => Creating(proc[q]) /\ proc'[q].ws = proc[q].ws
    BY <1>1, <2>1, <2>2 DEF Creating, Workers, Entering
  <2>8. CreateInv'
    BY <1>1, <2>7 DEF PracticeInv, CreateInv
  <2> QED
    BY <1>1, <2>3, <2>6, <2>8 DEF PracticeInv, PurgeInv
<1> HIDE DEF st
<1> QED
  BY <1>2, <1>3 DEF checkCapacity, st

\* The holder of the lock adds one workspace below the limit it saw.
LEMMA EnteringStep ==
  ASSUME PracticeInv, NEW p \in Procs, proc[p].pc \in Entering,
         Become(p, Idle) \/ Become(p, [pc |-> "usage"]), Release(p),
         UNCHANGED <<stripe, org, purging>>, PurgeInv',
         ws' \in [Workspaces -> WsRows],
         \A w \in Workspaces : w # proc[p].ws => ws'[w] = ws[w],
         ~Creating(proc[p]) => (ws[proc[p].ws].status = "none" => ws'[proc[p].ws].status = "none")
  PROVE  PracticeInv' /\ Cardinality(Active') <= MaxClients[org'.tier]
<1>1. p \in Workers /\ proc[p].ws \in Workspaces
  BY DEF Workers, PracticeInv, Shape, Place, Entering
<1>2. PICK st : Become(p, st) /\ Place(st) /\ st.pc \in {"usage", "idle"}
  BY IdlePlace, UsagePlace
<1>3. /\ proc' = [q \in Workers |-> proc'[q]] /\ \A q \in Workers : Place(proc'[q])
      /\ proc'[p] = st /\ \A q \in Workers : q # p => proc'[q] = proc[q]
  BY <1>1, <1>2, BecomeStep DEF PracticeInv
<1>4. Shape'
  BY <1>3 DEF PracticeInv, Shape
<1>5. lock = p /\ Cardinality(Active) < MaxClients[org.tier]
  BY DEF PracticeInv, LockInv
<1>6. \A q \in Procs : proc'[q].pc \notin Entering
  BY <1>2, <1>3, <1>5 DEF PracticeInv, LockInv, Entering, Workers
<1>7. LockInv'
  BY <1>6 DEF LockInv
<1>8. Active' \subseteq Active \cup {proc[p].ws}
  BY DEF Active
<1>9. Cardinality(Active') <= MaxClients[org'.tier]
  <2>1. Cardinality(Active) \in Nat /\ Cardinality(Active') \in Nat /\ Cardinality(Active') <= Cardinality(Active) + 1
    BY <1>8, ActiveIsFinite
  <2>2. MaxClients[org.tier] \in Nat /\ org' = org
    BY LimitType DEF PracticeInv
  <2> QED
    BY <1>5, <2>1, <2>2
<1>10. \A q \in Procs : Creating(proc'[q]) => q # p /\ proc'[q] = proc[q] /\ proc[q].ws \in Workspaces
  BY <1>2, <1>3 DEF Creating, Workers, PracticeInv, Shape, Place
<1>11. ASSUME NEW q \in Procs, Creating(proc'[q])
       PROVE  /\ ws'[proc'[q].ws].status = "none"
              /\ \A x \in Procs \ {q} : Creating(proc'[x]) => proc'[x].ws # proc'[q].ws
  <2>1. proc[q].ws # proc[p].ws \/ ~Creating(proc[p])
    BY <1>10, <1>11 DEF PracticeInv, CreateInv
  <2>2. ws[proc[q].ws].status = "none"
    BY <1>10, <1>11 DEF PracticeInv, CreateInv
  <2>3. ws'[proc[q].ws].status = "none"
    BY <1>10, <1>11, <2>1, <2>2
  <2> QED
    BY <1>10, <1>11, <2>3 DEF PracticeInv, CreateInv
<1>12. CreateInv'
  BY <1>11 DEF CreateInv
<1> QED
  BY <1>4, <1>7, <1>9, <1>12 DEF PracticeInv

LEMMA UpsertClientWorkspaceStep ==
  ASSUME PracticeInv, NEW p \in Procs, UpsertClientWorkspace(p)
  PROVE  PracticeInv' /\ Cardinality(Active') <= MaxClients[org'.tier]
<1> DEFINE w == proc[p].ws
           new == ClientWorkspaceRow(proc[p].tier)
<1>1. w \in Workspaces /\ proc[p].tier \in Tiers /\ Creating(proc[p]) /\ proc[p].pc \in Entering
  BY DEF UpsertClientWorkspace, PracticeInv, Shape, Place, Workers, Creating, Entering
<1>2. new \in WsRows /\ new.status = "active" /\ new.whole
  BY <1>1 DEF ClientWorkspaceRow, WsRows, WsStatuses
<1>3. /\ ws' \in [Workspaces -> WsRows] /\ ws'[w] = new
      /\ \A x \in Workspaces : x # w => ws'[x] = ws[x]
  BY <1>1, <1>2 DEF UpsertClientWorkspace, PracticeInv, Shape
<1>4. ws[w].status = "none"
  BY <1>1 DEF PracticeInv, CreateInv
<1>5. PurgeInv'
  BY <1>1, <1>2, <1>3, <1>4 DEF UpsertClientWorkspace, PracticeInv, PurgeInv
<1> QED
  BY <1>1, <1>3, <1>5, EnteringStep DEF UpsertClientWorkspace

LEMMA RestoreRowStep ==
  ASSUME PracticeInv, NEW p \in Procs, RestoreRow(p)
  PROVE  PracticeInv' /\ Cardinality(Active') <= MaxClients[org'.tier]
<1> DEFINE w == proc[p].ws
<1>1. w \in Workspaces /\ proc[p].pc \in Entering
  BY DEF RestoreRow, PracticeInv, Shape, Place, Workers, Entering
<1>2. /\ ws' \in [Workspaces -> WsRows]
      /\ ws'[w].status = IF ws[w].status = "removed" THEN "active" ELSE ws[w].status
      /\ ws'[w].whole = ws[w].whole
      /\ \A x \in Workspaces : x # w => ws'[x] = ws[x]
  BY <1>1, ZenonT(60) DEF RestoreRow, PracticeInv, Shape, WsRows, WsStatuses
<1>3. PurgeInv'
  BY <1>1, <1>2 DEF RestoreRow, PracticeInv, PurgeInv
<1>4. Become(p, Idle) \/ Become(p, [pc |-> "usage"])
  BY DEF RestoreRow
<1> QED
  BY <1>1, <1>2, <1>3, <1>4, EnteringStep DEF RestoreRow

LEMMA DeactivateClientWorkspaceStep ==
  ASSUME PracticeInv, NEW p \in Procs, NEW w \in Workspaces, DeactivateClientWorkspace(p, w)
  PROVE  PracticeInv' /\ Active' \subseteq Active
<1>1. /\ ws[w].status = "active" /\ ws' = [ws EXCEPT ![w].status = "removed"]
      /\ UNCHANGED <<stripe, org, lock, purging>> /\ p \in Workers
  BY DEF DeactivateClientWorkspace, Deactivated, Workers
<1>2. /\ ws' \in [Workspaces -> WsRows] /\ ws'[w].status = "removed" /\ ws'[w].whole = ws[w].whole
      /\ \A x \in Workspaces : x # w => ws'[x] = ws[x]
  BY <1>1 DEF PracticeInv, Shape, WsRows, WsStatuses
<1>3. Active' \subseteq Active
  BY <1>2 DEF Active
<1>4. PurgeInv'
  BY <1>1, <1>2 DEF PracticeInv, PurgeInv
<1>5. \A x \in Workspaces : ws[x].status = "none" => ws'[x].status = "none"
  BY <1>1, <1>2
<1>6. CASE Become(p, [pc |-> "usage"])
  BY <1>1, <1>2, <1>3, <1>4, <1>5, <1>6, UsagePlace, OrdinaryStep, StripeStands
<1>7. CASE UNCHANGED proc
  BY <1>1, <1>2, <1>3, <1>4, <1>5, <1>7, StandingStep, StripeStands
<1> QED
  BY <1>3, <1>6, <1>7 DEF DeactivateClientWorkspace, Begins

-----------------------------------------------------------------------------
(* Stripe's and the purge job's steps: no worker moves.                    *)

LEMMA StripeStep ==
  ASSUME PracticeInv, NEW s \in Subscriptions, Lapses(s) \/ \E tier \in Tiers : CheckoutCompletes(s, tier)
  PROVE  PracticeInv' /\ Active' \subseteq Active
<1>1. UNCHANGED <<org, ws, proc, lock, purging>>
  BY DEF Lapses, CheckoutCompletes
<1>2. StripeShape'
  BY DEF Lapses, CheckoutCompletes, PracticeInv, Shape, StripeShape, StripeRow
<1> QED
  BY <1>1, <1>2, StandingStep, NoWorkspaceStep

LEMMA PurgeStep ==
  ASSUME PracticeInv,
         \/ \E w \in Workspaces : WindowPasses(w) \/ dueOrgs(w)
         \/ PurgeOrg \/ purge_organization \/ PurgeFails
  PROVE  PracticeInv' /\ Active' \subseteq Active
<1>1. UNCHANGED <<proc, lock, org>> /\ UNCHANGED stripe
  BY DEF WindowPasses, dueOrgs, PurgeOrg, purge_organization, PurgeFails
<1> DEFINE Keeps == /\ ws' \in [Workspaces -> WsRows] /\ PurgeInv'
                    /\ \A w \in Workspaces : ws'[w].status = "active" => ws[w].status = "active"
                    /\ \A w \in Workspaces : ws[w].status = "none" => ws'[w].status = "none"
<1>2. Keeps
  <2>1. ASSUME NEW w \in Workspaces, WindowPasses(w) PROVE Keeps
    BY <2>1 DEF WindowPasses, PracticeInv, Shape, PurgeInv, WsRows, WsStatuses
  <2>2. ASSUME NEW w \in Workspaces, dueOrgs(w) PROVE Keeps
    BY <2>2 DEF dueOrgs, PracticeInv, Shape, PurgeInv
  <2>3. CASE PurgeOrg
    <3>1. purging \in Workspaces /\ ws[purging].status \in {"expired", "purged"}
      BY <2>3 DEF PurgeOrg, PracticeInv, PurgeInv
    <3>2. ws' = [ws EXCEPT ![purging].whole = FALSE] /\ UNCHANGED purging
      BY <2>3, <3>1 DEF PurgeOrg
    <3>3. /\ ws' \in [Workspaces -> WsRows]
          /\ \A w \in Workspaces : ws'[w].status = ws[w].status /\ (w # purging => ws'[w] = ws[w])
      BY <3>1, <3>2 DEF PracticeInv, Shape, WsRows
    <3> QED
      BY <3>1, <3>2, <3>3 DEF PracticeInv, PurgeInv
  <2>4. CASE purge_organization
    BY <2>4 DEF purge_organization, PracticeInv, Shape, PurgeInv, WsRows, WsStatuses
  <2>5. CASE PurgeFails
    BY <2>5 DEF PurgeFails, PracticeInv, Shape, PurgeInv
  <2> QED
    BY <2>1, <2>2, <2>3, <2>4, <2>5
<1>3. Active' \subseteq Active
  BY <1>2 DEF Active
<1> QED
  BY <1>1, <1>2, <1>3, StandingStep, StripeStands

-----------------------------------------------------------------------------
LEMMA StutterStep ==
  ASSUME PracticeInv, UNCHANGED vars
  PROVE  PracticeInv' /\ Active' \subseteq Active
<1>1. UNCHANGED <<stripe, org, ws, proc, lock, purging>>
  BY DEF vars
<1> QED
  BY <1>1, StandingStep, NoWorkspaceStep, StripeStands

Grows == Active' \subseteq Active \/ Cardinality(Active') <= MaxClients[org'.tier]

\* The invariant holds through every step, and only the holder of the
\* practice's lock adds a workspace.
LEMMA InvStep == PracticeInv /\ [Next]_vars => PracticeInv' /\ Grows
<1> SUFFICES ASSUME PracticeInv, [Next]_vars PROVE PracticeInv' /\ Grows
  OBVIOUS
<1> DEFINE Fine == PracticeInv' /\ Grows
<1>0. Procs \subseteq Workers /\ Job \in Workers
  BY DEF Workers
<1>1. ASSUME UNCHANGED ws PROVE Grows
  BY <1>1 DEF Grows, Active
<1>2. CASE \E s \in Subscriptions : Lapses(s) \/ \E tier \in Tiers : CheckoutCompletes(s, tier)
  BY <1>2, StripeStep DEF Grows
<1>3. CASE \E p \in Procs, s \in Subscriptions : Confirm(p, s) \/ \E type \in EventTypes : dispatch(p, s, type)
  <2>1. PICK p \in Procs, s \in Subscriptions, adopt \in BOOLEAN : SyncSubscription(p, s, adopt)
    BY <1>3 DEF Confirm, dispatch
  <2>2. UNCHANGED ws
    BY <2>1 DEF SyncSubscription
  <2> QED
    BY <1>1, <2>1, <2>2, SyncSubscriptionStep
<1>4. CASE \E p \in Procs, tier \in Tiers : Upgrade(p, tier)
  BY <1>1, <1>4, UpgradeStep DEF Upgrade
<1>5. ASSUME NEW p \in Procs, NEW w \in Workspaces,
             CreateClientWorkspace(p, w) \/ RestoreClientWorkspace(p, w) \/ DeactivateClientWorkspace(p, w)
      PROVE  Fine
  <2>1. CASE CreateClientWorkspace(p, w)
    BY <1>1, <2>1, CreateClientWorkspaceStep DEF CreateClientWorkspace
  <2>2. CASE RestoreClientWorkspace(p, w)
    BY <1>1, <2>2, RestoreClientWorkspaceStep DEF RestoreClientWorkspace
  <2>3. CASE DeactivateClientWorkspace(p, w)
    BY <2>3, DeactivateClientWorkspaceStep DEF Grows
  <2> QED
    BY <1>5, <2>1, <2>2, <2>3
<1>6. ASSUME NEW p \in Procs, ChangePlan(p) \/ Apply(p) \/ CancelReplaced(p) PROVE Fine
  <2>1. CASE ChangePlan(p)
    BY <1>1, <2>1, ChangePlanStep DEF ChangePlan
  <2>2. CASE Apply(p)
    BY <2>2, ApplyStep DEF Grows
  <2>3. CASE CancelReplaced(p)
    BY <1>1, <2>3, CancelReplacedStep DEF CancelReplaced
  <2> QED
    BY <1>6, <2>1, <2>2, <2>3
<1>7. ASSUME NEW p \in Procs, checkCapacity(p) \/ UpsertClientWorkspace(p) \/ RestoreRow(p) \/ RollsBack(p)
      PROVE  Fine
  <2>1. CASE checkCapacity(p)
    BY <1>1, <2>1, checkCapacityStep DEF checkCapacity
  <2>2. CASE UpsertClientWorkspace(p)
    BY <2>2, UpsertClientWorkspaceStep DEF Grows
  <2>3. CASE RestoreRow(p)
    BY <2>3, RestoreRowStep DEF Grows
  <2>4. CASE RollsBack(p)
    BY <1>1, <2>4, RollsBackStep DEF RollsBack
  <2> QED
    BY <1>7, <2>1, <2>2, <2>3, <2>4
<1>8. ASSUME NEW p \in Workers, GetOrgBilling(p) \/ GetSubscription(p) \/ UpdateItems(p) PROVE Fine
  BY <1>1, <1>8, BillingStep DEF GetOrgBilling, GetSubscription, UpdateItems
<1>9. CASE RunWorkspaceUsageJob \/ \E p \in Workers : GivesUp(p)
  BY <1>1, <1>9, JobAndGivesUpStep DEF RunWorkspaceUsageJob, GivesUp
<1>10. CASE \/ \E w \in Workspaces : WindowPasses(w) \/ dueOrgs(w)
            \/ PurgeOrg \/ purge_organization \/ PurgeFails
  BY <1>10, PurgeStep DEF Grows
<1>11. CASE UNCHANGED vars
  BY <1>11, StutterStep DEF Grows
<1> HIDE DEF Fine
<1>12. Fine
  BY <1>0, <1>2, <1>3, <1>4, <1>5, <1>6, <1>7, <1>8, <1>9, <1>10, <1>11
  DEF Next, JobReads, JobFetches, JobUpdates, Fine
<1> QED
  BY <1>12 DEF Fine

LEMMA AlwaysInv == Spec => []PracticeInv
<1>1. PracticeInv /\ [Next]_vars => PracticeInv'
  BY InvStep
<1> QED
  BY InvInit, <1>1, PTL DEF Spec

\* The number of client workspaces only grows to what the plan then allows,
\* for any number of requests at once (CheckCapacity's row lock).
THEOREM CapacityAlwaysHolds == Spec => CapacityHolds
<1>1. PracticeInv /\ [Next]_vars => [Active' \subseteq Active \/ Cardinality(Active') <= MaxClients[org'.tier]]_vars
  BY InvStep DEF Grows
<1> QED
  BY <1>1, AlwaysInv, PTL DEF Spec, CapacityHolds

\* Except for the sync and a creation's commit, a step leaves the plans alone,
\* and makes no row of a workspace that had none.
PlansStay ==
  /\ UNCHANGED org
  /\ \A w \in Workspaces :
       /\ ws'[w].tier = ws[w].tier
       /\ ws[w].status \in {"none", "purged"} => ws'[w].status \in {"none", "purged"}

LEMMA WsChanges ==
  ASSUME PracticeInv, UNCHANGED org, NEW x,
         \/ UNCHANGED ws
         \/ ws[x].status \notin {"none", "purged"} /\ \E status : ws' = [ws EXCEPT ![x].status = status]
         \/ ws' = [ws EXCEPT ![x].whole = FALSE]
  PROVE  PlansStay
<1>1. \A w \in Workspaces : ws[w] \in WsRows
  BY DEF PracticeInv, Shape
<1>2. CASE UNCHANGED ws
  BY <1>2 DEF PlansStay
<1>3. CASE ws[x].status \notin {"none", "purged"} /\ \E status : ws' = [ws EXCEPT ![x].status = status]
  BY <1>1, <1>3 DEF PlansStay, WsRows, PracticeInv, Shape
<1>4. CASE ws' = [ws EXCEPT ![x].whole = FALSE]
  BY <1>1, <1>4 DEF PlansStay, WsRows, PracticeInv, Shape
<1> QED
  BY <1>2, <1>3, <1>4

LEMMA PurgePlans ==
  ASSUME PracticeInv, PurgeOrg \/ purge_organization \/ PurgeFails
  PROVE  PlansStay
<1>1. UNCHANGED org /\ (PurgeFails => UNCHANGED ws)
  BY DEF PurgeOrg, purge_organization, PurgeFails
<1>2. CASE PurgeOrg \/ PurgeFails
  <2>1. UNCHANGED ws \/ ws' = [ws EXCEPT ![purging].whole = FALSE]
    BY <1>1, <1>2 DEF PurgeOrg
  <2> QED
    BY <1>1, <2>1, WsChanges
<1>3. CASE purge_organization
  <2>1. UNCHANGED ws \/ ws' = [ws EXCEPT ![purging].status = "purged"]
    BY <1>3 DEF purge_organization
  <2> QED
    BY <1>1, <2>1 DEF PlansStay, PracticeInv, Shape, WsRows
<1> QED
  BY <1>2, <1>3

LEMMA WorkspacePlans ==
  ASSUME PracticeInv,
         \/ \E p \in Procs : RestoreRow(p) \/ \E w \in Workspaces : DeactivateClientWorkspace(p, w)
         \/ \E w \in Workspaces : WindowPasses(w)
  PROVE  PlansStay
<1>1. UNCHANGED org
  BY DEF RestoreRow, DeactivateClientWorkspace, WindowPasses
<1>2. ASSUME NEW p \in Procs, RestoreRow(p) PROVE PlansStay
  <2> DEFINE x == proc[p].ws
  <2>1. x \in Workspaces
    BY <1>2 DEF RestoreRow, PracticeInv, Shape, Place, Workers
  <2>2. ws' = [ws EXCEPT ![x].status = IF ws[x].status = "removed" THEN "active" ELSE ws[x].status]
    BY <1>2 DEF RestoreRow
  <2> QED
    BY <1>1, <2>1, <2>2 DEF PlansStay, PracticeInv, Shape, WsRows
<1>3. ASSUME NEW p \in Procs, NEW w \in Workspaces, DeactivateClientWorkspace(p, w) PROVE PlansStay
  BY <1>1, <1>3, WsChanges DEF DeactivateClientWorkspace, Deactivated
<1>4. ASSUME NEW w \in Workspaces, WindowPasses(w) PROVE PlansStay
  BY <1>1, <1>4, WsChanges DEF WindowPasses
<1> QED
  BY <1>2, <1>3, <1>4

\* The sync writes every plan there is, under the lock.
LEMMA ApplyPlans ==
  ASSUME PracticeInv, ClientsFollowPlan, NEW p \in Procs, Apply(p)
  PROVE  ClientsFollowPlan'
<1> DEFINE r == proc[p]
<1>1. CASE UNCHANGED <<org, ws>>
  BY <1>1 DEF ClientsFollowPlan
<1>2. CASE org' = r.state /\ ws' = InheritPracticePlan(r.state.tier)
  <2>1. ASSUME NEW w \in Workspaces, ws'[w].status \notin {"none", "purged"}
        PROVE  ws'[w].tier = r.state.tier
    <3>1. ws'[w] = IF ws[w].status \in {"none", "purged"} THEN ws[w] ELSE [ws[w] EXCEPT !.tier = r.state.tier]
      BY <1>2 DEF InheritPracticePlan
    <3> QED
      BY <2>1, <3>1 DEF PracticeInv, Shape, WsRows
  <2> QED
    BY <1>2, <2>1 DEF ClientsFollowPlan
<1> QED
  BY <1>1, <1>2 DEF Apply, ApplySubscriptionState

\* The plan a creation has read is still the practice's when it commits.
LEMMA UpsertPlans ==
  ASSUME PracticeInv, ClientsFollowPlan, NEW p \in Procs, UpsertClientWorkspace(p)
  PROVE  ClientsFollowPlan'
<1>1. /\ proc[p].pc = "insert" /\ UNCHANGED org
      /\ ws' = [ws EXCEPT ![proc[p].ws] = ClientWorkspaceRow(proc[p].tier)]
  BY DEF UpsertClientWorkspace
<1>2. proc[p].tier = org.tier
  BY <1>1 DEF PracticeInv, LockInv, Entering
<1> QED
  BY <1>1, <1>2 DEF ClientsFollowPlan, ClientWorkspaceRow, PracticeInv, Shape

LEMMA PlanStep == PracticeInv /\ ClientsFollowPlan /\ [Next]_vars => ClientsFollowPlan'
<1> SUFFICES ASSUME PracticeInv, ClientsFollowPlan, [Next]_vars PROVE ClientsFollowPlan'
  OBVIOUS
<1>1. CASE PlansStay
  BY <1>1 DEF PlansStay, ClientsFollowPlan
<1>2. CASE UNCHANGED <<org, ws>>
  BY <1>2 DEF ClientsFollowPlan
<1>3. CASE \E p \in Procs : Apply(p) \/ UpsertClientWorkspace(p)
  BY <1>3, ApplyPlans, UpsertPlans
<1>4. CASE \/ \E p \in Procs : RestoreRow(p) \/ \E w \in Workspaces : DeactivateClientWorkspace(p, w)
           \/ \E w \in Workspaces : WindowPasses(w)
  BY <1>1, <1>4, WorkspacePlans
<1>5. CASE PurgeOrg \/ purge_organization \/ PurgeFails
  BY <1>1, <1>5, PurgePlans
<1>6. ASSUME NEW p \in Procs,
             \/ \E s \in Subscriptions : Confirm(p, s) \/ \E type \in EventTypes : dispatch(p, s, type)
             \/ \E tier \in Tiers : Upgrade(p, tier)
             \/ \E w \in Workspaces : CreateClientWorkspace(p, w) \/ RestoreClientWorkspace(p, w)
             \/ ChangePlan(p) \/ CancelReplaced(p) \/ checkCapacity(p) \/ RollsBack(p)
      PROVE  UNCHANGED <<org, ws>>
  BY <1>6 DEF Confirm, dispatch, SyncSubscription, Upgrade, CreateClientWorkspace, RestoreClientWorkspace,
              ChangePlan, CancelReplaced, checkCapacity, RollsBack
<1>7. ASSUME NEW p \in Workers, GetOrgBilling(p) \/ GetSubscription(p) \/ UpdateItems(p) \/ GivesUp(p)
      PROVE  UNCHANGED <<org, ws>>
  BY <1>7 DEF GetOrgBilling, GetSubscription, UpdateItems, GivesUp
<1>8. ASSUME \/ \E s \in Subscriptions : Lapses(s) \/ \E tier \in Tiers : CheckoutCompletes(s, tier)
             \/ RunWorkspaceUsageJob \/ \E w \in Workspaces : dueOrgs(w)
             \/ UNCHANGED vars
      PROVE  UNCHANGED <<org, ws>>
  BY <1>8 DEF Lapses, CheckoutCompletes, RunWorkspaceUsageJob, dueOrgs, vars
<1>9. Procs \subseteq Workers /\ Job \in Workers
  BY DEF Workers
<1> QED
  BY <1>2, <1>3, <1>4, <1>5, <1>6, <1>7, <1>8, <1>9 DEF Next, JobReads, JobFetches, JobUpdates

\* A client workspace runs on its practice's plan, for any number of plan
\* changes, webhooks, creations and restores at once (LockOrgSubscription).
THEOREM PlanIsAlwaysFollowed == Spec => []ClientsFollowPlan
<1>1. Init => ClientsFollowPlan
  BY DEF Init, ClientsFollowPlan
<1> QED
  BY <1>1, PlanStep, AlwaysInv, PTL DEF Spec

\* A workspace in use has lost nothing to the purge (the restore window).
THEOREM RestoredIsAlwaysWhole == Spec => []RestoredIsWhole
<1>1. PracticeInv => RestoredIsWhole
  BY DEF PracticeInv, PurgeInv, RestoredIsWhole, Active
<1> QED
  BY <1>1, AlwaysInv, PTL
===============================================================================
