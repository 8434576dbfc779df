------------------------------- MODULE Practice ------------------------------
(***************************************************************************)
(* A practice, its client workspaces and its subscription.  Three parties  *)
(* write: the practice's admins (create, remove and restore workspaces,    *)
(* change plan), Stripe's webhooks and the Checkout page's confirmation    *)
(* (fetch the subscription, then store it), and the daily jobs (bill the   *)
(* workspaces beyond the plan, purge the ones removed too long ago).       *)
(* The practice's own row lock is all that orders them.                    *)
(***************************************************************************)
EXTENDS Naturals, Sequences, FiniteSets

CONSTANTS
  Workspaces, Subscriptions,
  Procs,                   \* requests and webhook deliveries at work
  Job,                     \* the daily usage job
  Tiers, DefaultPlan,      \* plans.go's tiers, the one without a subscription
  Included, MaxClients,    \* by tier: client workspaces in the price, and at most
  ExtraPriced,             \* the tiers that bill the ones in between
  MaxOps                   \* bound: operations begun

ASSUME PlansAssumption ==
  /\ DefaultPlan \in Tiers /\ ExtraPriced \subseteq Tiers
  /\ Included \in [Tiers -> Nat \ {0}] /\ MaxClients \in [Tiers -> Nat \ {0}]
ASSUME SetsAssumption == IsFiniteSet(Workspaces) /\ Subscriptions # {}

VARIABLES
  stripe,   \* the practice's subscriptions at Stripe
  org,      \* what the practice's row records of its subscription
  ws,       \* the client workspaces' rows
  proc,     \* each request's, delivery's and the usage job's place
  lock,     \* who holds the practice's row: FOR UPDATE until commit
  purging,  \* the workspace the purge job is at
  ops

vars == <<stripe, org, ws, proc, lock, purging, ops>>

Nothing == "nothing"
ASSUME NamesAssumption == Job \notin Procs /\ Nothing \notin Procs \cup Workspaces

Workers == Procs \cup {Job}
Idle == [pc |-> "idle"]

\* An item's id is its index; a deleted item has quantity 0.
Items == Seq([tier : Tiers, qty : 0 .. Cardinality(Workspaces)])
StripeStates == [status : {"none", "live", "lapsed", "canceled"}, tier : Tiers]

TypeOK ==
  /\ \A s \in Subscriptions :
       /\ [status |-> stripe[s].status, tier |-> stripe[s].tier] \in StripeStates
       /\ stripe[s].items \in Items
  /\ org \in [sub : Subscriptions \cup {Nothing}, live : BOOLEAN, tier : Tiers]
  /\ ws \in [Workspaces -> [status : {"none", "active", "removed", "expired", "purged"},
                            tier : Tiers, whole : BOOLEAN]]
  /\ lock \in Procs \cup {Nothing}
  /\ purging \in Workspaces \cup {Nothing}
  /\ ops \in 0 .. MaxOps

\* A workspace that never subscribed, or a practice with a plan and a first
\* client workspace (which of the names they have makes no difference).
s0 == CHOOSE s \in Subscriptions : TRUE
w0 == CHOOSE w \in Workspaces : TRUE

Init ==
  \E tier \in Tiers, established \in BOOLEAN :
    /\ stripe = [r \in Subscriptions |->
         IF established /\ r = s0 THEN [status |-> "live", tier |-> tier, items |-> <<>>]
         ELSE [status |-> "none", tier |-> DefaultPlan, items |-> <<>>]]
    /\ org = IF established THEN [sub |-> s0, live |-> TRUE, tier |-> tier]
             ELSE [sub |-> Nothing, live |-> FALSE, tier |-> DefaultPlan]
    /\ ws = [x \in Workspaces |-> [status |-> IF established /\ x = w0 THEN "active" ELSE "none",
                                   tier |-> org.tier, whole |-> TRUE]]
    /\ proc = [p \in Workers |-> Idle]
    /\ lock = Nothing /\ purging = Nothing
    /\ ops = IF established THEN 2 ELSE 0

Active == {w \in Workspaces : ws[w].status = "active"}
ExtraWorkspaces(tier, active) ==
  IF tier \notin ExtraPriced \/ active <= Included[tier] THEN 0 ELSE active - Included[tier]

Become(p, state) == proc' = [proc EXCEPT ![p] = state]
Begins(p, state) ==
  /\ ops < MaxOps /\ ops' = ops + 1
  /\ p \in Procs /\ proc[p] = Idle
  /\ Become(p, state)
Happens == ops < MaxOps /\ ops' = ops + 1

-----------------------------------------------------------------------------
\* Stripe: a Checkout is completed; a subscription is canceled in the portal
\* or its payments fail for good.

CheckoutCompletes(s, tier) ==
  /\ stripe[s].status = "none" /\ Happens
  /\ stripe' = [stripe EXCEPT ![s].status = "live", ![s].tier = tier]
  /\ UNCHANGED <<org, ws, proc, lock, purging>>

Lapses(s) ==
  /\ stripe[s].status = "live" /\ Happens
  /\ stripe' = [stripe EXCEPT ![s].status = "lapsed"]
  /\ UNCHANGED <<org, ws, proc, lock, purging>>

-----------------------------------------------------------------------------
\* The subscription sync.  A webhook may concern any subscription at any
\* time; a completed Checkout is confirmed by its own webhook and by the page.

StateFromSubscription(s) ==
  LET live == stripe[s].status = "live"
  IN  [sub |-> s, live |-> live, tier |-> IF live THEN stripe[s].tier ELSE DefaultPlan]

SyncSubscription(p, s, adopt) ==
  /\ stripe[s].status # "none"
  /\ Begins(p, [pc |-> "apply", state |-> StateFromSubscription(s), adopt |-> adopt])
  /\ UNCHANGED <<stripe, org, ws, lock, purging>>

\* Stripe's events say which subscription, never its state.
dispatch(p, s, type) == SyncSubscription(p, s, type = "checkout.session.completed")
EventTypes == {"checkout.session.completed", "customer.subscription.updated"}
Confirm(p, s) == SyncSubscription(p, s, TRUE)

\* Upgrade of a live subscription: Stripe changes it in place.
Upgrade(p, tier) ==
  /\ org.live
  /\ Cardinality(Active) <= MaxClients[tier]
  /\ Begins(p, [pc |-> "change", sub |-> org.sub, tier |-> tier])
  /\ UNCHANGED <<stripe, org, ws, lock, purging>>

ChangePlan(p) ==
  /\ proc[p].pc = "change"
  /\ LET s == proc[p].sub
     IN  IF stripe[s].status = "live" /\ stripe[s].tier # proc[p].tier
         THEN /\ stripe' = [stripe EXCEPT ![s].tier = proc[p].tier]
              /\ Become(p, [pc |-> "apply", adopt |-> TRUE,
                            state |-> [sub |-> s, live |-> TRUE, tier |-> proc[p].tier]])
         ELSE Become(p, Idle) /\ UNCHANGED stripe
  /\ UNCHANGED <<org, ws, lock, purging, ops>>

\* Mutant of LockOrgSubscription: the row is read without FOR UPDATE.
ReadOrgSubscription == TRUE

\* Waits for whoever has the row.
LockOrgSubscription == lock = Nothing
GetPracticeForUpdate == lock = Nothing

\* Which subscription becomes, or stays, the practice's current one.
Applies(state, adopt) ==
  \/ org.sub \in {Nothing, state.sub}
  \/ adopt /\ (org.live => state.live)
  \/ ~org.live /\ state.live

\* InheritPracticePlan: the practice's limits are its client workspaces' too.
InheritPracticePlan(tier) ==
  [w \in Workspaces |-> IF ws[w].status \in {"none", "purged"} THEN ws[w] ELSE [ws[w] EXCEPT !.tier = tier]]

ApplySubscriptionState(state) == org' = state

Apply(p) ==
  LET r == proc[p]
      replaced == r.adopt /\ org.live /\ org.sub # r.state.sub
  IN  /\ r.pc = "apply"
      /\ LockOrgSubscription
      /\ IF Applies(r.state, r.adopt)
         THEN /\ ApplySubscriptionState(r.state)
              /\ ws' = InheritPracticePlan(r.state.tier)
              /\ Become(p, IF replaced THEN [pc |-> "cancel", sub |-> org.sub]
                           ELSE IF r.state.live THEN [pc |-> "usage"] ELSE Idle)
         ELSE Become(p, Idle) /\ UNCHANGED <<org, ws>>
      /\ UNCHANGED <<stripe, lock, purging, ops>>

\* Best effort.
CancelReplaced(p) ==
  /\ proc[p].pc = "cancel"
  /\ \/ /\ stripe[proc[p].sub].status = "live"
        /\ stripe' = [stripe EXCEPT ![proc[p].sub].status = "canceled"]
     \/ UNCHANGED stripe
  /\ Become(p, [pc |-> "usage"])
  /\ UNCHANGED <<org, ws, lock, purging, ops>>

-----------------------------------------------------------------------------
\* SyncWorkspaceUsage, after a change and from the daily job: read the
\* practice's row and count, read the subscription, update its items.

GetOrgBilling(p) ==
  /\ proc[p].pc = "usage"
  /\ Become(p, IF org.live
               THEN [pc |-> "items", sub |-> org.sub, tier |-> org.tier,
                     want |-> ExtraWorkspaces(org.tier, Cardinality(Active))]
               ELSE Idle)
  /\ UNCHANGED <<stripe, org, ws, lock, purging, ops>>

KeepsDuplicates(items, tier, want) ==
  LET present == {i \in DOMAIN items : items[i].qty > 0}
      found == {i \in present : items[i].tier = tier /\ want > 0}
  IN  [deleted |-> present \ found,
       resized |-> {i \in found : items[i].qty # want},
       added |-> found = {} /\ want > 0, tier |-> tier, qty |-> want]

\* The first item of the plan's own price is kept, and given the quantity.
workspaceItemChanges(items, tier, want) ==
  LET present == {i \in DOMAIN items : items[i].qty > 0}
      found == {i \in present : /\ items[i].tier = tier /\ want > 0
                                /\ \A j \in present : j < i => items[j].tier # tier}
  IN  [deleted |-> present \ found,
       resized |-> {i \in found : items[i].qty # want},
       added |-> found = {} /\ want > 0, tier |-> tier, qty |-> want]

GetSubscription(p) ==
  /\ proc[p].pc = "items"
  /\ LET r == proc[p]
         c == workspaceItemChanges(stripe[r.sub].items, r.tier, r.want)
     IN  Become(p, IF c.deleted \cup c.resized # {} \/ c.added
                   THEN [pc |-> "update", sub |-> r.sub, changes |-> c] ELSE Idle)
  /\ UNCHANGED <<stripe, org, ws, lock, purging, ops>>

Changed(items, c) ==
  LET kept == [i \in DOMAIN items |->
                 [items[i] EXCEPT !.qty = IF i \in c.deleted THEN 0 ELSE IF i \in c.resized THEN c.qty ELSE @]]
  IN  IF c.added THEN Append(kept, [tier |-> c.tier, qty |-> c.qty]) ELSE kept

\* One update, all or nothing: Stripe refuses it for a subscription that has
\* ended or an item that is deleted.
UpdateItems(p) ==
  /\ proc[p].pc = "update"
  /\ LET r == proc[p]
     IN  IF /\ stripe[r.sub].status = "live"
            /\ \A i \in r.changes.deleted \cup r.changes.resized : stripe[r.sub].items[i].qty > 0
         THEN stripe' = [stripe EXCEPT ![r.sub].items = Changed(@, r.changes)]
         ELSE UNCHANGED stripe
  /\ Become(p, Idle)
  /\ UNCHANGED <<org, ws, lock, purging, ops>>

ListPracticesWithLiveSubscriptions == org.live

RunWorkspaceUsageJob ==
  /\ proc[Job] = Idle
  /\ ListPracticesWithLiveSubscriptions
  /\ Become(Job, [pc |-> "usage"])
  /\ UNCHANGED <<stripe, org, ws, lock, purging, ops>>

-----------------------------------------------------------------------------
\* Client workspaces.

AtLimit == Cardinality(Active) >= MaxClients[org.tier]

\* The check before Clerk makes its organization.
CreateClientWorkspace(p, w) ==
  /\ ws[w].status = "none"
  /\ \A q \in Procs : proc[q].pc \in {"capacity", "insert"} => proc[q].ws # w
  /\ ~AtLimit
  /\ Begins(p, [pc |-> "capacity", next |-> "insert", ws |-> w])
  /\ UNCHANGED <<stripe, org, ws, lock, purging>>

GetClientWorkspaceForCaller(w) == ws[w].status
loadWorkspaceForMutation(w) == GetClientWorkspaceForCaller(w) \in {"active", "removed", "expired"}

RestoreClientWorkspace(p, w) ==
  /\ loadWorkspaceForMutation(w) /\ ws[w].status = "removed"
  /\ Begins(p, [pc |-> "capacity", next |-> "restore", ws |-> w])
  /\ UNCHANGED <<stripe, org, ws, lock, purging>>

\* The transaction goes on with the plan it has seen: its commit is later.
Admitted(r) == [pc |-> r.next, ws |-> r.ws, tier |-> org.tier]

checkUnlocked(p) ==
  /\ proc[p].pc = "capacity"
  /\ Become(p, IF AtLimit THEN Idle ELSE Admitted(proc[p]))
  /\ UNCHANGED <<stripe, org, ws, lock, purging, ops>>

\* The transaction's own check, with the practice's row locked.
checkCapacity(p) ==
  /\ proc[p].pc = "capacity"
  /\ GetPracticeForUpdate
  /\ IF AtLimit
     THEN Become(p, Idle) /\ UNCHANGED lock
     ELSE Become(p, Admitted(proc[p])) /\ lock' = p
  /\ UNCHANGED <<stripe, org, ws, purging, ops>>

Release(p) == lock' = IF lock = p THEN Nothing ELSE lock

ClientWorkspaceRow(tier) == [status |-> "active", tier |-> tier, whole |-> TRUE]
UpsertClientWorkspace(p) ==
  /\ proc[p].pc = "insert"
  /\ ws' = [ws EXCEPT ![proc[p].ws] = ClientWorkspaceRow(proc[p].tier)]
  /\ Become(p, [pc |-> "usage"])
  /\ Release(p)
  /\ UNCHANGED <<stripe, org, purging, ops>>

RestoreUnlessActive(p) ==
  /\ proc[p].pc = "restore"
  /\ ws' = [ws EXCEPT ![proc[p].ws].status = IF @ \in {"removed", "expired"} THEN "active" ELSE @]
  /\ Become(p, IF ws' # ws THEN [pc |-> "usage"] ELSE Idle)
  /\ Release(p)
  /\ UNCHANGED <<stripe, org, purging, ops>>

\* The window is checked again by the update itself.
RestoreRow(p) ==
  /\ proc[p].pc = "restore"
  /\ ws' = [ws EXCEPT ![proc[p].ws].status = IF @ = "removed" THEN "active" ELSE @]
  /\ Become(p, IF ws' # ws THEN [pc |-> "usage"] ELSE Idle)
  /\ Release(p)
  /\ UNCHANGED <<stripe, org, purging, ops>>

\* Rolled back: the insert failed, or the process died.
RollsBack(p) ==
  /\ proc[p].pc \in {"insert", "restore"}
  /\ Become(p, Idle)
  /\ Release(p)
  /\ UNCHANGED <<stripe, org, ws, purging, ops>>

Deactivated(w) == [ws EXCEPT ![w].status = "removed"]

\* By an admin, or by Clerk (organization.deleted), which reports nothing.
DeactivateClientWorkspace(p, w) ==
  /\ loadWorkspaceForMutation(w) /\ ws[w].status = "active"
  /\ ws' = Deactivated(w)
  /\ \/ Begins(p, [pc |-> "usage"])
     \/ Happens /\ UNCHANGED proc
  /\ UNCHANGED <<stripe, org, lock, purging>>

\* A best-effort step that fails, its process dying included.
GivesUp(p) ==
  /\ proc[p].pc \in {"apply", "change", "cancel", "usage", "items", "update", "capacity"}
  /\ Become(p, Idle)
  /\ UNCHANGED <<stripe, org, ws, lock, purging, ops>>

-----------------------------------------------------------------------------
\* The purge job.

\* Thirty days after its removal.
WindowPasses(w) ==
  /\ ws[w].status = "removed"
  /\ ws' = [ws EXCEPT ![w].status = "expired"]
  /\ UNCHANGED <<stripe, org, proc, lock, purging, ops>>

dueOrgs(w) ==
  /\ purging = Nothing
  /\ ws[w].status = "expired"
  /\ purging' = w
  /\ UNCHANGED <<stripe, org, ws, proc, lock, ops>>

\* The documents' vectors, files and rows, then the provider grants.
PurgeOrg ==
  /\ purging # Nothing
  /\ IF ws[purging].status = "active"
     THEN purging' = Nothing /\ UNCHANGED ws
     ELSE ws' = [ws EXCEPT ![purging].whole = FALSE] /\ UNCHANGED purging
  /\ UNCHANGED <<stripe, org, proc, lock, ops>>

purge_organization ==
  /\ purging # Nothing /\ ~ws[purging].whole
  /\ ws' = IF ws[purging].status = "active" THEN ws ELSE [ws EXCEPT ![purging].status = "purged"]
  /\ purging' = Nothing
  /\ UNCHANGED <<stripe, org, proc, lock, ops>>

\* Vectors, files or the database out of reach: the next pass tries again.
PurgeFails ==
  /\ purging # Nothing
  /\ purging' = Nothing
  /\ UNCHANGED <<stripe, org, ws, proc, lock, ops>>

-----------------------------------------------------------------------------
JobReads == GetOrgBilling(Job)
JobFetches == GetSubscription(Job)
JobUpdates == UpdateItems(Job)

Next ==
  \/ \E s \in Subscriptions : Lapses(s) \/ \E tier \in Tiers : CheckoutCompletes(s, tier)
  \/ \E p \in Procs, s \in Subscriptions : Confirm(p, s) \/ \E type \in EventTypes : dispatch(p, s, type)
  \/ \E p \in Procs, tier \in Tiers : Upgrade(p, tier)
  \/ \E p \in Procs, w \in Workspaces :
       CreateClientWorkspace(p, w) \/ RestoreClientWorkspace(p, w) \/ DeactivateClientWorkspace(p, w)
  \/ \E p \in Procs : ChangePlan(p) \/ Apply(p) \/ CancelReplaced(p)
  \/ \E p \in Procs : checkCapacity(p) \/ UpsertClientWorkspace(p) \/ RestoreRow(p) \/ RollsBack(p)
  \/ \E p \in Procs : GetOrgBilling(p) \/ GetSubscription(p) \/ UpdateItems(p)
  \/ RunWorkspaceUsageJob \/ JobReads \/ JobFetches \/ JobUpdates
  \/ \E p \in Workers : GivesUp(p)
  \/ \E w \in Workspaces : WindowPasses(w) \/ dueOrgs(w)
  \/ PurgeOrg \/ purge_organization \/ PurgeFails

\* Requests and deliveries end.  The job passes every day for good, and
\* Stripe answers it now and again.
Fairness ==
  /\ \A p \in Procs : WF_vars(ChangePlan(p) \/ Apply(p) \/ CancelReplaced(p) \/ checkCapacity(p)
       \/ UpsertClientWorkspace(p) \/ RestoreRow(p) \/ GetOrgBilling(p) \/ GetSubscription(p) \/ UpdateItems(p))
  /\ WF_vars(RunWorkspaceUsageJob)
  /\ SF_vars(JobReads) /\ SF_vars(JobFetches) /\ SF_vars(JobUpdates)

Spec == Init /\ [][Next]_vars /\ Fairness

-----------------------------------------------------------------------------
\* Two requests at once never take a practice past its plan: the number of
\* active client workspaces only grows to what the plan then allows
\* ("two simultaneous requests can't both pass the max_client_workspaces
\* check"), a concurrent plan change included.
CapacityHolds ==
  [][Active' \subseteq Active \/ Cardinality(Active') <= MaxClients[org'.tier]]_vars

\* A workspace that can be used has all it had: the restore window and the
\* purge never overlap, however late a restore or a purge pass goes on.
RestoredIsWhole == \A w \in Active : ws[w].whole

\* A client workspace runs on its practice's plan limits, whichever of a
\* plan change and its own creation, removal or restore comes first: the
\* sync's InheritPracticePlan cannot see a row that is not committed yet, and
\* the creation that has read the plan keeps the sync waiting.
ClientsFollowPlan ==
  \A w \in Workspaces : ws[w].status \notin {"none", "purged"} => ws[w].tier = org.tier

\* Whatever syncs failed, overtook each other or both added the item, the
\* current subscription ends up with exactly the units to bill ("a safety
\* net for a sync that failed at the moment of a change").
Billed(s) ==
  LET items == stripe[s].items
      present == {i \in DOMAIN items : items[i].qty > 0}
      want == ExtraWorkspaces(org.tier, Cardinality(Active))
  IN  IF want = 0 THEN present = {}
      ELSE \E i \in present : present = {i} /\ items[i] = [tier |-> org.tier, qty |-> want]

UsageConverges ==
  <>[](org.live /\ stripe[org.sub].status = "live" => Billed(org.sub))

\* What the code says of itself and does not keep.  A fetched state stored
\* late overwrites a later one.
RecordsTheTruth == org.sub # Nothing => StateFromSubscription(org.sub) = org
NeverBackwards == [][org.sub # Nothing /\ RecordsTheTruth /\ UNCHANGED stripe => RecordsTheTruth']_vars

\* Two Checkouts completed at once: each cancels the other.
KeepsOnePaid ==
  (\E s \in Subscriptions : stripe[s].status = "canceled")
    => \E s \in Subscriptions : stripe[s].status \in {"live", "lapsed"}
=============================================================================
