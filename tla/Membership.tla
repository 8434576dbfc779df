----------------------------- MODULE Membership ------------------------------
(***************************************************************************)
(* One workspace's members: the users rows that Clerk's webhooks and the   *)
(* workspace's own admins both write.  A webhook is delivered at least     *)
(* once, in any order, so the time an event happened decides what it may   *)
(* change; an admin's request is a read, a call to Clerk and a write, and  *)
(* Clerk answers that call with one more webhook.                          *)
(* The three permission columns always move together and are one flag.     *)
(***************************************************************************)
EXTENDS Naturals, FiniteSets, Sequences

CONSTANTS
  People,
  MaxEvents, MaxRequests   \* bounds

ASSUME BoundsAssumption == MaxEvents \in Nat \ {0} /\ MaxRequests \in Nat

VARIABLES
  clerk,    \* what Clerk says of each person's membership
  events,   \* the events Clerk has sent, oldest first: an index is a time
  acked,    \* the events answered with a 200
  missed,   \* the removals among them that found no row (history)
  org,      \* the organizations row
  row,      \* users rows, by clerk_user_id
  request,  \* the admin request each person has under way
  asked     \* how many requests have been made

vars == <<clerk, events, acked, missed, org, row, request, asked>>

ClerkRoles == {"admin", "member"}
validRoles == ClerkRoles \cup {"owner", "viewer"}
isAdminRole(role) == role \in {"owner", "admin"}
clerkRoleFor(role) == IF isAdminRole(role) THEN "admin" ELSE "member"

Never == 0   \* clerk_event_at is NULL
NoRow == [there |-> FALSE]
Idle == [pc |-> "idle"]

Events == [type: {"upsert", "removed", "erased"}, person: People, role: ClerkRoles]
Rows == [there: {TRUE}, active: BOOLEAN, role: validRoles, admin: BOOLEAN,
         clerkRole: ClerkRoles, at: 0 .. MaxEvents]
Requests == [pc: {"check", "write", "clerk", "record"}, op: {"role", "remove"},
             target: People, role: validRoles, actor: validRoles]

TypeOK ==
  /\ clerk \in [People -> ClerkRoles \cup {"none", "gone"}]
  /\ events \in Seq(Events) /\ Len(events) <= MaxEvents
  /\ missed \subseteq acked /\ acked \subseteq DOMAIN events
  /\ org \in {"absent", "active", "inactive"}
  /\ row \in [People -> Rows \cup {NoRow}]
  /\ request \in [People -> Requests \cup {Idle}]
  /\ asked \in 0 .. MaxRequests

Joins(p, role) == [type |-> "upsert", person |-> p, role |-> role]
Leaves(p) == [type |-> "removed", person |-> p, role |-> "member"]

FirstRow(role, at) ==
  [there |-> TRUE, active |-> TRUE, role |-> role, admin |-> isAdminRole(role),
   clerkRole |-> role, at |-> at]

\* The founder's organization exists at Clerk and its first event is sent.
\* A client workspace already has its rows (CreateClientWorkspace writes
\* them), any other organization waits for the webhooks.
Init ==
  \E founder \in People, created \in BOOLEAN :
    /\ clerk = [p \in People |-> IF p = founder THEN "admin" ELSE "none"]
    /\ events = <<Joins(founder, "admin")>>
    /\ acked = {} /\ missed = {}
    /\ org = IF created THEN "active" ELSE "absent"
    /\ row = [p \in People |-> IF p = founder /\ created THEN FirstRow("admin", Never) ELSE NoRow]
    /\ request = [p \in People |-> Idle]
    /\ asked = 0

-----------------------------------------------------------------------------
\* Clerk: people join, are given roles, leave, delete their accounts.

Send(e) ==
  /\ Len(events) < MaxEvents
  /\ events' = Append(events, e)

ClerkUpsert(p, role) ==
  /\ clerk[p] \notin {role, "gone"}
  /\ clerk' = [clerk EXCEPT ![p] = role]
  /\ Send(Joins(p, role))
  /\ UNCHANGED <<acked, missed, org, row, request, asked>>

ClerkRemove(p) ==
  /\ clerk[p] \in ClerkRoles
  /\ clerk' = [clerk EXCEPT ![p] = "none"]
  /\ Send(Leaves(p))
  /\ UNCHANGED <<acked, missed, org, row, request, asked>>

ClerkErase(p) ==
  /\ clerk[p] # "gone"
  /\ clerk' = [clerk EXCEPT ![p] = "gone"]
  /\ Send([type |-> "erased", person |-> p, role |-> "member"])
  /\ UNCHANGED <<acked, missed, org, row, request, asked>>

-----------------------------------------------------------------------------
\* POST /api/webhooks/clerk.

\* organization.created and .updated leave is_active alone when the row is
\* there; .deleted needs it there.
UpsertOrganization ==
  /\ org = "absent"
  /\ org' = "active"
  /\ UNCHANGED <<clerk, events, acked, missed, row, request, asked>>

SoftDeleteOrganization ==
  /\ org = "active"
  /\ org' = "inactive"
  /\ UNCHANGED <<clerk, events, acked, missed, row, request, asked>>

Stale(p, at) == row[p].at > at

UpsertRoleOnly(p, role, at) ==
  row' = [row EXCEPT ![p] =
    IF ~@.there THEN FirstRow(role, at)
    ELSE IF Stale(p, at) THEN @
    ELSE [@ EXCEPT !.at = at, !.active = TRUE, !.role = role, !.clerkRole = role]]
UpsertUserForMembership(p, role, at) ==
  row' = [row EXCEPT ![p] =
    IF ~@.there THEN FirstRow(role, at)
    ELSE IF Stale(p, at) THEN @
    ELSE IF ~@.active \/ @.clerkRole # role THEN FirstRow(role, at)
    ELSE [@ EXCEPT !.at = at]]


SoftDeleteUndated(p, at) ==
  row' = IF row[p].there /\ ~Stale(p, at) THEN [row EXCEPT ![p].active = FALSE] ELSE row

SoftDeleteMembership(p, at) ==
  row' = IF row[p].there /\ ~Stale(p, at)
         THEN [row EXCEPT ![p].active = FALSE, ![p].at = at] ELSE row

\* The row stays for its history under another clerk_user_id, which no event
\* names any more.
EraseUserByClerkUserID(p, at) ==
  row' = IF row[p].there /\ ~Stale(p, at) THEN [row EXCEPT ![p] = NoRow] ELSE row

\* 422 while the organization is not there yet, for Clerk to send it again.
GetOrganizationIDByClerkOrgID == org # "absent"
upsertMembership(e, at) == GetOrganizationIDByClerkOrgID /\ UpsertUserForMembership(e.person, e.role, at)
softDeleteMembership(e, at) == SoftDeleteMembership(e.person, at)
softDeleteUser(e, at) == EraseUserByClerkUserID(e.person, at)

\* An event is applied, or is stale, and either way answered.  An answer that
\* is lost, or a replay by hand, delivers it once more.
Handle(i) ==
  LET e == events[i]
  IN  /\ CASE e.type = "upsert" -> upsertMembership(e, i)
           [] e.type = "removed" -> softDeleteMembership(e, i)
           [] e.type = "erased" -> softDeleteUser(e, i)
      /\ acked' = acked \cup {i}
      /\ missed' = IF e.type # "upsert" /\ ~row[e.person].there THEN missed \cup ({i} \ acked) ELSE missed
      /\ UNCHANGED <<clerk, events, org, request, asked>>

-----------------------------------------------------------------------------
\* The workspace's admins.

\* A session is a person's while the workspace and the row are active.
GetActiveOrganizationByClerkOrgID == org = "active"
GetActiveUserInOrg(p) == row[p].there /\ row[p].active
ResolveUser(p) == GetActiveOrganizationByClerkOrgID /\ GetActiveUserInOrg(p)

canTouchOwnerRole(actor, targetRole, newRole) ==
  "owner" \in {targetRole, newRole} => actor = "owner"

GetOrgMemberForUpdate(t) == row[t].there /\ row[t].active
ListOrgMembers == {p \in People : row[p].there /\ row[p].active}
hasOtherAdmin(p) == \E q \in ListOrgMembers \ {p} : isAdminRole(row[q].role)

Go(p, pc) == request' = [request EXCEPT ![p].pc = pc]
Answer(p) == request' = [request EXCEPT ![p] = Idle]

\* RequireAuth and the checks that need no row but the caller's.
Begin(p, op, t, role) ==
  /\ asked < MaxRequests /\ asked' = asked + 1
  /\ request[p] = Idle
  /\ ResolveUser(p) /\ isAdminRole(row[p].role)
  /\ op = "remove" => t # p
  /\ request' = [request EXCEPT ![p] =
       [pc |-> "check", op |-> op, target |-> t, role |-> role, actor |-> row[p].role]]
  /\ UNCHANGED <<clerk, events, acked, missed, org, row>>

\* What the transaction reads before it writes; nothing it reads is locked.
CheckRole(p) ==
  LET r == request[p]
  IN  /\ r.pc = "check" /\ r.op = "role"
      /\ IF /\ GetOrgMemberForUpdate(r.target)
            /\ canTouchOwnerRole(r.actor, row[r.target].role, r.role)
            /\ r.target = p /\ ~isAdminRole(r.role) => hasOtherAdmin(p)
         THEN Go(p, "write") ELSE Answer(p)
      /\ UNCHANGED <<clerk, events, acked, missed, org, row, asked>>

CheckRemoval(p) ==
  LET r == request[p]
  IN  /\ r.pc = "check" /\ r.op = "remove"
      /\ IF /\ GetOrgMemberForUpdate(r.target)
            /\ canTouchOwnerRole(r.actor, row[r.target].role, "none")
         THEN Go(p, "clerk") ELSE Answer(p)
      /\ UNCHANGED <<clerk, events, acked, missed, org, row, asked>>

defaultPermissionsForRole(role) == isAdminRole(role)

\* The row may have gone (erased) since.  A row erased and inserted anew
\* counts as the one the request read, which only adds behaviours.
UpdateMemberRoleAndPermissions(t, role) ==
  row' = IF row[t].there
         THEN [row EXCEPT ![t].role = role, ![t].admin = defaultPermissionsForRole(role)] ELSE row

UpdateRole(p) ==
  /\ request[p].pc = "write"
  /\ UpdateMemberRoleAndPermissions(request[p].target, request[p].role)
  /\ Go(p, "clerk")
  /\ UNCHANGED <<clerk, events, acked, missed, org, asked>>

\* Clerk's own record changes and a webhook is on its way.  A role that
\* Clerk does not take stands here all the same; a removal it does not take
\* ends the request.
CallClerk(p, status, event) ==
  /\ request[p].pc = "clerk"
  /\ \/ Answer(p) /\ UNCHANGED <<clerk, events>>
     \/ /\ clerk[event.person] \in ClerkRoles
        /\ clerk' = [clerk EXCEPT ![event.person] = status]
        /\ Send(event)
        /\ Go(p, "record")
  /\ UNCHANGED <<acked, missed, org, row, asked>>

SyncRole(p) ==
  /\ request[p] # Idle /\ request[p].op = "role"
  /\ LET role == clerkRoleFor(request[p].role)
     IN  CallClerk(p, role, Joins(request[p].target, role))

SyncRemoval(p) ==
  /\ request[p] # Idle /\ request[p].op = "remove"
  /\ CallClerk(p, "none", Leaves(request[p].target))

SetMemberClerkRole(t, role) ==
  row' = IF row[t].there THEN [row EXCEPT ![t].clerkRole = role] ELSE row

DeactivateMember(t) ==
  row' = IF row[t].there THEN [row EXCEPT ![t].active = FALSE] ELSE row

\* The write after Clerk's answer, which may fail.
RecordRole(p) ==
  LET r == request[p]
  IN  /\ r.pc = "record" /\ r.op = "role"
      /\ SetMemberClerkRole(r.target, clerkRoleFor(r.role)) \/ UNCHANGED row
      /\ Answer(p)
      /\ UNCHANGED <<clerk, events, acked, missed, org, asked>>

Remove(p) ==
  LET r == request[p]
  IN  /\ r.pc = "record" /\ r.op = "remove"
      /\ DeactivateMember(r.target) \/ UNCHANGED row
      /\ Answer(p)
      /\ UNCHANGED <<clerk, events, acked, missed, org, asked>>

\* The process dies under the request.
Dies(p) ==
  /\ request[p] # Idle
  /\ Answer(p)
  /\ UNCHANGED <<clerk, events, acked, missed, org, row, asked>>

-----------------------------------------------------------------------------
Next ==
  \/ \E p \in People : ClerkRemove(p) \/ ClerkErase(p) \/ \E role \in ClerkRoles : ClerkUpsert(p, role)
  \/ UpsertOrganization \/ SoftDeleteOrganization
  \/ \E i \in DOMAIN events : Handle(i)
  \/ \E p, t \in People :
       Begin(p, "remove", t, "member") \/ \E role \in validRoles : Begin(p, "role", t, role)
  \/ \E p \in People : CheckRole(p) \/ UpdateRole(p) \/ SyncRole(p) \/ RecordRole(p)
  \/ \E p \in People : CheckRemoval(p) \/ SyncRemoval(p) \/ Remove(p) \/ Dies(p)

Spec == Init /\ [][Next]_vars

-----------------------------------------------------------------------------
Handled(p, type) == {i \in acked : events[i].person = p /\ events[i].type = type}
Erased(p) == Handled(p, "erased") # {}

\* A removal that was applied stands against every older event, however often
\* and in whatever order they are delivered, and whatever admins write
\* meanwhile: whoever is active again was let in by a later event ("a retried
\* 'created' can't undo a later removal").
RemovalSticks ==
  \A p \in People : row[p].there /\ row[p].active /\ ~Erased(p) =>
    \A i \in Handled(p, "removed") \ missed : \E j \in Handled(p, "upsert") : j > i

\* Nobody keeps an admin's permissions with a lesser role, or the reverse,
\* through demotions, removals, invitations anew and late webhooks ("a former
\* admin/owner who was removed and later re-invited as a plain member kept
\* their old admin-era flags forever").
PermissionsFollowRole ==
  \A p \in People : row[p].there => row[p].admin = isAdminRole(row[p].role)

\* What the code says of itself and does not keep (the README has the
\* behaviours).  A removal delivered before the membership it ends.
RemovalIsSeen ==
  \A p \in People : row[p].there /\ row[p].active /\ ~Erased(p) =>
    \A i \in Handled(p, "removed") : \E j \in Handled(p, "upsert") : j > i

\* An erased account whose older event is delivered late.
ErasureIsFinal == \A p \in People : Erased(p) => ~row[p].there

\* A role set here that Clerk has confirmed, and the webhook that echoes it.
RoleStands ==
  [][\A p \in People, i \in DOMAIN events :
       LET t == request[p].target
       IN  request[p].pc = "record" /\ request[p].op = "role" /\ row[t].there /\ row[t].role = request[p].role
           /\ i = Len(events) /\ events[i] = Joins(t, clerkRoleFor(request[p].role))
           /\ i \in acked' \ acked
             => row'[t].role = row[t].role]_vars

\* Two admins who each step down, or demote each other, at the same time.
KeepsAnAdmin ==
  [][(\E p \in People : UpdateRole(p)) /\ (\E p \in ListOrgMembers : isAdminRole(row[p].role))
       => \E p \in ListOrgMembers' : isAdminRole(row'[p].role)]_vars
=============================================================================
