--------------------------- MODULE MembershipProofs ---------------------------
(***************************************************************************)
(* Proofs about Membership, for any number of people, events and requests. *)
(***************************************************************************)
EXTENDS Membership, TLAPS

RowValues == Rows \cup {NoRow}

\* A row made by an event, or by the workspace's creation, is well formed.
LEMMA FirstRowType ==
  ASSUME NEW role \in ClerkRoles, NEW at \in 0 .. MaxEvents
  PROVE  /\ FirstRow(role, at) \in Rows
         /\ FirstRow(role, at).admin = isAdminRole(FirstRow(role, at).role)
<1>1. isAdminRole(role) \in BOOLEAN
  BY DEF isAdminRole
<1> QED BY <1>1 DEF FirstRow, Rows, ClerkRoles, validRoles

\* One field of a row that is there is replaced.
LEMMA RowEdits ==
  ASSUME NEW r \in Rows
  PROVE  /\ \A at \in 0 .. MaxEvents : [r EXCEPT !.at = at] \in Rows
         /\ [r EXCEPT !.active = FALSE] \in Rows
         /\ \A at \in 0 .. MaxEvents : [r EXCEPT !.active = FALSE, !.at = at] \in Rows
         /\ \A c \in ClerkRoles : [r EXCEPT !.clerkRole = c] \in Rows
         /\ \A role \in validRoles :
              [r EXCEPT !.role = role, !.admin = isAdminRole(role)] \in Rows
<1>1. \A role \in validRoles : isAdminRole(role) \in BOOLEAN
  BY DEF isAdminRole
<1> QED BY <1>1 DEF Rows

\* An event that is appended leaves the earlier ones as they were.
LEMMA Sending ==
  ASSUME TypeOK, NEW e \in Events, Send(e)
  PROVE  /\ events' \in Seq(Events) /\ Len(events') <= MaxEvents
         /\ DOMAIN events \subseteq DOMAIN events'
         /\ \A i \in DOMAIN events : events'[i] = events[i]
BY BoundsAssumption DEF TypeOK, Send

\* What an event may name: a time within the bound.
LEMMA EventTimes ==
  ASSUME TypeOK, NEW i \in DOMAIN events
  PROVE  /\ i \in 1 .. MaxEvents /\ i \in 0 .. MaxEvents
         /\ events[i] \in Events
BY BoundsAssumption DEF TypeOK

-----------------------------------------------------------------------------
(* Type correctness.                                                       *)

LEMMA TypeInit == Init => TypeOK
<1> SUFFICES ASSUME Init PROVE TypeOK
  OBVIOUS
<1>1. PICK founder \in People, created \in BOOLEAN :
        /\ clerk = [p \in People |-> IF p = founder THEN "admin" ELSE "none"]
        /\ events = <<Joins(founder, "admin")>>
        /\ acked = {} /\ missed = {}
        /\ org = IF created THEN "active" ELSE "absent"
        /\ row = [p \in People |-> IF p = founder /\ created THEN FirstRow("admin", Never) ELSE NoRow]
        /\ request = [p \in People |-> Idle]
        /\ asked = 0
  BY DEF Init
<1>2. FirstRow("admin", Never) \in Rows
  BY FirstRowType, BoundsAssumption DEF Never, ClerkRoles
<1>3. events \in Seq(Events) /\ Len(events) <= MaxEvents
  BY <1>1, BoundsAssumption DEF Joins, Events, ClerkRoles
<1>4. row \in [People -> RowValues]
  BY <1>1, <1>2 DEF RowValues
<1> QED
  BY <1>1, <1>3, <1>4, BoundsAssumption DEF TypeOK, RowValues, ClerkRoles

\* The row an event leaves.
LEMMA HandleRow ==
  ASSUME TypeOK, NEW i \in DOMAIN events, Handle(i)
  PROVE  row' \in [People -> RowValues]
<1> DEFINE e == events[i]
<1>1. e \in Events /\ i \in 0 .. MaxEvents /\ e.person \in People /\ e.role \in ClerkRoles
  BY EventTimes DEF Events
<1>2. row \in [People -> RowValues]
  BY DEF TypeOK, RowValues
<1>3. FirstRow(e.role, i) \in Rows
  BY <1>1, FirstRowType
<1>4. row[e.person].there => row[e.person] \in Rows
  BY <1>1, <1>2 DEF RowValues, NoRow
<1>5. CASE e.type = "upsert"
  <2>1. UpsertUserForMembership(e.person, e.role, i)
    BY <1>5 DEF Handle, upsertMembership
  <2> QED BY <2>1, <1>1, <1>2, <1>3, <1>4, RowEdits DEF UpsertUserForMembership, RowValues
<1>6. CASE e.type = "removed"
  <2>1. SoftDeleteMembership(e.person, i)
    BY <1>6 DEF Handle, softDeleteMembership
  <2> QED BY <2>1, <1>1, <1>2, <1>4, RowEdits DEF SoftDeleteMembership, RowValues
<1>7. CASE e.type = "erased"
  <2>1. EraseUserByClerkUserID(e.person, i)
    BY <1>7 DEF Handle, softDeleteUser
  <2> QED BY <2>1, <1>1, <1>2 DEF EraseUserByClerkUserID, RowValues
<1> QED
  BY <1>1, <1>5, <1>6, <1>7 DEF Events

\* A request that is under way moves on, or is answered.
LEMMA RequestMoves ==
  ASSUME TypeOK, NEW p \in People, request[p] # Idle,
         \/ \E pc \in {"check", "write", "clerk", "record"} : Go(p, pc)
         \/ Answer(p)
  PROVE  request' \in [People -> Requests \cup {Idle}]
<1>1. request[p] \in Requests
  BY DEF TypeOK
<1>2. \A pc \in {"check", "write", "clerk", "record"} : [request[p] EXCEPT !.pc = pc] \in Requests
  BY <1>1 DEF Requests
<1> QED
  BY <1>2 DEF TypeOK, Go, Answer

\* The row an admin's request leaves.
LEMMA RequestRow ==
  ASSUME TypeOK, NEW t \in People,
         \/ \E role \in validRoles : UpdateMemberRoleAndPermissions(t, role)
         \/ \E c \in ClerkRoles : SetMemberClerkRole(t, c)
         \/ DeactivateMember(t)
         \/ UNCHANGED row
  PROVE  row' \in [People -> RowValues]
<1>1. row \in [People -> RowValues]
  BY DEF TypeOK, RowValues
<1>2. row[t].there => row[t] \in Rows
  BY <1>1 DEF RowValues, NoRow
<1> QED
  BY <1>1, <1>2, RowEdits, ZenonT(60)
  DEF UpdateMemberRoleAndPermissions, SetMemberClerkRole, DeactivateMember,
      defaultPermissionsForRole, RowValues

LEMMA ClerkType ==
  ASSUME TypeOK, NEW p \in People,
         ClerkRemove(p) \/ ClerkErase(p) \/ \E role \in ClerkRoles : ClerkUpsert(p, role)
  PROVE  TypeOK'
<1>1. PICK e \in Events : Send(e)
  BY DEF ClerkRemove, ClerkErase, ClerkUpsert, Joins, Leaves, Events, ClerkRoles
<1>2. clerk' \in [People -> ClerkRoles \cup {"none", "gone"}]
  BY DEF TypeOK, ClerkRemove, ClerkErase, ClerkUpsert
<1>3. UNCHANGED <<acked, missed, org, row, request, asked>>
  BY DEF ClerkRemove, ClerkErase, ClerkUpsert
<1> QED
  BY <1>1, <1>2, <1>3, Sending DEF TypeOK

LEMMA HandleType ==
  ASSUME TypeOK, NEW i \in DOMAIN events, Handle(i)
  PROVE  TypeOK'
<1>1. row' \in [People -> RowValues]
  BY HandleRow
<1>2. missed' \subseteq acked' /\ acked' \subseteq DOMAIN events
  BY DEF TypeOK, Handle
<1> QED
  BY <1>1, <1>2 DEF TypeOK, Handle, RowValues

LEMMA BeginType ==
  ASSUME TypeOK, NEW p \in People, NEW t \in People, NEW op \in {"role", "remove"},
         NEW role \in validRoles, Begin(p, op, t, role)
  PROVE  TypeOK'
<1>1. row[p] \in Rows
  BY DEF TypeOK, Begin, ResolveUser, GetActiveUserInOrg, NoRow
<1>2. [pc |-> "check", op |-> op, target |-> t, role |-> role, actor |-> row[p].role] \in Requests
  BY <1>1 DEF Rows, Requests
<1> QED
  BY <1>2, BoundsAssumption DEF TypeOK, Begin

\* The steps of a request that is under way.
RequestStep(p) ==
  \/ CheckRole(p) \/ UpdateRole(p) \/ SyncRole(p) \/ RecordRole(p)
  \/ CheckRemoval(p) \/ SyncRemoval(p) \/ Remove(p) \/ Dies(p)

\* The requests, and what Clerk answers one of them.
LEMMA RequestUnderWay ==
  ASSUME TypeOK, NEW p \in People, RequestStep(p)
  PROVE  /\ request[p] \in Requests /\ request[p] # Idle
         /\ request' \in [People -> Requests \cup {Idle}]
<1>1. request[p] # Idle
  BY DEF RequestStep, CheckRole, UpdateRole, SyncRole, RecordRole, CheckRemoval,
         SyncRemoval, Remove, Dies, Idle
<1>2. (\E pc \in {"check", "write", "clerk", "record"} : Go(p, pc)) \/ Answer(p)
  BY DEF RequestStep, CheckRole, UpdateRole, SyncRole, RecordRole, CheckRemoval,
         SyncRemoval, Remove, Dies, CallClerk
<1> QED
  BY <1>1, <1>2, RequestMoves DEF TypeOK

\* What a request's step leaves of Clerk's record and of the events.
LEMMA RequestClerk ==
  ASSUME TypeOK, NEW p \in People, RequestStep(p)
  PROVE  /\ clerk' \in [People -> ClerkRoles \cup {"none", "gone"}]
         /\ UNCHANGED events \/ \E e \in Events : Send(e)
         /\ UNCHANGED <<acked, missed, org, asked>>
<1>1. request[p] \in Requests
  BY RequestUnderWay
<1>2. CASE SyncRole(p)
  <2>1. clerkRoleFor(request[p].role) \in ClerkRoles
    BY DEF clerkRoleFor, ClerkRoles
  <2>2. Joins(request[p].target, clerkRoleFor(request[p].role)) \in Events
    BY <1>1, <2>1 DEF Joins, Events, Requests
  <2> QED
    BY <1>2, <2>1, <2>2 DEF SyncRole, CallClerk, TypeOK
<1>3. CASE SyncRemoval(p)
  <2>1. Leaves(request[p].target) \in Events
    BY <1>1 DEF Leaves, Events, Requests, ClerkRoles
  <2> QED
    BY <1>3, <2>1 DEF SyncRemoval, CallClerk, TypeOK
<1>4. CASE ~SyncRole(p) /\ ~SyncRemoval(p)
  BY <1>4 DEF RequestStep, CheckRole, UpdateRole, RecordRole, CheckRemoval, Remove, Dies, TypeOK
<1> QED
  BY <1>2, <1>3, <1>4

\* What a request's step writes: at most one row, the target's.
LEMMA RequestWrites ==
  ASSUME TypeOK, NEW p \in People, RequestStep(p)
  PROVE  \E t \in People :
           \/ \E role \in validRoles : UpdateMemberRoleAndPermissions(t, role)
           \/ \E c \in ClerkRoles : SetMemberClerkRole(t, c)
           \/ DeactivateMember(t)
           \/ UNCHANGED row
<1>1. request[p].target \in People /\ request[p].role \in validRoles
  BY RequestUnderWay DEF Requests
<1>2. clerkRoleFor(request[p].role) \in ClerkRoles
  BY DEF clerkRoleFor, ClerkRoles
<1> QED
  BY <1>1, <1>2 DEF RequestStep, CheckRole, UpdateRole, SyncRole, RecordRole, CheckRemoval,
                    SyncRemoval, Remove, Dies, CallClerk

LEMMA RequestType ==
  ASSUME TypeOK, NEW p \in People, RequestStep(p)
  PROVE  TypeOK'
<1>1. row' \in [People -> RowValues]
  BY RequestWrites, RequestRow
<1>2. events' \in Seq(Events) /\ Len(events') <= MaxEvents /\ DOMAIN events \subseteq DOMAIN events'
  BY RequestClerk, Sending DEF TypeOK
<1> QED
  BY <1>1, <1>2, RequestClerk, RequestUnderWay DEF TypeOK, RowValues

\* Every step is one of five: what the other proofs go through.
LEMMA Steps ==
  ASSUME Next
  PROVE  \/ \E p \in People : ClerkRemove(p) \/ ClerkErase(p) \/ \E role \in ClerkRoles : ClerkUpsert(p, role)
         \/ UpsertOrganization \/ SoftDeleteOrganization
         \/ \E i \in DOMAIN events : Handle(i)
         \/ \E p, t \in People, op \in {"role", "remove"}, role \in validRoles : Begin(p, op, t, role)
         \/ \E p \in People : RequestStep(p)
BY DEF Next, RequestStep, validRoles, ClerkRoles

LEMMA TypeNext == TypeOK /\ [Next]_vars => TypeOK'
<1> SUFFICES ASSUME TypeOK, [Next]_vars PROVE TypeOK'
  OBVIOUS
<1>1. ASSUME NEW p \in People,
             ClerkRemove(p) \/ ClerkErase(p) \/ \E role \in ClerkRoles : ClerkUpsert(p, role)
      PROVE  TypeOK'
  BY <1>1, ClerkType
<1>2. CASE UpsertOrganization \/ SoftDeleteOrganization
  BY <1>2 DEF TypeOK, UpsertOrganization, SoftDeleteOrganization
<1>3. ASSUME NEW i \in DOMAIN events, Handle(i) PROVE TypeOK'
  BY <1>3, HandleType
<1>4. ASSUME NEW p \in People, NEW t \in People, NEW op \in {"role", "remove"},
             NEW role \in validRoles, Begin(p, op, t, role)
      PROVE  TypeOK'
  BY <1>4, BeginType
<1>5. ASSUME NEW p \in People, RequestStep(p) PROVE TypeOK'
  BY <1>5, RequestType
<1>6. CASE UNCHANGED vars
  BY <1>6 DEF TypeOK, vars
<1> QED
  BY <1>1, <1>2, <1>3, <1>4, <1>5, <1>6, Steps

\* Every variable keeps its type: rows hold a role and a time an event had,
\* what was missed was answered, what was answered was sent.
THEOREM TypeCorrect == Spec => []TypeOK
BY TypeInit, TypeNext, PTL DEF Spec

-----------------------------------------------------------------------------
(* The permissions.  With the types the property is inductive: each write  *)
(* that sets a role either makes the row anew or sets both.                *)

LEMMA HandlePermissions ==
  ASSUME TypeOK, PermissionsFollowRole, NEW i \in DOMAIN events, Handle(i)
  PROVE  PermissionsFollowRole'
<1> DEFINE e == events[i]
<1>1. e.person \in People /\ e.role \in ClerkRoles /\ i \in 0 .. MaxEvents
  BY EventTimes DEF Events
<1>2. row \in [People -> RowValues]
  BY DEF TypeOK, RowValues
<1>3. row[e.person].there => row[e.person] \in Rows
  BY <1>1, <1>2 DEF RowValues, NoRow
<1>4. FirstRow(e.role, i).admin = isAdminRole(FirstRow(e.role, i).role)
  BY <1>1, FirstRowType
<1>5. CASE e.type = "upsert"
  <2>1. UpsertUserForMembership(e.person, e.role, i)
    BY <1>5 DEF Handle, upsertMembership
  <2>2. \A p \in People : p # e.person => row'[p] = row[p]
    BY <2>1, <1>2 DEF UpsertUserForMembership
  <2>3. \/ row'[e.person] = FirstRow(e.role, i)
        \/ row'[e.person] = row[e.person]
        \/ row[e.person].there /\ row'[e.person] = [row[e.person] EXCEPT !.at = i]
    BY <2>1, <1>1, <1>2 DEF UpsertUserForMembership
  <2>4. row'[e.person].there => row'[e.person].admin = isAdminRole(row'[e.person].role)
    BY <2>3, <1>1, <1>3, <1>4 DEF PermissionsFollowRole, Rows
  <2> QED
    BY <2>2, <2>4 DEF PermissionsFollowRole
<1>6. CASE e.type = "removed"
  <2>1. SoftDeleteMembership(e.person, i)
    BY <1>6 DEF Handle, softDeleteMembership
  <2> QED
    BY <2>1, <1>1, <1>2, <1>3 DEF SoftDeleteMembership, PermissionsFollowRole, Rows
<1>7. CASE e.type = "erased"
  <2>1. EraseUserByClerkUserID(e.person, i)
    BY <1>7 DEF Handle, softDeleteUser
  <2> QED
    BY <2>1, <1>1, <1>2 DEF EraseUserByClerkUserID, PermissionsFollowRole, NoRow
<1> QED
  BY <1>5, <1>6, <1>7, EventTimes DEF Events

LEMMA RequestPermissions ==
  ASSUME TypeOK, PermissionsFollowRole, NEW p \in People, RequestStep(p)
  PROVE  PermissionsFollowRole'
<1>1. row \in [People -> RowValues]
  BY DEF TypeOK, RowValues
<1>2. PICK t \in People :
           \/ \E role \in validRoles : UpdateMemberRoleAndPermissions(t, role)
           \/ \E c \in ClerkRoles : SetMemberClerkRole(t, c)
           \/ DeactivateMember(t)
           \/ UNCHANGED row
  BY RequestWrites
<1>3. row[t].there => row[t] \in Rows
  BY <1>1 DEF RowValues, NoRow
<1>4. \A q \in People : q # t => row'[q] = row[q]
  BY <1>1, <1>2 DEF UpdateMemberRoleAndPermissions, SetMemberClerkRole, DeactivateMember
<1>5. \/ row'[t] = row[t]
      \/ \E role \in validRoles :
           row[t].there /\ row'[t] = [row[t] EXCEPT !.role = role, !.admin = isAdminRole(role)]
      \/ \E c \in ClerkRoles : row[t].there /\ row'[t] = [row[t] EXCEPT !.clerkRole = c]
      \/ row[t].there /\ row'[t] = [row[t] EXCEPT !.active = FALSE]
  BY <1>1, <1>2
  DEF UpdateMemberRoleAndPermissions, SetMemberClerkRole, DeactivateMember, defaultPermissionsForRole
<1>6. row'[t].there => row'[t].admin = isAdminRole(row'[t].role)
  BY <1>5, <1>3 DEF PermissionsFollowRole, Rows
<1> QED
  BY <1>4, <1>6 DEF PermissionsFollowRole

LEMMA PermissionsInit == Init => PermissionsFollowRole
<1>1. FirstRow("admin", Never).admin = isAdminRole(FirstRow("admin", Never).role)
  BY FirstRowType, BoundsAssumption DEF Never, ClerkRoles
<1> QED
  BY <1>1 DEF Init, PermissionsFollowRole, NoRow

LEMMA PermissionsNext == TypeOK /\ PermissionsFollowRole /\ [Next]_vars => PermissionsFollowRole'
<1> SUFFICES ASSUME TypeOK, PermissionsFollowRole, [Next]_vars PROVE PermissionsFollowRole'
  OBVIOUS
<1>1. CASE UNCHANGED row
  BY <1>1 DEF PermissionsFollowRole
<1>2. ASSUME NEW p \in People,
             ClerkRemove(p) \/ ClerkErase(p) \/ \E role \in ClerkRoles : ClerkUpsert(p, role)
      PROVE  UNCHANGED row
  BY <1>2 DEF ClerkRemove, ClerkErase, ClerkUpsert
<1>3. CASE UpsertOrganization \/ SoftDeleteOrganization
  BY <1>1, <1>3 DEF UpsertOrganization, SoftDeleteOrganization
<1>4. ASSUME NEW p \in People, NEW t \in People, NEW op \in {"role", "remove"},
             NEW role \in validRoles, Begin(p, op, t, role)
      PROVE  UNCHANGED row
  BY <1>4 DEF Begin
<1>5. CASE UNCHANGED vars
  BY <1>1, <1>5 DEF vars
<1> QED
  BY <1>1, <1>2, <1>3, <1>4, <1>5, Steps, HandlePermissions, RequestPermissions

\* Nobody keeps an admin's permissions with a lesser role, whatever the
\* number of people, events and requests.
THEOREM PermissionsAlwaysFollowRole == Spec => []PermissionsFollowRole
BY PermissionsInit, PermissionsNext, TypeInit, TypeNext, PTL DEF Spec

-----------------------------------------------------------------------------
(* The removals.  That somebody active was let in by a later event follows *)
(* from the time on the row, so the invariant says where that time comes   *)
(* from and what it is later than.                                         *)

\* An active row has the time of an event that made it so, or of none yet.
LetIn(p) == row[p].there /\ row[p].active => row[p].at = Never \/ row[p].at \in Handled(p, "upsert")

\* Until the account is erased a row is as late as every removal that found
\* it, and no removal found a row that is not there.
AsLate(p) ==
  ~Erased(p) =>
    /\ row[p].there => \A i \in Handled(p, "removed") \ missed : i <= row[p].at
    /\ ~row[p].there => Handled(p, "removed") \subseteq missed

RemovalInv == \A p \in People : LetIn(p) /\ AsLate(p)

LEMMA RemovalInit == Init => RemovalInv
<1>1. FirstRow("admin", Never).at = Never
  BY DEF FirstRow
<1> QED
  BY <1>1 DEF Init, RemovalInv, LetIn, AsLate, Handled, NoRow

\* An event sent changes nothing about those already answered.
LEMMA HandledStays ==
  ASSUME TypeOK, UNCHANGED acked, UNCHANGED events \/ \E e \in Events : Send(e)
  PROVE  \A p \in People : /\ \A type : Handled(p, type)' = Handled(p, type)
                           /\ Erased(p)' = Erased(p)
<1>1. \A i \in acked : events'[i] = events[i]
  BY Sending DEF TypeOK
<1> QED
  BY <1>1 DEF Handled, Erased

\* A row changed by an admin's request keeps its time, and is not made active.
LEMMA RowsKeepTheirTimes ==
  ASSUME TypeOK, RemovalInv, UNCHANGED <<acked, missed>>,
         UNCHANGED events \/ \E e \in Events : Send(e),
         \A p \in People : /\ row'[p].there = row[p].there
                           /\ row[p].there => /\ row'[p].at = row[p].at
                                              /\ row'[p].active => row[p].active
  PROVE  RemovalInv'
<1> SUFFICES ASSUME NEW p \in People PROVE LetIn(p)' /\ AsLate(p)'
  BY DEF RemovalInv
<1>1. LetIn(p) /\ AsLate(p)
  BY DEF RemovalInv
<1>2. /\ Handled(p, "upsert")' = Handled(p, "upsert")
      /\ Handled(p, "removed")' = Handled(p, "removed")
      /\ Erased(p)' = Erased(p)
  BY HandledStays
<1>3. LetIn(p)'
  BY <1>1, <1>2 DEF LetIn
<1>4. AsLate(p)'
  BY <1>1, <1>2 DEF AsLate
<1> QED
  BY <1>3, <1>4

LEMMA RequestRemoval ==
  ASSUME TypeOK, RemovalInv, NEW p \in People, RequestStep(p)
  PROVE  RemovalInv'
<1>1. row \in [People -> RowValues]
  BY DEF TypeOK, RowValues
<1>2. PICK t \in People :
           \/ \E role \in validRoles : UpdateMemberRoleAndPermissions(t, role)
           \/ \E c \in ClerkRoles : SetMemberClerkRole(t, c)
           \/ DeactivateMember(t)
           \/ UNCHANGED row
  BY RequestWrites
<1>3. row[t].there => row[t] \in Rows
  BY <1>1 DEF RowValues, NoRow
<1>4. \A q \in People : q # t => row'[q] = row[q]
  BY <1>1, <1>2 DEF UpdateMemberRoleAndPermissions, SetMemberClerkRole, DeactivateMember
<1>5. \/ row'[t] = row[t]
      \/ \E role \in validRoles :
           row[t].there /\ row'[t] = [row[t] EXCEPT !.role = role, !.admin = isAdminRole(role)]
      \/ \E c \in ClerkRoles : row[t].there /\ row'[t] = [row[t] EXCEPT !.clerkRole = c]
      \/ row[t].there /\ row'[t] = [row[t] EXCEPT !.active = FALSE]
  BY <1>1, <1>2
  DEF UpdateMemberRoleAndPermissions, SetMemberClerkRole, DeactivateMember, defaultPermissionsForRole
<1>6. /\ row'[t].there = row[t].there
      /\ row[t].there => row'[t].at = row[t].at /\ (row'[t].active => row[t].active)
  BY <1>5, <1>3 DEF Rows
<1>7. \A q \in People : /\ row'[q].there = row[q].there
                        /\ row[q].there => /\ row'[q].at = row[q].at
                                           /\ row'[q].active => row[q].active
  BY <1>4, <1>6
<1> QED
  BY <1>7, RequestClerk, RowsKeepTheirTimes

\* An event answered is one more of its type for its person, and no other's.
LEMMA HandledGrows ==
  ASSUME TypeOK, NEW i \in DOMAIN events, Handle(i), NEW p \in People
  PROVE  \A type :
           /\ events[i].person = p /\ events[i].type = type => Handled(p, type)' = Handled(p, type) \cup {i}
           /\ events[i].person # p \/ events[i].type # type => Handled(p, type)' = Handled(p, type)
           /\ Handled(p, type) \subseteq acked
BY DEF Handle, Handled

\* Another person's event leaves a person's row and removals alone.
LEMMA OtherEvents ==
  ASSUME TypeOK, RemovalInv, NEW i \in DOMAIN events, Handle(i),
         NEW p \in People, p # events[i].person
  PROVE  LetIn(p)' /\ AsLate(p)'
<1>1. /\ Handled(p, "upsert")' = Handled(p, "upsert")
      /\ Handled(p, "removed")' = Handled(p, "removed")
      /\ Handled(p, "erased")' = Handled(p, "erased")
  BY HandledGrows
<1>2. row'[p] = row[p]
  <2>1. row \in [People -> RowValues]
    BY DEF TypeOK, RowValues
  <2>2. events[i].type \in {"upsert", "removed", "erased"}
    BY EventTimes DEF Events
  <2> QED
    BY <2>1, <2>2 DEF Handle, upsertMembership, softDeleteMembership, softDeleteUser,
       UpsertUserForMembership, SoftDeleteMembership, EraseUserByClerkUserID
<1>3. missed' = missed \/ missed' = missed \cup ({i} \ acked)
  BY DEF Handle
<1>4. Handled(p, "removed") \ missed' = Handled(p, "removed") \ missed
  <2>1. Handled(p, "removed") \subseteq acked
    BY HandledGrows
  <2> QED
    BY <2>1, <1>3
<1>5. missed \subseteq missed'
  BY <1>3
<1> QED
  BY <1>1, <1>2, <1>4, <1>5 DEF RemovalInv, LetIn, AsLate, Erased

\* The person's own event: let in, taken out, or erased.
LEMMA OwnEvent ==
  ASSUME TypeOK, RemovalInv, NEW i \in DOMAIN events, Handle(i), NEW p \in People, p = events[i].person
  PROVE  LetIn(p)' /\ AsLate(p)'
<1>1. LetIn(p) /\ AsLate(p)
  BY DEF RemovalInv
<1>2. row \in [People -> RowValues] /\ i \in Nat /\ events[i].role \in ClerkRoles
  BY EventTimes, BoundsAssumption DEF TypeOK, RowValues, Events
<1>3. row[p].there => row[p] \in Rows /\ row[p].at \in Nat
  <2>1. row[p].there => row[p] \in Rows
    BY <1>2 DEF RowValues, NoRow
  <2>2. \A r \in Rows : r.at \in Nat
    BY BoundsAssumption DEF Rows
  <2> QED
    BY <2>1, <2>2
<1>4. missed' = IF events[i].type # "upsert" /\ ~row[p].there THEN missed \cup ({i} \ acked) ELSE missed
  BY DEF Handle
<1>5. \A j \in Handled(p, "removed") : j \in Nat
  BY BoundsAssumption DEF Handled, TypeOK
<1>6. CASE events[i].type = "upsert"
  <2>1. UpsertUserForMembership(p, events[i].role, i)
    BY <1>6 DEF Handle, upsertMembership
  <2>2. /\ Handled(p, "upsert")' = Handled(p, "upsert") \cup {i}
        /\ Handled(p, "removed")' = Handled(p, "removed")
        /\ Handled(p, "erased")' = Handled(p, "erased")
    BY <1>6, HandledGrows
  <2>3. missed' = missed
    BY <1>4, <1>6
  <2>4. CASE ~row[p].there
    <3>1. row'[p] = FirstRow(events[i].role, i)
      BY <2>1, <2>4, <1>2 DEF UpsertUserForMembership
    <3>2. row'[p].there /\ row'[p].at = i
      BY <3>1 DEF FirstRow
    <3> QED
      BY <3>2, <2>2, <2>3, <2>4, <1>1 DEF LetIn, AsLate, Erased
  <2>5. CASE row[p].there /\ Stale(p, i)
    <3>1. row'[p] = row[p]
      BY <2>1, <2>5, <1>2 DEF UpsertUserForMembership
    <3> QED
      BY <3>1, <2>2, <2>3, <1>1 DEF LetIn, AsLate, Erased
  <2>6. CASE row[p].there /\ ~Stale(p, i)
    <3>1. row'[p] = FirstRow(events[i].role, i) \/ row'[p] = [row[p] EXCEPT !.at = i]
      BY <2>1, <2>6, <1>2 DEF UpsertUserForMembership
    <3>2. row'[p].there /\ row'[p].at = i
      <4>1. FirstRow(events[i].role, i).there /\ FirstRow(events[i].role, i).at = i
        BY DEF FirstRow
      <4>2. \A r \in Rows : [r EXCEPT !.at = i].there /\ [r EXCEPT !.at = i].at = i
        BY DEF Rows
      <4> QED
        BY <3>1, <4>1, <4>2, <2>6, <1>3
    <3>3. row[p].at <= i
      BY <2>6, <1>2, <1>3 DEF Stale
    <3>4. \A j \in Handled(p, "removed") \ missed : ~Erased(p) => j <= i
      BY <3>3, <2>6, <1>1, <1>2, <1>3, <1>5 DEF AsLate
    <3> QED
      BY <3>2, <3>4, <2>2, <2>3 DEF LetIn, AsLate, Erased
  <2> QED
    BY <2>4, <2>5, <2>6
<1>7. CASE events[i].type = "removed"
  <2>1. SoftDeleteMembership(p, i)
    BY <1>7 DEF Handle, softDeleteMembership
  <2>2. /\ Handled(p, "upsert")' = Handled(p, "upsert")
        /\ Handled(p, "removed")' = Handled(p, "removed") \cup {i}
        /\ Handled(p, "erased")' = Handled(p, "erased")
    BY <1>7, HandledGrows
  <2>3. CASE ~row[p].there
    <3>1. row'[p] = row[p]
      BY <2>1, <2>3 DEF SoftDeleteMembership
    <3>2. ~Erased(p) => Handled(p, "removed")' \subseteq missed'
      <4>1. ~Erased(p) => Handled(p, "removed") \subseteq missed
        BY <2>3, <1>1 DEF AsLate
      <4>2. i \in acked => i \in Handled(p, "removed")
        BY <1>7 DEF Handled
      <4> QED
        BY <4>1, <4>2, <2>2, <2>3, <1>4, <1>7
    <3> QED
      BY <3>1, <3>2, <2>2, <2>3 DEF LetIn, AsLate, Erased
  <2>4. CASE row[p].there /\ Stale(p, i)
    <3>1. row'[p] = row[p] /\ missed' = missed
      BY <2>1, <2>4, <1>4 DEF SoftDeleteMembership
    <3>2. i <= row[p].at
      BY <2>4, <1>2, <1>3 DEF Stale
    <3> QED
      BY <3>1, <3>2, <2>2, <2>4, <1>1 DEF LetIn, AsLate, Erased
  <2>5. CASE row[p].there /\ ~Stale(p, i)
    <3>1. row'[p] = [row[p] EXCEPT !.active = FALSE, !.at = i] /\ missed' = missed
      BY <2>1, <2>5, <1>2, <1>4 DEF SoftDeleteMembership
    <3>2. row'[p].there /\ ~row'[p].active /\ row'[p].at = i
      BY <3>1, <2>5, <1>3 DEF Rows
    <3>3. row[p].at <= i
      BY <2>5, <1>2, <1>3 DEF Stale
    <3>4. \A j \in Handled(p, "removed")' \ missed : ~Erased(p) => j <= i
      BY <3>3, <2>2, <2>5, <1>1, <1>2, <1>3, <1>5 DEF AsLate
    <3> QED
      BY <3>1, <3>2, <3>4, <2>2 DEF LetIn, AsLate, Erased
  <2> QED
    BY <2>3, <2>4, <2>5
<1>8. CASE events[i].type = "erased"
  <2>1. EraseUserByClerkUserID(p, i)
    BY <1>8 DEF Handle, softDeleteUser
  <2>2. i \in Handled(p, "erased")' /\ Handled(p, "upsert")' = Handled(p, "upsert")
    BY <1>8, HandledGrows
  <2>3. row'[p] = NoRow \/ row'[p] = row[p]
    BY <2>1, <1>2 DEF EraseUserByClerkUserID
  <2> QED
    BY <2>2, <2>3, <1>1 DEF LetIn, AsLate, Erased, NoRow
<1> QED
  BY <1>6, <1>7, <1>8, EventTimes DEF Events

LEMMA RemovalNext == TypeOK /\ RemovalInv /\ [Next]_vars => RemovalInv'
<1> SUFFICES ASSUME TypeOK, RemovalInv, [Next]_vars PROVE RemovalInv'
  OBVIOUS
<1>1. ASSUME UNCHANGED <<acked, missed, row>>, UNCHANGED events \/ \E e \in Events : Send(e)
      PROVE  RemovalInv'
  BY <1>1, RowsKeepTheirTimes
<1>2. ASSUME NEW p \in People,
             ClerkRemove(p) \/ ClerkErase(p) \/ \E role \in ClerkRoles : ClerkUpsert(p, role)
      PROVE  RemovalInv'
  <2>1. UNCHANGED <<acked, missed, row>>
    BY <1>2 DEF ClerkRemove, ClerkErase, ClerkUpsert
  <2>2. \E e \in Events : Send(e)
    BY <1>2 DEF ClerkRemove, ClerkErase, ClerkUpsert, Joins, Leaves, Events, ClerkRoles
  <2> QED
    BY <2>1, <2>2, <1>1
<1>3. CASE UpsertOrganization \/ SoftDeleteOrganization
  BY <1>1, <1>3 DEF UpsertOrganization, SoftDeleteOrganization
<1>4. ASSUME NEW i \in DOMAIN events, Handle(i) PROVE RemovalInv'
  BY <1>4, OwnEvent, OtherEvents DEF RemovalInv
<1>5. ASSUME NEW p \in People, NEW t \in People, NEW op \in {"role", "remove"},
             NEW role \in validRoles, Begin(p, op, t, role)
      PROVE  RemovalInv'
  BY <1>1, <1>5 DEF Begin
<1>6. ASSUME NEW p \in People, RequestStep(p) PROVE RemovalInv'
  BY <1>6, RequestRemoval
<1>7. CASE UNCHANGED vars
  BY <1>1, <1>7 DEF vars
<1> QED
  BY <1>2, <1>3, <1>4, <1>5, <1>6, <1>7, Steps

LEMMA RemovalFromInv == TypeOK /\ RemovalInv => RemovalSticks
<1> SUFFICES ASSUME TypeOK, RemovalInv, NEW p \in People,
                    row[p].there, row[p].active, ~Erased(p),
                    NEW i \in Handled(p, "removed") \ missed
             PROVE  \E j \in Handled(p, "upsert") : j > i
  BY DEF RemovalSticks
<1>1. i <= row[p].at
  BY DEF RemovalInv, AsLate
<1>2. row[p].at = Never \/ row[p].at \in Handled(p, "upsert")
  BY DEF RemovalInv, LetIn
<1>3. i \in DOMAIN events /\ events[i].type = "removed"
  BY DEF Handled, TypeOK
<1>4. i \in Nat /\ i >= 1
  BY <1>3, EventTimes, BoundsAssumption
<1>5. row[p].at \in Handled(p, "upsert")
  BY <1>1, <1>2, <1>4 DEF Never
<1>6. row[p].at \in DOMAIN events /\ events[row[p].at].type = "upsert"
  BY <1>5 DEF Handled, TypeOK
<1>7. row[p].at \in Nat /\ row[p].at # i
  BY <1>3, <1>6, EventTimes, BoundsAssumption
<1>8. row[p].at > i
  BY <1>1, <1>4, <1>7
<1> QED
  BY <1>5, <1>8

\* A removal that was applied is undone by a later event only, for any number
\* of people and events, in every order and however often they are delivered,
\* with any number of admins' requests among them, each dying at any point.
THEOREM RemovalAlwaysSticks == Spec => []RemovalSticks
BY RemovalInit, RemovalNext, RemovalFromInv, TypeInit, TypeNext, PTL DEF Spec
===============================================================================
