-------------------------- MODULE ConnectionRefresh --------------------------
(***************************************************************************)
(* One organisation's OAuth connection to one service: a row of            *)
(* mcp_connections, and the provider, which trades each refresh token once *)
(* for a new one.  The refresh job of every API process, tool calls that   *)
(* need a fresh token, GET .../status, DELETE and the OAuth callback all   *)
(* read the row, talk to the provider and write the row back; only the     *)
(* job and the tool calls hold the row's lock meanwhile.                   *)
(***************************************************************************)
EXTENDS Naturals, FiniteSets

CONSTANTS
  Jobs,        \* the refresh job, one per API process
  Calls,       \* tool calls that need the token
  Checks,      \* GET /integrations/{service}/status requests
  Disconnects, \* DELETE /integrations/{service} requests
  Connects,    \* sign-ins under way, each for a grant (or pasted key)
  First,       \* an earlier sign-in
  None,        \* no refresh token; no lock holder
  MaxLapses,   \* how often a token may come nearer its expiry (a bound)
  MaxAborts    \* transactions and requests cut off (a bound)

Workers == Jobs \cup Calls \cup Checks \cup Disconnects \cup Connects

ASSUME WorkersAssumption ==
  /\ Jobs \cap Calls = {} /\ Checks \cap (Jobs \cup Calls) = {}
  /\ Disconnects \cap (Jobs \cup Calls \cup Checks) = {}
  /\ Connects \cap (Jobs \cup Calls \cup Checks \cup Disconnects) = {}
  /\ None \notin Workers /\ First \notin Connects
ASSUME BoundAssumption == MaxLapses \in Nat /\ MaxAborts \in Nat

VARIABLES
  row,      \* the connection
  lock,     \* who holds the row's lock beyond a single statement
  task,     \* where each worker is
  accepted, \* refresh tokens the provider would still accept
  wasted,   \* ghost: tokens that died without a lock holder storing the next
  lapses, aborts

vars == <<row, lock, task, accepted, wasted, lapses, aborts>>

\* gen counts the trades since the sign-in.
Tokens == [grant: Connects \cup {First}, gen: Nat \ {0}]
ASSUME NoneAssumption == None \notin Tokens
MaybeToken == Tokens \cup {None}

\* "soon": inside refreshWindow.  "lapsing": inside onDemandSkew, or expired.
\* "never": token_expires_at is NULL.
Ages == {"never", "fresh", "soon", "lapsing"}

Rows == [there: BOOLEAN, active: BOOLEAN, status: {"connected", "expired", "revoked"},
         tok: MaybeToken, age: Ages]

PCs == {"idle", "present", "write", "mark", "revoke", "deactivate", "done"}

\* tok: the token it read.  got, age: what it will write.  write: the UPDATE at
\* the end of its transaction.
Tasks == [pc: PCs, tok: MaybeToken, got: MaybeToken, age: Ages,
          write: {"nothing", "tokens", "expired"}]

Idle == [pc |-> "idle", tok |-> None, got |-> None, age |-> "fresh", write |-> "nothing"]
Done == [Idle EXCEPT !.pc = "done"]

FirstToken == [grant |-> First, gen |-> 1]

\* Never connected, or connected once, with a token that can be refreshed.
Init ==
  /\ \E there \in BOOLEAN :
       /\ row = [there |-> there, active |-> there, status |-> "connected",
                 tok |-> IF there THEN FirstToken ELSE None,
                 age |-> IF there THEN "fresh" ELSE "never"]
       /\ accepted = IF there THEN {FirstToken} ELSE {}
  /\ lock = None
  /\ task = [w \in Workers |-> Idle]
  /\ wasted = {}
  /\ lapses = 0 /\ aborts = 0

Becomes(w, t) == task' = [task EXCEPT ![w] = t]

\* A single statement waits for whoever holds the row.
Unlocked == lock = None

-----------------------------------------------------------------------------
(* The statements of integrations.sql.                                     *)

\* UpdateConnectionTokens, and ...ByIDSystem: is_active is left alone.
TokensStored(t) == [row EXCEPT !.tok = t, !.age = "fresh", !.status = "connected"]

\* MarkConnectionExpired, and ...ByIDSystem.
Expired == [row EXCEPT !.status = "expired"]

Usable == row.there /\ row.active /\ row.status = "connected"

\* The WHERE clause of ListExpiringConnectionsSystem and of
\* LockConnectionForRefreshSystem.
Expiring == Usable /\ row.age \in {"soon", "lapsing"}

-----------------------------------------------------------------------------
(* The provider.  It never sends an expiry in the past and never refuses a *)
(* token it has issued and that was neither traded nor revoked.            *)

NextToken(t) == [t EXCEPT !.gen = @ + 1]

\* The answer arrives: the traded token is dead, its successor alive.
Trade(t) == accepted' = (accepted \ {t}) \cup {NextToken(t)}

\* RevokeToken: the whole grant dies.
RevokeGrant(t) ==
  LET dead == {u \in accepted : t # None /\ u.grant = t.grant} IN
  accepted' = accepted \ dead /\ wasted' = wasted \cup dead

\* The expiry comes nearer.
Lapse ==
  /\ row.there /\ row.age \in {"fresh", "soon"} /\ lapses < MaxLapses
  /\ row' = [row EXCEPT !.age = IF @ = "fresh" THEN "soon" ELSE "lapsing"]
  /\ lapses' = lapses + 1
  /\ UNCHANGED <<lock, task, accepted, wasted, aborts>>

-----------------------------------------------------------------------------
(* A refresh under the row lock, by the job or by a tool call.             *)

\* RefreshAccessToken was answered, one way or the other: a new token, or
\* invalid_grant (IsPermanentRefreshError).
Answered(w) ==
  LET t == task[w] IN
  /\ lock = w /\ t.pc = "present"
  /\ IF t.tok \in accepted
     THEN /\ Trade(t.tok)
          /\ Becomes(w, [t EXCEPT !.pc = "write", !.write = "tokens", !.got = NextToken(t.tok)])
     ELSE /\ Becomes(w, [t EXCEPT !.pc = "write", !.write = "expired"])
          /\ UNCHANGED accepted
  /\ UNCHANGED <<row, lock, wasted, lapses, aborts>>

\* A timeout, a 5xx or a rate limit: perhaps the provider traded the token
\* before the answer was lost.  Nothing is written.
Unanswered(w) ==
  LET t == task[w] IN
  /\ lock = w /\ t.pc = "present"
  /\ Becomes(w, [t EXCEPT !.pc = "write"])
  /\ \/ UNCHANGED <<accepted, wasted>>
     \/ t.tok \in accepted /\ Trade(t.tok) /\ wasted' = wasted \cup {t.tok}
  /\ UNCHANGED <<row, lock, lapses, aborts>>

\* The row as the transaction of w leaves it.
Written(w) ==
  CASE task[w].write = "tokens"  -> TokensStored(task[w].got)
    [] task[w].write = "expired" -> Expired
    [] OTHER                     -> row

\* Mutant of Claim: neither FOR UPDATE nor SKIP LOCKED.
ClaimUnlocked(j) ==
  /\ task[j].pc = "idle" /\ Expiring
  /\ lock' = j
  /\ Becomes(j, IF row.tok = None
                THEN [Idle EXCEPT !.pc = "write", !.write = "expired"]
                ELSE [Idle EXCEPT !.pc = "present", !.tok = row.tok])
  /\ UNCHANGED <<row, accepted, wasted, lapses, aborts>>

\* Mutant of Claim: a connection that has nothing to refresh with is skipped.
ClaimSkipsBare(j) ==
  /\ task[j].pc = "idle" /\ Expiring /\ Unlocked /\ row.tok # None
  /\ lock' = j
  /\ Becomes(j, [Idle EXCEPT !.pc = "present", !.tok = row.tok])
  /\ UNCHANGED <<row, accepted, wasted, lapses, aborts>>

\* refreshExpiringConnections and refreshConnection.  The scan's rows are only
\* candidates: the claim checks the same condition again, FOR UPDATE, and
\* SKIP LOCKED leaves a row that another worker has for the next tick.
\* Without a refresh token the connection is marked expired.
Claim(j) ==
  /\ task[j].pc = "idle" /\ Expiring /\ Unlocked
  /\ lock' = j
  /\ Becomes(j, IF row.tok = None
                THEN [Idle EXCEPT !.pc = "write", !.write = "expired"]
                ELSE [Idle EXCEPT !.pc = "present", !.tok = row.tok])
  /\ UNCHANGED <<row, accepted, wasted, lapses, aborts>>

JobCommit(j) ==
  /\ lock = j /\ task[j].pc = "write"
  /\ row' = Written(j)
  /\ lock' = None
  /\ Becomes(j, Idle)
  /\ UNCHANGED <<accepted, wasted, lapses, aborts>>

JobStep(j) == Claim(j) \/ JobCommit(j)

GetConnectionByOrgServiceForUpdate == Unlocked

\* GetFreshIntegrationToken, up to the refresh: it waits for the lock, refuses
\* a connection that is not usable, and returns a token that will last or that
\* cannot be refreshed as it is stored.
Fetch(k) ==
  /\ task[k].pc = "idle" /\ GetConnectionByOrgServiceForUpdate
  /\ IF Usable /\ row.age = "lapsing" /\ row.tok # None
     THEN lock' = k /\ Becomes(k, [Idle EXCEPT !.pc = "present", !.tok = row.tok])
     ELSE /\ Becomes(k, IF Usable THEN [Done EXCEPT !.got = row.tok, !.write = "tokens"]
                                  ELSE Done)
          /\ UNCHANGED lock
  /\ UNCHANGED <<row, accepted, wasted, lapses, aborts>>

\* Mutant of CallCommit: the outcome of the commit does not matter.
CallCommitBlind(k) ==
  /\ lock = k /\ task[k].pc = "write"
  /\ \E r \in {row, Written(k)} : row' = r
  /\ lock' = None
  /\ Becomes(k, IF task[k].write = "expired" THEN Done
                ELSE [Done EXCEPT !.write = "tokens",
                        !.got = IF task[k].write = "tokens" THEN task[k].got ELSE task[k].tok])
  /\ UNCHANGED <<accepted, wasted, lapses, aborts>>

\* ... and after it: a dead refresh token is reported, a transient failure
\* hands out the stored token.
CallCommit(k) ==
  /\ lock = k /\ task[k].pc = "write"
  /\ row' = Written(k)
  /\ lock' = None
  /\ Becomes(k, IF task[k].write = "expired" THEN Done
                ELSE [Done EXCEPT !.write = "tokens",
                        !.got = IF task[k].write = "tokens" THEN task[k].got ELSE task[k].tok])
  /\ UNCHANGED <<accepted, wasted, lapses, aborts>>

-----------------------------------------------------------------------------
(* The handlers, which read, ask the provider and write without the lock.  *)

\* GetConnection: the token is there to be used later.
GetConnection(pc) == [Idle EXCEPT !.tok = row.tok, !.pc = pc]

\* Status: a connection that is absent or inactive is reported as stored, and
\* so is one whose access token ValidateToken accepts.  It may fail for any
\* reason; without a refresh token that is the end of the connection.
CheckRead(s) ==
  /\ task[s].pc = "idle"
  /\ \/ Becomes(s, Done)
     \/ /\ row.there /\ row.active
        /\ Becomes(s, GetConnection(IF row.tok = None THEN "mark" ELSE "present"))
  /\ UNCHANGED <<row, lock, accepted, wasted, lapses, aborts>>

\* RefreshAccessToken; any failure, a transient one too, leads to MarkExpired.
CheckPresent(s) ==
  LET t == task[s] IN
  /\ t.pc = "present"
  /\ \/ /\ t.tok \in accepted /\ Trade(t.tok) /\ wasted' = wasted \cup {t.tok}
        /\ \/ Becomes(s, [t EXCEPT !.pc = "write", !.got = NextToken(t.tok)])
           \/ Becomes(s, [t EXCEPT !.pc = "mark"])
     \/ Becomes(s, [t EXCEPT !.pc = "mark"]) /\ UNCHANGED <<accepted, wasted>>
  /\ UNCHANGED <<row, lock, lapses, aborts>>

\* UpdateTokens; if it fails, MarkExpired.
CheckStore(s) ==
  /\ task[s].pc = "write" /\ Unlocked
  /\ \/ row' = TokensStored(task[s].got) /\ Becomes(s, Done)
     \/ Becomes(s, [task[s] EXCEPT !.pc = "mark"]) /\ UNCHANGED row
  /\ UNCHANGED <<lock, accepted, wasted, lapses, aborts>>

\* Mutant of CheckMark: the connection is saved as it was read, as expired.
CheckMarkSaves(s) ==
  /\ task[s].pc = "mark" /\ Unlocked
  /\ row' = [Expired EXCEPT !.tok = task[s].tok]
  /\ Becomes(s, Done)
  /\ UNCHANGED <<lock, accepted, wasted, lapses, aborts>>

CheckMark(s) ==
  /\ task[s].pc = "mark" /\ Unlocked
  /\ row' = Expired
  /\ Becomes(s, Done)
  /\ UNCHANGED <<lock, accepted, wasted, lapses, aborts>>

CheckStep(s) ==
  CheckRead(s) \/ CheckPresent(s) \/ CheckStore(s) \/ CheckMark(s)

\* Disconnect: the connection is read ...
DisconnectRead(d) ==
  /\ task[d].pc = "idle"
  /\ Becomes(d, GetConnection(IF row.there THEN "revoke" ELSE "deactivate"))
  /\ UNCHANGED <<row, lock, accepted, wasted, lapses, aborts>>

\* ... its token revoked, as far as the provider can be reached ...
Revoke(d) ==
  /\ task[d].pc = "revoke"
  /\ RevokeGrant(task[d].tok) \/ UNCHANGED <<accepted, wasted>>
  /\ Becomes(d, [task[d] EXCEPT !.pc = "deactivate"])
  /\ UNCHANGED <<row, lock, lapses, aborts>>

\* ... and the row deactivated.
RevokeConnection == IF row.there THEN [row EXCEPT !.active = FALSE, !.status = "revoked"] ELSE row

Deactivate(d) ==
  /\ task[d].pc = "deactivate" /\ Unlocked
  /\ row' = RevokeConnection
  /\ Becomes(d, Done)
  /\ UNCHANGED <<lock, accepted, wasted, lapses, aborts>>

DisconnectStep(d) == DisconnectRead(d) \/ Revoke(d) \/ Deactivate(d)

\* Callback: ExchangeCode brings a token that can be refreshed, one that
\* cannot; Connect: a pasted key, which has no expiry.
Exchange(c) ==
  /\ task[c].pc = "idle"
  /\ \/ LET t == [grant |-> c, gen |-> 1] IN
        /\ accepted' = accepted \cup {t}
        /\ Becomes(c, [Idle EXCEPT !.pc = "write", !.got = t])
     \/ \E a \in {"fresh", "never"} :
          Becomes(c, [Idle EXCEPT !.pc = "write", !.age = a]) /\ UNCHANGED accepted
  /\ UNCHANGED <<row, lock, wasted, lapses, aborts>>

UpsertConnection(t) ==
  [there |-> TRUE, active |-> TRUE, status |-> "connected", tok |-> t.got, age |-> t.age]

\* SaveConnection.
Save(c) ==
  /\ task[c].pc = "write" /\ Unlocked
  /\ row' = UpsertConnection(task[c])
  /\ Becomes(c, Done)
  /\ UNCHANGED <<lock, accepted, wasted, lapses, aborts>>

-----------------------------------------------------------------------------
\* The process of a lock holder dies, its request is cancelled, or its
\* transaction fails: Postgres rolls back and frees the row, and a token it had
\* just been given is lost.  A job starts over at its next tick.  (A handler
\* that dies is one that takes no more steps.)
Abort(w) ==
  /\ lock = w /\ aborts < MaxAborts
  /\ aborts' = aborts + 1
  /\ lock' = None
  /\ Becomes(w, IF w \in Jobs THEN Idle ELSE Done)
  /\ wasted' = IF task[w].write = "tokens" THEN wasted \cup {task[w].tok} ELSE wasted
  /\ UNCHANGED <<row, accepted, lapses>>

Next ==
  \/ \E w \in Jobs \cup Calls : Answered(w) \/ Unanswered(w) \/ Abort(w)
  \/ \E j \in Jobs : JobStep(j)
  \/ \E k \in Calls : Fetch(k) \/ CallCommit(k)
  \/ \E s \in Checks : CheckStep(s)
  \/ \E d \in Disconnects : DisconnectStep(d)
  \/ \E c \in Connects : Exchange(c) \/ Save(c)
  \/ Lapse

Spec == Init /\ [][Next]_vars

\* The jobs tick, a tool call goes on, and the provider does not leave every
\* single refresh unanswered.
FairSpec ==
  /\ Spec
  /\ \A j \in Jobs : WF_vars(JobStep(j)) /\ SF_vars(Answered(j))
  /\ \A k \in Calls : WF_vars(CallCommit(k)) /\ WF_vars(Answered(k))

-----------------------------------------------------------------------------
(* Properties.                                                             *)

\* The shape of the state; a worker between two statements of its transaction
\* holds the row's lock.
TypeOK ==
  /\ row \in Rows
  /\ lock \in Workers \cup {None}
  /\ task \in [Workers -> Tasks]
  /\ accepted \subseteq Tokens /\ wasted \subseteq Tokens
  /\ lapses \in 0 .. MaxLapses /\ aborts \in 0 .. MaxAborts
  /\ \A w \in Jobs \cup Calls : task[w].pc \in {"present", "write"} <=> lock = w

\* The job and the tool calls mark a connection expired only when its refresh
\* token was really lost: traded by a status request, traded without an answer
\* or in a transaction that failed, revoked, or never there.  Never because
\* two of them presented it (refreshConnection: "breaking a healthy
\* connection").
OnlyLostTokensExpire ==
  \A w \in Jobs \cup Calls :
    task[w].pc = "write" /\ task[w].write = "expired" =>
      task[w].tok = None \/ task[w].tok \in wasted

\* A tool call is handed the token that is stored at that moment, of a
\* connection that is connected and not disconnected at that moment, whatever
\* the handlers and the other refreshers did since it started.
CallsGetTheStoredToken ==
  [][\A k \in Calls :
       task[k].pc # "done" /\ task'[k].pc = "done" /\ task'[k].write = "tokens" =>
         row'.active /\ row'.status = "connected" /\ row'.tok = task'[k].got]_vars

\* Within one sign-in the stored token only ever gives way to a later one: a
\* refresh is never undone by the write of someone who read the row before it
\* (UpdateTokens and MarkExpired run without the lock, on what Status read).
RefreshIsNotUndone ==
  [][row'.tok # row.tok /\ row.tok # None /\ row'.tok # None
       => row'.tok.grant # row.tok.grant \/ row'.tok.gen > row.tok.gen]_vars

\* A connection that comes near its expiry does not stay so: it is refreshed,
\* marked expired or disconnected (RefreshInterval and refreshWindow: "so a
\* token can't slip between two scans").
ExpiringIsSettled == Expiring ~> ~Expiring
=============================================================================
