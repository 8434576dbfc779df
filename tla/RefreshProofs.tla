----------------------------- MODULE RefreshProofs -----------------------------
(***************************************************************************)
(* Proofs about ConnectionRefresh: why a refresh never breaks a healthy    *)
(* connection, for any number of jobs, tool calls, status requests,        *)
(* disconnects and sign-ins.                                               *)
(***************************************************************************)
EXTENDS ConnectionRefresh, TLAPS

Holders == Jobs \cup Calls

-----------------------------------------------------------------------------
(* The inductive invariant.                                                *)

\* A token that is about to be stored.
Pending(w) == task[w].pc = "write" /\ task[w].got # None

Seen == {row.tok} \cup {task[w].tok : w \in Workers} \cup {task[w].got : w \in Workers}
SeenByOthers(w) ==
  {row.tok} \cup {task[x].tok : x \in Workers} \cup {task[x].got : x \in Workers \ {w}}

\* Each grant has at most one token that is accepted, and it is the latest.
GrantInv ==
  /\ \A t, u \in accepted : t.grant = u.grant => t = u
  /\ \A t \in accepted, u \in Seen \ {None} : u.grant = t.grant => u.gen <= t.gen
  /\ \A c \in Connects : task[c].pc = "idle" =>
       \A t \in accepted \cup (Seen \ {None}) : t.grant # c

\* Nobody can trade a token that is not stored yet, and so it stays the latest.
Latest(g) ==
  /\ \A t \in accepted : t.grant = g.grant => t = g
  /\ \A u \in Seen \ {None} : u.grant = g.grant => u.gen <= g.gen

PendingInv ==
  \A w \in Workers : Pending(w) =>
    /\ task[w].got \in accepted \cup wasted /\ task[w].got \notin SeenByOthers(w)
    /\ Latest(task[w].got)

\* The stored token is accepted, lost, or about to be replaced by the holder
\* of the lock, who traded it.
StoredInv ==
  \/ row.tok \in {None} \cup accepted \cup wasted
  \/ \E w \in Holders : lock = w /\ task[w].pc = "write" /\ task[w].write = "tokens" /\ task[w].tok = row.tok

\* The holder of the lock has the token that is stored, of a connection that
\* it found usable.
HolderInv ==
  \A w \in Holders :
    /\ task[w].pc \in {"present", "write"} => task[w].tok = row.tok /\ Usable
    /\ task[w].pc = "present" => row.tok # None /\ task[w].got = None /\ task[w].write = "nothing"
    /\ task[w].pc = "write" =>
         /\ task[w].write = "tokens" <=> task[w].got # None
         /\ task[w].write = "tokens" => task[w].tok # None

RefreshInv == TypeOK /\ GrantInv /\ PendingInv /\ StoredInv /\ HolderInv /\ OnlyLostTokensExpire

LEMMA HoldersAreWorkers ==
  /\ Holders \subseteq Workers /\ None \notin Workers /\ None \notin Tokens
  /\ \A w \in Checks \cup Disconnects \cup Connects : w \in Workers /\ w \notin Holders
  /\ \A w \in Holders \cup Checks \cup Disconnects : w \notin Connects
<1>1. /\ Jobs \cap Checks = {} /\ Jobs \cap Disconnects = {} /\ Jobs \cap Connects = {}
      /\ Calls \cap Checks = {} /\ Calls \cap Disconnects = {} /\ Calls \cap Connects = {}
      /\ Checks \cap Connects = {} /\ Disconnects \cap Connects = {}
  BY WorkersAssumption
<1> QED
  BY <1>1, WorkersAssumption, NoneAssumption DEF Holders, Workers

LEMMA IdleType == Idle \in Tasks /\ Done \in Tasks
BY DEF Idle, Done, Tasks, PCs, MaybeToken, Ages

LEMMA InvInit == Init => RefreshInv
<1> SUFFICES ASSUME Init PROVE RefreshInv
  OBVIOUS
<1>1. PICK there \in BOOLEAN :
        /\ row = [there |-> there, active |-> there, status |-> "connected",
                  tok |-> IF there THEN FirstToken ELSE None,
                  age |-> IF there THEN "fresh" ELSE "never"]
        /\ accepted = IF there THEN {FirstToken} ELSE {}
  BY DEF Init
<1>2. FirstToken \in Tokens /\ FirstToken.grant = First /\ FirstToken.gen = 1
  BY DEF FirstToken, Tokens
<1>3. \A w \in Workers : task[w] = Idle
  BY DEF Init
<1>4. TypeOK
  <2>1. row \in Rows
    BY <1>1, <1>2 DEF Rows, MaybeToken, Ages
  <2>2. accepted \subseteq Tokens /\ wasted \subseteq Tokens
    BY <1>1, <1>2 DEF Init
  <2>3. lapses \in 0 .. MaxLapses /\ aborts \in 0 .. MaxAborts
    BY BoundAssumption DEF Init
  <2>4. task \in [Workers -> Tasks] /\ lock = None
    BY IdleType DEF Init
  <2>5. \A w \in Jobs \cup Calls : task[w].pc \in {"present", "write"} <=> lock = w
    BY <1>3, <2>4, HoldersAreWorkers DEF Idle, Holders
  <2> QED
    BY <2>1, <2>2, <2>3, <2>4, <2>5 DEF TypeOK
<1>5. Seen \subseteq {None, row.tok}
  BY <1>3 DEF Seen, Idle
<1>6. GrantInv
  BY <1>1, <1>2, <1>5, WorkersAssumption DEF GrantInv
<1>7. PendingInv
  BY <1>3 DEF PendingInv, Pending, Idle
<1>8. StoredInv
  BY <1>1 DEF StoredInv
<1>9. HolderInv
  BY <1>3, HoldersAreWorkers DEF HolderInv, Idle
<1>10. OnlyLostTokensExpire
  BY <1>3, HoldersAreWorkers DEF OnlyLostTokensExpire, Idle, Holders
<1> QED
  BY <1>4, <1>6, <1>7, <1>8, <1>9, <1>10 DEF RefreshInv

-----------------------------------------------------------------------------
(* The kinds of steps, by what they do to the tokens.                      *)

LEMMA SeenType == TypeOK => Seen \subseteq MaybeToken
BY DEF TypeOK, Seen, Tasks, Rows

\* No token is traded: the worker reads the row, writes what it got, or
\* gives up.
LEMMA QuietTokens ==
  ASSUME RefreshInv, NEW w \in Workers, UNCHANGED accepted, wasted \subseteq wasted',
         \A x \in Workers \ {w} : task'[x] = task[x],
         row'.tok = row.tok \/ (Pending(w) /\ row'.tok = task[w].got) \/ row'.tok = None,
         task'[w].tok \in {None, row.tok, task[w].tok},
         task'[w].got \in {None, row.tok, task[w].tok, task[w].got},
         ~Pending(w)',
         w \in Connects /\ task'[w].pc = "idle" => task[w].pc = "idle"
  PROVE  GrantInv' /\ PendingInv'
<1>1. Seen' \subseteq Seen \cup {None}
  <2>1. row'.tok \in Seen \cup {None}
    BY DEF Seen
  <2>2. \A x \in Workers : task'[x].tok \in Seen \cup {None} /\ task'[x].got \in Seen \cup {None}
    BY DEF Seen
  <2> QED
    BY <2>1, <2>2 DEF Seen
<1>2. GrantInv'
  <2>1. \A c \in Connects : task'[c].pc = "idle" => task[c].pc = "idle"
    BY DEF Workers
  <2> QED
    BY <1>1, <2>1 DEF RefreshInv, GrantInv
<1>3. ASSUME NEW x \in Workers, Pending(x)'
      PROVE  /\ task'[x].got \in accepted' \cup wasted' /\ task'[x].got \notin SeenByOthers(x)'
             /\ \A a \in accepted' : a.grant = task'[x].got.grant => a = task'[x].got
             /\ \A u \in Seen' \ {None} : u.grant = task'[x].got.grant => u.gen <= task'[x].got.gen
  <2>1. x # w /\ task'[x] = task[x] /\ Pending(x)
    BY <1>3 DEF Pending
  <2>2. /\ task[x].got \in accepted \cup wasted /\ task[x].got \notin SeenByOthers(x) /\ task[x].got # None
        /\ Latest(task[x].got)
    BY <2>1 DEF RefreshInv, PendingInv, Pending
  <2>3. SeenByOthers(x)' \subseteq SeenByOthers(x) \cup {None}
    BY <2>1 DEF SeenByOthers
  <2> QED
    BY <1>1, <2>1, <2>2, <2>3 DEF Latest
<1> QED
  BY <1>2, <1>3 DEF PendingInv, Latest

LEMMA NextTokenType ==
  ASSUME NEW t \in Tokens
  PROVE  NextToken(t) \in Tokens /\ NextToken(t).grant = t.grant /\ NextToken(t).gen = t.gen + 1 /\ NextToken(t) # None
BY NoneAssumption DEF NextToken, Tokens

\* A token is traded: its successor is later than any of the grant seen.
LEMMA TradeTokens ==
  ASSUME RefreshInv, NEW w \in Workers, task[w].tok \in accepted, Trade(task[w].tok), wasted \subseteq wasted',
         UNCHANGED row, ~Pending(w),
         \A x \in Workers \ {w} : task'[x] = task[x],
         task'[w].tok = task[w].tok,
         task'[w].got \in {task[w].got, NextToken(task[w].tok)},
         Pending(w)' => task'[w].got = NextToken(task[w].tok),
         w \notin Connects
  PROVE  GrantInv' /\ PendingInv'
<1> DEFINE t == task[w].tok
           n == NextToken(t)
<1>1. accepted' = (accepted \ {t}) \cup {n} /\ accepted \subseteq Tokens /\ t \in Tokens
  BY DEF Trade, RefreshInv, TypeOK
<1>2. n \in Tokens /\ n.grant = t.grant /\ n.gen = t.gen + 1 /\ n # None
  BY <1>1, NextTokenType
<1> HIDE DEF n
<1>3. Seen' \subseteq Seen \cup {n}
  BY DEF Seen, n
<1>4. \A u \in Seen \ {None} : u \in Tokens /\ u.gen \in Nat /\ (u.grant = t.grant => u.gen <= t.gen)
  BY SeenType DEF RefreshInv, GrantInv, MaybeToken, Tokens
<1>5. n \notin Seen
  BY <1>1, <1>2, <1>4 DEF Tokens
<1>6. \A a \in accepted : a # t => a.grant # t.grant
  BY DEF RefreshInv, GrantInv
<1>7. \A a, b \in accepted' : a.grant = b.grant => a = b
  BY <1>1, <1>2, <1>6 DEF RefreshInv, GrantInv
<1>8. \A a \in accepted', u \in Seen' \ {None} : u.grant = a.grant => u.gen <= a.gen
  <2> SUFFICES ASSUME NEW a \in accepted', NEW u \in Seen' \ {None}, u.grant = a.grant PROVE u.gen <= a.gen
    OBVIOUS
  <2>1. CASE a = n /\ u = n
    BY <1>2, <2>1 DEF Tokens
  <2>2. CASE a = n /\ u # n
    BY <1>1, <1>2, <1>3, <1>4, <2>2 DEF Tokens
  <2>3. CASE a # n
    BY <1>1, <1>2, <1>3, <1>6, <2>3 DEF RefreshInv, GrantInv
  <2> QED
    BY <2>1, <2>2, <2>3
<1>9. \A c \in Connects : task'[c].pc = "idle" => \A a \in accepted' \cup (Seen' \ {None}) : a.grant # c
  BY <1>1, <1>2, <1>3 DEF RefreshInv, GrantInv, Workers
<1>10. GrantInv'
  BY <1>7, <1>8, <1>9 DEF GrantInv
<1>11. ASSUME NEW x \in Workers, Pending(x)'
       PROVE  /\ task'[x].got \in accepted' \cup wasted' /\ task'[x].got \notin SeenByOthers(x)'
              /\ \A a \in accepted' : a.grant = task'[x].got.grant => a = task'[x].got
              /\ \A u \in Seen' \ {None} : u.grant = task'[x].got.grant => u.gen <= task'[x].got.gen
  <2>1. CASE x = w
    <3>1. task'[x].got = n /\ n \in accepted'
      BY <1>1, <1>11, <2>1 DEF n
    <3>2. SeenByOthers(x)' \subseteq Seen
      BY <2>1 DEF SeenByOthers, Seen
    <3> QED
      BY <1>5, <1>7, <1>8, <3>1, <3>2
  <2>2. CASE x # w
    <3>1. task'[x] = task[x] /\ Pending(x)
      BY <1>11, <2>2 DEF Pending
    <3>2. /\ task[x].got \in accepted \cup wasted /\ task[x].got \notin SeenByOthers(x) /\ task[x].got \in Seen
          /\ Latest(task[x].got)
      BY <3>1 DEF RefreshInv, PendingInv, Seen
    <3>3. task[x].got # t
      BY <3>2 DEF SeenByOthers
    <3>4. n.grant # task[x].got.grant
      BY <1>2, <3>2, <3>3 DEF Latest
    <3>5. SeenByOthers(x)' \subseteq SeenByOthers(x) \cup {n}
      BY <2>2, <3>1 DEF SeenByOthers, n
    <3> QED
      BY <1>1, <1>3, <1>5, <3>1, <3>2, <3>3, <3>4, <3>5 DEF Latest
  <2> QED
    BY <2>1, <2>2
<1> QED
  BY <1>10, <1>11 DEF PendingInv, Latest

\* A grant is revoked: what it had is lost.
LEMMA RevokeTokens ==
  ASSUME RefreshInv, NEW w \in Workers, UNCHANGED row, NEW dead \in SUBSET accepted,
         accepted' = accepted \ dead, wasted' = wasted \cup dead,
         \A x \in Workers \ {w} : task'[x] = task[x],
         task'[w].tok = task[w].tok, task'[w].got = task[w].got, ~Pending(w)',
         w \notin Connects
  PROVE  GrantInv' /\ PendingInv'
<1>1. Seen' = Seen
  BY DEF Seen
<1>2. GrantInv'
  BY <1>1 DEF RefreshInv, GrantInv, Workers
<1>3. ASSUME NEW x \in Workers, Pending(x)'
      PROVE  /\ task'[x].got \in accepted' \cup wasted' /\ task'[x].got \notin SeenByOthers(x)'
             /\ \A a \in accepted' : a.grant = task'[x].got.grant => a = task'[x].got
             /\ \A u \in Seen' \ {None} : u.grant = task'[x].got.grant => u.gen <= task'[x].got.gen
  <2>1. x # w /\ task'[x] = task[x] /\ Pending(x)
    BY <1>3 DEF Pending
  <2>2. SeenByOthers(x)' = SeenByOthers(x)
    BY DEF SeenByOthers
  <2> QED
    BY <1>1, <2>1, <2>2 DEF RefreshInv, PendingInv, Latest
<1> QED
  BY <1>2, <1>3 DEF PendingInv, Latest

-----------------------------------------------------------------------------
(* The kinds of steps, by who takes them.                                  *)

LEMMA Becoming ==
  ASSUME TypeOK, NEW w \in Workers, NEW st \in Tasks, Becomes(w, st)
  PROVE  task' \in [Workers -> Tasks] /\ task'[w] = st /\ \A x \in Workers \ {w} : task'[x] = task[x]
BY DEF TypeOK, Becomes

\* The holder of the lock, or who takes it.
LEMMA HolderStep ==
  ASSUME RefreshInv, NEW w \in Holders, NEW st \in Tasks, Becomes(w, st),
         lock \in {w, None}, lock' \in {w, None}, st.pc \in {"present", "write"} <=> lock' = w,
         row' \in Rows, accepted' \subseteq Tokens, wasted' \subseteq Tokens, wasted \subseteq wasted',
         UNCHANGED lapses, aborts' \in 0 .. MaxAborts,
         st.pc \in {"present", "write"} => st.tok = row'.tok /\ Usable',
         st.pc = "present" => row'.tok # None /\ st.got = None /\ st.write = "nothing",
         st.pc = "write" => (st.write = "tokens" <=> st.got # None) /\ (st.write = "tokens" => st.tok # None),
         st.pc = "write" /\ st.write = "expired" => st.tok = None \/ st.tok \in wasted'
  PROVE  TypeOK' /\ HolderInv' /\ OnlyLostTokensExpire'
<1>1. w \in Workers /\ Holders \subseteq Workers /\ None \notin Workers
  BY HoldersAreWorkers
<1>2. task' \in [Workers -> Tasks] /\ task'[w] = st /\ \A x \in Workers \ {w} : task'[x] = task[x]
  BY <1>1, Becoming DEF RefreshInv
<1>3. \A x \in Holders \ {w} : task'[x] = task[x] /\ task[x].pc \notin {"present", "write"} /\ lock' # x
  BY <1>1, <1>2 DEF RefreshInv, TypeOK, Holders
<1>4. \A x \in Holders : task'[x].pc \in {"present", "write"} <=> lock' = x
  BY <1>2, <1>3
<1>5. TypeOK'
  BY <1>1, <1>2, <1>4 DEF RefreshInv, TypeOK, Holders
<1>6. HolderInv'
  BY <1>2, <1>3 DEF HolderInv
<1>7. OnlyLostTokensExpire'
  BY <1>2, <1>3 DEF OnlyLostTokensExpire, Holders
<1> QED
  BY <1>5, <1>6, <1>7

\* A handler, which writes only while nobody has the lock.
LEMMA HandlerStep ==
  ASSUME RefreshInv, NEW w \in Workers, w \notin Holders, NEW st \in Tasks, Becomes(w, st),
         UNCHANGED <<lock, lapses, aborts>>, row' \in Rows, row' = row \/ Unlocked,
         accepted' \subseteq Tokens, wasted' \subseteq Tokens, wasted \subseteq wasted'
  PROVE  TypeOK' /\ HolderInv' /\ OnlyLostTokensExpire'
<1>1. Holders \subseteq Workers /\ None \notin Workers
  BY HoldersAreWorkers
<1>2. task' \in [Workers -> Tasks] /\ \A x \in Holders : task'[x] = task[x]
  BY <1>1, Becoming DEF RefreshInv
<1>3. TypeOK'
  BY <1>2 DEF RefreshInv, TypeOK, Holders
<1>4. \A x \in Holders : task[x].pc \in {"present", "write"} => row' = row
  BY <1>1 DEF RefreshInv, TypeOK, Unlocked, Holders
<1>5. HolderInv'
  BY <1>2, <1>4 DEF RefreshInv, HolderInv, Usable
<1>6. OnlyLostTokensExpire'
  BY <1>2 DEF RefreshInv, OnlyLostTokensExpire, Holders
<1> QED
  BY <1>3, <1>5, <1>6

\* While the holder has not traded the stored token, that token is accepted
\* or lost.
LEMMA StoredToken ==
  ASSUME RefreshInv, \A w \in Holders : lock = w => task[w].write # "tokens"
  PROVE  row.tok \in {None} \cup accepted \cup wasted
BY DEF RefreshInv, StoredInv

LEMMA StateTypes ==
  ASSUME RefreshInv
  PROVE  /\ row \in Rows /\ row.tok \in MaybeToken
         /\ accepted \subseteq Tokens /\ wasted \subseteq Tokens
         /\ lapses \in 0 .. MaxLapses /\ aborts \in 0 .. MaxAborts
         /\ \A w \in Workers : /\ task[w] \in Tasks /\ task[w].pc \in PCs /\ task[w].age \in Ages
                               /\ task[w].tok \in MaybeToken /\ task[w].got \in MaybeToken
                               /\ task[w].write \in {"nothing", "tokens", "expired"}
         /\ \A w \in Holders : task[w].pc \in {"present", "write"} <=> lock = w
BY DEF RefreshInv, TypeOK, Rows, Tasks, Holders

-----------------------------------------------------------------------------
(* A refresh under the lock.                                               *)

\* A place no holder of the lock is at, or the beginning of a refresh.
LEMMA FreshTasks ==
  ASSUME NEW t \in MaybeToken
  PROVE  /\ [Idle EXCEPT !.pc = "present", !.tok = t] \in Tasks
         /\ [Idle EXCEPT !.pc = "present", !.tok = t].pc = "present"
         /\ [Idle EXCEPT !.pc = "present", !.tok = t].tok = t
         /\ [Idle EXCEPT !.pc = "present", !.tok = t].got = None
         /\ [Idle EXCEPT !.pc = "present", !.tok = t].write = "nothing"
         /\ [Done EXCEPT !.got = t, !.write = "tokens"] \in Tasks
         /\ [Done EXCEPT !.got = t, !.write = "tokens"].pc = "done"
         /\ [Done EXCEPT !.got = t, !.write = "tokens"].tok = None
         /\ [Done EXCEPT !.got = t, !.write = "tokens"].got = t
BY DEF Idle, Done, Tasks, PCs, MaybeToken, Ages

LEMMA ClaimStep ==
  ASSUME RefreshInv, NEW j \in Jobs, Claim(j)
  PROVE  RefreshInv'
<1> DEFINE st == IF row.tok = None THEN [Idle EXCEPT !.pc = "write", !.write = "expired"]
                 ELSE [Idle EXCEPT !.pc = "present", !.tok = row.tok]
<1>1. /\ UNCHANGED <<row, accepted, wasted, lapses, aborts>> /\ lock = None /\ lock' = j
      /\ Becomes(j, st) /\ task[j].pc = "idle" /\ Usable'
  BY DEF Claim, Unlocked, Expiring, Usable
<1>2. j \in Workers /\ j \in Holders /\ j \notin Connects
  BY HoldersAreWorkers DEF Holders
<1>3. /\ st \in Tasks /\ st.pc \in {"present", "write"} /\ st.tok = row.tok /\ st.got = None
      /\ st.pc = "present" => row.tok # None /\ st.write = "nothing"
      /\ st.pc = "write" => st.write = "expired" /\ st.tok = None
  <2>1. CASE row.tok = None
    <3>1. /\ [Idle EXCEPT !.pc = "write", !.write = "expired"] \in Tasks
          /\ [Idle EXCEPT !.pc = "write", !.write = "expired"].pc = "write"
          /\ [Idle EXCEPT !.pc = "write", !.write = "expired"].write = "expired"
          /\ [Idle EXCEPT !.pc = "write", !.write = "expired"].tok = None
          /\ [Idle EXCEPT !.pc = "write", !.write = "expired"].got = None
      BY DEF Idle, Tasks, PCs, MaybeToken, Ages
    <3> QED
      BY <2>1, <3>1
  <2>2. CASE row.tok # None
    BY <2>2, StateTypes, FreshTasks
  <2> QED
    BY <2>1, <2>2
<1> HIDE DEF st
<1>4. task'[j] = st /\ \A x \in Workers \ {j} : task'[x] = task[x]
  BY <1>1, <1>2, <1>3, Becoming DEF RefreshInv
<1>5. TypeOK' /\ HolderInv' /\ OnlyLostTokensExpire'
  BY <1>1, <1>2, <1>3, StateTypes, HolderStep
<1>6. GrantInv' /\ PendingInv'
  BY <1>1, <1>2, <1>3, <1>4, QuietTokens DEF Pending
<1>7. StoredInv'
  BY <1>1, StoredToken, HoldersAreWorkers DEF StoredInv
<1> QED
  BY <1>5, <1>6, <1>7 DEF RefreshInv

\* The stored token is presented: if it is refused, it was lost.
LEMMA AnsweredStep ==
  ASSUME RefreshInv, NEW w \in Holders, Answered(w)
  PROVE  RefreshInv'
<1> DEFINE t == task[w]
           traded == [t EXCEPT !.pc = "write", !.write = "tokens", !.got = NextToken(t.tok)]
           refused == [t EXCEPT !.pc = "write", !.write = "expired"]
<1>1. UNCHANGED <<row, lock, wasted, lapses, aborts>> /\ lock = w /\ t.pc = "present"
  BY DEF Answered
<1>2. w \in Workers /\ w \notin Connects
  BY HoldersAreWorkers
<1>3. /\ t \in Tasks /\ t.tok = row.tok /\ row.tok # None /\ t.got = None /\ t.write = "nothing"
      /\ Usable'
  BY <1>1, <1>2, StateTypes DEF RefreshInv, HolderInv, Usable
<1>4. row.tok \in accepted \cup wasted
  BY <1>1, <1>3, StoredToken
<1>5. CASE t.tok \in accepted /\ Trade(t.tok) /\ Becomes(w, traded)
  <2>1. NextToken(t.tok) \in Tokens /\ NextToken(t.tok) # None
    BY <1>5, StateTypes, NextTokenType
  <2>2. /\ traded \in Tasks /\ traded.pc = "write" /\ traded.write = "tokens"
        /\ traded.tok = t.tok /\ traded.got = NextToken(t.tok)
    BY <1>3, <2>1 DEF Tasks, PCs, MaybeToken
  <2> HIDE DEF traded
  <2>3. task'[w] = traded /\ \A x \in Workers \ {w} : task'[x] = task[x]
    BY <1>2, <1>5, <2>2, Becoming DEF RefreshInv
  <2>4. accepted' \subseteq Tokens
    BY <1>5, <2>1, StateTypes DEF Trade
  <2>5. TypeOK' /\ HolderInv' /\ OnlyLostTokensExpire'
    BY <1>1, <1>3, <1>5, <2>1, <2>2, <2>4, StateTypes, HolderStep
  <2>6. GrantInv' /\ PendingInv'
    BY <1>1, <1>2, <1>5, <2>2, <2>3, TradeTokens DEF Pending
  <2>7. StoredInv'
    BY <1>1, <1>3, <2>2, <2>3 DEF StoredInv
  <2> QED
    BY <2>5, <2>6, <2>7 DEF RefreshInv
<1>6. CASE t.tok \notin accepted /\ UNCHANGED accepted /\ Becomes(w, refused)
  <2>1. /\ refused \in Tasks /\ refused.pc = "write" /\ refused.write = "expired"
        /\ refused.tok = t.tok /\ refused.got = None
    BY <1>3 DEF Tasks, PCs
  <2> HIDE DEF refused
  <2>2. task'[w] = refused /\ \A x \in Workers \ {w} : task'[x] = task[x]
    BY <1>2, <1>6, <2>1, Becoming DEF RefreshInv
  <2>3. t.tok \in wasted
    BY <1>3, <1>4, <1>6
  <2>4. TypeOK' /\ HolderInv' /\ OnlyLostTokensExpire'
    BY <1>1, <1>3, <1>6, <2>1, <2>3, StateTypes, HolderStep
  <2>5. GrantInv' /\ PendingInv'
    BY <1>1, <1>2, <1>6, <2>1, <2>2, QuietTokens DEF Pending
  <2>6. StoredInv'
    BY <1>1, <1>4, <1>6 DEF StoredInv
  <2> QED
    BY <2>4, <2>5, <2>6 DEF RefreshInv
<1> QED
  BY <1>5, <1>6 DEF Answered

LEMMA UnansweredStep ==
  ASSUME RefreshInv, NEW w \in Holders, Unanswered(w)
  PROVE  RefreshInv'
<1> DEFINE t == task[w]
           st == [t EXCEPT !.pc = "write"]
<1>1. /\ UNCHANGED <<row, lock, lapses, aborts>> /\ lock = w /\ t.pc = "present" /\ Becomes(w, st)
  BY DEF Unanswered
<1>2. w \in Workers /\ w \notin Connects
  BY HoldersAreWorkers
<1>3. /\ t \in Tasks /\ t.tok = row.tok /\ row.tok # None /\ t.got = None /\ t.write = "nothing"
      /\ Usable'
  BY <1>1, <1>2, StateTypes DEF RefreshInv, HolderInv, Usable
<1>4. row.tok \in accepted \cup wasted
  BY <1>1, <1>3, StoredToken
<1>5. st \in Tasks /\ st.pc = "write" /\ st.write = "nothing" /\ st.tok = t.tok /\ st.got = None
  BY <1>3 DEF Tasks, PCs
<1> HIDE DEF st
<1>6. task'[w] = st /\ \A x \in Workers \ {w} : task'[x] = task[x]
  BY <1>1, <1>2, <1>5, Becoming DEF RefreshInv
<1>7. CASE UNCHANGED <<accepted, wasted>>
  <2>1. TypeOK' /\ HolderInv' /\ OnlyLostTokensExpire'
    BY <1>1, <1>3, <1>5, <1>7, StateTypes, HolderStep
  <2>2. GrantInv' /\ PendingInv'
    BY <1>1, <1>2, <1>5, <1>6, <1>7, QuietTokens DEF Pending
  <2> QED
    BY <1>1, <1>4, <1>7, <2>1, <2>2 DEF RefreshInv, StoredInv
<1>8. CASE t.tok \in accepted /\ Trade(t.tok) /\ wasted' = wasted \cup {t.tok}
  <2>1. accepted' \subseteq Tokens /\ wasted' \subseteq Tokens
    BY <1>8, StateTypes, NextTokenType DEF Trade
  <2>2. TypeOK' /\ HolderInv' /\ OnlyLostTokensExpire'
    BY <1>1, <1>3, <1>5, <1>8, <2>1, StateTypes, HolderStep
  <2>3. GrantInv' /\ PendingInv'
    BY <1>1, <1>2, <1>3, <1>5, <1>6, <1>8, TradeTokens DEF Pending
  <2>4. StoredInv'
    BY <1>1, <1>3, <1>8 DEF StoredInv
  <2> QED
    BY <2>2, <2>3, <2>4 DEF RefreshInv
<1> QED
  BY <1>7, <1>8 DEF Unanswered

\* What the holder writes, and then lets go of.
LEMMA CommitStep ==
  ASSUME RefreshInv, NEW w \in Holders, lock = w, task[w].pc = "write",
         row' = Written(w), lock' = None, UNCHANGED <<accepted, wasted, lapses, aborts>>,
         NEW st \in Tasks, Becomes(w, st), st.pc \in {"idle", "done"},
         st.tok = None, st.got \in {None, task[w].tok, task[w].got}
  PROVE  RefreshInv'
<1> DEFINE t == task[w]
<1>1. w \in Workers /\ w \notin Connects /\ w # None
  BY HoldersAreWorkers
<1>2. t \in Tasks /\ t.tok = row.tok /\ (t.write = "tokens" <=> t.got # None)
  BY <1>1, StateTypes DEF RefreshInv, HolderInv
<1>3. task'[w] = st /\ \A x \in Workers \ {w} : task'[x] = task[x]
  BY <1>1, Becoming DEF RefreshInv
<1>4. /\ row' \in Rows
      /\ t.write = "tokens" => row'.tok = t.got
      /\ t.write # "tokens" => row'.tok = row.tok
  BY <1>1, StateTypes DEF Written, TokensStored, Expired, Rows, Ages
<1>5. TypeOK' /\ HolderInv' /\ OnlyLostTokensExpire'
  BY <1>1, <1>4, StateTypes, HolderStep
<1>6. t.write = "tokens" => Pending(w)
  BY <1>2 DEF Pending
<1>7. GrantInv' /\ PendingInv'
  BY <1>1, <1>3, <1>4, <1>6, QuietTokens DEF Pending
<1>8. StoredInv'
  <2>1. CASE t.write = "tokens"
    BY <1>1, <1>4, <1>6, <2>1 DEF RefreshInv, PendingInv, StoredInv
  <2>2. CASE t.write # "tokens"
    BY <1>4, <2>2, StoredToken DEF StoredInv
  <2> QED
    BY <2>1, <2>2
<1> QED
  BY <1>5, <1>7, <1>8 DEF RefreshInv

LEMMA IdlePlaces ==
  /\ Idle.pc = "idle" /\ Idle.tok = None /\ Idle.got = None
  /\ Done.pc = "done" /\ Done.tok = None /\ Done.got = None
BY DEF Idle, Done

LEMMA JobCommitStep ==
  ASSUME RefreshInv, NEW j \in Jobs, JobCommit(j)
  PROVE  RefreshInv'
BY CommitStep, IdleType, IdlePlaces DEF JobCommit, Holders

LEMMA CallCommitStep ==
  ASSUME RefreshInv, NEW k \in Calls, CallCommit(k)
  PROVE  RefreshInv'
<1> DEFINE got == IF task[k].write = "tokens" THEN task[k].got ELSE task[k].tok
           handed == [Done EXCEPT !.got = got, !.write = "tokens"]
           st == IF task[k].write = "expired" THEN Done ELSE handed
<1>1. k \in Holders /\ k \in Workers
  BY HoldersAreWorkers DEF Holders
<1>2. got \in MaybeToken /\ got \in {task[k].tok, task[k].got}
  BY <1>1, StateTypes
<1> HIDE DEF got
<1>3. handed \in Tasks /\ handed.pc = "done" /\ handed.tok = None /\ handed.got = got
  BY <1>2, FreshTasks
<1>4. Becomes(k, st)
  BY DEF CallCommit, handed, got, Becomes, Done, Idle
<1> HIDE DEF handed
<1>5. st \in Tasks /\ st.pc = "done" /\ st.tok = None /\ st.got \in {None, task[k].tok, task[k].got}
  BY <1>2, <1>3, IdleType, IdlePlaces
<1> HIDE DEF st
<1> QED
  BY <1>1, <1>4, <1>5, CommitStep DEF CallCommit

LEMMA FetchStep ==
  ASSUME RefreshInv, NEW k \in Calls, Fetch(k)
  PROVE  RefreshInv'
<1>1. UNCHANGED <<row, accepted, wasted, lapses, aborts>> /\ lock = None /\ task[k].pc = "idle"
  BY DEF Fetch, GetConnectionByOrgServiceForUpdate, Unlocked
<1>2. k \in Holders /\ k \in Workers /\ k \notin Connects /\ k # None
  BY HoldersAreWorkers DEF Holders
<1>3. PICK st \in Tasks :
        /\ Becomes(k, st)
        /\ \/ lock' = k /\ st.pc = "present" /\ st.tok = row.tok /\ row.tok # None /\ st.got = None
                /\ st.write = "nothing"
           \/ lock' = None /\ st.pc = "done" /\ st.tok = None /\ st.got \in {None, row.tok}
        /\ st.pc = "present" => Usable'
  <2> DEFINE presents == [Idle EXCEPT !.pc = "present", !.tok = row.tok]
             handed == [Done EXCEPT !.got = row.tok, !.write = "tokens"]
  <2>1. /\ presents \in Tasks /\ presents.pc = "present" /\ presents.tok = row.tok
        /\ presents.got = None /\ presents.write = "nothing"
        /\ handed \in Tasks /\ handed.pc = "done" /\ handed.tok = None /\ handed.got = row.tok
    BY StateTypes, FreshTasks
  <2>2. \/ lock' = k /\ row.tok # None /\ Becomes(k, presents) /\ Usable'
        \/ lock' = None /\ (Becomes(k, handed) \/ Becomes(k, Done))
    BY <1>1 DEF Fetch, Usable
  <2> HIDE DEF presents, handed
  <2> QED
    BY <2>1, <2>2, IdleType, IdlePlaces
<1>4. task'[k] = st /\ \A x \in Workers \ {k} : task'[x] = task[x]
  BY <1>2, <1>3, Becoming DEF RefreshInv
<1>5. TypeOK' /\ HolderInv' /\ OnlyLostTokensExpire'
  BY <1>1, <1>2, <1>3, StateTypes, HolderStep
<1>6. GrantInv' /\ PendingInv'
  BY <1>1, <1>2, <1>3, <1>4, QuietTokens DEF Pending
<1>7. StoredInv'
  BY <1>1, StoredToken, HoldersAreWorkers DEF StoredInv
<1> QED
  BY <1>5, <1>6, <1>7 DEF RefreshInv

\* A transaction that traded and fails loses what it got.
LEMMA AbortStep ==
  ASSUME RefreshInv, NEW w \in Holders, Abort(w)
  PROVE  RefreshInv'
<1> DEFINE t == task[w]
<1>1. /\ UNCHANGED <<row, accepted, lapses>> /\ lock = w /\ lock' = None
      /\ aborts < MaxAborts /\ aborts' = aborts + 1
      /\ wasted' = IF t.write = "tokens" THEN wasted \cup {t.tok} ELSE wasted
  BY DEF Abort
<1>2. w \in Workers /\ w \notin Connects /\ w # None
  BY HoldersAreWorkers
<1>3. PICK st \in Tasks : Becomes(w, st) /\ st.pc \in {"idle", "done"} /\ st.tok = None /\ st.got = None
  BY IdleType, IdlePlaces DEF Abort
<1>4. task'[w] = st /\ \A x \in Workers \ {w} : task'[x] = task[x]
  BY <1>2, <1>3, Becoming DEF RefreshInv
<1>5. t.pc \in {"present", "write"} /\ t.tok = row.tok /\ (t.write = "tokens" => t.tok # None)
  BY <1>1, StateTypes DEF RefreshInv, HolderInv
<1>6. wasted' \subseteq Tokens /\ aborts' \in 0 .. MaxAborts
  BY <1>1, <1>2, <1>5, StateTypes, BoundAssumption DEF MaybeToken
<1>7. TypeOK' /\ HolderInv' /\ OnlyLostTokensExpire'
  BY <1>1, <1>2, <1>3, <1>6, StateTypes, HolderStep
<1>8. GrantInv' /\ PendingInv'
  BY <1>1, <1>2, <1>3, <1>4, QuietTokens DEF Pending
<1>9. StoredInv'
  BY <1>1, <1>5, StoredToken DEF StoredInv
<1> QED
  BY <1>7, <1>8, <1>9 DEF RefreshInv

-----------------------------------------------------------------------------
(* The handlers, the provider and the callback.                            *)

\* A handler reads, is answered without a trade, or writes what it got while
\* nobody has the lock.
LEMMA QuietHandler ==
  ASSUME RefreshInv, NEW w \in Workers, w \notin Holders, NEW st \in Tasks, Becomes(w, st),
         UNCHANGED <<lock, accepted, wasted, lapses, aborts>>, row' \in Rows,
         \/ row' = row
         \/ Unlocked /\ row'.tok = row.tok
         \/ Unlocked /\ task[w].pc = "write" /\ row'.tok = task[w].got,
         st.tok \in {None, row.tok, task[w].tok}, st.got \in {None, task[w].got},
         st.pc \notin {"write", "idle"} \/ (st.pc = "write" /\ st.got = None)
  PROVE  RefreshInv'
<1>1. task'[w] = st /\ \A x \in Workers \ {w} : task'[x] = task[x]
  BY Becoming DEF RefreshInv
<1>2. TypeOK' /\ HolderInv' /\ OnlyLostTokensExpire'
  BY StateTypes, HandlerStep
<1>3. GrantInv' /\ PendingInv'
  BY <1>1, QuietTokens DEF Pending
<1>4. StoredInv'
  <2>1. CASE row'.tok = row.tok
    BY <1>1, <2>1, HoldersAreWorkers DEF RefreshInv, StoredInv
  <2>2. CASE Unlocked /\ task[w].pc = "write" /\ row'.tok = task[w].got
    BY <2>2 DEF RefreshInv, PendingInv, Pending, StoredInv
  <2> QED
    BY <2>1, <2>2
<1> QED
  BY <1>2, <1>3, <1>4 DEF RefreshInv

LEMMA GetConnectionType ==
  ASSUME RefreshInv, NEW pc \in PCs
  PROVE  /\ GetConnection(pc) \in Tasks /\ GetConnection(pc).pc = pc
         /\ GetConnection(pc).tok = row.tok /\ GetConnection(pc).got = None
BY StateTypes DEF GetConnection, Idle, Tasks, MaybeToken, Ages

LEMMA MovesType ==
  ASSUME RefreshInv, NEW w \in Workers, NEW pc \in PCs
  PROVE  /\ [task[w] EXCEPT !.pc = pc] \in Tasks /\ [task[w] EXCEPT !.pc = pc].pc = pc
         /\ [task[w] EXCEPT !.pc = pc].tok = task[w].tok /\ [task[w] EXCEPT !.pc = pc].got = task[w].got
BY StateTypes DEF Tasks

LEMMA PCsAre == {"mark", "present", "revoke", "deactivate", "write", "done", "idle"} \subseteq PCs
BY DEF PCs

LEMMA CheckReadStep ==
  ASSUME RefreshInv, NEW s \in Checks, CheckRead(s)
  PROVE  RefreshInv'
<1>1. UNCHANGED <<row, lock, accepted, wasted, lapses, aborts>>
  BY DEF CheckRead
<1>2. s \in Workers /\ s \notin Holders
  BY HoldersAreWorkers
<1>3. PICK pc \in {"mark", "present"} : Becomes(s, Done) \/ Becomes(s, GetConnection(pc))
  BY DEF CheckRead
<1>4. PICK st \in Tasks : /\ Becomes(s, st) /\ st.tok \in {None, row.tok} /\ st.got = None
                          /\ st.pc \in {"done", "mark", "present"}
  BY <1>3, IdleType, IdlePlaces, GetConnectionType, PCsAre
<1> QED
  BY <1>1, <1>2, <1>4, StateTypes, QuietHandler

LEMMA CheckPresentStep ==
  ASSUME RefreshInv, NEW s \in Checks, CheckPresent(s)
  PROVE  RefreshInv'
<1> DEFINE t == task[s]
           marks == [t EXCEPT !.pc = "mark"]
           writes == [t EXCEPT !.pc = "write", !.got = NextToken(t.tok)]
<1>1. UNCHANGED <<row, lock, lapses, aborts>> /\ t.pc = "present"
  BY DEF CheckPresent
<1>2. s \in Workers /\ s \notin Holders /\ s \notin Connects /\ t \in Tasks
  BY HoldersAreWorkers, StateTypes
<1>3. marks \in Tasks /\ marks.pc = "mark" /\ marks.tok = t.tok /\ marks.got = t.got
  BY <1>2, MovesType, PCsAre
<1>4. CASE Becomes(s, marks) /\ UNCHANGED <<accepted, wasted>>
  BY <1>1, <1>2, <1>3, <1>4, StateTypes, QuietHandler
<1>5. CASE /\ t.tok \in accepted /\ Trade(t.tok) /\ wasted' = wasted \cup {t.tok}
           /\ Becomes(s, writes) \/ Becomes(s, marks)
  <2>1. NextToken(t.tok) \in Tokens
    BY <1>5, StateTypes, NextTokenType
  <2>2. writes \in Tasks /\ writes.pc = "write" /\ writes.tok = t.tok /\ writes.got = NextToken(t.tok)
    BY <1>2, <2>1 DEF Tasks, PCs, MaybeToken
  <2> HIDE DEF writes, marks
  <2>3. PICK st \in Tasks : /\ Becomes(s, st) /\ st.tok = t.tok
                            /\ \/ st.pc = "write" /\ st.got = NextToken(t.tok)
                               \/ st.pc = "mark" /\ st.got = t.got
    BY <1>3, <1>5, <2>2
  <2>4. task'[s] = st /\ \A x \in Workers \ {s} : task'[x] = task[x]
    BY <1>2, <2>3, Becoming DEF RefreshInv
  <2>5. accepted' \subseteq Tokens /\ wasted' \subseteq Tokens
    BY <1>5, <2>1, StateTypes DEF Trade
  <2>6. TypeOK' /\ HolderInv' /\ OnlyLostTokensExpire'
    BY <1>1, <1>2, <1>5, <2>3, <2>5, StateTypes, HandlerStep
  <2>7. GrantInv' /\ PendingInv'
    BY <1>1, <1>2, <1>5, <2>3, <2>4, TradeTokens DEF Pending
  <2>8. StoredInv'
    <3>1. CASE row.tok \in {None} \cup accepted \cup wasted
      BY <1>1, <1>5, <3>1 DEF StoredInv, Trade
    <3>2. CASE \E w \in Holders :
                 lock = w /\ task[w].pc = "write" /\ task[w].write = "tokens" /\ task[w].tok = row.tok
      BY <1>1, <1>2, <2>4, <3>2, HoldersAreWorkers DEF StoredInv
    <3> QED
      BY <3>1, <3>2 DEF RefreshInv, StoredInv
  <2> QED
    BY <2>6, <2>7, <2>8 DEF RefreshInv
<1> QED
  BY <1>4, <1>5 DEF CheckPresent

LEMMA RowWrites ==
  ASSUME RefreshInv, NEW t \in MaybeToken
  PROVE  /\ TokensStored(t) \in Rows /\ TokensStored(t).tok = t
         /\ Expired \in Rows /\ Expired.tok = row.tok
         /\ RevokeConnection \in Rows /\ RevokeConnection.tok = row.tok
BY StateTypes DEF TokensStored, Expired, RevokeConnection, Rows, Ages

LEMMA CheckStoreStep ==
  ASSUME RefreshInv, NEW s \in Checks, CheckStore(s)
  PROVE  RefreshInv'
<1> DEFINE marks == [task[s] EXCEPT !.pc = "mark"]
<1>1. UNCHANGED <<lock, accepted, wasted, lapses, aborts>> /\ task[s].pc = "write" /\ Unlocked
  BY DEF CheckStore
<1>2. s \in Workers /\ s \notin Holders
  BY HoldersAreWorkers
<1>3. marks \in Tasks /\ marks.pc = "mark" /\ marks.tok = task[s].tok /\ marks.got = task[s].got
  BY <1>2, MovesType, PCsAre
<1> HIDE DEF marks
<1>4. CASE row' = TokensStored(task[s].got) /\ Becomes(s, Done)
  <2>1. row' \in Rows /\ row'.tok = task[s].got
    BY <1>2, <1>4, StateTypes, RowWrites
  <2> QED
    BY <1>1, <1>2, <1>4, <2>1, IdleType, IdlePlaces, QuietHandler
<1>5. CASE Becomes(s, marks) /\ UNCHANGED row
  BY <1>1, <1>2, <1>3, <1>5, StateTypes, QuietHandler
<1> QED
  BY <1>4, <1>5 DEF CheckStore, marks

LEMMA CheckMarkStep ==
  ASSUME RefreshInv, NEW s \in Checks, CheckMark(s)
  PROVE  RefreshInv'
<1>1. row' \in Rows /\ row'.tok = row.tok
  BY RowWrites DEF CheckMark, MaybeToken
<1> QED
  BY <1>1, HoldersAreWorkers, IdleType, IdlePlaces, QuietHandler DEF CheckMark

LEMMA DisconnectReadStep ==
  ASSUME RefreshInv, NEW d \in Disconnects, DisconnectRead(d)
  PROVE  RefreshInv'
<1>1. UNCHANGED <<row, lock, accepted, wasted, lapses, aborts>>
  BY DEF DisconnectRead
<1>2. d \in Workers /\ d \notin Holders
  BY HoldersAreWorkers
<1>3. PICK pc \in {"revoke", "deactivate"} : Becomes(d, GetConnection(pc))
  BY DEF DisconnectRead
<1>4. PICK st \in Tasks : /\ Becomes(d, st) /\ st.tok = row.tok /\ st.got = None
                          /\ st.pc \in {"revoke", "deactivate"}
  BY <1>3, GetConnectionType, PCsAre
<1> QED
  BY <1>1, <1>2, <1>4, StateTypes, QuietHandler

LEMMA RevokeStep ==
  ASSUME RefreshInv, NEW d \in Disconnects, Revoke(d)
  PROVE  RefreshInv'
<1> DEFINE t == task[d]
           st == [t EXCEPT !.pc = "deactivate"]
<1>1. UNCHANGED <<row, lock, lapses, aborts>> /\ Becomes(d, st)
  BY DEF Revoke
<1>2. d \in Workers /\ d \notin Holders /\ d \notin Connects
  BY HoldersAreWorkers
<1>3. st \in Tasks /\ st.pc = "deactivate" /\ st.tok = t.tok /\ st.got = t.got
  BY <1>2, MovesType, PCsAre
<1> HIDE DEF st
<1>4. CASE UNCHANGED <<accepted, wasted>>
  BY <1>1, <1>2, <1>3, <1>4, StateTypes, QuietHandler
<1>5. CASE RevokeGrant(t.tok)
  <2>1. PICK dead \in SUBSET accepted : accepted' = accepted \ dead /\ wasted' = wasted \cup dead
    BY <1>5 DEF RevokeGrant
  <2>2. task'[d] = st /\ \A x \in Workers \ {d} : task'[x] = task[x]
    BY <1>1, <1>2, <1>3, Becoming DEF RefreshInv
  <2>3. accepted' \subseteq Tokens /\ wasted' \subseteq Tokens
    BY <2>1, StateTypes
  <2>4. TypeOK' /\ HolderInv' /\ OnlyLostTokensExpire'
    BY <1>1, <1>2, <1>3, <2>1, <2>3, StateTypes, HandlerStep
  <2>5. GrantInv' /\ PendingInv'
    BY <1>1, <1>2, <1>3, <2>1, <2>2, RevokeTokens DEF Pending
  <2>6. StoredInv'
    BY <1>1, <1>2, <2>1, <2>2, HoldersAreWorkers DEF RefreshInv, StoredInv
  <2> QED
    BY <2>4, <2>5, <2>6 DEF RefreshInv
<1> QED
  BY <1>4, <1>5 DEF Revoke

LEMMA DeactivateStep ==
  ASSUME RefreshInv, NEW d \in Disconnects, Deactivate(d)
  PROVE  RefreshInv'
<1>1. row' \in Rows /\ row'.tok = row.tok
  BY RowWrites DEF Deactivate, MaybeToken
<1> QED
  BY <1>1, HoldersAreWorkers, IdleType, IdlePlaces, QuietHandler DEF Deactivate

\* A sign-in brings a token of a grant nobody has seen.
LEMMA ExchangeStep ==
  ASSUME RefreshInv, NEW c \in Connects, Exchange(c)
  PROVE  RefreshInv'
<1> DEFINE t == [grant |-> c, gen |-> 1]
           signed == [Idle EXCEPT !.pc = "write", !.got = t]
<1>1. UNCHANGED <<row, lock, wasted, lapses, aborts>> /\ task[c].pc = "idle"
  BY DEF Exchange
<1>2. c \in Workers /\ c \notin Holders
  BY HoldersAreWorkers
<1>3. ASSUME NEW a \in {"fresh", "never"}, Becomes(c, [Idle EXCEPT !.pc = "write", !.age = a]), UNCHANGED accepted
      PROVE  RefreshInv'
  <2> DEFINE pasted == [Idle EXCEPT !.pc = "write", !.age = a]
  <2>1. pasted \in Tasks /\ pasted.pc = "write" /\ pasted.tok = None /\ pasted.got = None
    BY DEF Idle, Tasks, PCs, MaybeToken, Ages
  <2>2. Becomes(c, pasted)
    BY <1>3
  <2> HIDE DEF pasted
  <2> QED
    BY <1>1, <1>2, <1>3, <2>1, <2>2, StateTypes, QuietHandler
<1>4. CASE accepted' = accepted \cup {t} /\ Becomes(c, signed)
  <2>1. t \in Tokens /\ t.grant = c /\ t.gen = 1 /\ t # None
    BY NoneAssumption DEF Tokens
  <2> HIDE DEF t
  <2>2. signed \in Tasks /\ signed.pc = "write" /\ signed.tok = None /\ signed.got = t
    BY <2>1 DEF Idle, Tasks, PCs, MaybeToken, Ages
  <2> HIDE DEF signed
  <2>3. task'[c] = signed /\ \A x \in Workers \ {c} : task'[x] = task[x]
    BY <1>2, <1>4, <2>2, Becoming DEF RefreshInv
  <2>4. Seen' \subseteq Seen \cup {None, t}
    BY <1>1, <2>2, <2>3 DEF Seen
  <2>5. \A u \in accepted \cup (Seen \ {None}) : u.grant # c
    BY <1>1 DEF RefreshInv, GrantInv
  <2>6. \A x \in Connects : task'[x].pc = "idle" => x # c /\ task[x].pc = "idle"
    BY <2>2, <2>3 DEF Workers
  <2>7. GrantInv'
    <3>1. \A a, b \in accepted' : a.grant = b.grant => a = b
      BY <1>4, <2>1, <2>5 DEF RefreshInv, GrantInv
    <3>2. \A a \in accepted', u \in Seen' \ {None} : u.grant = a.grant => u.gen <= a.gen
      BY <1>4, <2>1, <2>4, <2>5 DEF RefreshInv, GrantInv
    <3>3. \A x \in Connects : task'[x].pc = "idle" => \A a \in accepted' \cup (Seen' \ {None}) : a.grant # x
      BY <1>4, <2>1, <2>4, <2>6 DEF RefreshInv, GrantInv
    <3> QED
      BY <3>1, <3>2, <3>3 DEF GrantInv
  <2>8. t \notin Seen
    BY <2>1, <2>5
  <2>9. ASSUME NEW x \in Workers, Pending(x)'
        PROVE  /\ task'[x].got \in accepted' \cup wasted' /\ task'[x].got \notin SeenByOthers(x)'
               /\ \A a \in accepted' : a.grant = task'[x].got.grant => a = task'[x].got
               /\ \A u \in Seen' \ {None} : u.grant = task'[x].got.grant => u.gen <= task'[x].got.gen
    <3>1. CASE x = c
      <4>1. SeenByOthers(x)' \subseteq Seen \cup {None}
        BY <1>1, <2>2, <2>3, <3>1 DEF SeenByOthers, Seen
      <4> QED
        BY <1>4, <2>1, <2>2, <2>3, <2>4, <2>5, <2>8, <3>1, <4>1
    <3>2. CASE x # c
      <4>1. task'[x] = task[x] /\ Pending(x)
        BY <2>3, <2>9, <3>2 DEF Pending
      <4>2. task[x].got \in accepted \cup wasted /\ task[x].got \notin SeenByOthers(x) /\ task[x].got \in Seen
            /\ task[x].got # None /\ Latest(task[x].got)
        BY <4>1 DEF RefreshInv, PendingInv, Seen, Pending
      <4>3. SeenByOthers(x)' \subseteq SeenByOthers(x) \cup {None, t}
        BY <1>1, <2>2, <2>3, <3>2 DEF SeenByOthers
      <4> QED
        BY <1>1, <1>4, <2>1, <2>4, <2>5, <2>8, <4>1, <4>2, <4>3 DEF Latest
    <3> QED
      BY <3>1, <3>2
  <2>10. PendingInv'
    BY <2>9 DEF PendingInv, Latest
  <2>11. TypeOK' /\ HolderInv' /\ OnlyLostTokensExpire'
    BY <1>1, <1>2, <1>4, <2>1, <2>2, StateTypes, HandlerStep
  <2>12. StoredInv'
    BY <1>1, <1>2, <1>4, <2>3, HoldersAreWorkers DEF RefreshInv, StoredInv
  <2> QED
    BY <2>7, <2>10, <2>11, <2>12 DEF RefreshInv
<1> QED
  BY <1>3, <1>4 DEF Exchange

LEMMA SaveStep ==
  ASSUME RefreshInv, NEW c \in Connects, Save(c)
  PROVE  RefreshInv'
<1>1. c \in Workers /\ c \notin Holders
  BY HoldersAreWorkers
<1>2. row' \in Rows /\ row'.tok = task[c].got
  BY <1>1, StateTypes DEF Save, UpsertConnection, Rows
<1> QED
  BY <1>1, <1>2, IdleType, IdlePlaces, QuietHandler DEF Save

LEMMA LapseStep ==
  ASSUME RefreshInv, Lapse
  PROVE  RefreshInv'
<1>1. /\ UNCHANGED <<lock, task, accepted, wasted, aborts>> /\ lapses < MaxLapses /\ lapses' = lapses + 1
      /\ row' = [row EXCEPT !.age = IF @ = "fresh" THEN "soon" ELSE "lapsing"]
  BY DEF Lapse
<1>2. row' \in Rows /\ row'.tok = row.tok
  BY <1>1, StateTypes DEF Rows, Ages
<1>3. lapses' \in 0 .. MaxLapses
  BY <1>1, StateTypes, BoundAssumption
<1>4. TypeOK'
  BY <1>1, <1>2, <1>3 DEF RefreshInv, TypeOK
<1>5. GrantInv' /\ PendingInv'
  BY <1>1, <1>2 DEF RefreshInv, GrantInv, PendingInv, Latest, Seen, SeenByOthers, Pending
<1>6. Usable' = Usable
  BY <1>1, StateTypes DEF Usable, Rows
<1>7. StoredInv' /\ HolderInv' /\ OnlyLostTokensExpire'
  BY <1>1, <1>2, <1>6 DEF RefreshInv, StoredInv, HolderInv, OnlyLostTokensExpire
<1> QED
  BY <1>4, <1>5, <1>7 DEF RefreshInv

LEMMA StutterStep ==
  ASSUME RefreshInv, UNCHANGED vars
  PROVE  RefreshInv'
<1>1. UNCHANGED <<row, lock, task, accepted, wasted, lapses, aborts>>
  BY DEF vars
<1> QED
  BY <1>1 DEF RefreshInv, TypeOK, GrantInv, PendingInv, Latest, Usable, Seen, SeenByOthers, Pending,
              StoredInv, HolderInv, OnlyLostTokensExpire

LEMMA InvStep == RefreshInv /\ [Next]_vars => RefreshInv'
<1> SUFFICES ASSUME RefreshInv, [Next]_vars PROVE RefreshInv'
  OBVIOUS
<1>1. ASSUME NEW w \in Jobs \cup Calls, Answered(w) \/ Unanswered(w) \/ Abort(w) PROVE RefreshInv'
  BY <1>1, AnsweredStep, UnansweredStep, AbortStep DEF Holders
<1>2. ASSUME NEW j \in Jobs, JobStep(j) PROVE RefreshInv'
  BY <1>2, ClaimStep, JobCommitStep DEF JobStep
<1>3. ASSUME NEW k \in Calls, Fetch(k) \/ CallCommit(k) PROVE RefreshInv'
  BY <1>3, FetchStep, CallCommitStep
<1>4. ASSUME NEW s \in Checks, CheckStep(s) PROVE RefreshInv'
  BY <1>4, CheckReadStep, CheckPresentStep, CheckStoreStep, CheckMarkStep DEF CheckStep
<1>5. ASSUME NEW d \in Disconnects, DisconnectStep(d) PROVE RefreshInv'
  BY <1>5, DisconnectReadStep, RevokeStep, DeactivateStep DEF DisconnectStep
<1>6. ASSUME NEW c \in Connects, Exchange(c) \/ Save(c) PROVE RefreshInv'
  BY <1>6, ExchangeStep, SaveStep
<1> QED
  BY <1>1, <1>2, <1>3, <1>4, <1>5, <1>6, LapseStep, StutterStep DEF Next

LEMMA AlwaysInv == Spec => []RefreshInv
BY InvInit, InvStep, PTL DEF Spec

\* The shape of the state; between two statements of its transaction a worker
\* holds the row's lock, and nobody else does.
THEOREM TypeCorrect == Spec => []TypeOK
<1>1. RefreshInv => TypeOK
  BY DEF RefreshInv
<1> QED
  BY <1>1, AlwaysInv, PTL

\* The job and the tool calls mark a connection expired only when its token
\* was really lost, however many of them run at once (refreshConnection:
\* "breaking a healthy connection").
THEOREM OnlyLostTokensEverExpire == Spec => []OnlyLostTokensExpire
<1>1. RefreshInv => OnlyLostTokensExpire
  BY DEF RefreshInv
<1> QED
  BY <1>1, AlwaysInv, PTL

-----------------------------------------------------------------------------
(* What a single step may do.                                              *)

LEMMA OthersStay ==
  ASSUME RefreshInv, NEW w \in Workers, NEW x \in Workers \ {w}, NEW st, Becomes(w, st)
  PROVE  task'[x] = task[x]
BY DEF RefreshInv, TypeOK, Becomes

LEMMA BecomesThat ==
  ASSUME RefreshInv, NEW w \in Workers, NEW st, Becomes(w, st)
  PROVE  task'[w] = st
BY DEF RefreshInv, TypeOK, Becomes

\* Only a tool call itself is ever done with a token.
Handed(k) == task[k].pc # "done" /\ task'[k].pc = "done" /\ task'[k].write = "tokens"
Stored(k) == row'.active /\ row'.status = "connected" /\ row'.tok = task'[k].got

LEMMA FetchHandsStored ==
  ASSUME RefreshInv, NEW k \in Calls, Fetch(k), Handed(k)
  PROVE  Stored(k)
<1>1. k \in Workers
  BY HoldersAreWorkers DEF Holders
<1>2. UNCHANGED row
  BY DEF Fetch
<1>3. Usable /\ Becomes(k, [Done EXCEPT !.got = row.tok, !.write = "tokens"])
  BY <1>1 DEF Fetch, Becomes, RefreshInv, TypeOK, Idle, Done, Handed
<1> QED
  BY <1>1, <1>2, <1>3 DEF Usable, Becomes, RefreshInv, TypeOK, Done, Idle, Stored

LEMMA CommitHandsStored ==
  ASSUME RefreshInv, NEW k \in Calls, CallCommit(k), Handed(k)
  PROVE  Stored(k)
<1> DEFINE got == IF task[k].write = "tokens" THEN task[k].got ELSE task[k].tok
           handed == [Done EXCEPT !.write = "tokens", !.got = got]
<1>1. k \in Workers /\ k \in Holders
  BY HoldersAreWorkers DEF Holders
<1>2. Becomes(k, IF task[k].write = "expired" THEN Done ELSE handed) /\ row' = Written(k) /\ task[k].pc = "write"
  BY DEF CallCommit
<1>3. handed.got = got /\ Done.write = "nothing"
  BY DEF Done, Idle
<1> HIDE DEF handed
<1>4. task[k].write # "expired" /\ task'[k] = handed
  BY <1>1, <1>2, <1>3, BecomesThat DEF Handed
<1>5. task[k].tok = row.tok /\ Usable /\ row \in Rows
  BY <1>1, <1>2, StateTypes DEF RefreshInv, HolderInv
<1>6. CASE task[k].write = "tokens"
  BY <1>2, <1>3, <1>4, <1>5, <1>6 DEF Stored, Written, TokensStored, Usable, Rows
<1>7. CASE task[k].write # "tokens"
  BY <1>2, <1>3, <1>4, <1>5, <1>7 DEF Stored, Written, Usable
<1> QED
  BY <1>6, <1>7

LEMMA HandedStep ==
  ASSUME RefreshInv, [Next]_vars, NEW k \in Calls, Handed(k)
  PROVE  Stored(k)
<1>1. k \in Workers /\ k \in Holders /\ k \notin Jobs
  BY HoldersAreWorkers, WorkersAssumption DEF Holders
<1>2. task'[k] # task[k]
  BY DEF Handed
<1>3. ASSUME NEW w \in Jobs \cup Calls, Answered(w) \/ Unanswered(w) \/ Abort(w) PROVE FALSE
  <2>1. w \in Workers
    BY HoldersAreWorkers DEF Holders
  <2>2. CASE w # k
    BY <1>1, <1>2, <1>3, <2>1, <2>2, OthersStay DEF Answered, Unanswered, Abort
  <2>3. CASE w = k
    <3>1. task[k] \in Tasks
      BY <1>1, StateTypes
    <3>2. CASE Answered(k) \/ Unanswered(k)
      BY <1>1, <3>1, <3>2, BecomesThat DEF Answered, Unanswered, Handed, Tasks
    <3>3. CASE Abort(k)
      BY <1>1, <3>3, BecomesThat DEF Abort, Handed, Done, Idle
    <3> QED
      BY <1>3, <2>3, <3>2, <3>3
  <2> QED
    BY <2>2, <2>3
<1>4. ASSUME NEW j \in Jobs, JobStep(j) PROVE FALSE
  BY <1>1, <1>2, <1>4, OthersStay, HoldersAreWorkers DEF JobStep, Claim, JobCommit, Holders
<1>5. ASSUME NEW c \in Calls, Fetch(c) \/ CallCommit(c) PROVE Stored(k)
  <2>1. c \in Workers
    BY HoldersAreWorkers DEF Holders
  <2>2. CASE c # k
    BY <1>1, <1>2, <1>5, <2>1, <2>2, OthersStay DEF Fetch, CallCommit
  <2> QED
    BY <1>5, <2>2, FetchHandsStored, CommitHandsStored
<1>6. ASSUME NEW s \in Checks, CheckStep(s) PROVE FALSE
  BY <1>1, <1>2, <1>6, OthersStay, HoldersAreWorkers DEF CheckStep, CheckRead, CheckPresent, CheckStore, CheckMark
<1>7. ASSUME NEW d \in Disconnects, DisconnectStep(d) PROVE FALSE
  BY <1>1, <1>2, <1>7, OthersStay, HoldersAreWorkers DEF DisconnectStep, DisconnectRead, Revoke, Deactivate
<1>8. ASSUME NEW c \in Connects, Exchange(c) \/ Save(c) PROVE FALSE
  BY <1>1, <1>2, <1>8, OthersStay, HoldersAreWorkers DEF Exchange, Save
<1>9. CASE Lapse \/ UNCHANGED vars
  BY <1>2, <1>9 DEF Lapse, vars
<1> QED
  BY <1>3, <1>4, <1>5, <1>6, <1>7, <1>8, <1>9 DEF Next

\* A tool call is handed the token that is stored at that moment, of a
\* connection that is connected then (GetFreshIntegrationToken), however the
\* other refreshers, the status requests and the disconnects interleave.
THEOREM CallsAlwaysGetTheStoredToken == Spec => CallsGetTheStoredToken
<1>1. RefreshInv /\ [Next]_vars =>
        [\A k \in Calls :
           task[k].pc # "done" /\ task'[k].pc = "done" /\ task'[k].write = "tokens" =>
             row'.active /\ row'.status = "connected" /\ row'.tok = task'[k].got]_vars
  BY HandedStep DEF Handed, Stored
<1> QED
  BY <1>1, AlwaysInv, PTL DEF Spec, CallsGetTheStoredToken

Later == row'.tok # row.tok /\ row.tok # None /\ row'.tok # None
           => row'.tok.grant # row.tok.grant \/ row'.tok.gen > row.tok.gen

\* A token that is about to be stored is later than the stored one.
LEMMA PendingIsLater ==
  ASSUME RefreshInv, NEW w \in Workers, task[w].pc = "write", row'.tok = task[w].got
  PROVE  Later
<1> SUFFICES ASSUME row.tok # None, task[w].got # None, task[w].got.grant = row.tok.grant
             PROVE  task[w].got.gen > row.tok.gen
  BY DEF Later
<1>1. task[w].got \notin SeenByOthers(w) /\ Latest(task[w].got)
  BY DEF RefreshInv, PendingInv, Pending
<1>2. row.tok \in Tokens /\ task[w].got \in Tokens /\ row.tok # task[w].got
  BY <1>1, StateTypes DEF MaybeToken, SeenByOthers
<1>3. row.tok.gen <= task[w].got.gen
  BY <1>1 DEF Latest, Seen
<1>4. row.tok.gen # task[w].got.gen
  BY <1>2 DEF Tokens
<1> QED
  BY <1>2, <1>3, <1>4 DEF Tokens

LEMMA LaterStep ==
  ASSUME RefreshInv, [Next]_vars
  PROVE  Later
<1>1. row'.tok = row.tok => Later
  BY DEF Later
<1>2. ASSUME NEW w \in Holders, task[w].pc = "write", row' = Written(w) PROVE Later
  <2>1. w \in Workers
    BY HoldersAreWorkers
  <2>2. CASE task[w].write = "tokens"
    BY <1>2, <2>1, <2>2, PendingIsLater, StateTypes DEF Written, TokensStored, Rows
  <2>3. CASE task[w].write # "tokens"
    BY <1>1, <1>2, <2>3, StateTypes DEF Written, Expired, Rows
  <2> QED
    BY <2>2, <2>3
<1>3. ASSUME NEW w \in Jobs \cup Calls, Answered(w) \/ Unanswered(w) \/ Abort(w) PROVE Later
  BY <1>1, <1>3 DEF Answered, Unanswered, Abort
<1>4. ASSUME NEW j \in Jobs, JobStep(j) PROVE Later
  BY <1>1, <1>2, <1>4 DEF JobStep, Claim, JobCommit, Holders
<1>5. ASSUME NEW k \in Calls, Fetch(k) \/ CallCommit(k) PROVE Later
  BY <1>1, <1>2, <1>5 DEF Fetch, CallCommit, Holders
<1>6. ASSUME NEW s \in Checks, CheckStep(s) PROVE Later
  <2>1. s \in Workers /\ task[s].got \in MaybeToken
    BY HoldersAreWorkers, StateTypes
  <2>2. CASE CheckStore(s)
    BY <1>1, <2>1, <2>2, RowWrites, PendingIsLater DEF CheckStore
  <2>3. CASE CheckRead(s) \/ CheckPresent(s) \/ CheckMark(s)
    BY <1>1, <2>1, <2>3, RowWrites DEF CheckRead, CheckPresent, CheckMark
  <2> QED
    BY <1>6, <2>2, <2>3 DEF CheckStep
<1>7. ASSUME NEW d \in Disconnects, DisconnectStep(d) PROVE Later
  BY <1>1, <1>7, StateTypes, RowWrites DEF DisconnectStep, DisconnectRead, Revoke, Deactivate
<1>8. ASSUME NEW c \in Connects, Exchange(c) \/ Save(c) PROVE Later
  <2>1. CASE Exchange(c)
    BY <1>1, <2>1 DEF Exchange
  <2>2. CASE Save(c)
    BY <2>2, HoldersAreWorkers, PendingIsLater DEF Save, UpsertConnection
  <2> QED
    BY <1>8, <2>1, <2>2
<1>9. CASE Lapse
  BY <1>1, <1>9, StateTypes DEF Lapse, Rows
<1>10. CASE UNCHANGED vars
  BY <1>1, <1>10 DEF vars
<1> QED
  BY <1>3, <1>4, <1>5, <1>6, <1>7, <1>8, <1>9, <1>10 DEF Next

\* Within one sign-in the stored token is only ever replaced by a later one,
\* though Status writes without the lock what it got for a token it read
\* before (UpdateTokens, MarkExpired).
THEOREM RefreshIsNeverUndone == Spec => RefreshIsNotUndone
<1>1. RefreshInv /\ [Next]_vars =>
        [row'.tok # row.tok /\ row.tok # None /\ row'.tok # None
           => row'.tok.grant # row.tok.grant \/ row'.tok.gen > row.tok.gen]_vars
  BY LaterStep DEF Later
<1> QED
  BY <1>1, AlwaysInv, PTL DEF Spec, RefreshIsNotUndone
===============================================================================
