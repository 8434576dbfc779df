------------------------------ MODULE LiveFeed -------------------------------
(***************************************************************************)
(* What following a run live promises its watchers, with no process, bus,  *)
(* relay, mirror or channel in sight.  Runs publish numbered events until  *)
(* they fall silent.  A stream shows events of its run, and of the runs    *)
(* mirrored on it: it may miss any of them, but shows none that was not    *)
(* published, none twice and none late, and nothing after a last event or  *)
(* after it ended.  StreamRefinement shows that EventStream implements it. *)
(***************************************************************************)
EXTENDS Naturals, Sequences

CONSTANTS
  Runs,
  Streams,
  Mirrors    \* pairs of runs: the second's events are shown on the first's

VARIABLES
  published, \* how many events each run has published
  silent,    \* runs that publish nothing more
  watch      \* of each stream its run, what it has shown, and whether it is open

feedVars == <<published, silent, watch>>

Init ==
  /\ published = [r \in Runs |-> 0]
  /\ silent = {}
  /\ watch \in [Streams -> [run: Runs, shown: {<<>>}, open: {TRUE}]]

\* The last event is the one after which the run is silent.
Publish(r) ==
  /\ r \notin silent
  /\ published' = [published EXCEPT ![r] = @ + 1]
  /\ silent' \in {silent, silent \cup {r}}
  /\ UNCHANGED watch

\* A run may end without a last event.
Hush(r) ==
  /\ silent' = silent \cup {r}
  /\ UNCHANGED <<published, watch>>

Covers(r, q) == q = r \/ <<r, q>> \in Mirrors

\* Stream s shows the n-th event of run q.
Show(s, q, n, last) ==
  LET w == watch[s] IN
  /\ w.open
  /\ Covers(w.run, q)
  /\ n \in 1 .. published[q]
  /\ last => q \in silent /\ n = published[q]
  /\ \A k \in 1 .. Len(w.shown) : w.shown[k].src = q => w.shown[k].seq < n
  /\ watch' = [watch EXCEPT ![s] =
       [w EXCEPT !.shown = Append(@, [src |-> q, dst |-> w.run, seq |-> n, last |-> last]),
                 !.open = ~last]]
  /\ UNCHANGED <<published, silent>>

Close(s) ==
  /\ watch[s].open
  /\ watch' = [watch EXCEPT ![s] = [@ EXCEPT !.open = FALSE]]
  /\ UNCHANGED <<published, silent>>

Next ==
  \/ \E r \in Runs : Publish(r) \/ Hush(r)
  \/ \E s \in Streams :
       \/ Close(s)
       \/ \E q \in Runs, last \in BOOLEAN : \E n \in 1 .. published[q] : Show(s, q, n, last)

Spec == Init /\ [][Next]_feedVars
=============================================================================
