---------------------------- MODULE EventStream -----------------------------
(***************************************************************************)
(* Following a run live: GET /runs/{id}/stream on any API process, the     *)
(* in-process event bus, the relay that carries its events to the other    *)
(* processes over Redis, and the mirror that shows a specialist's events   *)
(* on the run of the team's orchestrator.                                  *)
(*                                                                         *)
(* A run is reduced to what its watchers can tell: a row that is live or   *)
(* over, and a goroutine that publishes events one after the other.  The   *)
(* orchestrator's goroutine dispatches one specialist and waits for it.    *)
(***************************************************************************)
EXTENDS Naturals, Sequences, FiniteSets

CONSTANTS
  Insts,         \* the API processes
  Streams,       \* requests to follow a run (a bound)
  Parent, Child, \* the run, and the run of its specialist
  None,          \* no event
  Team,          \* is Parent the run of a team?
  MaxEvents,     \* events each run publishes before its last one (a bound)
  BufCap,        \* a subscriber's channel, 64 in the code
  QueueCap,      \* the relay's queue, 1024 in the code
  MaxSlots,      \* streams a process serves to one user or workspace
  Shutdowns,     \* may a process begin to shut down?
  DbFaults       \* may the last checkpoint of a failed run be lost?

ASSUME RunAssumption   == Parent # Child
ASSUME CapAssumption   == BufCap \in Nat \ {0} /\ QueueCap \in Nat \ {0}
ASSUME SlotAssumption  == MaxSlots \in Nat \ {0}
ASSUME EventAssumption == MaxEvents \in Nat
ASSUME FlagAssumption  == {Team, Shutdowns, DbFaults} \subseteq BOOLEAN
ASSUME StreamAssumption == IsFiniteSet(Streams)

VARIABLES
  row,     \* workflow_runs.status as runInFlight sees it, "none" without a row
  driver,  \* the goroutine that executes each run
  mirror,  \* EventBus.mirrors, the specialist's entry, on Parent's process
  out,     \* relay.out, the queue of each process
  stream,  \* the stream requests
  remote,  \* Redis subscriptions: one per stream, one for the mirror
  slots,   \* streamLimiter's count on each process
  closing  \* processes whose bus has been closed

vars == <<row, driver, mirror, out, stream, remote, slots, closing>>

Runs == IF Team THEN {Parent, Child} ELSE {Parent}

\* dst is the event's RunID; src the run that published it, so that a mirrored
\* copy has dst # src.  last: EventComplete or EventError.
Events == [src: Runs, dst: Runs, seq: Nat \ {0}, last: BOOLEAN]

\* The envelope names the process that sent it.
Messages == [ev: Events, from: Insts]

\* Beside the streams', the subscription of the mirror.
Link == "link"
ASSUME LinkAssumption == Link \notin Streams
Subs == Streams \cup {Link}

DriverPCs == {"off", "run", "deliver", "mirror", "enter", "dispatch", "wait",
              "unlink", "done"}

\* ev is being published; then: where the goroutine goes on afterwards.
DriverStates == [pc: DriverPCs, home: Insts, seq: Nat,
                 ev: Events \cup {None}, then: DriverPCs, team: {"todo", "past"}]

StreamPCs == {"check", "acquire", "add", "sub", "live", "stop", "remove", "release", "gone"}

\* listed: in EventBus.subs.  shut: its channel is closed.  why: what ended it.
StreamStates == [pc: StreamPCs, home: Insts, run: Runs, listed: BOOLEAN,
                 shut: BOOLEAN, buf: Seq(Events), got: Seq(Events),
                 why: {"none", "event", "closed", "client", "answered", "refused"}]

Init ==
  /\ row = [r \in Runs |-> IF r = Parent THEN "live" ELSE "none"]
  /\ \E i \in Insts :
       driver = [r \in Runs |-> [pc |-> IF r = Parent THEN "run" ELSE "off", home |-> i,
                                 seq |-> 0, ev |-> None, then |-> "run", team |-> "todo"]]
  /\ mirror = FALSE
  /\ out = [i \in Insts |-> <<>>]
  /\ stream \in [Streams -> {[pc |-> "check", home |-> i, run |-> r, listed |-> FALSE,
                              shut |-> FALSE, buf |-> <<>>, got |-> <<>>, why |-> "none"] :
                                i \in Insts, r \in Runs}]
  /\ remote = [x \in Subs |-> [on |-> FALSE, inbox |-> <<>>]]
  /\ slots = [i \in Insts |-> 0]
  /\ closing = {}

-----------------------------------------------------------------------------
(* The bus.                                                                *)

\* Mutant of Offer: the channel has no bound.
OfferAll(buf, e) == Append(buf, e)

\* A non-blocking send: a full channel misses the event.
Offer(buf, e) == IF Len(buf) < BufCap THEN Append(buf, e) ELSE buf

Listening(s, i, r) == stream[s].listed /\ stream[s].home = i /\ stream[s].run = r

\* deliverLocal on process i.
Delivered(i, e) ==
  [s \in Streams |->
     IF Listening(s, i, e.dst) THEN [stream[s] EXCEPT !.buf = Offer(@, e)] ELSE stream[s]]

\* relayOut on process i: a full queue drops the event.
Queued(i, e) ==
  [out EXCEPT ![i] = IF Len(@) < QueueCap THEN Append(@, [ev |-> e, from |-> i]) ELSE @]

\* deliverLocal, then relayOut: one step, for a stream hears an event by only
\* one of the two.
Send(i, e) == stream' = Delivered(i, e) /\ out' = Queued(i, e)

\* mirrorEvent.
Mirrored(e) == [e EXCEPT !.dst = Parent]

\* Publish: the run's own subscribers first; then it looks for a mirror of the
\* run's events, which the orchestrator's run never has.
Hand(r) ==
  /\ driver[r].pc = "deliver"
  /\ Send(driver[r].home, driver[r].ev)
  /\ driver' = [driver EXCEPT ![r] =
                  IF r = Child THEN [@ EXCEPT !.pc = "mirror"]
                               ELSE [@ EXCEPT !.pc = driver[r].then, !.ev = None]]
  /\ UNCHANGED <<row, mirror, remote, slots, closing>>

\* Mutant of Deliver: the send waits for room in the channel.
DeliverBlocks(r) ==
  /\ driver[r].pc = "deliver"
  /\ \A s \in Streams : Listening(s, driver[r].home, driver[r].ev.dst) =>
                          Len(stream[s].buf) < BufCap
  /\ Hand(r)

Deliver(r) == Hand(r)

\* ... and the subscribers of the orchestrator's run, when it is linked here.
Mirror ==
  /\ Team
  /\ driver[Child].pc = "mirror"
  /\ driver' = [driver EXCEPT ![Child].pc = driver[Child].then, ![Child].ev = None]
  /\ IF mirror /\ driver[Child].home = driver[Parent].home
     THEN Send(driver[Child].home, Mirrored(driver[Child].ev))
     ELSE UNCHANGED <<stream, out>>
  /\ UNCHANGED <<row, mirror, remote, slots, closing>>

\* The Redis subscriptions on channel r.
Tuned(r) == {x \in Subs : /\ remote[x].on
                          /\ r = IF x = Link THEN Child ELSE stream[x].run}

\* publishLoop hands a message to Redis, which hands it to the subscriptions
\* live at that moment: all of them, or, when something fails, only some.
Relay(i) ==
  /\ out[i] # <<>>
  /\ LET m == Head(out[i]) IN
     \E heard \in SUBSET Tuned(m.ev.dst) :
       remote' = [x \in Subs |-> IF x \in heard
                    THEN [remote[x] EXCEPT !.inbox = Append(@, m)] ELSE remote[x]]
  /\ out' = [out EXCEPT ![i] = Tail(@)]
  /\ UNCHANGED <<row, driver, mirror, stream, slots, closing>>

\* Mutant of Foreign: a process listens to its own echo.
ForeignAny(m, i) == m.from \in Insts /\ i \in Insts

Foreign(m, i) == m.from # i

\* subscribeRemote's goroutine, for a stream.  A send on a closed channel
\* panics; safego contains it and the subscription ends.
Hear(s) ==
  LET m == Head(remote[s].inbox) IN
  /\ remote[s].on /\ remote[s].inbox # <<>>
  /\ IF Foreign(m, stream[s].home) /\ stream[s].shut
     THEN /\ remote' = [remote EXCEPT ![s] = [on |-> FALSE, inbox |-> <<>>]]
          /\ UNCHANGED stream
     ELSE /\ remote' = [remote EXCEPT ![s].inbox = Tail(@)]
          /\ stream' = IF Foreign(m, stream[s].home)
                       THEN [stream EXCEPT ![s].buf = Offer(@, m.ev)] ELSE stream
  /\ UNCHANGED <<row, driver, mirror, out, slots, closing>>

\* ... and for the mirror of a specialist that runs on another process.
HearChild ==
  LET m == Head(remote[Link].inbox)
      i == driver[Parent].home
  IN
  /\ remote[Link].on /\ remote[Link].inbox # <<>>
  /\ remote' = [remote EXCEPT ![Link].inbox = Tail(@)]
  /\ IF Foreign(m, i) THEN Send(i, Mirrored(m.ev)) ELSE UNCHANGED <<stream, out>>
  /\ UNCHANGED <<row, driver, mirror, slots, closing>>

-----------------------------------------------------------------------------
(* The goroutines that execute the runs.                                   *)

\* Publish an event of run r, then go on at p.
Publish(r, last, p) ==
  driver' = [driver EXCEPT
    ![r].pc = "deliver", ![r].seq = @ + 1, ![r].then = p,
    ![r].ev = [src |-> r, dst |-> r, seq |-> driver[r].seq + 1, last |-> last]]

\* Node transitions, tool calls, reasoning.
Progress(r) ==
  /\ driver[r].pc = "run" /\ driver[r].seq < MaxEvents
  /\ Publish(r, FALSE, "run")
  /\ UNCHANGED <<row, mirror, out, stream, remote, slots, closing>>

\* Mutant of EndNotified: the event is published before the checkpoint.
EndEarly(r) ==
  /\ driver[r].pc = "run"
  /\ Publish(r, TRUE, "done")
  /\ UNCHANGED <<row, mirror, out, stream, remote, slots, closing>>

\* The terminal checkpoint commits, then its event is published.
EndNotified(r) ==
  /\ driver[r].pc = "run"
  /\ row' = [row EXCEPT ![r] = "over"]
  /\ Publish(r, TRUE, "done")
  /\ UNCHANGED <<mirror, out, stream, remote, slots, closing>>

\* A run that failed or was cancelled tells so even if its checkpoint was lost.
EndUnwritten(r) ==
  /\ DbFaults
  /\ driver[r].pc = "run"
  /\ Publish(r, TRUE, "done")
  /\ UNCHANGED <<row, mirror, out, stream, remote, slots, closing>>

\* ... and the reaper closes the row.
ReapStaleRuns(r) ==
  /\ driver[r].pc = "done" /\ row[r] = "live"
  /\ row' = [row EXCEPT ![r] = "over"]
  /\ UNCHANGED <<driver, mirror, out, stream, remote, slots, closing>>

\* An end nobody publishes: the terminal checkpoint failed, no checkpoint was
\* ever written, or the process died and the reaper closed the row.
EndSilent(r) ==
  /\ driver[r].pc = "run"
  /\ row' = [row EXCEPT ![r] = "over"]
  /\ driver' = [driver EXCEPT ![r].pc = "done"]
  /\ UNCHANGED <<mirror, out, stream, remote, slots, closing>>

\* dispatchSubtask: LinkChild subscribes, then enters the mirror; the event
\* that tells of the delegation; the dispatch, which another process may
\* serve; UnlinkChild removes the mirror, then ends the subscription.
Delegate ==
  /\ Team /\ driver[Parent].pc = "run" /\ driver[Parent].team = "todo"
  /\ \E live \in BOOLEAN : remote' = [remote EXCEPT ![Link].on = live]
  /\ driver' = [driver EXCEPT ![Parent].pc = "enter"]
  /\ UNCHANGED <<row, mirror, out, stream, slots, closing>>

LinkEnter ==
  /\ driver[Parent].pc = "enter"
  /\ mirror' = TRUE
  /\ IF driver[Parent].seq < MaxEvents
     THEN Publish(Parent, FALSE, "dispatch")
     ELSE driver' = [driver EXCEPT ![Parent].pc = "dispatch"]
  /\ UNCHANGED <<row, out, stream, remote, slots, closing>>

Dispatch ==
  /\ driver[Parent].pc = "dispatch"
  /\ \E i \in Insts :
       driver' = [driver EXCEPT ![Parent].pc = "wait", ![Parent].team = "past",
                                ![Child].pc = "run", ![Child].home = i]
  /\ row' = [row EXCEPT ![Child] = "live"]
  /\ UNCHANGED <<mirror, out, stream, remote, slots, closing>>

\* The specialist answered, or the dispatch timed out.
Answered ==
  /\ driver[Parent].pc = "wait"
  /\ mirror' = FALSE
  /\ driver' = [driver EXCEPT ![Parent].pc = "unlink"]
  /\ UNCHANGED <<row, out, stream, remote, slots, closing>>

\* Mutant of Unlink: the subscription is left running.
UnlinkForgets ==
  /\ driver[Parent].pc = "unlink"
  /\ driver' = [driver EXCEPT ![Parent].pc = "run"]
  /\ UNCHANGED <<row, mirror, out, stream, remote, slots, closing>>

Unlink ==
  /\ driver[Parent].pc = "unlink"
  /\ remote' = [remote EXCEPT ![Link] = [on |-> FALSE, inbox |-> <<>>]]
  /\ driver' = [driver EXCEPT ![Parent].pc = "run"]
  /\ UNCHANGED <<row, mirror, out, stream, slots, closing>>

DriverStep(r) ==
  \/ Deliver(r) \/ Progress(r)
  \/ EndNotified(r) \/ EndUnwritten(r) \/ ReapStaleRuns(r) \/ EndSilent(r)
TeamStep ==
  \/ Mirror
  \/ Delegate \/ LinkEnter \/ Dispatch \/ Answered \/ Unlink

-----------------------------------------------------------------------------
(* The stream handler.                                                     *)

\* Stream s goes on as q, everything else but the variables of a case as is.
Goes(s, q) == stream' = [stream EXCEPT ![s] = q]

\* runStatus; a run that is over, or that does not exist, is answered at once.
runInFlight(status) == status = "live"

Check(s) ==
  /\ stream[s].pc = "check"
  /\ Goes(s, IF runInFlight(row[stream[s].run])
             THEN [stream[s] EXCEPT !.pc = "acquire"]
             ELSE [stream[s] EXCEPT !.pc = "gone", !.why = "answered"])
  /\ UNCHANGED <<row, driver, mirror, out, remote, slots, closing>>

Acquire(s) ==
  LET i == stream[s].home IN
  /\ stream[s].pc = "acquire"
  /\ IF slots[i] < MaxSlots
     THEN slots' = [slots EXCEPT ![i] = @ + 1] /\ Goes(s, [stream[s] EXCEPT !.pc = "add"])
     ELSE /\ Goes(s, [stream[s] EXCEPT !.pc = "gone", !.why = "refused"])
          /\ UNCHANGED slots
  /\ UNCHANGED <<row, driver, mirror, out, remote, closing>>

\* Subscribe: first the process's own list ...
Add(s) ==
  /\ stream[s].pc = "add"
  /\ Goes(s, [stream[s] EXCEPT !.pc = "sub", !.listed = TRUE])
  /\ UNCHANGED <<row, driver, mirror, out, remote, slots, closing>>

\* ... then Redis, which may not answer within the second it is given.
Subscribe(s) ==
  /\ stream[s].pc = "sub"
  /\ \E live \in BOOLEAN : remote' = [remote EXCEPT ![s].on = live]
  /\ Goes(s, [stream[s] EXCEPT !.pc = "live"])
  /\ UNCHANGED <<row, driver, mirror, out, slots, closing>>

\* Mutant of Forward: the stream goes on after the last event.
ForwardOn(s) ==
  /\ stream[s].pc = "live" /\ stream[s].buf # <<>>
  /\ Goes(s, [stream[s] EXCEPT !.buf = Tail(@), !.got = Append(@, Head(stream[s].buf))])
  /\ UNCHANGED <<row, driver, mirror, out, remote, slots, closing>>

\* An event is written to the client; a last one ends the stream.
Forward(s) ==
  LET q == stream[s]
      e == Head(q.buf)
      r == [q EXCEPT !.buf = Tail(@), !.got = Append(@, e)]
  IN
  /\ q.pc = "live" /\ q.buf # <<>>
  /\ Goes(s, IF e.last THEN [r EXCEPT !.pc = "stop", !.why = "event"] ELSE r)
  /\ UNCHANGED <<row, driver, mirror, out, remote, slots, closing>>

\* The channel was closed and is drained.
Drained(s) ==
  /\ stream[s].pc = "live" /\ stream[s].shut /\ stream[s].buf = <<>>
  /\ Goes(s, [stream[s] EXCEPT !.pc = "stop", !.why = "closed"])
  /\ UNCHANGED <<row, driver, mirror, out, remote, slots, closing>>

ClientGone(s) ==
  /\ stream[s].pc = "live"
  /\ Goes(s, [stream[s] EXCEPT !.pc = "stop", !.why = "client"])
  /\ UNCHANGED <<row, driver, mirror, out, remote, slots, closing>>

\* Mutant of StopRemote: unsubscribe closes the channel before it stops the
\* relay.
StopLast(s) ==
  /\ stream[s].pc = "stop"
  /\ Goes(s, [stream[s] EXCEPT !.pc = "remove", !.shut = TRUE])
  /\ UNCHANGED <<row, driver, mirror, out, remote, slots, closing>>

\* unsubscribe waits for the relay's goroutine to end ...
StopRemote(s) ==
  /\ stream[s].pc = "stop"
  /\ remote' = [remote EXCEPT ![s] = [on |-> FALSE, inbox |-> <<>>]]
  /\ Goes(s, [stream[s] EXCEPT !.pc = "remove"])
  /\ UNCHANGED <<row, driver, mirror, out, slots, closing>>

\* ... then takes the stream off the list and closes its channel.
Remove(s) ==
  /\ stream[s].pc = "remove"
  /\ Goes(s, [stream[s] EXCEPT !.pc = "release", !.listed = FALSE, !.shut = TRUE, !.buf = <<>>])
  /\ UNCHANGED <<row, driver, mirror, out, remote, slots, closing>>

\* Mutant of Release: the slot comes back only when an event ended the stream.
ReleaseOnEnd(s) ==
  /\ stream[s].pc = "release"
  /\ slots' = IF stream[s].why = "event"
              THEN [slots EXCEPT ![stream[s].home] = @ - 1] ELSE slots
  /\ Goes(s, [stream[s] EXCEPT !.pc = "gone"])
  /\ UNCHANGED <<row, driver, mirror, out, remote, closing>>

Release(s) ==
  /\ stream[s].pc = "release"
  /\ slots' = [slots EXCEPT ![stream[s].home] = @ - 1]
  /\ Goes(s, [stream[s] EXCEPT !.pc = "gone"])
  /\ UNCHANGED <<row, driver, mirror, out, remote, closing>>

\* What the handler does by itself.
StreamStep(s) ==
  \/ Check(s) \/ Acquire(s) \/ Add(s) \/ Subscribe(s) \/ Forward(s) \/ Drained(s)
  \/ StopRemote(s) \/ Remove(s) \/ Release(s)

\* CloseAll, as the server begins to shut down: every listed stream.
CloseAll(i) ==
  /\ Shutdowns /\ i \notin closing
  /\ closing' = closing \cup {i}
  /\ stream' = [s \in Streams |->
       IF stream[s].listed /\ stream[s].home = i
       THEN [stream[s] EXCEPT !.listed = FALSE, !.shut = TRUE] ELSE stream[s]]
  /\ UNCHANGED <<row, driver, mirror, out, remote, slots>>

Next ==
  \/ \E r \in Runs : DriverStep(r)
  \/ TeamStep
  \/ \E i \in Insts : Relay(i) \/ CloseAll(i)
  \/ \E s \in Streams : Hear(s) \/ StreamStep(s) \/ ClientGone(s)
  \/ HearChild

Spec == Init /\ [][Next]_vars

\* The goroutines of the runs, the handlers, the relay and its subscribers go
\* on; nobody has to leave or to shut down.
FairSpec ==
  /\ Spec
  /\ \A r \in Runs : WF_vars(DriverStep(r))
  /\ WF_vars(TeamStep)
  /\ \A i \in Insts : WF_vars(Relay(i))
  /\ \A s \in Streams : WF_vars(StreamStep(s)) /\ WF_vars(Hear(s))
  /\ WF_vars(HearChild)

-----------------------------------------------------------------------------
(* Properties.                                                             *)

\* The shape of the state: no watcher has more waiting than its channel holds,
\* no process more than its relay's queue does.
TypeOK ==
  /\ \A s \in Streams : Len(stream[s].buf) <= BufCap
  /\ \A i \in Insts : Len(out[i]) <= QueueCap
  /\ row \in [Runs -> {"none", "live", "over"}]
  /\ driver \in [Runs -> DriverStates]
  /\ mirror \in BOOLEAN
  /\ out \in [Insts -> Seq(Messages)]
  /\ stream \in [Streams -> StreamStates]
  /\ remote \in [Subs -> [on: BOOLEAN, inbox: Seq(Messages)]]
  /\ slots \in [Insts -> Nat]
  /\ closing \subseteq Insts

\* What a client has been or will be sent: of each run, in the order it was
\* published and never twice, whether it came over the bus, the relay or the
\* mirror on this or on another process (EnableRedis: in process "it is
\* exact"; the relay's envelope lets a process ignore its own echoes).
InOrderOnce ==
  \A s \in Streams :
    LET seen == stream[s].got \o stream[s].buf IN
    \A j, k \in 1 .. Len(seen) :
      j < k /\ seen[j].src = seen[k].src => seen[j].seq < seen[k].seq

\* The relay never sends on a channel that its stream has closed
\* (unsubscribe: "Stop the relay first").  CloseAll alone closes a channel the
\* relay still sends on, and relies on safego to contain the panic.
NeverSendsOnClosed ==
  \A s \in Streams :
    stream[s].shut /\ stream[s].home \notin closing => ~remote[s].on

\* A slot is held exactly while a stream is served, however it ended.
SlotsAreExact ==
  \A i \in Insts :
    /\ slots[i] <= MaxSlots
    /\ slots[i] = Cardinality({s \in Streams : stream[s].home = i /\ stream[s].pc \in
                    {"add", "sub", "live", "stop", "remove", "release"}})

\* Nothing of a delegation outlives the orchestrator's run: neither the mirror
\* nor its subscription (UnlinkChild: "otherwise the map entry would leak").
DelegationLeavesNothing ==
  driver[Parent].pc = "done" => ~mirror /\ ~remote[Link].on

\* A run is not held up by who watches it: what it has to publish it can
\* publish at once, though no watcher reads and no relay drains (Publish:
\* "Never blocks").
PublishNeverBlocks ==
  \A r \in Runs : driver[r].pc = "deliver" => ENABLED Deliver(r)

\* A stream that was ended by an event followed its run to the end.
EndMeansOver ==
  \A s \in Streams : stream[s].why = "event" => row[stream[s].run] = "over"

\* Once its run is over, a stream does not wait for it (Stream: "a subscriber
\* would wait on it forever").
StreamsEnd ==
  \A s \in Streams : row[stream[s].run] = "over" ~> stream[s].pc = "gone"
=============================================================================
