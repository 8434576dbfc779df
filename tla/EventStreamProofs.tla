-------------------------- MODULE EventStreamProofs ---------------------------
(***************************************************************************)
(* Proofs about EventStream, for any number of processes, streams, events  *)
(* and any length of the channels: what a client is sent comes in order    *)
(* and once, a slot is given back exactly once, no stream's subscription   *)
(* outlives its channel and no delegation its run, and all of it together  *)
(* is the feed of LiveFeed.  The last part is about the other end of a     *)
(* delegation, TeamRuns: whom a team's run is served by.                   *)
(***************************************************************************)
EXTENDS StreamRefinement, Delegation, FiniteSetTheorems, TLAPS

-----------------------------------------------------------------------------
(* The goroutines that publish.                                            *)

\* A goroutine that publishes has an event of its own run in hand, its latest,
\* and goes on afterwards: only the specialist's is looked at for a mirror.
Armed(r) ==
  /\ driver[r].pc \in {"deliver", "mirror"} =>
       /\ driver[r].ev \in Events
       /\ driver[r].ev.src = r /\ driver[r].ev.dst = r
       /\ driver[r].ev.seq = driver[r].seq
  /\ driver[r].then \in {"run", "dispatch", "done"}
  /\ driver[r].pc = "mirror" => r = Child

\* The orchestrator is on its way to the dispatch of its specialist.
Dispatching ==
  \/ driver[Parent].pc \in {"enter", "dispatch"}
  \/ driver[Parent].pc = "deliver" /\ driver[Parent].then = "dispatch"

\* The specialist has not begun while it is still to be dispatched.
Undispatched ==
  /\ Dispatching => Team /\ driver[Parent].team = "todo"
  /\ Team /\ driver[Parent].team = "todo" =>
       driver[Child].pc = "off" /\ driver[Child].seq = 0

\* The mirror and its subscription last from the dispatch to the unlinking.
Linked ==
  /\ mirror => driver[Parent].pc \in {"dispatch", "wait"} \/ Dispatching
  /\ remote[Link].on => driver[Parent].pc \in {"wait", "unlink"} \/ Dispatching

-----------------------------------------------------------------------------
(* The handlers.                                                           *)

Holding == {"add", "sub", "live", "stop", "remove", "release"}

\* The relay is subscribed only while the handler is in its loop or about to
\* stop it; the channel is closed when it is off the list for good, unless the
\* process shuts down.
Closes(s) ==
  /\ remote[s].on => stream[s].pc \in {"live", "stop"}
  /\ stream[s].shut => stream[s].home \in closing \/ stream[s].pc \in {"release", "gone"}

BaseInv ==
  /\ TypeOK /\ SlotsAreExact
  /\ \A r \in Runs : Armed(r)
  /\ Undispatched /\ Linked
  /\ \A s \in Streams : Closes(s)

-----------------------------------------------------------------------------
(* The events.                                                             *)

Seen(s) == stream[s].got \o stream[s].buf

\* The event e is in the sequence q of events, or of messages.
Has(q, e)     == \E k \in 1 .. Len(q) : q[k] = e
Carries(q, e) == \E k \in 1 .. Len(q) : q[k].ev = e

\* The event e has left the goroutine that published it.
Known(e) ==
  \/ \E s \in Streams : Has(Seen(s), e)
  \/ \E x \in Subs : Carries(remote[x].inbox, e)
  \/ \E i \in Insts : Carries(out[i], e)

\* Where the events of run r are handed to its watchers, and the channel a
\* Redis subscription listens to.
Home(r)    == driver[r].home
Channel(x) == IF x = Link THEN Child ELSE stream[x].run

\* An event is where its run's channel takes it, and came from the one process
\* that publishes on that channel.
Addressed ==
  /\ \A s \in Streams, e \in Events : Has(Seen(s), e) => e.dst = stream[s].run
  /\ \A x \in Subs : \A k \in 1 .. Len(remote[x].inbox) :
       LET m == remote[x].inbox[k]
       IN  m.ev.dst = Channel(x) /\ m.from = Home(m.ev.dst)
  /\ \A i \in Insts : \A k \in 1 .. Len(out[i]) :
       out[i][k].from = i /\ i = Home(out[i][k].ev.dst)

\* No event is younger than the last its run has published, or as young while
\* that one is still to be handed on.
Dated(e) ==
  /\ e.seq <= driver[e.src].seq
  /\ driver[e.src].pc = "deliver" => e.seq < driver[e.src].seq
  /\ e.dst # e.src =>
       /\ e.src = Child
       /\ driver[Child].pc = "mirror" /\ Home(Child) = Home(Parent) => e.seq < driver[Child].seq

\* e was published before f, if the two are of one run and shown on one run.
Before(e, f) == e.src = f.src /\ e.dst = f.dst => e.seq < f.seq

InOrder(q)      == \A j, k \in 1 .. Len(q) : j < k => Before(q[j], q[k])
QueueInOrder(q) == \A j, k \in 1 .. Len(q) : j < k => Before(q[j].ev, q[k].ev)

\* What the channel of a stream on another process than its run's still holds
\* for it comes after what it has seen.
Follows(s) ==
  LET q == remote[s].inbox
      o == out[Home(stream[s].run)]
  IN  /\ QueueInOrder(q)
      /\ \A e, f \in Events : Has(Seen(s), e) /\ Carries(q, f) => Before(e, f)
      /\ \A e, f \in Events : Has(Seen(s), e) /\ Carries(o, f) => Before(e, f)
      /\ \A e, f \in Events : Carries(q, e) /\ Carries(o, f) => Before(e, f)

\* The same of the mirror, when the specialist runs on another process: what
\* it has shown on the orchestrator's run comes first.
Upstream(f) ==
  \/ Carries(remote[Link].inbox, f)
  \/ Carries(out[Home(Child)], f) /\ f.dst = Child

Echoes ==
  /\ QueueInOrder(remote[Link].inbox)
  /\ \A e, f \in Events :
       Carries(remote[Link].inbox, e) /\ Carries(out[Home(Child)], f) => Before(e, f)
  /\ \A e, f \in Events : Known(e) /\ e.dst # e.src /\ Upstream(f) => e.seq < f.seq

OrderInv ==
  /\ Addressed
  /\ \A e \in Events : Known(e) => Dated(e)
  /\ \A s \in Streams : InOrder(Seen(s))
  /\ \A i \in Insts : QueueInOrder(out[i])
  /\ \A s \in Streams : stream[s].home # Home(stream[s].run) => Follows(s)
  /\ Team /\ Home(Child) # Home(Parent) => Echoes

\* An event that a step lets out is the one a goroutine was about to hand over,
\* or the copy, for the orchestrator's run, of one that is out or on its way to
\* the mirror.
Copied(e) ==
  \E f \in Events : /\ Known(f) \/ (driver[Child].pc = "mirror" /\ f = driver[Child].ev)
                   /\ e.src = f.src /\ e.seq = f.seq /\ e.last = f.last

News ==
  \A e \in Events : Known(e)' =>
    \/ Known(e)
    \/ \E r \in Runs : driver[r].pc = "deliver" /\ e = driver[r].ev
    \/ Team /\ Copied(e)

\* Without a team, an event that ends a stream tells of a run that is over.
LastIsOver ==
  /\ \A e \in Events : Known(e) /\ e.last => row[Parent] = "over"
  /\ driver[Parent].pc = "deliver" /\ driver[Parent].ev.last => row[Parent] = "over"
  /\ \A s \in Streams : stream[s].why = "event" => row[Parent] = "over"

-----------------------------------------------------------------------------
(* Sequences.                                                              *)

LEMMA HeadTail ==
  ASSUME NEW S, NEW q \in Seq(S), q # <<>>
  PROVE  /\ Head(q) \in S /\ Head(q) = q[1] /\ Tail(q) \in Seq(S)
         /\ Len(q) \in Nat \ {0} /\ Len(Tail(q)) = Len(q) - 1
         /\ \A k \in 1 .. Len(Tail(q)) : Tail(q)[k] = q[k + 1]
OBVIOUS

LEMMA AppendAt ==
  ASSUME NEW S, NEW q \in Seq(S), NEW e \in S
  PROVE  /\ Append(q, e) \in Seq(S)
         /\ Len(Append(q, e)) = Len(q) + 1
         /\ \A k \in 1 .. Len(q) : Append(q, e)[k] = q[k]
         /\ Append(q, e)[Len(q) + 1] = e
OBVIOUS

LEMMA ConcatAt ==
  ASSUME NEW S, NEW p \in Seq(S), NEW q \in Seq(S)
  PROVE  /\ p \o q \in Seq(S)
         /\ Len(p \o q) = Len(p) + Len(q)
         /\ \A k \in 1 .. Len(p) + Len(q) : (p \o q)[k] = IF k <= Len(p) THEN p[k] ELSE q[k - Len(p)]
OBVIOUS

\* What a stream takes out of its channel it has still seen.
LEMMA MoveOver ==
  ASSUME NEW S, NEW p \in Seq(S), NEW q \in Seq(S), q # <<>>
  PROVE  Append(p, Head(q)) \o Tail(q) = p \o q
<1> DEFINE a == Append(p, Head(q))  t == Tail(q)
<1>1. a \in Seq(S) /\ t \in Seq(S) /\ Len(a) = Len(p) + 1 /\ Len(t) = Len(q) - 1 /\ Len(q) \in Nat \ {0}
  BY HeadTail, AppendAt
<1>2. Len(a \o t) = Len(p \o q) /\ a \o t \in Seq(S) /\ p \o q \in Seq(S) /\ Len(p \o q) = Len(p) + Len(q)
  <2> HIDE DEF a, t
  <2>1. a \o t \in Seq(S) /\ Len(a \o t) = Len(a) + Len(t)
    BY <1>1, ConcatAt
  <2>2. p \o q \in Seq(S) /\ Len(p \o q) = Len(p) + Len(q) /\ Len(p) \in Nat
    BY ConcatAt
  <2> QED BY <1>1, <2>1, <2>2
<1>3. ASSUME NEW k \in 1 .. Len(p) + Len(q) PROVE (a \o t)[k] = (p \o q)[k]
  <2>1. (a \o t)[k] = IF k <= Len(a) THEN a[k] ELSE t[k - Len(a)]
    <3> HIDE DEF a, t
    <3> QED BY <1>1, ConcatAt
  <2>2. (p \o q)[k] = IF k <= Len(p) THEN p[k] ELSE q[k - Len(p)]
    BY ConcatAt
  <2>3. CASE k <= Len(p)
    BY <1>1, <2>1, <2>2, <2>3, AppendAt, HeadTail
  <2>4. CASE k = Len(p) + 1
    BY <1>1, <2>1, <2>2, <2>4, AppendAt, HeadTail
  <2>5. CASE k > Len(p) + 1
    <3>1. k - Len(a) \in 1 .. Len(t) /\ k - Len(a) + 1 = k - Len(p)
      BY <1>1, <2>5
    <3>2. t[k - Len(a)] = q[k - Len(a) + 1]
      BY <3>1, HeadTail
    <3> QED BY <1>1, <2>1, <2>2, <2>5, <3>1, <3>2
  <2> QED BY <2>3, <2>4, <2>5
<1> QED
  <2> DEFINE c == a \o t  d == p \o q
  <2>1. c \in Seq(S) /\ d \in Seq(S) /\ Len(c) = Len(d) /\ Len(d) = Len(p) + Len(q)
    BY <1>2
  <2>2. \A k \in 1 .. Len(p) + Len(q) : c[k] = d[k]
    BY <1>3
  <2>3. c = d
    <3> HIDE DEF c, d
    <3> QED BY <2>1, <2>2
  <2> QED BY <2>3

\* An event that enters the channel comes last of all that is seen.
LEMMA AppendOver ==
  ASSUME NEW S, NEW p \in Seq(S), NEW q \in Seq(S), NEW e \in S
  PROVE  p \o Append(q, e) = Append(p \o q, e)
<1> DEFINE a == p \o Append(q, e)  b == Append(p \o q, e)
<1>1. Append(q, e) \in Seq(S) /\ Len(Append(q, e)) = Len(q) + 1 /\ p \o q \in Seq(S)
      /\ Len(p \o q) = Len(p) + Len(q)
  BY AppendAt, ConcatAt
<1>2. a \in Seq(S) /\ b \in Seq(S) /\ Len(a) = Len(p) + Len(q) + 1 /\ Len(b) = Len(p) + Len(q) + 1
  BY <1>1, AppendAt, ConcatAt
<1>3. ASSUME NEW k \in 1 .. Len(p) + Len(q) + 1 PROVE a[k] = b[k]
  <2>1. a[k] = IF k <= Len(p) THEN p[k] ELSE Append(q, e)[k - Len(p)]
    BY <1>1, ConcatAt
  <2>2. CASE k <= Len(p) + Len(q)
    <3>1. b[k] = (p \o q)[k] /\ (p \o q)[k] = IF k <= Len(p) THEN p[k] ELSE q[k - Len(p)]
      BY <1>1, <2>2, AppendAt, ConcatAt
    <3>2. k > Len(p) => Append(q, e)[k - Len(p)] = q[k - Len(p)]
      BY <2>2, AppendAt
    <3> QED BY <2>1, <3>1, <3>2
  <2>3. CASE k = Len(p) + Len(q) + 1
    BY <1>1, <2>1, <2>3, AppendAt
  <2> QED BY <2>2, <2>3
<1> QED
  <2> HIDE DEF a, b
  <2> SUFFICES a = b
    BY DEF a, b
  <2> QED BY <1>2, <1>3

-----------------------------------------------------------------------------
(* The shape of the steps.                                                 *)

LEMMA RunsAre == Parent \in Runs /\ (Team => Child \in Runs) /\ Runs \subseteq {Parent, Child}
BY DEF Runs

\* A step leaves a stream its home and its run, and fills its channel at most.
Kept == /\ stream' \in [Streams -> StreamStates]
        /\ \A s \in Streams : /\ Len(stream'[s].buf) <= BufCap
                              /\ stream'[s].home = stream[s].home
                              /\ stream'[s].run = stream[s].run

\* A step of the handler of s alone.
Moves(s, pc) == /\ Kept
                /\ \A t \in Streams : t # s => stream'[t] = stream[t]
                /\ stream'[s].pc = pc

LEMMA StreamTyped ==
  ASSUME TypeOK, NEW s \in Streams
  PROVE  /\ stream[s] \in StreamStates /\ Len(stream[s].buf) <= BufCap
         /\ stream[s].pc \in StreamPCs /\ stream[s].home \in Insts /\ stream[s].run \in Runs
         /\ stream[s].listed \in BOOLEAN /\ stream[s].shut \in BOOLEAN
         /\ stream[s].buf \in Seq(Events) /\ stream[s].got \in Seq(Events)
         /\ stream[s].why \in {"none", "event", "closed", "client", "answered", "refused"}
BY DEF TypeOK, StreamStates

LEMMA DriverTyped ==
  ASSUME TypeOK, NEW r \in Runs
  PROVE  /\ driver[r] \in DriverStates
         /\ driver[r].pc \in DriverPCs /\ driver[r].home \in Insts /\ driver[r].seq \in Nat
         /\ driver[r].ev \in Events \cup {None} /\ driver[r].then \in DriverPCs
         /\ driver[r].team \in {"todo", "past"}
BY DEF TypeOK, DriverStates

LEMMA GoesMoves ==
  ASSUME TypeOK, NEW s \in Streams, NEW q \in StreamStates, Goes(s, q),
         Len(q.buf) <= BufCap, q.home = stream[s].home, q.run = stream[s].run
  PROVE  Moves(s, q.pc) /\ stream'[s] = q
<1>1. stream \in [Streams -> StreamStates] /\ \A t \in Streams : Len(stream[t].buf) <= BufCap
  BY DEF TypeOK
<1>2. stream' = [stream EXCEPT ![s] = q]
  BY DEF Goes
<1>3. stream' \in [Streams -> StreamStates] /\ stream'[s] = q
      /\ \A t \in Streams : t # s => stream'[t] = stream[t]
  BY <1>1, <1>2
<1>4. \A t \in Streams : /\ Len(stream'[t].buf) <= BufCap
                         /\ stream'[t].home = stream[t].home /\ stream'[t].run = stream[t].run
  BY <1>1, <1>3
<1> QED BY <1>3, <1>4 DEF Moves, Kept

\* The handler's steps as changes of the fields of its record.
LEMMA PcOnly ==
  ASSUME TypeOK, NEW s \in Streams, NEW p \in StreamPCs,
         Goes(s, [stream[s] EXCEPT !.pc = p])
  PROVE  /\ Moves(s, p)
         /\ stream'[s].listed = stream[s].listed /\ stream'[s].shut = stream[s].shut
         /\ stream'[s].buf = stream[s].buf /\ stream'[s].got = stream[s].got
         /\ stream'[s].why = stream[s].why
<1>1. PICK q \in StreamStates : q = stream[s]
  BY StreamTyped
<1>2. PICK z : z = [q EXCEPT !.pc = p]
  OBVIOUS
<1>3. z \in StreamStates /\ z.pc = p /\ z.home = q.home /\ z.run = q.run /\ z.listed = q.listed
      /\ z.shut = q.shut /\ z.buf = q.buf /\ z.got = q.got /\ z.why = q.why
  BY <1>2 DEF StreamStates
<1>4. Len(z.buf) <= BufCap
  BY <1>1, <1>3, StreamTyped
<1>5. Goes(s, z)
  BY <1>1, <1>2
<1>6. Moves(s, z.pc) /\ stream'[s] = z
  BY <1>1, <1>3, <1>4, <1>5, GoesMoves
<1> QED BY <1>1, <1>3, <1>6

LEMMA PcAndWhy ==
  ASSUME TypeOK, NEW s \in Streams, NEW p \in StreamPCs,
         NEW w \in {"none", "event", "closed", "client", "answered", "refused"},
         Goes(s, [stream[s] EXCEPT !.pc = p, !.why = w])
  PROVE  /\ Moves(s, p)
         /\ stream'[s].listed = stream[s].listed /\ stream'[s].shut = stream[s].shut
         /\ stream'[s].buf = stream[s].buf /\ stream'[s].got = stream[s].got
         /\ stream'[s].why = w
<1>1. PICK q \in StreamStates : q = stream[s]
  BY StreamTyped
<1>2. PICK z : z = [q EXCEPT !.pc = p, !.why = w]
  OBVIOUS
<1>3. z \in StreamStates /\ z.pc = p /\ z.home = q.home /\ z.run = q.run /\ z.listed = q.listed
      /\ z.shut = q.shut /\ z.buf = q.buf /\ z.got = q.got /\ z.why = w
  BY <1>2 DEF StreamStates
<1>4. Len(z.buf) <= BufCap
  BY <1>1, <1>3, StreamTyped
<1>5. Goes(s, z)
  BY <1>1, <1>2
<1>6. Moves(s, z.pc) /\ stream'[s] = z
  BY <1>1, <1>3, <1>4, <1>5, GoesMoves
<1> QED BY <1>1, <1>3, <1>6

LEMMA AddShape ==
  ASSUME TypeOK, NEW s \in Streams, Add(s)
  PROVE  /\ Moves(s, "sub")
         /\ stream'[s].shut = stream[s].shut /\ stream'[s].why = stream[s].why
         /\ stream'[s].buf = stream[s].buf /\ stream'[s].got = stream[s].got
<1>1. PICK q \in StreamStates : q = stream[s]
  BY StreamTyped
<1>2. PICK z : z = [q EXCEPT !.pc = "sub", !.listed = TRUE]
  OBVIOUS
<1>3. z \in StreamStates /\ z.pc = "sub" /\ z.home = q.home /\ z.run = q.run
      /\ z.shut = q.shut /\ z.buf = q.buf /\ z.got = q.got /\ z.why = q.why
  BY <1>2 DEF StreamStates, StreamPCs
<1>4. Len(z.buf) <= BufCap
  BY <1>1, <1>3, StreamTyped
<1>5. Goes(s, z)
  BY <1>1, <1>2 DEF Add
<1>6. Moves(s, z.pc) /\ stream'[s] = z
  BY <1>1, <1>3, <1>4, <1>5, GoesMoves
<1> QED BY <1>1, <1>3, <1>6

LEMMA RemoveShape ==
  ASSUME TypeOK, NEW s \in Streams, Remove(s)
  PROVE  /\ Moves(s, "release")
         /\ stream'[s].why = stream[s].why
         /\ stream'[s].buf = <<>> /\ stream'[s].got = stream[s].got
<1>1. PICK q \in StreamStates : q = stream[s]
  BY StreamTyped
<1>2. PICK b \in Seq(Events) : b = <<>> /\ Len(b) = 0
  <2>1. <<>> \in Seq(Events) /\ Len(<<>>) = 0
    OBVIOUS
  <2> QED BY <2>1
<1>3. PICK z : z = [q EXCEPT !.pc = "release", !.listed = FALSE, !.shut = TRUE, !.buf = b]
  OBVIOUS
<1>4. z \in StreamStates /\ z.pc = "release" /\ z.home = q.home /\ z.run = q.run
      /\ z.buf = b /\ z.got = q.got /\ z.why = q.why /\ Len(z.buf) <= BufCap
  <2>1. "release" \in StreamPCs
    BY DEF StreamPCs
  <2>2. z \in StreamStates /\ z.pc = "release" /\ z.home = q.home /\ z.run = q.run
        /\ z.buf = b /\ z.got = q.got /\ z.why = q.why
    BY <1>2, <1>3, <2>1 DEF StreamStates
  <2> QED BY <1>2, <2>2, CapAssumption
<1>5. Goes(s, z)
  BY <1>1, <1>2, <1>3 DEF Remove
<1>6. Moves(s, z.pc) /\ stream'[s] = z
  BY <1>1, <1>4, <1>5, GoesMoves
<1> QED BY <1>1, <1>2, <1>4, <1>6

LEMMA ForwardShape ==
  ASSUME TypeOK, NEW s \in Streams, Forward(s)
  PROVE  /\ stream[s].pc = "live" /\ stream[s].buf # <<>>
         /\ Moves(s, IF Head(stream[s].buf).last THEN "stop" ELSE "live")
         /\ stream'[s].shut = stream[s].shut
         /\ stream'[s].why = IF Head(stream[s].buf).last THEN "event" ELSE stream[s].why
         /\ stream'[s].buf = Tail(stream[s].buf)
         /\ stream'[s].got = Append(stream[s].got, Head(stream[s].buf))
<1>1. PICK q \in StreamStates : q = stream[s]
  BY StreamTyped
<1>2. q.buf \in Seq(Events) /\ q.got \in Seq(Events) /\ q.buf # <<>> /\ q.pc = "live"
      /\ Len(q.buf) <= BufCap
  BY <1>1, StreamTyped DEF Forward
<1>3. PICK b \in Seq(Events) : b = Tail(q.buf)
  BY <1>2, HeadTail
<1>4. Head(q.buf) \in Events /\ Len(b) <= BufCap
  <2>1. Head(q.buf) \in Events /\ Len(b) = Len(q.buf) - 1 /\ Len(q.buf) \in Nat
    BY <1>2, <1>3, HeadTail
  <2> QED BY <1>2, <2>1, CapAssumption
<1>5. PICK g \in Seq(Events) : g = Append(q.got, Head(q.buf))
  BY <1>2, <1>4, AppendAt
<1>6. PICK y : y = [q EXCEPT !.buf = b, !.got = g]
  OBVIOUS
<1>7. y \in StreamStates /\ y.pc = q.pc /\ y.home = q.home /\ y.run = q.run
      /\ y.shut = q.shut /\ y.buf = b /\ y.got = g /\ y.why = q.why
  BY <1>3, <1>5, <1>6 DEF StreamStates
<1>8. Goes(s, IF Head(q.buf).last THEN [y EXCEPT !.pc = "stop", !.why = "event"] ELSE y)
  <2>1. y = [q EXCEPT !.buf = Tail(@), !.got = Append(@, Head(q.buf))]
    BY <1>3, <1>5, <1>6
  <2> QED BY <1>1, <2>1 DEF Forward
<1>9. CASE Head(q.buf).last
  <2>1. PICK z : z = [y EXCEPT !.pc = "stop", !.why = "event"]
    OBVIOUS
  <2>2. z \in StreamStates /\ z.pc = "stop" /\ z.home = q.home /\ z.run = q.run
        /\ z.shut = q.shut /\ z.buf = b /\ z.got = g /\ z.why = "event"
    BY <1>7, <2>1 DEF StreamStates, StreamPCs
  <2>3. Goes(s, z)
    BY <1>8, <1>9, <2>1
  <2>4. Moves(s, z.pc) /\ stream'[s] = z
    BY <1>1, <1>4, <2>2, <2>3, GoesMoves
  <2> QED BY <1>1, <1>2, <1>3, <1>5, <1>9, <2>2, <2>4
<1>10. CASE ~Head(q.buf).last
  <2>1. Goes(s, y)
    BY <1>8, <1>10
  <2>2. Moves(s, y.pc) /\ stream'[s] = y
    BY <1>1, <1>4, <1>7, <2>1, GoesMoves
  <2> QED BY <1>1, <1>2, <1>3, <1>5, <1>7, <1>10, <2>2
<1> QED BY <1>9, <1>10

\* What is handed to the watchers on process i, and queued for the others.
LEMMA SendShape ==
  ASSUME TypeOK, NEW i \in Insts, NEW e \in Events, Send(i, e)
  PROVE  /\ Kept
         /\ \A s \in Streams : /\ stream'[s].pc = stream[s].pc /\ stream'[s].listed = stream[s].listed
                               /\ stream'[s].shut = stream[s].shut /\ stream'[s].got = stream[s].got
                               /\ stream'[s].why = stream[s].why
         /\ \A s \in Streams : \/ stream'[s].buf = stream[s].buf
                               \/ /\ stream[s].home = i /\ stream[s].run = e.dst
                                  /\ stream'[s].buf = Append(stream[s].buf, e)
         /\ out' \in [Insts -> Seq(Messages)]
         /\ \A j \in Insts : Len(out'[j]) <= QueueCap
         /\ \A j \in Insts : \/ out'[j] = out[j]
                             \/ j = i /\ out'[j] = Append(out[j], [ev |-> e, from |-> i])
<1>1. ASSUME NEW s \in Streams
      PROVE  /\ stream'[s] \in StreamStates /\ Len(stream'[s].buf) <= BufCap
             /\ stream'[s].home = stream[s].home /\ stream'[s].run = stream[s].run
             /\ stream'[s].pc = stream[s].pc /\ stream'[s].listed = stream[s].listed
             /\ stream'[s].shut = stream[s].shut /\ stream'[s].got = stream[s].got
             /\ stream'[s].why = stream[s].why
             /\ \/ stream'[s].buf = stream[s].buf
                \/ /\ stream[s].home = i /\ stream[s].run = e.dst
                   /\ stream'[s].buf = Append(stream[s].buf, e)
  <2>1. PICK q \in StreamStates : q = stream[s]
    BY StreamTyped
  <2>2. q.buf \in Seq(Events) /\ Len(q.buf) <= BufCap
    BY <2>1, StreamTyped
  <2>3. stream'[s] = IF Listening(s, i, e.dst) THEN [q EXCEPT !.buf = Offer(@, e)] ELSE q
    BY <2>1 DEF Send, Delivered
  <2>4. CASE ~Listening(s, i, e.dst)
    BY <2>1, <2>2, <2>3, <2>4
  <2>5. CASE Listening(s, i, e.dst)
    <3>1. PICK b : b = Offer(q.buf, e)
      OBVIOUS
    <3>2. /\ b \in Seq(Events) /\ Len(b) <= BufCap
          /\ b = q.buf \/ b = Append(q.buf, e)
      <4>1. CASE Len(q.buf) < BufCap
        <5>1. b = Append(q.buf, e)
          BY <3>1, <4>1 DEF Offer
        <5>2. b \in Seq(Events) /\ Len(b) = Len(q.buf) + 1 /\ Len(q.buf) \in Nat
          BY <2>2, <5>1, AppendAt
        <5> QED BY <4>1, <5>1, <5>2, CapAssumption
      <4>2. CASE ~(Len(q.buf) < BufCap)
        BY <2>2, <3>1, <4>2 DEF Offer
      <4> QED BY <4>1, <4>2
    <3>3. PICK z : z = [q EXCEPT !.buf = b]
      OBVIOUS
    <3>4. z \in StreamStates /\ z.pc = q.pc /\ z.home = q.home /\ z.run = q.run /\ z.listed = q.listed
          /\ z.shut = q.shut /\ z.buf = b /\ z.got = q.got /\ z.why = q.why
      BY <3>2, <3>3 DEF StreamStates
    <3>5. stream'[s] = z
      BY <2>3, <2>5, <3>1, <3>3
    <3>6. stream[s].home = i /\ stream[s].run = e.dst
      BY <2>5 DEF Listening
    <3> QED BY <2>1, <3>2, <3>4, <3>5, <3>6
  <2> QED BY <2>4, <2>5
<1>2. Kept
  <2>1. stream' = [s \in Streams |->
                     IF Listening(s, i, e.dst) THEN [stream[s] EXCEPT !.buf = Offer(@, e)] ELSE stream[s]]
    BY DEF Send, Delivered
  <2>2. stream' \in [Streams -> StreamStates]
    BY <1>1, <2>1
  <2> QED BY <1>1, <2>2 DEF Kept
<1>3. PICK m : m = [ev |-> e, from |-> i]
  OBVIOUS
<1>4. m \in Messages
  BY <1>3 DEF Messages
<1>5. out \in [Insts -> Seq(Messages)] /\ \A j \in Insts : Len(out[j]) <= QueueCap
  BY DEF TypeOK
<1>6. out' = [out EXCEPT ![i] = IF Len(@) < QueueCap THEN Append(@, m) ELSE @]
  BY <1>3 DEF Send, Queued
<1>7. Append(out[i], m) \in Seq(Messages) /\ Len(Append(out[i], m)) = Len(out[i]) + 1 /\ Len(out[i]) \in Nat
  BY <1>4, <1>5, AppendAt
<1>8. /\ out' \in [Insts -> Seq(Messages)]
      /\ \A j \in Insts : j # i => out'[j] = out[j]
      /\ out'[i] = IF Len(out[i]) < QueueCap THEN Append(out[i], m) ELSE out[i]
  BY <1>5, <1>6, <1>7
<1>9. Len(out'[i]) <= QueueCap
  BY <1>5, <1>7, <1>8, CapAssumption
<1>10. \A j \in Insts : /\ Len(out'[j]) <= QueueCap
                        /\ \/ out'[j] = out[j]
                           \/ j = i /\ out'[j] = Append(out[j], m)
  BY <1>5, <1>8, <1>9
<1> QED BY <1>1, <1>2, <1>3, <1>8, <1>10

\* A goroutine is where another step of the same run leaves it.
Drives(r) == /\ driver' \in [Runs -> DriverStates]
             /\ \A t \in Runs : t # r => driver'[t] = driver[t]

LEMMA DriverGoes ==
  ASSUME TypeOK, NEW r \in Runs, NEW p \in DriverPCs,
         driver' = [driver EXCEPT ![r].pc = p]
  PROVE  /\ Drives(r) /\ driver'[r].pc = p
         /\ driver'[r].home = driver[r].home /\ driver'[r].seq = driver[r].seq
         /\ driver'[r].ev = driver[r].ev /\ driver'[r].then = driver[r].then
         /\ driver'[r].team = driver[r].team
<1>1. PICK q \in DriverStates : q = driver[r]
  BY DriverTyped
<1>2. PICK z : z = [q EXCEPT !.pc = p]
  OBVIOUS
<1>3. z \in DriverStates /\ z.pc = p /\ z.home = q.home /\ z.seq = q.seq /\ z.ev = q.ev
      /\ z.then = q.then /\ z.team = q.team
  BY <1>2 DEF DriverStates
<1>4. driver' = [driver EXCEPT ![r] = z] /\ driver \in [Runs -> DriverStates]
  BY <1>1, <1>2 DEF TypeOK
<1>5. driver' \in [Runs -> DriverStates] /\ driver'[r] = z /\ \A t \in Runs : t # r => driver'[t] = driver[t]
  BY <1>3, <1>4
<1> QED BY <1>1, <1>3, <1>5 DEF Drives

LEMMA DriverFreed ==
  ASSUME TypeOK, NEW r \in Runs,
         driver' = [driver EXCEPT ![r].pc = driver[r].then, ![r].ev = None]
  PROVE  /\ Drives(r) /\ driver'[r].pc = driver[r].then
         /\ driver'[r].home = driver[r].home /\ driver'[r].seq = driver[r].seq
         /\ driver'[r].then = driver[r].then /\ driver'[r].team = driver[r].team
<1>1. PICK q \in DriverStates : q = driver[r]
  BY DriverTyped
<1>2. PICK z : z = [q EXCEPT !.pc = q.then, !.ev = None]
  OBVIOUS
<1>3. z \in DriverStates /\ z.pc = q.then /\ z.home = q.home /\ z.seq = q.seq
      /\ z.then = q.then /\ z.team = q.team
  BY <1>2 DEF DriverStates
<1>4. driver' = [driver EXCEPT ![r] = z] /\ driver \in [Runs -> DriverStates]
  BY <1>1, <1>2 DEF TypeOK
<1>5. driver' \in [Runs -> DriverStates] /\ driver'[r] = z /\ \A t \in Runs : t # r => driver'[t] = driver[t]
  BY <1>3, <1>4
<1> QED BY <1>1, <1>3, <1>5 DEF Drives

LEMMA HandDrives ==
  ASSUME TypeOK, NEW r \in Runs, Hand(r)
  PROVE  /\ Drives(r)
         /\ driver'[r].pc = IF r = Child THEN "mirror" ELSE driver[r].then
         /\ driver'[r].home = driver[r].home /\ driver'[r].seq = driver[r].seq
         /\ r = Child => driver'[r].ev = driver[r].ev
         /\ driver'[r].then = driver[r].then /\ driver'[r].team = driver[r].team
<1>1. PICK q \in DriverStates : q = driver[r]
  BY DriverTyped
<1>2. driver' = [driver EXCEPT ![r] = IF r = Child THEN [q EXCEPT !.pc = "mirror"]
                                                  ELSE [q EXCEPT !.pc = q.then, !.ev = None]]
  BY <1>1 DEF Hand
<1>3. PICK z : z = IF r = Child THEN [q EXCEPT !.pc = "mirror"]
                                ELSE [q EXCEPT !.pc = q.then, !.ev = None]
  OBVIOUS
<1>4. z \in DriverStates /\ z.pc = (IF r = Child THEN "mirror" ELSE q.then) /\ z.home = q.home
      /\ z.seq = q.seq /\ (r = Child => z.ev = q.ev) /\ z.then = q.then /\ z.team = q.team
  <2>1. "mirror" \in DriverPCs
    BY DEF DriverPCs
  <2>2. CASE r = Child
    BY <1>3, <2>1, <2>2 DEF DriverStates
  <2>3. CASE r # Child
    BY <1>3, <2>3 DEF DriverStates
  <2> QED BY <2>2, <2>3
<1>5. driver' = [driver EXCEPT ![r] = z] /\ driver \in [Runs -> DriverStates]
  BY <1>2, <1>3 DEF TypeOK
<1>6. driver' \in [Runs -> DriverStates] /\ driver'[r] = z /\ \A t \in Runs : t # r => driver'[t] = driver[t]
  BY <1>4, <1>5
<1> QED BY <1>1, <1>4, <1>6 DEF Drives

LEMMA PublishDrives ==
  ASSUME TypeOK, NEW r \in Runs, NEW last \in BOOLEAN, NEW p \in DriverPCs, Publish(r, last, p)
  PROVE  /\ Drives(r) /\ driver'[r].pc = "deliver"
         /\ driver'[r].home = driver[r].home /\ driver'[r].seq = driver[r].seq + 1
         /\ driver'[r].then = p /\ driver'[r].team = driver[r].team
         /\ driver'[r].ev \in Events /\ driver'[r].ev.src = r /\ driver'[r].ev.dst = r
         /\ driver'[r].ev.seq = driver[r].seq + 1 /\ driver'[r].ev.last = last
<1>1. PICK q \in DriverStates : q = driver[r]
  BY DriverTyped
<1>2. PICK n : n = q.seq + 1
  OBVIOUS
<1>3. PICK e : e = [src |-> r, dst |-> r, seq |-> n, last |-> last]
  OBVIOUS
<1>4. n \in Nat \ {0}
  BY <1>1, <1>2, DriverTyped
<1>5. e \in Events /\ e.src = r /\ e.dst = r /\ e.seq = n /\ e.last = last
  BY <1>3, <1>4 DEF Events
<1>6. PICK z : z = [q EXCEPT !.pc = "deliver", !.seq = n, !.then = p, !.ev = e]
  OBVIOUS
<1>7. z \in DriverStates /\ z.pc = "deliver" /\ z.home = q.home /\ z.seq = n
      /\ z.then = p /\ z.team = q.team /\ z.ev = e
  <2>1. "deliver" \in DriverPCs /\ n \in Nat
    BY <1>4 DEF DriverPCs
  <2> QED BY <1>5, <1>6, <2>1 DEF DriverStates
<1>8. driver' = [driver EXCEPT ![r] = z] /\ driver \in [Runs -> DriverStates]
  BY <1>1, <1>2, <1>3, <1>6 DEF Publish, TypeOK
<1>9. driver' \in [Runs -> DriverStates] /\ driver'[r] = z /\ \A t \in Runs : t # r => driver'[t] = driver[t]
  BY <1>7, <1>8
<1> QED BY <1>1, <1>2, <1>5, <1>7, <1>9 DEF Drives

-----------------------------------------------------------------------------
(* Slots, subscriptions and delegations.                                   *)

LEMMA KeptSame ==
  ASSUME TypeOK, stream' = stream
  PROVE  Kept
BY DEF TypeOK, Kept

\* The streams that hold a slot of process i.
Served(i) == {s \in Streams : stream[s].home = i /\ stream[s].pc \in Holding}

LEMMA ServedIsFinite ==
  ASSUME NEW i \in Insts
  PROVE  IsFiniteSet(Served(i)) /\ Cardinality(Served(i)) \in Nat
BY StreamAssumption, FS_Subset, FS_CardinalityType DEF Served

LEMMA SlotsCount == SlotsAreExact <=> \A i \in Insts : slots[i] <= MaxSlots /\ slots[i] = Cardinality(Served(i))
BY DEF SlotsAreExact, Served, Holding

LEMMA SlotsStay ==
  ASSUME SlotsAreExact, Kept, slots' = slots,
         \A s \in Streams : stream'[s].pc \in Holding <=> stream[s].pc \in Holding
  PROVE  SlotsAreExact'
<1>1. \A i \in Insts : Served(i)' = Served(i)
  BY DEF Served, Kept
<1>2. \A i \in Insts : slots'[i] <= MaxSlots /\ slots'[i] = Cardinality(Served(i)')
  BY <1>1, SlotsCount
<1> QED BY <1>2 DEF SlotsAreExact, Served, Holding

LEMMA SlotTaken ==
  ASSUME TypeOK, SlotsAreExact, NEW s \in Streams, Moves(s, "add"), stream[s].pc = "acquire",
         slots[stream[s].home] < MaxSlots,
         slots' = [slots EXCEPT ![stream[s].home] = @ + 1]
  PROVE  SlotsAreExact' /\ slots' \in [Insts -> Nat]
<1>1. PICK h \in Insts : h = stream[s].home
  BY StreamTyped
<1>2. slots \in [Insts -> Nat] /\ \A i \in Insts : slots[i] <= MaxSlots /\ slots[i] = Cardinality(Served(i))
  BY SlotsCount DEF TypeOK
<1>3. slots' \in [Insts -> Nat] /\ slots'[h] = slots[h] + 1 /\ \A i \in Insts : i # h => slots'[i] = slots[i]
  BY <1>1, <1>2
<1>4. Served(h)' = Served(h) \cup {s} /\ s \notin Served(h)
      /\ \A i \in Insts : i # h => Served(i)' = Served(i)
  BY <1>1 DEF Served, Holding, Moves, Kept
<1>5. Cardinality(Served(h) \cup {s}) = Cardinality(Served(h)) + 1
  BY <1>4, ServedIsFinite, FS_AddElement
<1>6. \A i \in Insts : slots'[i] <= MaxSlots /\ slots'[i] = Cardinality(Served(i)')
  <2>1. slots'[h] <= MaxSlots
    BY <1>1, <1>2, <1>3, SlotAssumption
  <2> QED BY <1>2, <1>3, <1>4, <1>5, <2>1
<1> QED BY <1>3, <1>6 DEF SlotsAreExact, Served, Holding

LEMMA SlotGiven ==
  ASSUME TypeOK, SlotsAreExact, NEW s \in Streams, Moves(s, "gone"), stream[s].pc = "release",
         slots' = [slots EXCEPT ![stream[s].home] = @ - 1]
  PROVE  SlotsAreExact' /\ slots' \in [Insts -> Nat]
<1>1. PICK h \in Insts : h = stream[s].home
  BY StreamTyped
<1>2. slots \in [Insts -> Nat] /\ \A i \in Insts : slots[i] <= MaxSlots /\ slots[i] = Cardinality(Served(i))
  BY SlotsCount DEF TypeOK
<1>3. Served(h)' = Served(h) \ {s} /\ s \in Served(h)
      /\ \A i \in Insts : i # h => Served(i)' = Served(i)
  BY <1>1 DEF Served, Holding, Moves, Kept
<1>4. Cardinality(Served(h) \ {s}) = Cardinality(Served(h)) - 1 /\ Cardinality(Served(h) \ {s}) \in Nat
  BY <1>3, ServedIsFinite, FS_RemoveElement, FS_CardinalityType
<1>5. slots[h] \in Nat /\ slots[h] - 1 \in Nat
  BY <1>2, <1>4
<1>6. slots' \in [Insts -> Nat] /\ slots'[h] = slots[h] - 1 /\ \A i \in Insts : i # h => slots'[i] = slots[i]
  BY <1>1, <1>2, <1>5
<1>7. \A i \in Insts : slots'[i] <= MaxSlots /\ slots'[i] = Cardinality(Served(i)')
  <2>1. slots'[h] <= MaxSlots
    BY <1>2, <1>5, <1>6, SlotAssumption
  <2> QED BY <1>2, <1>3, <1>4, <1>6, <2>1
<1> QED BY <1>6, <1>7 DEF SlotsAreExact, Served, Holding

LEMMA DelegationStays ==
  ASSUME BaseInv, driver' = driver, mirror' = mirror, remote'[Link].on => remote[Link].on
  PROVE  (\A r \in Runs : Armed(r)') /\ Undispatched' /\ Linked'
<1>1. \A r \in Runs : Armed(r)'
  BY DEF BaseInv, Armed
<1>2. Undispatched'
  BY DEF BaseInv, Undispatched, Dispatching
<1>3. Linked'
  BY DEF BaseInv, Linked, Dispatching
<1> QED BY <1>1, <1>2, <1>3

LEMMA ClosesStays ==
  ASSUME NEW s \in Streams, Closes(s), Kept, closing' = closing,
         stream'[s].pc = stream[s].pc, stream'[s].shut = stream[s].shut,
         remote'[s].on => remote[s].on
  PROVE  Closes(s)'
BY DEF Closes, Kept

\* A step of a handler that leaves the goroutines, the queues and the bus alone.
HandlerOnly == UNCHANGED <<row, driver, mirror, out, closing>>

LEMMA HandlerSteps ==
  ASSUME BaseInv, NEW s \in Streams, NEW p, Moves(s, p), HandlerOnly,
         remote' \in [Subs -> [on: BOOLEAN, inbox: Seq(Messages)]],
         \A x \in Subs : x # s => remote'[x] = remote[x],
         SlotsAreExact', slots' \in [Insts -> Nat], Closes(s)'
  PROVE  BaseInv'
<1>1. TypeOK'
  BY DEF BaseInv, TypeOK, Moves, Kept, HandlerOnly
<1>2. remote'[Link] = remote[Link]
  BY LinkAssumption DEF Subs
<1>3. (\A r \in Runs : Armed(r)') /\ Undispatched' /\ Linked'
  BY <1>2, DelegationStays DEF HandlerOnly
<1>4. \A t \in Streams : t # s => Closes(t)'
  <2> TAKE t \in Streams
  <2> HAVE t # s
  <2>1. t \in Subs /\ remote'[t] = remote[t] /\ stream'[t] = stream[t] /\ closing' = closing /\ Closes(t) /\ Kept
    BY DEF Subs, Moves, HandlerOnly, BaseInv
  <2> QED BY <2>1, ClosesStays
<1> QED BY <1>1, <1>3, <1>4 DEF BaseInv

\* ... and the subscriptions too.
LEMMA HandlerQuiet ==
  ASSUME BaseInv, NEW s \in Streams, NEW p, Moves(s, p), HandlerOnly, remote' = remote,
         SlotsAreExact', slots' \in [Insts -> Nat],
         stream'[s].shut = stream[s].shut, p \notin {"release", "gone"} => stream[s].pc \notin {"release", "gone"},
         remote[s].on => p \in {"live", "stop"}
  PROVE  BaseInv'
<1>1. remote' \in [Subs -> [on: BOOLEAN, inbox: Seq(Messages)]]
  BY DEF BaseInv, TypeOK
<1>2. Closes(s)'
  BY DEF Closes, BaseInv, Moves, Kept, HandlerOnly
<1> QED BY <1>1, <1>2, HandlerSteps

LEMMA CheckBase == ASSUME BaseInv, NEW s \in Streams, Check(s) PROVE BaseInv'
<1>0. TypeOK /\ SlotsAreExact /\ Closes(s) /\ HandlerOnly /\ remote' = remote /\ slots' = slots
  BY DEF BaseInv, Check, HandlerOnly
<1>1. stream[s].pc = "check" /\ ~remote[s].on /\ slots' \in [Insts -> Nat]
  BY <1>0 DEF Check, Closes, TypeOK
<1>2. CASE runInFlight(row[stream[s].run])
  <2>1. Goes(s, [stream[s] EXCEPT !.pc = "acquire"])
    BY <1>2 DEF Check
  <2>2. Moves(s, "acquire") /\ stream'[s].shut = stream[s].shut
    BY <1>0, <2>1, PcOnly DEF StreamPCs
  <2>3. SlotsAreExact'
    BY <1>0, <1>1, <2>2, SlotsStay DEF Moves, Holding
  <2> QED BY <1>0, <1>1, <2>2, <2>3, HandlerQuiet
<1>3. CASE ~runInFlight(row[stream[s].run])
  <2>1. Goes(s, [stream[s] EXCEPT !.pc = "gone", !.why = "answered"])
    BY <1>3 DEF Check
  <2>2. Moves(s, "gone") /\ stream'[s].shut = stream[s].shut
    BY <1>0, <2>1, PcAndWhy DEF StreamPCs
  <2>3. SlotsAreExact'
    BY <1>0, <1>1, <2>2, SlotsStay DEF Moves, Holding
  <2> QED BY <1>0, <1>1, <2>2, <2>3, HandlerQuiet
<1> QED BY <1>2, <1>3

LEMMA AcquireBase == ASSUME BaseInv, NEW s \in Streams, Acquire(s) PROVE BaseInv'
<1>0. TypeOK /\ SlotsAreExact /\ Closes(s) /\ HandlerOnly /\ remote' = remote
  BY DEF BaseInv, Acquire, HandlerOnly
<1>1. stream[s].pc = "acquire" /\ ~remote[s].on
  BY <1>0 DEF Acquire, Closes
<1>2. CASE slots[stream[s].home] < MaxSlots
  <2>1. Goes(s, [stream[s] EXCEPT !.pc = "add"]) /\ slots' = [slots EXCEPT ![stream[s].home] = @ + 1]
    BY <1>2 DEF Acquire
  <2>2. Moves(s, "add") /\ stream'[s].shut = stream[s].shut
    BY <1>0, <2>1, PcOnly DEF StreamPCs
  <2>3. SlotsAreExact' /\ slots' \in [Insts -> Nat]
    BY <1>0, <1>1, <1>2, <2>1, <2>2, SlotTaken
  <2> QED BY <1>0, <1>1, <2>2, <2>3, HandlerQuiet
<1>3. CASE ~(slots[stream[s].home] < MaxSlots)
  <2>1. Goes(s, [stream[s] EXCEPT !.pc = "gone", !.why = "refused"]) /\ slots' = slots
    BY <1>3 DEF Acquire
  <2>2. Moves(s, "gone") /\ stream'[s].shut = stream[s].shut
    BY <1>0, <2>1, PcAndWhy DEF StreamPCs
  <2>3. SlotsAreExact' /\ slots' \in [Insts -> Nat]
    BY <1>0, <1>1, <2>1, <2>2, SlotsStay DEF Moves, Holding, TypeOK
  <2> QED BY <1>0, <1>1, <2>2, <2>3, HandlerQuiet
<1> QED BY <1>2, <1>3

LEMMA AddBase == ASSUME BaseInv, NEW s \in Streams, Add(s) PROVE BaseInv'
<1>0. TypeOK /\ SlotsAreExact /\ Closes(s) /\ HandlerOnly /\ remote' = remote /\ slots' = slots
  BY DEF BaseInv, Add, HandlerOnly
<1>1. stream[s].pc = "add" /\ ~remote[s].on /\ slots' \in [Insts -> Nat]
  BY <1>0 DEF Add, Closes, TypeOK
<1>2. Moves(s, "sub") /\ stream'[s].shut = stream[s].shut
  BY <1>0, AddShape
<1>3. SlotsAreExact'
  BY <1>0, <1>1, <1>2, SlotsStay DEF Moves, Holding
<1> QED BY <1>0, <1>1, <1>2, <1>3, HandlerQuiet

\* A subscription of its own that a stream opens or ends.
LEMMA RemoteSet ==
  ASSUME TypeOK, NEW s \in Subs, NEW z \in [on: BOOLEAN, inbox: Seq(Messages)],
         remote' = [remote EXCEPT ![s] = z]
  PROVE  /\ remote' \in [Subs -> [on: BOOLEAN, inbox: Seq(Messages)]]
         /\ remote'[s] = z /\ \A x \in Subs : x # s => remote'[x] = remote[x]
BY DEF TypeOK

LEMMA RemoteTyped ==
  ASSUME TypeOK, NEW x \in Subs
  PROVE  /\ remote[x] \in [on: BOOLEAN, inbox: Seq(Messages)]
         /\ remote[x].on \in BOOLEAN /\ remote[x].inbox \in Seq(Messages)
BY DEF TypeOK

LEMMA RemoteOpened ==
  ASSUME TypeOK, NEW s \in Subs, NEW b \in BOOLEAN, remote' = [remote EXCEPT ![s].on = b]
  PROVE  /\ remote' \in [Subs -> [on: BOOLEAN, inbox: Seq(Messages)]]
         /\ remote'[s].on = b /\ remote'[s].inbox = remote[s].inbox
         /\ \A x \in Subs : x # s => remote'[x] = remote[x]
<1>1. PICK q \in [on: BOOLEAN, inbox: Seq(Messages)] : q = remote[s]
  BY RemoteTyped
<1>2. PICK z : z = [q EXCEPT !.on = b]
  OBVIOUS
<1>3. z \in [on: BOOLEAN, inbox: Seq(Messages)] /\ z.on = b /\ z.inbox = q.inbox
  BY <1>2
<1>4. remote' = [remote EXCEPT ![s] = z]
  BY <1>1, <1>2
<1> QED BY <1>1, <1>3, <1>4, RemoteSet

\* The subscription is over.
LEMMA RemoteEnded ==
  ASSUME TypeOK, NEW s \in Subs, remote' = [remote EXCEPT ![s] = [on |-> FALSE, inbox |-> <<>>]]
  PROVE  /\ remote' \in [Subs -> [on: BOOLEAN, inbox: Seq(Messages)]]
         /\ remote'[s].on = FALSE /\ remote'[s].inbox = <<>>
         /\ \A x \in Subs : x # s => remote'[x] = remote[x]
<1>1. <<>> \in Seq(Messages)
  OBVIOUS
<1>2. PICK z : z = [on |-> FALSE, inbox |-> <<>>]
  OBVIOUS
<1>3. z \in [on: BOOLEAN, inbox: Seq(Messages)] /\ z.on = FALSE /\ z.inbox = <<>>
  BY <1>1, <1>2
<1>4. remote' = [remote EXCEPT ![s] = z]
  BY <1>2
<1> QED BY <1>3, <1>4, RemoteSet

\* The subscription hands on what came first.
LEMMA RemoteTaken ==
  ASSUME TypeOK, NEW s \in Subs, remote[s].inbox # <<>>, remote' = [remote EXCEPT ![s].inbox = Tail(@)]
  PROVE  /\ remote' \in [Subs -> [on: BOOLEAN, inbox: Seq(Messages)]]
         /\ remote'[s].on = remote[s].on /\ remote'[s].inbox = Tail(remote[s].inbox)
         /\ \A x \in Subs : x # s => remote'[x] = remote[x]
<1>1. PICK q \in [on: BOOLEAN, inbox: Seq(Messages)] : q = remote[s]
  BY RemoteTyped
<1>2. PICK t \in Seq(Messages) : t = Tail(q.inbox)
  BY <1>1, HeadTail
<1>3. PICK z : z = [q EXCEPT !.inbox = t]
  OBVIOUS
<1>4. z \in [on: BOOLEAN, inbox: Seq(Messages)] /\ z.on = q.on /\ z.inbox = t
  BY <1>2, <1>3
<1>5. remote' = [remote EXCEPT ![s] = z]
  BY <1>1, <1>2, <1>3
<1> QED BY <1>1, <1>2, <1>4, <1>5, RemoteSet

LEMMA SubscribeBase == ASSUME BaseInv, NEW s \in Streams, Subscribe(s) PROVE BaseInv'
<1>0. TypeOK /\ SlotsAreExact /\ Closes(s) /\ HandlerOnly /\ slots' = slots /\ s \in Subs
  BY DEF BaseInv, Subscribe, HandlerOnly, Subs
<1>1. stream[s].pc = "sub" /\ ~remote[s].on /\ slots' \in [Insts -> Nat]
  BY <1>0 DEF Subscribe, Closes, TypeOK
<1>2. PICK b \in BOOLEAN : remote' = [remote EXCEPT ![s].on = b]
  BY DEF Subscribe
<1>3. Moves(s, "live") /\ stream'[s].shut = stream[s].shut
  BY <1>0, PcOnly DEF StreamPCs, Subscribe
<1>4. SlotsAreExact'
  BY <1>0, <1>1, <1>3, SlotsStay DEF Moves, Holding
<1>5. Closes(s)'
  BY <1>0, <1>1, <1>3 DEF Closes, Moves, Kept, HandlerOnly
<1> QED BY <1>0, <1>1, <1>2, <1>3, <1>4, <1>5, RemoteOpened, HandlerSteps

LEMMA ForwardBase == ASSUME BaseInv, NEW s \in Streams, Forward(s) PROVE BaseInv'
<1>0. TypeOK /\ SlotsAreExact /\ HandlerOnly /\ remote' = remote /\ slots' = slots /\ slots' \in [Insts -> Nat]
  BY DEF BaseInv, Forward, HandlerOnly, TypeOK
<1>1. PICK p \in {"live", "stop"} : Moves(s, p) /\ stream'[s].shut = stream[s].shut
  BY <1>0, ForwardShape
<1>2. stream[s].pc = "live"
  BY DEF Forward
<1>3. SlotsAreExact'
  BY <1>0, <1>1, <1>2, SlotsStay DEF Moves, Holding
<1> QED BY <1>0, <1>1, <1>2, <1>3, HandlerQuiet

LEMMA StopBase == ASSUME BaseInv, NEW s \in Streams, Drained(s) \/ ClientGone(s) PROVE BaseInv'
<1>0. TypeOK /\ SlotsAreExact /\ HandlerOnly /\ remote' = remote /\ slots' = slots /\ slots' \in [Insts -> Nat]
  BY DEF BaseInv, Drained, ClientGone, HandlerOnly, TypeOK
<1>1. /\ stream[s].pc = "live"
      /\ \E w \in {"closed", "client"} : Goes(s, [stream[s] EXCEPT !.pc = "stop", !.why = w])
  BY DEF Drained, ClientGone
<1>2. Moves(s, "stop") /\ stream'[s].shut = stream[s].shut
  BY <1>0, <1>1, PcAndWhy DEF StreamPCs
<1>3. SlotsAreExact'
  BY <1>0, <1>1, <1>2, SlotsStay DEF Moves, Holding
<1> QED BY <1>0, <1>1, <1>2, <1>3, HandlerQuiet

LEMMA StopRemoteBase == ASSUME BaseInv, NEW s \in Streams, StopRemote(s) PROVE BaseInv'
<1>0. TypeOK /\ SlotsAreExact /\ Closes(s) /\ HandlerOnly /\ slots' = slots /\ s \in Subs
  BY DEF BaseInv, StopRemote, HandlerOnly, Subs
<1>1. stream[s].pc = "stop" /\ slots' \in [Insts -> Nat]
  BY <1>0 DEF StopRemote, TypeOK
<1>2. /\ remote' \in [Subs -> [on: BOOLEAN, inbox: Seq(Messages)]]
      /\ remote'[s].on = FALSE /\ \A x \in Subs : x # s => remote'[x] = remote[x]
  BY <1>0, RemoteEnded DEF StopRemote
<1>3. Moves(s, "remove") /\ stream'[s].shut = stream[s].shut
  BY <1>0, PcOnly DEF StreamPCs, StopRemote
<1>4. SlotsAreExact'
  BY <1>0, <1>1, <1>3, SlotsStay DEF Moves, Holding
<1>5. Closes(s)'
  BY <1>0, <1>1, <1>2, <1>3 DEF Closes, Moves, Kept, HandlerOnly
<1> QED BY <1>0, <1>1, <1>2, <1>3, <1>4, <1>5, HandlerSteps

LEMMA RemoveBase == ASSUME BaseInv, NEW s \in Streams, Remove(s) PROVE BaseInv'
<1>0. TypeOK /\ SlotsAreExact /\ Closes(s) /\ HandlerOnly /\ remote' = remote /\ slots' = slots
  BY DEF BaseInv, Remove, HandlerOnly
<1>1. stream[s].pc = "remove" /\ ~remote[s].on /\ slots' \in [Insts -> Nat]
      /\ remote' \in [Subs -> [on: BOOLEAN, inbox: Seq(Messages)]]
  BY <1>0 DEF Remove, Closes, TypeOK
<1>2. Moves(s, "release")
  BY <1>0, RemoveShape
<1>3. SlotsAreExact'
  BY <1>0, <1>1, <1>2, SlotsStay DEF Moves, Holding
<1>4. Closes(s)'
  BY <1>0, <1>1, <1>2 DEF Closes, Moves
<1> QED BY <1>0, <1>1, <1>2, <1>3, <1>4, HandlerSteps

LEMMA ReleaseBase == ASSUME BaseInv, NEW s \in Streams, Release(s) PROVE BaseInv'
<1>0. TypeOK /\ SlotsAreExact /\ Closes(s) /\ HandlerOnly /\ remote' = remote
  BY DEF BaseInv, Release, HandlerOnly
<1>1. stream[s].pc = "release" /\ ~remote[s].on
  BY <1>0 DEF Release, Closes
<1>2. Moves(s, "gone") /\ stream'[s].shut = stream[s].shut
  BY <1>0, PcOnly DEF StreamPCs, Release
<1>3. SlotsAreExact' /\ slots' \in [Insts -> Nat]
  BY <1>0, <1>1, <1>2, SlotGiven DEF Release
<1> QED BY <1>0, <1>1, <1>2, <1>3, HandlerQuiet

LEMMA CloseAllShape ==
  ASSUME TypeOK, NEW i \in Insts, CloseAll(i)
  PROVE  /\ Kept
         /\ \A s \in Streams : /\ stream'[s].pc = stream[s].pc
                               /\ stream'[s].buf = stream[s].buf /\ stream'[s].got = stream[s].got
                               /\ stream'[s].why = stream[s].why
                               /\ stream'[s].shut => stream[s].shut \/ stream[s].home = i
<1>1. ASSUME NEW s \in Streams
      PROVE  /\ stream'[s] \in StreamStates
             /\ stream'[s].home = stream[s].home /\ stream'[s].run = stream[s].run
             /\ stream'[s].pc = stream[s].pc
             /\ stream'[s].buf = stream[s].buf /\ stream'[s].got = stream[s].got
             /\ stream'[s].why = stream[s].why
             /\ stream'[s].shut => stream[s].shut \/ stream[s].home = i
  <2>1. PICK q \in StreamStates : q = stream[s]
    BY StreamTyped
  <2>2. stream'[s] = IF q.listed /\ q.home = i THEN [q EXCEPT !.listed = FALSE, !.shut = TRUE] ELSE q
    BY <2>1 DEF CloseAll
  <2>3. CASE q.listed /\ q.home = i
    <3>1. PICK z : z = [q EXCEPT !.listed = FALSE, !.shut = TRUE]
      OBVIOUS
    <3>2. z \in StreamStates /\ z.home = q.home /\ z.run = q.run /\ z.pc = q.pc /\ z.buf = q.buf
          /\ z.got = q.got /\ z.why = q.why
      BY <3>1 DEF StreamStates
    <3>3. stream'[s] = z
      BY <2>2, <2>3, <3>1
    <3> QED BY <2>1, <2>3, <3>2, <3>3
  <2>4. CASE ~(q.listed /\ q.home = i)
    BY <2>1, <2>2, <2>4
  <2> QED BY <2>3, <2>4
<1>2. stream' = [s \in Streams |->
                   IF stream[s].listed /\ stream[s].home = i
                   THEN [stream[s] EXCEPT !.listed = FALSE, !.shut = TRUE] ELSE stream[s]]
  BY DEF CloseAll
<1>3. stream' \in [Streams -> StreamStates]
  BY <1>1, <1>2
<1>4. \A s \in Streams : Len(stream'[s].buf) <= BufCap
  BY <1>1 DEF TypeOK
<1> QED BY <1>1, <1>3, <1>4 DEF Kept

LEMMA CloseAllBase == ASSUME BaseInv, NEW i \in Insts, CloseAll(i) PROVE BaseInv'
<1>0. /\ TypeOK /\ SlotsAreExact
      /\ row' = row /\ driver' = driver /\ mirror' = mirror /\ out' = out /\ remote' = remote /\ slots' = slots
      /\ closing' = closing \cup {i}
  BY DEF BaseInv, CloseAll
<1>1. /\ Kept
      /\ \A s \in Streams : /\ stream'[s].pc = stream[s].pc
                            /\ stream'[s].shut => stream[s].shut \/ stream[s].home = i
  BY <1>0, CloseAllShape
<1>2. TypeOK'
  BY <1>0, <1>1 DEF TypeOK, Kept
<1>3. SlotsAreExact'
  BY <1>0, <1>1, SlotsStay
<1>4. (\A r \in Runs : Armed(r)') /\ Undispatched' /\ Linked'
  BY <1>0, DelegationStays
<1>5. ASSUME NEW s \in Streams PROVE Closes(s)'
  <2>1. Closes(s)
    BY DEF BaseInv
  <2>2. stream'[s].home = stream[s].home
    BY <1>1 DEF Kept
  <2> QED BY <1>0, <1>1, <2>1, <2>2 DEF Closes
<1> QED BY <1>2, <1>3, <1>4, <1>5 DEF BaseInv

\* A step that leaves every handler where it is, and subscribes to nothing.
LEMMA StreamsStay ==
  ASSUME BaseInv, Kept, slots' = slots, closing' = closing,
         \A s \in Streams : /\ stream'[s].pc = stream[s].pc /\ stream'[s].shut = stream[s].shut
                            /\ remote'[s].on => remote[s].on
  PROVE  SlotsAreExact' /\ \A s \in Streams : Closes(s)'
<1>1. SlotsAreExact'
  BY SlotsStay DEF BaseInv
<1>2. ASSUME NEW s \in Streams PROVE Closes(s)'
  <2>1. Closes(s)
    BY DEF BaseInv
  <2> QED BY <2>1, ClosesStays
<1> QED BY <1>1, <1>2

LEMMA RelayShape ==
  ASSUME TypeOK, NEW i \in Insts, Relay(i)
  PROVE  \E m \in Messages :
           /\ out[i] # <<>> /\ m = Head(out[i])
           /\ out' \in [Insts -> Seq(Messages)] /\ out'[i] = Tail(out[i])
           /\ \A j \in Insts : j # i => out'[j] = out[j]
           /\ \A j \in Insts : Len(out'[j]) <= QueueCap
           /\ remote' \in [Subs -> [on: BOOLEAN, inbox: Seq(Messages)]]
           /\ \A x \in Subs : /\ remote'[x].on = remote[x].on
                              /\ \/ remote'[x].inbox = remote[x].inbox
                                 \/ /\ m.ev.dst = Channel(x)
                                    /\ remote'[x].inbox = Append(remote[x].inbox, m)
<1>1. out[i] # <<>> /\ out[i] \in Seq(Messages) /\ out \in [Insts -> Seq(Messages)]
      /\ \A j \in Insts : Len(out[j]) <= QueueCap
  BY DEF TypeOK, Relay
<1>2. PICK m \in Messages : m = Head(out[i])
  BY <1>1, HeadTail
<1>3. PICK t \in Seq(Messages) : t = Tail(out[i]) /\ Len(t) = Len(out[i]) - 1
  BY <1>1, HeadTail
<1>4. /\ out' \in [Insts -> Seq(Messages)] /\ out'[i] = t
      /\ \A j \in Insts : j # i => out'[j] = out[j]
  BY <1>1, <1>3 DEF Relay
<1>5. \A j \in Insts : Len(out'[j]) <= QueueCap
  <2>1. Len(t) <= QueueCap
    BY <1>1, <1>3, CapAssumption
  <2> QED BY <1>1, <1>4, <2>1
<1>6. PICK heard \in SUBSET Tuned(m.ev.dst) :
        remote' = [x \in Subs |-> IF x \in heard
                    THEN [remote[x] EXCEPT !.inbox = Append(@, m)] ELSE remote[x]]
  BY <1>2 DEF Relay
<1>7. ASSUME NEW x \in Subs
      PROVE  /\ remote'[x] \in [on: BOOLEAN, inbox: Seq(Messages)]
             /\ remote'[x].on = remote[x].on
             /\ \/ remote'[x].inbox = remote[x].inbox
                \/ m.ev.dst = Channel(x) /\ remote'[x].inbox = Append(remote[x].inbox, m)
  <2>1. PICK q \in [on: BOOLEAN, inbox: Seq(Messages)] : q = remote[x]
    BY RemoteTyped
  <2>2. remote'[x] = IF x \in heard THEN [q EXCEPT !.inbox = Append(@, m)] ELSE q
    BY <1>6, <2>1
  <2>3. CASE x \in heard
    <3>1. m.ev.dst = Channel(x)
      BY <2>3 DEF Tuned, Channel
    <3>2. PICK n \in Seq(Messages) : n = Append(q.inbox, m)
      BY <2>1, AppendAt
    <3>3. PICK z : z = [q EXCEPT !.inbox = n]
      OBVIOUS
    <3>4. z \in [on: BOOLEAN, inbox: Seq(Messages)] /\ z.on = q.on /\ z.inbox = n
      BY <3>2, <3>3
    <3>5. remote'[x] = z
      BY <2>2, <2>3, <3>2, <3>3
    <3> QED BY <2>1, <3>1, <3>2, <3>4, <3>5
  <2>4. CASE x \notin heard
    BY <2>1, <2>2, <2>4
  <2> QED BY <2>3, <2>4
<1>8. remote' \in [Subs -> [on: BOOLEAN, inbox: Seq(Messages)]]
  BY <1>6, <1>7
<1> QED BY <1>1, <1>2, <1>3, <1>4, <1>5, <1>7, <1>8

LEMMA LinkIsASub == Link \in Subs /\ Streams \subseteq Subs
BY DEF Subs

LEMMA RelayBase == ASSUME BaseInv, NEW i \in Insts, Relay(i) PROVE BaseInv'
<1>0. /\ TypeOK /\ Kept
      /\ row' = row /\ driver' = driver /\ mirror' = mirror /\ stream' = stream /\ slots' = slots
      /\ closing' = closing
  BY KeptSame DEF BaseInv, Relay
<1>1. /\ out' \in [Insts -> Seq(Messages)] /\ \A j \in Insts : Len(out'[j]) <= QueueCap
      /\ remote' \in [Subs -> [on: BOOLEAN, inbox: Seq(Messages)]]
      /\ \A x \in Subs : remote'[x].on = remote[x].on
  BY <1>0, RelayShape
<1>2. TypeOK'
  BY <1>0, <1>1 DEF TypeOK
<1>3. SlotsAreExact' /\ \A s \in Streams : Closes(s)'
  BY <1>0, <1>1, LinkIsASub, StreamsStay
<1>4. (\A r \in Runs : Armed(r)') /\ Undispatched' /\ Linked'
  BY <1>0, <1>1, LinkIsASub, DelegationStays
<1> QED BY <1>2, <1>3, <1>4 DEF BaseInv

LEMMA HearShape ==
  ASSUME TypeOK, NEW s \in Streams, Hear(s)
  PROVE  /\ remote[s].inbox # <<>> /\ Head(remote[s].inbox) \in Messages
         /\ Kept
         /\ \A t \in Streams : /\ stream'[t].pc = stream[t].pc /\ stream'[t].shut = stream[t].shut
                               /\ stream'[t].got = stream[t].got /\ stream'[t].why = stream[t].why
                               /\ t # s => stream'[t] = stream[t]
         /\ \/ stream'[s].buf = stream[s].buf
            \/ /\ Head(remote[s].inbox).from # stream[s].home
               /\ stream'[s].buf = Append(stream[s].buf, Head(remote[s].inbox).ev)
         /\ remote' \in [Subs -> [on: BOOLEAN, inbox: Seq(Messages)]]
         /\ remote'[s].on => remote[s].on
         /\ \/ remote'[s].inbox = Tail(remote[s].inbox)
            \/ stream' = stream /\ remote'[s].inbox = <<>>
         /\ \A x \in Subs : x # s => remote'[x] = remote[x]
<1>1. s \in Subs /\ remote[s].inbox \in Seq(Messages) /\ remote[s].inbox # <<>>
  BY RemoteTyped DEF Subs, Hear
<1>2. PICK m \in Messages : m = Head(remote[s].inbox)
  BY <1>1, HeadTail
<1>3. CASE Foreign(m, stream[s].home) /\ stream[s].shut
  <2>1. remote' = [remote EXCEPT ![s] = [on |-> FALSE, inbox |-> <<>>]] /\ stream' = stream
    BY <1>2, <1>3 DEF Hear
  <2>2. /\ remote' \in [Subs -> [on: BOOLEAN, inbox: Seq(Messages)]]
        /\ remote'[s].on = FALSE /\ remote'[s].inbox = <<>>
        /\ \A x \in Subs : x # s => remote'[x] = remote[x]
    BY <1>1, <2>1, RemoteEnded
  <2> QED BY <1>1, <1>2, <2>1, <2>2, KeptSame
<1>4. CASE ~(Foreign(m, stream[s].home) /\ stream[s].shut)
  <2>1. /\ remote' = [remote EXCEPT ![s].inbox = Tail(@)]
        /\ stream' = IF Foreign(m, stream[s].home)
                     THEN [stream EXCEPT ![s].buf = Offer(@, m.ev)] ELSE stream
    BY <1>2, <1>4 DEF Hear
  <2>2. /\ remote' \in [Subs -> [on: BOOLEAN, inbox: Seq(Messages)]]
        /\ remote'[s].on = remote[s].on /\ remote'[s].inbox = Tail(remote[s].inbox)
        /\ \A x \in Subs : x # s => remote'[x] = remote[x]
    BY <1>1, <2>1, RemoteTaken
  <2>3. CASE ~Foreign(m, stream[s].home)
    <3>1. stream' = stream
      BY <2>1, <2>3
    <3> QED BY <1>1, <1>2, <2>2, <3>1, KeptSame
  <2>4. CASE Foreign(m, stream[s].home)
    <3>1. PICK q \in StreamStates : q = stream[s]
      BY StreamTyped
    <3>2. q.buf \in Seq(Events) /\ Len(q.buf) <= BufCap /\ m.ev \in Events
      BY <3>1, StreamTyped DEF Messages
    <3>3. PICK b : b = Offer(q.buf, m.ev)
      OBVIOUS
    <3>4. b \in Seq(Events) /\ Len(b) <= BufCap /\ (b = q.buf \/ b = Append(q.buf, m.ev))
      <4>1. CASE Len(q.buf) < BufCap
        <5>1. b = Append(q.buf, m.ev)
          BY <3>3, <4>1 DEF Offer
        <5>2. b \in Seq(Events) /\ Len(b) = Len(q.buf) + 1 /\ Len(q.buf) \in Nat
          BY <3>2, <5>1, AppendAt
        <5> QED BY <4>1, <5>1, <5>2, CapAssumption
      <4>2. CASE ~(Len(q.buf) < BufCap)
        BY <3>2, <3>3, <4>2 DEF Offer
      <4> QED BY <4>1, <4>2
    <3>5. PICK z : z = [q EXCEPT !.buf = b]
      OBVIOUS
    <3>6. z \in StreamStates /\ z.pc = q.pc /\ z.home = q.home /\ z.run = q.run
          /\ z.shut = q.shut /\ z.buf = b /\ z.got = q.got /\ z.why = q.why
      BY <3>4, <3>5 DEF StreamStates
    <3>7. Goes(s, z)
      BY <2>1, <2>4, <3>1, <3>3, <3>5 DEF Goes
    <3>8. Moves(s, z.pc) /\ stream'[s] = z
      BY <3>1, <3>4, <3>6, <3>7, GoesMoves
    <3>9. m.from # stream[s].home
      BY <2>4 DEF Foreign
    <3> QED BY <1>1, <1>2, <2>2, <3>1, <3>4, <3>6, <3>8, <3>9 DEF Moves
  <2> QED BY <2>3, <2>4
<1> QED BY <1>3, <1>4

LEMMA HearBase == ASSUME BaseInv, NEW s \in Streams, Hear(s) PROVE BaseInv'
<1>0. /\ TypeOK
      /\ row' = row /\ driver' = driver /\ mirror' = mirror /\ out' = out /\ slots' = slots
      /\ closing' = closing
  BY DEF BaseInv, Hear
<1>1. /\ Kept
      /\ \A t \in Streams : stream'[t].pc = stream[t].pc /\ stream'[t].shut = stream[t].shut
      /\ remote' \in [Subs -> [on: BOOLEAN, inbox: Seq(Messages)]]
      /\ remote'[s].on => remote[s].on
      /\ \A x \in Subs : x # s => remote'[x] = remote[x]
  BY <1>0, HearShape
<1>2. TypeOK'
  BY <1>0, <1>1 DEF TypeOK, Kept
<1>3. \A x \in Subs : remote'[x].on => remote[x].on
  BY <1>1
<1>4. SlotsAreExact' /\ \A t \in Streams : Closes(t)'
  BY <1>0, <1>1, <1>3, LinkIsASub, StreamsStay
<1>5. (\A r \in Runs : Armed(r)') /\ Undispatched' /\ Linked'
  BY <1>0, <1>3, LinkIsASub, DelegationStays
<1> QED BY <1>2, <1>4, <1>5 DEF BaseInv

\* What the orchestrator's watchers are shown of a specialist's event.
LEMMA MirroredIs ==
  ASSUME NEW e \in Events
  PROVE  /\ Mirrored(e) \in Events /\ Mirrored(e).dst = Parent /\ Mirrored(e).src = e.src
         /\ Mirrored(e).seq = e.seq /\ Mirrored(e).last = e.last
<1>1. PICK f : f = [e EXCEPT !.dst = Parent]
  OBVIOUS
<1>2. f \in Events /\ f.dst = Parent /\ f.src = e.src /\ f.seq = e.seq /\ f.last = e.last
  BY <1>1, RunsAre DEF Events
<1> QED BY <1>1, <1>2 DEF Mirrored

LEMMA SendBase ==
  ASSUME BaseInv, NEW i \in Insts, NEW e \in Events, Send(i, e), slots' = slots, closing' = closing,
         \A x \in Subs : remote'[x].on => remote[x].on
  PROVE  /\ Kept /\ SlotsAreExact' /\ \A s \in Streams : Closes(s)'
         /\ out' \in [Insts -> Seq(Messages)] /\ \A j \in Insts : Len(out'[j]) <= QueueCap
<1>1. /\ Kept
      /\ \A s \in Streams : stream'[s].pc = stream[s].pc /\ stream'[s].shut = stream[s].shut
      /\ out' \in [Insts -> Seq(Messages)] /\ \A j \in Insts : Len(out'[j]) <= QueueCap
  BY SendShape DEF BaseInv
<1> QED BY <1>1, LinkIsASub, StreamsStay

LEMMA HearChildShape ==
  ASSUME TypeOK, HearChild
  PROVE  \E m \in Messages :
           /\ remote[Link].inbox # <<>> /\ m = Head(remote[Link].inbox)
           /\ remote' \in [Subs -> [on: BOOLEAN, inbox: Seq(Messages)]]
           /\ remote'[Link].on = remote[Link].on /\ remote'[Link].inbox = Tail(remote[Link].inbox)
           /\ \A x \in Subs : x # Link => remote'[x] = remote[x]
           /\ driver[Parent].home \in Insts
           /\ IF m.from # driver[Parent].home THEN Send(driver[Parent].home, Mirrored(m.ev))
              ELSE stream' = stream /\ out' = out
<1>1. Link \in Subs /\ remote[Link].inbox \in Seq(Messages) /\ remote[Link].inbox # <<>>
  BY LinkIsASub, RemoteTyped DEF HearChild
<1>2. PICK m \in Messages : m = Head(remote[Link].inbox)
  BY <1>1, HeadTail
<1>3. driver[Parent].home \in Insts
  BY DriverTyped, RunsAre
<1>4. remote' = [remote EXCEPT ![Link].inbox = Tail(@)]
  BY DEF HearChild
<1>5. IF m.from # driver[Parent].home THEN Send(driver[Parent].home, Mirrored(m.ev))
      ELSE stream' = stream /\ out' = out
  BY <1>2 DEF HearChild, Foreign
<1> QED BY <1>1, <1>2, <1>3, <1>4, <1>5, RemoteTaken

LEMMA HearChildBase == ASSUME BaseInv, HearChild PROVE BaseInv'
<1>0. /\ TypeOK
      /\ row' = row /\ driver' = driver /\ mirror' = mirror /\ slots' = slots /\ closing' = closing
  BY DEF BaseInv, HearChild
<1>1. PICK m \in Messages :
        /\ remote' \in [Subs -> [on: BOOLEAN, inbox: Seq(Messages)]]
        /\ remote'[Link].on = remote[Link].on
        /\ \A x \in Subs : x # Link => remote'[x] = remote[x]
        /\ driver[Parent].home \in Insts
        /\ IF m.from # driver[Parent].home THEN Send(driver[Parent].home, Mirrored(m.ev))
           ELSE stream' = stream /\ out' = out
  BY <1>0, HearChildShape
<1>2. \A x \in Subs : remote'[x].on => remote[x].on
  BY <1>1
<1>3. (\A r \in Runs : Armed(r)') /\ Undispatched' /\ Linked'
  BY <1>0, <1>2, LinkIsASub, DelegationStays
<1>4. /\ Kept /\ SlotsAreExact' /\ \A s \in Streams : Closes(s)'
      /\ out' \in [Insts -> Seq(Messages)] /\ \A j \in Insts : Len(out'[j]) <= QueueCap
  <2>1. CASE m.from # driver[Parent].home
    <3>1. Mirrored(m.ev) \in Events
      BY MirroredIs DEF Messages
    <3> QED BY <1>0, <1>1, <1>2, <2>1, <3>1, SendBase
  <2>2. CASE m.from = driver[Parent].home
    <3>1. Kept /\ stream' = stream /\ out' = out
      BY <1>0, <1>1, <2>2, KeptSame
    <3>2. SlotsAreExact' /\ \A s \in Streams : Closes(s)'
      BY <1>0, <1>2, <3>1, LinkIsASub, StreamsStay
    <3> QED BY <1>0, <3>1, <3>2 DEF TypeOK
  <2> QED BY <2>1, <2>2
<1>5. TypeOK'
  BY <1>0, <1>1, <1>4 DEF TypeOK, Kept
<1> QED BY <1>3, <1>4, <1>5 DEF BaseInv

\* A goroutine's step, which no handler takes part in.
LEMMA DriverAlone ==
  ASSUME BaseInv, NEW r \in Runs, Drives(r), row' \in [Runs -> {"none", "live", "over"}], mirror' \in BOOLEAN,
         UNCHANGED <<out, stream, slots, closing>>,
         remote' \in [Subs -> [on: BOOLEAN, inbox: Seq(Messages)]],
         \A x \in Streams : remote'[x] = remote[x],
         \A q \in Runs : Armed(q)', Undispatched', Linked'
  PROVE  BaseInv'
<1>1. TypeOK /\ Kept
  BY KeptSame DEF BaseInv
<1>2. TypeOK'
  BY <1>1 DEF TypeOK, Drives
<1>3. SlotsAreExact' /\ \A s \in Streams : Closes(s)'
  BY <1>1, StreamsStay
<1> QED BY <1>2, <1>3 DEF BaseInv

LEMMA ArmedElsewhere ==
  ASSUME BaseInv, NEW r \in Runs, Drives(r), Armed(r)'
  PROVE  \A q \in Runs : Armed(q)'
<1> SUFFICES ASSUME NEW q \in Runs, q # r PROVE Armed(q)'
  OBVIOUS
<1>1. driver'[q] = driver[q] /\ Armed(q)
  BY DEF Drives, BaseInv
<1> QED BY <1>1 DEF Armed

LEMMA PublishArmed ==
  ASSUME BaseInv, NEW r \in Runs, NEW last \in BOOLEAN, NEW p \in {"run", "dispatch", "done"},
         Publish(r, last, p)
  PROVE  /\ Drives(r) /\ \A q \in Runs : Armed(q)'
         /\ driver'[r].pc = "deliver" /\ driver'[r].then = p /\ driver'[r].team = driver[r].team
<1>1. TypeOK /\ p \in DriverPCs
  BY DEF BaseInv, DriverPCs
<1>2. /\ Drives(r) /\ driver'[r].pc = "deliver"
      /\ driver'[r].seq = driver[r].seq + 1
      /\ driver'[r].then = p /\ driver'[r].team = driver[r].team
      /\ driver'[r].ev \in Events /\ driver'[r].ev.src = r /\ driver'[r].ev.dst = r
      /\ driver'[r].ev.seq = driver[r].seq + 1
  BY <1>1, PublishDrives
<1>3. Armed(r)'
  BY <1>2 DEF Armed
<1> QED BY <1>2, <1>3, ArmedElsewhere

\* Of a run that goes on running, or ends.
LEMMA RunArmed ==
  ASSUME BaseInv, NEW r \in Runs, NEW p \in DriverPCs, p \notin {"deliver", "mirror"},
         driver' = [driver EXCEPT ![r].pc = p]
  PROVE  /\ Drives(r) /\ \A q \in Runs : Armed(q)'
         /\ driver'[r].pc = p /\ driver'[r].then = driver[r].then /\ driver'[r].team = driver[r].team
<1>1. TypeOK /\ Armed(r)
  BY DEF BaseInv
<1>2. Drives(r) /\ driver'[r].pc = p /\ driver'[r].then = driver[r].then /\ driver'[r].team = driver[r].team
  BY <1>1, DriverGoes
<1>3. Armed(r)'
  BY <1>1, <1>2 DEF Armed
<1> QED BY <1>2, <1>3, ArmedElsewhere

\* A step of a running run leaves the delegation as it is: not made yet, or over.
LEMMA RunUndispatched ==
  ASSUME BaseInv, NEW r \in Runs, Drives(r), driver[r].pc = "run", mirror' = mirror, remote' = remote,
         driver'[r].pc \in {"deliver", "done"}, driver'[r].team = driver[r].team,
         driver'[r].pc = "deliver" => driver'[r].then # "dispatch"
  PROVE  Undispatched' /\ Linked'
<1>1. Undispatched /\ Linked
  BY DEF BaseInv
<1>2. CASE r = Parent
  <2>1. Team => driver'[Child] = driver[Child]
    BY <1>2, RunsAre, RunAssumption DEF Drives
  <2>2. ~Dispatching'
    BY <1>2 DEF Dispatching
  <2>3. Undispatched'
    BY <1>1, <1>2, <2>1, <2>2 DEF Undispatched
  <2>4. ~mirror /\ ~remote[Link].on
    BY <1>1, <1>2 DEF Linked, Dispatching
  <2> QED BY <2>3, <2>4 DEF Linked
<1>3. CASE r # Parent
  <2>1. r = Child /\ Team
    BY <1>3 DEF Runs
  <2>2. driver'[Parent] = driver[Parent]
    BY <1>3, RunsAre DEF Drives
  <2>3. driver[Parent].team # "todo"
    BY <1>1, <2>1 DEF Undispatched
  <2> QED BY <1>1, <2>2, <2>3 DEF Undispatched, Linked, Dispatching
<1> QED BY <1>2, <1>3

LEMMA ProgressBase == ASSUME BaseInv, NEW r \in Runs, Progress(r) PROVE BaseInv'
<1>1. /\ driver[r].pc = "run" /\ Publish(r, FALSE, "run")
      /\ UNCHANGED <<row, mirror, out, stream, remote, slots, closing>>
  BY DEF Progress
<1>2. /\ Drives(r) /\ \A q \in Runs : Armed(q)'
      /\ driver'[r].pc = "deliver" /\ driver'[r].then = "run" /\ driver'[r].team = driver[r].team
  BY <1>1, PublishArmed
<1>3. Undispatched' /\ Linked'
  BY <1>1, <1>2, RunUndispatched
<1>4. /\ row' \in [Runs -> {"none", "live", "over"}] /\ mirror' \in BOOLEAN
      /\ remote' \in [Subs -> [on: BOOLEAN, inbox: Seq(Messages)]]
  BY <1>1 DEF BaseInv, TypeOK
<1> QED BY <1>1, <1>2, <1>3, <1>4, DriverAlone

LEMMA EndNotifiedBase == ASSUME BaseInv, NEW r \in Runs, EndNotified(r) PROVE BaseInv'
<1>1. /\ driver[r].pc = "run" /\ Publish(r, TRUE, "done") /\ row' = [row EXCEPT ![r] = "over"]
      /\ UNCHANGED <<mirror, out, stream, remote, slots, closing>>
  BY DEF EndNotified
<1>2. /\ Drives(r) /\ \A q \in Runs : Armed(q)'
      /\ driver'[r].pc = "deliver" /\ driver'[r].then = "done" /\ driver'[r].team = driver[r].team
  BY <1>1, PublishArmed
<1>3. Undispatched' /\ Linked'
  BY <1>1, <1>2, RunUndispatched
<1>4. /\ row' \in [Runs -> {"none", "live", "over"}] /\ mirror' \in BOOLEAN
      /\ remote' \in [Subs -> [on: BOOLEAN, inbox: Seq(Messages)]]
  BY <1>1 DEF BaseInv, TypeOK
<1> QED BY <1>1, <1>2, <1>3, <1>4, DriverAlone

LEMMA EndUnwrittenBase == ASSUME BaseInv, NEW r \in Runs, EndUnwritten(r) PROVE BaseInv'
<1>1. /\ driver[r].pc = "run" /\ Publish(r, TRUE, "done")
      /\ UNCHANGED <<row, mirror, out, stream, remote, slots, closing>>
  BY DEF EndUnwritten
<1>2. /\ Drives(r) /\ \A q \in Runs : Armed(q)'
      /\ driver'[r].pc = "deliver" /\ driver'[r].then = "done" /\ driver'[r].team = driver[r].team
  BY <1>1, PublishArmed
<1>3. Undispatched' /\ Linked'
  BY <1>1, <1>2, RunUndispatched
<1>4. /\ row' \in [Runs -> {"none", "live", "over"}] /\ mirror' \in BOOLEAN
      /\ remote' \in [Subs -> [on: BOOLEAN, inbox: Seq(Messages)]]
  BY <1>1 DEF BaseInv, TypeOK
<1> QED BY <1>1, <1>2, <1>3, <1>4, DriverAlone

LEMMA ReapBase == ASSUME BaseInv, NEW r \in Runs, ReapStaleRuns(r) PROVE BaseInv'
<1>1. /\ row' = [row EXCEPT ![r] = "over"]
      /\ UNCHANGED <<driver, mirror, out, stream, remote, slots, closing>>
  BY DEF ReapStaleRuns
<1>2. TypeOK' /\ Kept
  BY <1>1, KeptSame DEF BaseInv, TypeOK
<1>3. SlotsAreExact' /\ \A s \in Streams : Closes(s)'
  BY <1>1, <1>2, StreamsStay
<1>4. (\A q \in Runs : Armed(q)') /\ Undispatched' /\ Linked'
  BY <1>1, DelegationStays
<1> QED BY <1>2, <1>3, <1>4 DEF BaseInv

LEMMA EndSilentBase == ASSUME BaseInv, NEW r \in Runs, EndSilent(r) PROVE BaseInv'
<1>1. /\ driver[r].pc = "run" /\ driver' = [driver EXCEPT ![r].pc = "done"]
      /\ row' = [row EXCEPT ![r] = "over"]
      /\ UNCHANGED <<mirror, out, stream, remote, slots, closing>>
  BY DEF EndSilent
<1>2. /\ Drives(r) /\ \A q \in Runs : Armed(q)'
      /\ driver'[r].pc = "done" /\ driver'[r].team = driver[r].team
  BY <1>1, RunArmed DEF DriverPCs
<1>3. Undispatched' /\ Linked'
  BY <1>1, <1>2, RunUndispatched
<1>4. /\ row' \in [Runs -> {"none", "live", "over"}] /\ mirror' \in BOOLEAN
      /\ remote' \in [Subs -> [on: BOOLEAN, inbox: Seq(Messages)]]
  BY <1>1 DEF BaseInv, TypeOK
<1> QED BY <1>1, <1>2, <1>3, <1>4, DriverAlone

\* What a goroutine hands over.
LEMMA HandShape ==
  ASSUME BaseInv, NEW r \in Runs, Hand(r)
  PROVE  /\ driver[r].pc = "deliver" /\ driver[r].ev \in Events /\ driver[r].home \in Insts
         /\ driver[r].ev.src = r /\ driver[r].ev.dst = r /\ driver[r].ev.seq = driver[r].seq
         /\ Send(driver[r].home, driver[r].ev)
<1>1. TypeOK /\ Armed(r)
  BY DEF BaseInv
<1> QED BY <1>1, DriverTyped DEF Hand, Armed

LEMMA DeliverBase == ASSUME BaseInv, NEW r \in Runs, Hand(r) PROVE BaseInv'
<1>0. TypeOK /\ Armed(r) /\ Undispatched /\ Linked
  BY DEF BaseInv
<1>1. /\ driver[r].pc = "deliver" /\ driver[r].ev \in Events /\ driver[r].home \in Insts
      /\ Send(driver[r].home, driver[r].ev)
  BY HandShape
<1>2. row' = row /\ mirror' = mirror /\ remote' = remote /\ slots' = slots /\ closing' = closing
  BY DEF Hand
<1>3. /\ Kept /\ SlotsAreExact' /\ \A s \in Streams : Closes(s)'
      /\ out' \in [Insts -> Seq(Messages)] /\ \A j \in Insts : Len(out'[j]) <= QueueCap
  BY <1>1, <1>2, SendBase
<1>4. /\ Drives(r)
      /\ driver'[r].pc = IF r = Child THEN "mirror" ELSE driver[r].then
      /\ driver'[r].seq = driver[r].seq
      /\ r = Child => driver'[r].ev = driver[r].ev
      /\ driver'[r].then = driver[r].then /\ driver'[r].team = driver[r].team
  BY <1>0, HandDrives
<1>5. Armed(r)'
  BY <1>0, <1>1, <1>4 DEF Armed
<1>6. \A q \in Runs : Armed(q)'
  BY <1>4, <1>5, ArmedElsewhere
<1>7. Undispatched' /\ Linked'
  <2>1. CASE r = Parent
    <3>1. Team => driver'[Child] = driver[Child]
      BY <1>4, <2>1, RunsAre, RunAssumption DEF Drives
    <3>2. driver'[Parent].pc = driver[Parent].then /\ driver[Parent].then \in {"run", "dispatch", "done"}
      BY <1>0, <1>4, <2>1, RunAssumption DEF Armed
    <3>3. Dispatching' <=> Dispatching
      BY <1>1, <2>1, <3>2 DEF Dispatching
    <3>4. Undispatched'
      BY <1>0, <1>4, <2>1, <3>1, <3>3 DEF Undispatched
    <3>5. Linked'
      BY <1>0, <1>1, <1>2, <2>1, <3>3 DEF Linked
    <3> QED BY <3>4, <3>5
  <2>2. CASE r # Parent
    <3>1. r = Child /\ Team
      BY <2>2 DEF Runs
    <3>2. driver'[Parent] = driver[Parent]
      BY <1>4, <2>2, RunsAre DEF Drives
    <3>3. driver[Parent].team # "todo"
      BY <1>0, <1>1, <3>1 DEF Undispatched
    <3> QED BY <1>0, <1>2, <3>2, <3>3 DEF Undispatched, Linked, Dispatching
  <2> QED BY <2>1, <2>2
<1>8. TypeOK'
  BY <1>0, <1>2, <1>3, <1>4 DEF TypeOK, Kept, Drives
<1> QED BY <1>3, <1>6, <1>7, <1>8 DEF BaseInv

LEMMA MirrorShape ==
  ASSUME BaseInv, Mirror
  PROVE  /\ Team /\ Child \in Runs /\ driver[Child].pc = "mirror"
         /\ driver[Child].ev \in Events /\ driver[Child].home \in Insts
         /\ driver[Child].ev.src = Child /\ driver[Child].ev.dst = Child
         /\ driver[Child].ev.seq = driver[Child].seq
         /\ Drives(Child) /\ driver'[Child].pc = driver[Child].then
         /\ driver'[Child].home = driver[Child].home /\ driver'[Child].seq = driver[Child].seq
         /\ driver'[Child].then = driver[Child].then /\ driver'[Child].team = driver[Child].team
         /\ IF mirror /\ driver[Child].home = driver[Parent].home
            THEN Send(driver[Child].home, Mirrored(driver[Child].ev))
            ELSE stream' = stream /\ out' = out
<1>1. Team /\ Child \in Runs /\ driver[Child].pc = "mirror"
  BY RunsAre DEF Mirror
<1>2. TypeOK /\ Armed(Child)
  BY <1>1 DEF BaseInv
<1>3. driver' = [driver EXCEPT ![Child].pc = driver[Child].then, ![Child].ev = None]
  BY DEF Mirror
<1>4. /\ Drives(Child) /\ driver'[Child].pc = driver[Child].then
      /\ driver'[Child].home = driver[Child].home /\ driver'[Child].seq = driver[Child].seq
      /\ driver'[Child].then = driver[Child].then /\ driver'[Child].team = driver[Child].team
  BY <1>1, <1>2, <1>3, DriverFreed
<1>5. /\ driver[Child].ev \in Events /\ driver[Child].home \in Insts
      /\ driver[Child].ev.src = Child /\ driver[Child].ev.dst = Child
      /\ driver[Child].ev.seq = driver[Child].seq
  BY <1>1, <1>2, DriverTyped DEF Armed
<1>6. IF mirror /\ driver[Child].home = driver[Parent].home
      THEN Send(driver[Child].home, Mirrored(driver[Child].ev))
      ELSE stream' = stream /\ out' = out
  BY DEF Mirror
<1> QED BY <1>1, <1>4, <1>5, <1>6

LEMMA MirrorBase == ASSUME BaseInv, Mirror PROVE BaseInv'
<1>0. TypeOK /\ Undispatched /\ Linked
  BY DEF BaseInv
<1>1. /\ Team /\ Child \in Runs /\ driver[Child].pc = "mirror"
      /\ driver[Child].ev \in Events /\ driver[Child].home \in Insts
      /\ Drives(Child) /\ driver'[Child].pc = driver[Child].then
      /\ driver'[Child].then = driver[Child].then
      /\ IF mirror /\ driver[Child].home = driver[Parent].home
         THEN Send(driver[Child].home, Mirrored(driver[Child].ev))
         ELSE stream' = stream /\ out' = out
  BY MirrorShape
<1>2. row' = row /\ mirror' = mirror /\ remote' = remote /\ slots' = slots /\ closing' = closing
  BY DEF Mirror
<1>3. /\ Kept /\ SlotsAreExact' /\ \A s \in Streams : Closes(s)'
      /\ out' \in [Insts -> Seq(Messages)] /\ \A j \in Insts : Len(out'[j]) <= QueueCap
  <2>1. CASE mirror /\ driver[Child].home = driver[Parent].home
    <3>1. Mirrored(driver[Child].ev) \in Events /\ Send(driver[Child].home, Mirrored(driver[Child].ev))
      BY <1>1, <2>1, MirroredIs
    <3> QED BY <1>1, <1>2, <3>1, SendBase
  <2>2. CASE ~(mirror /\ driver[Child].home = driver[Parent].home)
    <3>1. Kept /\ stream' = stream /\ out' = out
      BY <1>0, <1>1, <2>2, KeptSame
    <3>2. SlotsAreExact' /\ \A s \in Streams : Closes(s)'
      BY <1>2, <3>1, StreamsStay
    <3> QED BY <1>0, <3>1, <3>2 DEF TypeOK
  <2> QED BY <2>1, <2>2
<1>4. Armed(Child)'
  <2>1. Armed(Child)
    BY <1>1 DEF BaseInv
  <2> QED BY <1>1, <2>1 DEF Armed
<1>5. \A q \in Runs : Armed(q)'
  BY <1>1, <1>4, ArmedElsewhere
<1>6. driver'[Parent] = driver[Parent] /\ driver[Parent].team # "todo"
  BY <1>0, <1>1, RunsAre, RunAssumption DEF Undispatched, Drives
<1>7. Undispatched' /\ Linked'
  BY <1>0, <1>2, <1>6 DEF Undispatched, Linked, Dispatching
<1>8. TypeOK'
  BY <1>0, <1>1, <1>2, <1>3 DEF TypeOK, Kept, Drives
<1> QED BY <1>3, <1>5, <1>7, <1>8 DEF BaseInv

LEMMA DelegateBase == ASSUME BaseInv, Delegate PROVE BaseInv'
<1>0. TypeOK /\ Undispatched /\ Linked /\ Parent \in Runs
  BY RunsAre DEF BaseInv
<1>1. /\ Team /\ driver[Parent].pc = "run" /\ driver[Parent].team = "todo"
      /\ driver' = [driver EXCEPT ![Parent].pc = "enter"]
      /\ UNCHANGED <<row, mirror, out, stream, slots, closing>>
  BY DEF Delegate
<1>2. PICK b \in BOOLEAN : remote' = [remote EXCEPT ![Link].on = b]
  BY DEF Delegate
<1>3. /\ remote' \in [Subs -> [on: BOOLEAN, inbox: Seq(Messages)]]
      /\ \A x \in Streams : remote'[x] = remote[x]
  <2>1. /\ remote' \in [Subs -> [on: BOOLEAN, inbox: Seq(Messages)]]
        /\ \A x \in Subs : x # Link => remote'[x] = remote[x]
    BY <1>0, <1>2, LinkIsASub, RemoteOpened
  <2> QED BY <2>1, LinkIsASub, LinkAssumption
<1>4. /\ Drives(Parent) /\ \A q \in Runs : Armed(q)'
      /\ driver'[Parent].pc = "enter" /\ driver'[Parent].team = driver[Parent].team
  BY <1>0, <1>1, RunArmed DEF DriverPCs
<1>5. driver'[Child] = driver[Child]
  BY <1>1, <1>4, RunsAre, RunAssumption DEF Drives
<1>6. Undispatched' /\ Linked'
  <2>1. Dispatching'
    BY <1>4 DEF Dispatching
  <2>2. Undispatched'
    BY <1>0, <1>1, <1>4, <1>5 DEF Undispatched
  <2> QED BY <2>1, <2>2 DEF Linked
<1>7. row' \in [Runs -> {"none", "live", "over"}] /\ mirror' \in BOOLEAN
  BY <1>0, <1>1 DEF TypeOK
<1> QED BY <1>0, <1>1, <1>3, <1>4, <1>6, <1>7, DriverAlone

LEMMA LinkEnterBase == ASSUME BaseInv, LinkEnter PROVE BaseInv'
<1>0. TypeOK /\ Undispatched /\ Linked /\ Parent \in Runs
  BY RunsAre DEF BaseInv
<1>1. /\ driver[Parent].pc = "enter" /\ mirror' = TRUE
      /\ UNCHANGED <<row, out, stream, remote, slots, closing>>
  BY DEF LinkEnter
<1>2. Dispatching /\ Team /\ driver[Parent].team = "todo"
  BY <1>0, <1>1 DEF Dispatching, Undispatched
<1>3. /\ Drives(Parent) /\ \A q \in Runs : Armed(q)'
      /\ driver'[Parent].team = driver[Parent].team
      /\ \/ driver'[Parent].pc = "deliver" /\ driver'[Parent].then = "dispatch"
         \/ driver'[Parent].pc = "dispatch"
  <2>1. CASE driver[Parent].seq < MaxEvents
    <3>1. Publish(Parent, FALSE, "dispatch")
      BY <2>1 DEF LinkEnter
    <3> QED BY <1>0, <3>1, PublishArmed
  <2>2. CASE ~(driver[Parent].seq < MaxEvents)
    <3>1. driver' = [driver EXCEPT ![Parent].pc = "dispatch"]
      BY <2>2 DEF LinkEnter
    <3> QED BY <1>0, <3>1, RunArmed DEF DriverPCs
  <2> QED BY <2>1, <2>2
<1>4. driver'[Child] = driver[Child]
  BY <1>2, <1>3, RunsAre, RunAssumption DEF Drives
<1>5. Undispatched' /\ Linked'
  <2>1. Dispatching'
    BY <1>3 DEF Dispatching
  <2>2. Undispatched'
    BY <1>0, <1>2, <1>3, <1>4 DEF Undispatched
  <2> QED BY <2>1, <2>2 DEF Linked
<1>6. /\ row' \in [Runs -> {"none", "live", "over"}] /\ mirror' \in BOOLEAN
      /\ remote' \in [Subs -> [on: BOOLEAN, inbox: Seq(Messages)]] /\ \A x \in Streams : remote'[x] = remote[x]
  BY <1>0, <1>1 DEF TypeOK
<1> QED BY <1>0, <1>1, <1>3, <1>5, <1>6, DriverAlone

\* The specialist begins, wherever it was dispatched to.
LEMMA DispatchShape ==
  ASSUME BaseInv, Dispatch
  PROVE  /\ Team /\ Child \in Runs /\ driver[Parent].pc = "dispatch"
         /\ driver[Child].pc = "off" /\ driver[Child].seq = 0
         /\ driver' \in [Runs -> DriverStates]
         /\ driver'[Parent].pc = "wait" /\ driver'[Parent].team = "past"
         /\ driver'[Parent].home = driver[Parent].home /\ driver'[Parent].seq = driver[Parent].seq
         /\ driver'[Parent].ev = driver[Parent].ev /\ driver'[Parent].then = driver[Parent].then
         /\ driver'[Child].pc = "run" /\ driver'[Child].seq = driver[Child].seq
         /\ driver'[Child].then = driver[Child].then
<1>1. TypeOK /\ Undispatched /\ driver[Parent].pc = "dispatch"
  BY DEF BaseInv, Dispatch
<1>2. Team /\ driver[Parent].team = "todo"
  BY <1>1 DEF Undispatched, Dispatching
<1>3. /\ Child \in Runs /\ Parent \in Runs /\ Runs = {Parent, Child}
      /\ driver[Child].pc = "off" /\ driver[Child].seq = 0
  BY <1>1, <1>2 DEF Undispatched, Runs
<1>4. PICK i \in Insts :
       driver' = [driver EXCEPT ![Parent].pc = "wait", ![Parent].team = "past",
                                ![Child].pc = "run", ![Child].home = i]
  BY DEF Dispatch
<1>5. PICK q \in DriverStates : q = driver[Parent]
  BY <1>1, <1>3, DriverTyped
<1>6. PICK c \in DriverStates : c = driver[Child]
  BY <1>1, <1>3, DriverTyped
<1>7. PICK y : y = [q EXCEPT !.pc = "wait", !.team = "past"]
  OBVIOUS
<1>8. PICK z : z = [c EXCEPT !.pc = "run", !.home = i]
  OBVIOUS
<1>9. y \in DriverStates /\ y.pc = "wait" /\ y.team = "past" /\ y.home = q.home /\ y.seq = q.seq
      /\ y.ev = q.ev /\ y.then = q.then
  <2>1. "wait" \in DriverPCs
    BY DEF DriverPCs
  <2> QED BY <1>7, <2>1 DEF DriverStates
<1>10. z \in DriverStates /\ z.pc = "run" /\ z.seq = c.seq /\ z.then = c.then
  <2>1. "run" \in DriverPCs
    BY DEF DriverPCs
  <2> QED BY <1>8, <2>1 DEF DriverStates
<1>11. driver' = [driver EXCEPT ![Parent] = y, ![Child] = z] /\ driver \in [Runs -> DriverStates]
  <2>1. driver \in [Runs -> DriverStates]
    BY <1>1 DEF TypeOK
  <2>2. driver' = [driver EXCEPT ![Parent] = [driver[Parent] EXCEPT !.pc = "wait", !.team = "past"],
                                 ![Child] = [driver[Child] EXCEPT !.pc = "run", !.home = i]]
    BY <1>3, <1>4, <2>1, RunAssumption
  <2> QED BY <1>5, <1>6, <1>7, <1>8, <2>1, <2>2
<1>12. driver' \in [Runs -> DriverStates] /\ driver'[Parent] = y /\ driver'[Child] = z
  BY <1>3, <1>9, <1>10, <1>11, RunAssumption
<1> QED BY <1>1, <1>2, <1>3, <1>5, <1>6, <1>9, <1>10, <1>12

LEMMA DispatchBase == ASSUME BaseInv, Dispatch PROVE BaseInv'
<1>0. TypeOK /\ Undispatched /\ Linked /\ Parent \in Runs
  BY RunsAre DEF BaseInv
<1>1. /\ Team /\ Child \in Runs /\ driver[Parent].pc = "dispatch"
      /\ driver' \in [Runs -> DriverStates]
      /\ driver'[Parent].pc = "wait" /\ driver'[Parent].team = "past"
      /\ driver'[Parent].then = driver[Parent].then
      /\ driver'[Child].pc = "run" /\ driver'[Child].then = driver[Child].then
  BY DispatchShape
<1>2. /\ row' = [row EXCEPT ![Child] = "live"]
      /\ UNCHANGED <<mirror, out, stream, remote, slots, closing>>
  BY DEF Dispatch
<1>3. Kept
  BY <1>0, <1>2, KeptSame
<1>4. SlotsAreExact' /\ \A s \in Streams : Closes(s)'
  BY <1>2, <1>3, StreamsStay
<1>5. \A r \in Runs : Armed(r)'
  <2>1. Armed(Parent) /\ Armed(Child)
    BY <1>0, <1>1 DEF BaseInv
  <2>2. Armed(Parent)' /\ Armed(Child)'
    BY <1>1, <2>1 DEF Armed
  <2> QED BY <2>2, RunsAre
<1>6. Undispatched' /\ Linked'
  <2>1. ~Dispatching'
    BY <1>1 DEF Dispatching
  <2>2. Undispatched'
    BY <1>1, <2>1 DEF Undispatched
  <2> QED BY <1>1, <2>1, <2>2 DEF Linked
<1>7. TypeOK'
  <2>1. row' \in [Runs -> {"none", "live", "over"}]
    BY <1>0, <1>2 DEF TypeOK
  <2> QED BY <1>0, <1>1, <1>2, <2>1 DEF TypeOK
<1> QED BY <1>4, <1>5, <1>6, <1>7 DEF BaseInv

LEMMA AnsweredBase == ASSUME BaseInv, Answered PROVE BaseInv'
<1>0. TypeOK /\ Undispatched /\ Linked /\ Parent \in Runs
  BY RunsAre DEF BaseInv
<1>1. /\ driver[Parent].pc = "wait" /\ mirror' = FALSE
      /\ driver' = [driver EXCEPT ![Parent].pc = "unlink"]
      /\ UNCHANGED <<row, out, stream, remote, slots, closing>>
  BY DEF Answered
<1>2. /\ Drives(Parent) /\ \A q \in Runs : Armed(q)'
      /\ driver'[Parent].pc = "unlink" /\ driver'[Parent].team = driver[Parent].team
  BY <1>0, <1>1, RunArmed DEF DriverPCs
<1>3. Team => driver'[Child] = driver[Child]
  BY <1>2, RunsAre, RunAssumption DEF Drives
<1>4. Undispatched' /\ Linked'
  <2>1. ~Dispatching'
    BY <1>2 DEF Dispatching
  <2>2. Undispatched'
    BY <1>0, <1>2, <1>3, <2>1 DEF Undispatched
  <2> QED BY <1>1, <1>2, <2>2 DEF Linked
<1>5. /\ row' \in [Runs -> {"none", "live", "over"}] /\ mirror' \in BOOLEAN
      /\ remote' \in [Subs -> [on: BOOLEAN, inbox: Seq(Messages)]] /\ \A x \in Streams : remote'[x] = remote[x]
  BY <1>0, <1>1 DEF TypeOK
<1> QED BY <1>0, <1>1, <1>2, <1>4, <1>5, DriverAlone

LEMMA UnlinkBase == ASSUME BaseInv, Unlink PROVE BaseInv'
<1>0. TypeOK /\ Undispatched /\ Linked /\ Parent \in Runs
  BY RunsAre DEF BaseInv
<1>1. /\ driver[Parent].pc = "unlink"
      /\ driver' = [driver EXCEPT ![Parent].pc = "run"]
      /\ UNCHANGED <<row, mirror, out, stream, slots, closing>>
  BY DEF Unlink
<1>2. /\ remote' \in [Subs -> [on: BOOLEAN, inbox: Seq(Messages)]] /\ remote'[Link].on = FALSE
      /\ \A x \in Streams : remote'[x] = remote[x]
  <2>1. /\ remote' \in [Subs -> [on: BOOLEAN, inbox: Seq(Messages)]] /\ remote'[Link].on = FALSE
        /\ \A x \in Subs : x # Link => remote'[x] = remote[x]
    BY <1>0, LinkIsASub, RemoteEnded DEF Unlink
  <2> QED BY <2>1, LinkIsASub, LinkAssumption
<1>3. /\ Drives(Parent) /\ \A q \in Runs : Armed(q)'
      /\ driver'[Parent].pc = "run" /\ driver'[Parent].team = driver[Parent].team
  BY <1>0, <1>1, RunArmed DEF DriverPCs
<1>4. Team => driver'[Child] = driver[Child]
  BY <1>3, RunsAre, RunAssumption DEF Drives
<1>5. Undispatched' /\ Linked'
  <2>1. ~Dispatching' /\ ~Dispatching
    BY <1>1, <1>3 DEF Dispatching
  <2>2. Undispatched'
    BY <1>0, <1>3, <1>4, <2>1 DEF Undispatched
  <2>3. ~mirror
    BY <1>0, <1>1, <2>1 DEF Linked
  <2> QED BY <1>1, <1>2, <2>2, <2>3 DEF Linked
<1>6. row' \in [Runs -> {"none", "live", "over"}] /\ mirror' \in BOOLEAN
  BY <1>0, <1>1 DEF TypeOK
<1> QED BY <1>0, <1>1, <1>2, <1>3, <1>5, <1>6, DriverAlone

LEMMA StutterBase == ASSUME BaseInv, UNCHANGED vars PROVE BaseInv'
<1>1. UNCHANGED <<row, driver, mirror, out, stream, remote, slots, closing>>
  BY DEF vars
<1>2. TypeOK' /\ Kept
  BY <1>1, KeptSame DEF BaseInv, TypeOK
<1>3. SlotsAreExact' /\ \A s \in Streams : Closes(s)'
  BY <1>1, <1>2, StreamsStay
<1>4. (\A r \in Runs : Armed(r)') /\ Undispatched' /\ Linked'
  BY <1>1, DelegationStays
<1> QED BY <1>2, <1>3, <1>4 DEF BaseInv

\* The steps of Next, one by one.
LEMMA NextSteps ==
  ASSUME Next
  PROVE  \/ \E r \in Runs : \/ Hand(r) \/ Progress(r) \/ EndNotified(r) \/ EndUnwritten(r)
                            \/ EndSilent(r) \/ ReapStaleRuns(r)
         \/ Mirror \/ Delegate \/ LinkEnter \/ Dispatch \/ Answered \/ Unlink
         \/ \E i \in Insts : Relay(i) \/ CloseAll(i)
         \/ \E s \in Streams : \/ Hear(s) \/ Check(s) \/ Acquire(s) \/ Add(s) \/ Subscribe(s)
                               \/ Forward(s) \/ Drained(s) \/ StopRemote(s) \/ Remove(s) \/ Release(s)
                               \/ ClientGone(s)
         \/ HearChild
BY DEF Next, DriverStep, Deliver, TeamStep, StreamStep

LEMMA BaseNext == BaseInv /\ [Next]_vars => BaseInv'
<1> SUFFICES ASSUME BaseInv, [Next]_vars PROVE BaseInv'
  OBVIOUS
<1>1. CASE UNCHANGED vars
  BY <1>1, StutterBase
<1>2. CASE Next
  <2>1. CASE \E r \in Runs : \/ Hand(r) \/ Progress(r) \/ EndNotified(r) \/ EndUnwritten(r)
                             \/ EndSilent(r) \/ ReapStaleRuns(r)
    BY <2>1, DeliverBase, ProgressBase, EndNotifiedBase, EndUnwrittenBase, EndSilentBase, ReapBase
  <2>2. CASE Mirror \/ Delegate \/ LinkEnter \/ Dispatch \/ Answered \/ Unlink
    BY <2>2, MirrorBase, DelegateBase, LinkEnterBase, DispatchBase, AnsweredBase, UnlinkBase
  <2>3. CASE \E i \in Insts : Relay(i) \/ CloseAll(i)
    BY <2>3, RelayBase, CloseAllBase
  <2>4. CASE \E s \in Streams : \/ Hear(s) \/ Check(s) \/ Acquire(s) \/ Add(s) \/ Subscribe(s)
                                \/ Forward(s) \/ Drained(s) \/ StopRemote(s) \/ Remove(s) \/ Release(s)
                                \/ ClientGone(s)
    BY <2>4, HearBase, CheckBase, AcquireBase, AddBase, SubscribeBase, ForwardBase, StopBase,
       StopRemoteBase, RemoveBase, ReleaseBase
  <2>5. CASE HearChild
    BY <2>5, HearChildBase
  <2> QED BY <1>2, <2>1, <2>2, <2>3, <2>4, <2>5, NextSteps
<1> QED BY <1>1, <1>2

LEMMA BaseInit == Init => BaseInv
<1> SUFFICES ASSUME Init PROVE BaseInv
  OBVIOUS
<1>1. PICK i \in Insts :
        driver = [r \in Runs |-> [pc |-> IF r = Parent THEN "run" ELSE "off", home |-> i,
                                  seq |-> 0, ev |-> None, then |-> "run", team |-> "todo"]]
  BY DEF Init
<1>2. ASSUME NEW r \in Runs
      PROVE  /\ driver[r] \in DriverStates /\ driver[r].pc = (IF r = Parent THEN "run" ELSE "off")
             /\ driver[r].then = "run" /\ driver[r].seq = 0
  <2>1. PICK p \in DriverPCs : p = IF r = Parent THEN "run" ELSE "off"
    BY DEF DriverPCs
  <2>2. PICK q : q = [pc |-> p, home |-> i, seq |-> 0, ev |-> None, then |-> "run", team |-> "todo"]
    OBVIOUS
  <2>3. q \in DriverStates /\ q.pc = p /\ q.then = "run" /\ q.seq = 0
    <3>1. "run" \in DriverPCs
      BY DEF DriverPCs
    <3> QED BY <2>2, <3>1 DEF DriverStates
  <2>4. driver[r] = q
    BY <1>1, <2>1, <2>2
  <2> QED BY <2>1, <2>3, <2>4
<1>3. ASSUME NEW s \in Streams
      PROVE  /\ stream[s] \in StreamStates /\ stream[s].buf = <<>> /\ stream[s].got = <<>>
             /\ stream[s].pc = "check" /\ stream[s].shut = FALSE /\ stream[s].why = "none"
  <2>1. stream \in [Streams -> {[pc |-> "check", home |-> j, run |-> r, listed |-> FALSE,
                              shut |-> FALSE, buf |-> <<>>, got |-> <<>>, why |-> "none"] :
                                j \in Insts, r \in Runs}]
    BY DEF Init
  <2>2. PICK j \in Insts, r \in Runs :
          stream[s] = [pc |-> "check", home |-> j, run |-> r, listed |-> FALSE,
                       shut |-> FALSE, buf |-> <<>>, got |-> <<>>, why |-> "none"]
    BY <2>1
  <2>3. <<>> \in Seq(Events)
    OBVIOUS
  <2>4. PICK z \in Seq(Events) : z = <<>>
    BY <2>3
  <2>5. PICK q : q = [pc |-> "check", home |-> j, run |-> r, listed |-> FALSE,
                      shut |-> FALSE, buf |-> z, got |-> z, why |-> "none"]
    OBVIOUS
  <2>6. q \in StreamStates /\ q.buf = z /\ q.got = z /\ q.pc = "check" /\ q.shut = FALSE /\ q.why = "none"
    <3>1. "check" \in StreamPCs
      BY DEF StreamPCs
    <3> QED BY <2>5, <3>1 DEF StreamStates
  <2> QED BY <2>2, <2>4, <2>5, <2>6
<1>4. /\ stream \in [Streams -> StreamStates]
      /\ \A s \in Streams : Len(stream[s].buf) <= BufCap
  <2>1. stream \in [Streams -> StreamStates]
    <3>1. stream = [s \in Streams |-> stream[s]]
      BY DEF Init
    <3> QED BY <1>3, <3>1
  <2>2. ASSUME NEW s \in Streams PROVE Len(stream[s].buf) <= BufCap
    <3>1. stream[s].buf = <<>>
      BY <1>3
    <3>2. Len(stream[s].buf) = 0
      BY <3>1
    <3> QED BY <3>2, CapAssumption
  <2> QED BY <2>1, <2>2
<1>5. /\ driver \in [Runs -> DriverStates]
      /\ row \in [Runs -> {"none", "live", "over"}] /\ mirror = FALSE
      /\ slots \in [Insts -> Nat] /\ (\A j \in Insts : slots[j] = 0) /\ closing = {}
  <2>1. driver \in [Runs -> DriverStates]
    BY <1>1, <1>2
  <2> QED BY <2>1 DEF Init
<1>6. /\ out \in [Insts -> Seq(Messages)] /\ (\A j \in Insts : out[j] = <<>>)
      /\ \A j \in Insts : Len(out[j]) <= QueueCap
  <2>1. <<>> \in Seq(Messages) /\ Len(<<>>) = 0
    OBVIOUS
  <2>2. out = [j \in Insts |-> <<>>]
    BY DEF Init
  <2> QED BY <2>1, <2>2, CapAssumption
<1>7. /\ remote \in [Subs -> [on: BOOLEAN, inbox: Seq(Messages)]]
      /\ \A x \in Subs : remote[x].on = FALSE /\ remote[x].inbox = <<>>
  <2>1. <<>> \in Seq(Messages)
    OBVIOUS
  <2>2. PICK z : z = [on |-> FALSE, inbox |-> <<>>]
    OBVIOUS
  <2>3. z \in [on: BOOLEAN, inbox: Seq(Messages)] /\ z.on = FALSE /\ z.inbox = <<>>
    BY <2>1, <2>2
  <2>4. remote = [x \in Subs |-> z]
    BY <2>2 DEF Init
  <2> QED BY <2>3, <2>4
<1>8. TypeOK
  BY <1>4, <1>5, <1>6, <1>7 DEF TypeOK
<1>9. SlotsAreExact
  <2>1. \A j \in Insts : Served(j) = {}
    BY <1>3 DEF Served, Holding
  <2>2. Cardinality({}) = 0
    BY FS_EmptySet
  <2>3. \A j \in Insts : slots[j] <= MaxSlots /\ slots[j] = Cardinality(Served(j))
    BY <1>5, <2>1, <2>2, SlotAssumption
  <2> QED BY <2>3, SlotsCount
<1>10. \A r \in Runs : Armed(r)
  <2> TAKE r \in Runs
  <2>1. driver[r].pc \in {"run", "off"} /\ driver[r].then = "run"
    BY <1>2
  <2> QED BY <2>1 DEF Armed
<1>11. Undispatched /\ Linked
  <2>1. ~Dispatching
    BY <1>2, RunsAre DEF Dispatching
  <2>2. Team => driver[Child].pc = "off" /\ driver[Child].seq = 0
    BY <1>2, RunsAre, RunAssumption
  <2> QED BY <1>5, <1>7, <2>1, <2>2, LinkIsASub DEF Undispatched, Linked
<1>12. \A s \in Streams : Closes(s)
  BY <1>3, <1>7, LinkIsASub DEF Closes
<1> QED BY <1>8, <1>9, <1>10, <1>11, <1>12 DEF BaseInv

\* The shape of the state, in every reachable state: no channel holds more
\* than it can, although nobody waits for room in one.
THEOREM TypeCorrect == Spec => []TypeOK
<1>1. BaseInv => TypeOK
  BY DEF BaseInv
<1> QED BY <1>1, BaseInit, BaseNext, PTL DEF Spec

\* Of streamLimiter: what a process counts is what it serves, whichever of
\* its five ends a stream came to, and never more than it may serve.
THEOREM SlotsSafe == Spec => []SlotsAreExact
<1>1. BaseInv => SlotsAreExact
  BY DEF BaseInv
<1> QED BY <1>1, BaseInit, BaseNext, PTL DEF Spec

\* Of unsubscribe: the relay's goroutine has stopped before the channel it
\* sends on is closed, except where CloseAll closes it.
THEOREM ClosedSafe == Spec => []NeverSendsOnClosed
<1>1. BaseInv => NeverSendsOnClosed
  BY DEF BaseInv, Closes, NeverSendsOnClosed
<1> QED BY <1>1, BaseInit, BaseNext, PTL DEF Spec

\* Of dispatchSubtask: the run of an orchestrator ends with its mirror and its
\* subscription gone, however the delegation went.
THEOREM DelegationSafe == Spec => []DelegationLeavesNothing
<1>1. BaseInv => DelegationLeavesNothing
  BY DEF BaseInv, Linked, Dispatching, DelegationLeavesNothing
<1> QED BY <1>1, BaseInit, BaseNext, PTL DEF Spec

-----------------------------------------------------------------------------
(* Order in the channels.                                                  *)

\* p is a stretch of q: what is left when q loses some of its ends.
Pruned(p, q) == \E n \in Nat : \A k \in 1 .. Len(p) : k + n \in 1 .. Len(q) /\ p[k] = q[k + n]

LEMMA PrunedSame == ASSUME NEW S, NEW q \in Seq(S) PROVE Pruned(q, q)
<1>1. \A k \in 1 .. Len(q) : k + 0 \in 1 .. Len(q) /\ q[k] = q[k + 0]
  OBVIOUS
<1> QED BY <1>1 DEF Pruned

LEMMA PrunedTail == ASSUME NEW S, NEW q \in Seq(S), q # <<>> PROVE Pruned(Tail(q), q)
<1>1. PICK t \in Seq(S) : t = Tail(q)
  BY HeadTail
<1>2. Len(t) = Len(q) - 1 /\ Len(q) \in Nat /\ \A k \in 1 .. Len(t) : t[k] = q[k + 1]
  BY <1>1, HeadTail
<1>3. \A k \in 1 .. Len(t) : k + 1 \in 1 .. Len(q) /\ t[k] = q[k + 1]
  BY <1>2
<1> QED BY <1>1, <1>3 DEF Pruned

LEMMA PrunedEmpty == ASSUME NEW q PROVE Pruned(<<>>, q)
<1>1. Len(<<>>) = 0
  OBVIOUS
<1>2. \A k \in 1 .. Len(<<>>) : k + 0 \in 1 .. Len(q) /\ <<>>[k] = q[k + 0]
  BY <1>1
<1> QED BY <1>2 DEF Pruned

LEMMA PrunedPrefix == ASSUME NEW S, NEW p \in Seq(S), NEW q \in Seq(S) PROVE Pruned(p \o <<>>, p \o q)
<1>1. p \o <<>> = p
  OBVIOUS
<1>2. PICK w \in Seq(S) : w = p \o q
  BY ConcatAt
<1>3. Len(w) = Len(p) + Len(q) /\ Len(p) \in Nat /\ Len(q) \in Nat
  BY <1>2, ConcatAt
<1>4. \A k \in 1 .. Len(p) : w[k] = p[k]
  BY <1>2, <1>3, ConcatAt
<1>5. \A k \in 1 .. Len(p) : k + 0 \in 1 .. Len(w) /\ p[k] = w[k + 0]
  BY <1>3, <1>4
<1> QED BY <1>1, <1>2, <1>5 DEF Pruned

LEMMA PrunedHas ==
  ASSUME NEW p, NEW q, Pruned(p, q), NEW e
  PROVE  (Has(p, e) => Has(q, e)) /\ (Carries(p, e) => Carries(q, e))
<1>1. PICK n \in Nat : \A k \in 1 .. Len(p) : k + n \in 1 .. Len(q) /\ p[k] = q[k + n]
  BY DEF Pruned
<1> QED BY <1>1 DEF Has, Carries

LEMMA PrunedOrder ==
  ASSUME NEW p, NEW q, Pruned(p, q)
  PROVE  (InOrder(q) => InOrder(p)) /\ (QueueInOrder(q) => QueueInOrder(p))
<1>1. PICK n \in Nat : \A k \in 1 .. Len(p) : k + n \in 1 .. Len(q) /\ p[k] = q[k + n]
  BY DEF Pruned
<1>2. \A j, k \in 1 .. Len(p) : j < k => j + n < k + n
  <2> TAKE j, k \in 1 .. Len(p)
  <2>1. j \in Int /\ k \in Int
    OBVIOUS
  <2> QED BY <2>1
<1>3. ASSUME InOrder(q) PROVE InOrder(p)
  <2> SUFFICES ASSUME NEW j \in 1 .. Len(p), NEW k \in 1 .. Len(p), j < k PROVE Before(p[j], p[k])
    BY DEF InOrder
  <2>1. Before(q[j + n], q[k + n])
    BY <1>1, <1>2, <1>3 DEF InOrder
  <2>2. p[j] = q[j + n] /\ p[k] = q[k + n]
    BY <1>1
  <2> QED BY <2>1, <2>2
<1>4. ASSUME QueueInOrder(q) PROVE QueueInOrder(p)
  <2> SUFFICES ASSUME NEW j \in 1 .. Len(p), NEW k \in 1 .. Len(p), j < k PROVE Before(p[j].ev, p[k].ev)
    BY DEF QueueInOrder
  <2>1. Before(q[j + n].ev, q[k + n].ev)
    BY <1>1, <1>2, <1>4 DEF QueueInOrder
  <2>2. p[j] = q[j + n] /\ p[k] = q[k + n]
    BY <1>1
  <2> QED BY <2>1, <2>2
<1> QED BY <1>3, <1>4

LEMMA AppendHas ==
  ASSUME NEW q \in Seq(Events), NEW e \in Events, NEW f
  PROVE  Has(Append(q, e), f) => Has(q, f) \/ f = e
<1> SUFFICES ASSUME Has(Append(q, e), f) PROVE Has(q, f) \/ f = e
  OBVIOUS
<1>1. PICK a \in Seq(Events) : a = Append(q, e)
  BY AppendAt
<1>2. Len(a) = Len(q) + 1 /\ Len(q) \in Nat /\ (\A k \in 1 .. Len(q) : a[k] = q[k]) /\ a[Len(q) + 1] = e
  BY <1>1, AppendAt
<1>3. PICK k \in 1 .. Len(a) : a[k] = f
  BY <1>1 DEF Has
<1>4. k \in 1 .. Len(q) \/ k = Len(q) + 1
  BY <1>2, <1>3
<1> QED BY <1>2, <1>3, <1>4 DEF Has

LEMMA AppendCarries ==
  ASSUME NEW q \in Seq(Messages), NEW m \in Messages, NEW f
  PROVE  Carries(Append(q, m), f) => Carries(q, f) \/ f = m.ev
<1> SUFFICES ASSUME Carries(Append(q, m), f) PROVE Carries(q, f) \/ f = m.ev
  OBVIOUS
<1>1. PICK a \in Seq(Messages) : a = Append(q, m)
  BY AppendAt
<1>2. Len(a) = Len(q) + 1 /\ Len(q) \in Nat /\ (\A k \in 1 .. Len(q) : a[k] = q[k]) /\ a[Len(q) + 1] = m
  BY <1>1, AppendAt
<1>3. PICK k \in 1 .. Len(a) : a[k].ev = f
  BY <1>1 DEF Carries
<1>4. k \in 1 .. Len(q) \/ k = Len(q) + 1
  BY <1>2, <1>3
<1> QED BY <1>2, <1>3, <1>4 DEF Carries

LEMMA AppendInOrder ==
  ASSUME NEW q \in Seq(Events), NEW e \in Events, InOrder(q),
         \A f \in Events : Has(q, f) => Before(f, e)
  PROVE  InOrder(Append(q, e))
<1>1. PICK a \in Seq(Events) : a = Append(q, e)
  BY AppendAt
<1>2. Len(a) = Len(q) + 1 /\ Len(q) \in Nat /\ (\A k \in 1 .. Len(q) : a[k] = q[k]) /\ a[Len(q) + 1] = e
  BY <1>1, AppendAt
<1>3. ASSUME NEW j \in 1 .. Len(a), NEW k \in 1 .. Len(a), j < k PROVE Before(a[j], a[k])
  <2>1. j \in 1 .. Len(q) /\ a[j] = q[j]
    BY <1>2, <1>3
  <2>2. CASE k \in 1 .. Len(q)
    BY <1>2, <1>3, <2>1, <2>2 DEF InOrder
  <2>3. CASE k = Len(q) + 1
    <3>1. q[j] \in Events /\ Has(q, q[j])
      BY <2>1 DEF Has
    <3> QED BY <1>2, <2>1, <2>3, <3>1
  <2> QED BY <1>2, <1>3, <2>2, <2>3
<1> QED BY <1>1, <1>3 DEF InOrder

LEMMA CarriedAre ==
  ASSUME NEW q \in Seq(Messages), NEW k \in 1 .. Len(q)
  PROVE  q[k] \in Messages /\ q[k].ev \in Events /\ q[k].from \in Insts /\ Carries(q, q[k].ev)
<1>1. PICK m \in Messages : m = q[k]
  OBVIOUS
<1>2. m.ev \in Events /\ m.from \in Insts
  BY DEF Messages
<1>3. Carries(q, m.ev)
  BY <1>1 DEF Carries
<1> QED BY <1>1, <1>2, <1>3

LEMMA AppendQueueInOrder ==
  ASSUME NEW q \in Seq(Messages), NEW m \in Messages, QueueInOrder(q),
         \A f \in Events : Carries(q, f) => Before(f, m.ev)
  PROVE  QueueInOrder(Append(q, m))
<1>1. PICK a \in Seq(Messages) : a = Append(q, m)
  BY AppendAt
<1>2. Len(a) = Len(q) + 1 /\ Len(q) \in Nat /\ (\A k \in 1 .. Len(q) : a[k] = q[k]) /\ a[Len(q) + 1] = m
  BY <1>1, AppendAt
<1>3. ASSUME NEW j \in 1 .. Len(a), NEW k \in 1 .. Len(a), j < k PROVE Before(a[j].ev, a[k].ev)
  <2>1. j \in 1 .. Len(q) /\ a[j] = q[j]
    BY <1>2, <1>3
  <2>2. CASE k \in 1 .. Len(q)
    BY <1>2, <1>3, <2>1, <2>2 DEF QueueInOrder
  <2>3. CASE k = Len(q) + 1
    <3>1. q[j].ev \in Events /\ Carries(q, q[j].ev)
      BY <2>1, CarriedAre
    <3> QED BY <1>2, <2>1, <2>3, <3>1
  <2> QED BY <1>2, <1>3, <2>2, <2>3
<1> QED BY <1>1, <1>3 DEF QueueInOrder

\* What is taken first is older than what is left.
LEMMA HeadFirst ==
  ASSUME NEW q \in Seq(Messages), q # <<>>
  PROVE  /\ Carries(q, Head(q).ev) /\ Head(q).ev \in Events
         /\ QueueInOrder(q) => \A f \in Events : Carries(Tail(q), f) => Before(Head(q).ev, f)
<1>1. PICK t \in Seq(Messages) : t = Tail(q)
  BY HeadTail
<1>2. PICK m \in Messages : m = Head(q)
  BY HeadTail
<1>3. Len(t) = Len(q) - 1 /\ Len(q) \in Nat \ {0} /\ m = q[1] /\ \A k \in 1 .. Len(t) : t[k] = q[k + 1]
  BY <1>1, <1>2, HeadTail
<1>4. 1 \in 1 .. Len(q)
  BY <1>3
<1>5. Carries(q, m.ev) /\ m.ev \in Events
  BY <1>3, <1>4 DEF Carries, Messages
<1>6. ASSUME QueueInOrder(q), NEW f \in Events, Carries(t, f) PROVE Before(m.ev, f)
  <2>1. PICK k \in 1 .. Len(t) : t[k].ev = f
    BY <1>6 DEF Carries
  <2>2. k + 1 \in 1 .. Len(q) /\ 1 < k + 1 /\ q[k + 1] = t[k]
    BY <1>3, <2>1
  <2>3. Before(q[1].ev, q[k + 1].ev)
    BY <1>4, <1>6, <2>2 DEF QueueInOrder
  <2> QED BY <1>3, <2>1, <2>2, <2>3
<1> QED BY <1>1, <1>2, <1>5, <1>6

LEMMA SeenTyped ==
  ASSUME TypeOK, NEW s \in Streams
  PROVE  Seen(s) \in Seq(Events)
<1>1. stream[s].got \in Seq(Events) /\ stream[s].buf \in Seq(Events)
  BY StreamTyped
<1>2. PICK g \in Seq(Events), b \in Seq(Events) : g = stream[s].got /\ b = stream[s].buf
  BY <1>1
<1>3. g \o b \in Seq(Events)
  BY ConcatAt
<1> QED BY <1>2, <1>3 DEF Seen

LEMMA SeenGrows ==
  ASSUME TypeOK, NEW s \in Streams, NEW e \in Events,
         stream'[s].got = stream[s].got, stream'[s].buf = Append(stream[s].buf, e)
  PROVE  Seen(s)' = Append(Seen(s), e)
<1>1. stream[s].got \in Seq(Events) /\ stream[s].buf \in Seq(Events)
  BY StreamTyped
<1>2. PICK g \in Seq(Events), b \in Seq(Events) : g = stream[s].got /\ b = stream[s].buf
  BY <1>1
<1>3. g \o Append(b, e) = Append(g \o b, e)
  BY AppendOver
<1>4. Seen(s)' = g \o Append(b, e) /\ Seen(s) = g \o b
  BY <1>2 DEF Seen
<1> QED BY <1>3, <1>4

LEMMA QueuesTyped ==
  ASSUME TypeOK
  PROVE  /\ \A x \in Subs : remote[x].inbox \in Seq(Messages)
         /\ \A i \in Insts : out[i] \in Seq(Messages)
BY DEF TypeOK

-----------------------------------------------------------------------------
(* Order of the events, step by step.                                      *)

\* The streams keep to their run, and the runs to their process.
Homes == /\ \A s \in Streams : stream'[s].home = stream[s].home /\ stream'[s].run = stream[s].run
         /\ \A r \in Runs : driver'[r].home = driver[r].home

LEMMA HomesStay ==
  ASSUME TypeOK, Homes
  PROVE  /\ \A r \in Runs : driver'[r].home = Home(r)
         /\ \A x \in Subs : Channel(x)' = Channel(x)
         /\ \A s \in Streams : stream[s].run \in Runs /\ driver'[stream'[s].run].home = Home(stream[s].run)
<1>1. \A r \in Runs : driver'[r].home = Home(r)
  BY DEF Homes, Home
<1>2. \A s \in Streams : stream[s].run \in Runs /\ stream'[s].run = stream[s].run
  BY StreamTyped DEF Homes
<1>3. \A s \in Streams : driver'[stream'[s].run].home = Home(stream[s].run)
  BY <1>2 DEF Homes, Home
<1>4. ASSUME NEW x \in Subs PROVE Channel(x)' = Channel(x)
  <2>1. CASE x = Link
    BY <2>1 DEF Channel
  <2>2. CASE x # Link
    <3>1. x \in Streams
      BY <2>2 DEF Subs
    <3> QED BY <1>2, <2>2, <3>1 DEF Channel
  <2> QED BY <2>1, <2>2
<1> QED BY <1>1, <1>2, <1>3, <1>4

LEMMA EventTyped ==
  ASSUME NEW e \in Events
  PROVE  e.src \in Runs /\ e.dst \in Runs /\ e.seq \in Nat /\ e.seq > 0
BY DEF Events

\* A step that only loses events, or hands the event new over on process i.
Gives(i, new) ==
  /\ \A s \in Streams : \/ Pruned(Seen(s)', Seen(s))
                        \/ /\ stream[s].home = i /\ stream[s].run = new.dst
                           /\ Seen(s)' = Append(Seen(s), new)
  /\ \A x \in Subs : Pruned(remote'[x].inbox, remote[x].inbox)
  /\ \A j \in Insts : \/ Pruned(out'[j], out[j])
                      \/ j = i /\ out'[j] = Append(out[j], [ev |-> new, from |-> i])

LEMMA GivesKnown ==
  ASSUME TypeOK, NEW i \in Insts, NEW new \in Events, Gives(i, new), NEW e \in Events, Known(e)'
  PROVE  Known(e) \/ e = new
<1>1. CASE \E s \in Streams : Has(Seen(s)', e)
  <2>1. PICK s \in Streams : Has(Seen(s)', e)
    BY <1>1
  <2>2. CASE Pruned(Seen(s)', Seen(s))
    BY <2>1, <2>2, PrunedHas DEF Known
  <2>3. CASE Seen(s)' = Append(Seen(s), new)
    BY <2>1, <2>3, SeenTyped, AppendHas DEF Known
  <2> QED BY <2>2, <2>3 DEF Gives
<1>2. CASE \E x \in Subs : Carries(remote'[x].inbox, e)
  BY <1>2, PrunedHas DEF Gives, Known
<1>3. CASE \E j \in Insts : Carries(out'[j], e)
  <2>1. PICK j \in Insts : Carries(out'[j], e)
    BY <1>3
  <2>2. CASE Pruned(out'[j], out[j])
    BY <2>1, <2>2, PrunedHas DEF Known
  <2>3. CASE out'[j] = Append(out[j], [ev |-> new, from |-> i])
    <3>1. PICK m : m = [ev |-> new, from |-> i]
      OBVIOUS
    <3>2. m \in Messages /\ m.ev = new /\ out[j] \in Seq(Messages)
      BY <3>1, QueuesTyped DEF Messages
    <3> QED BY <2>1, <2>3, <3>1, <3>2, AppendCarries DEF Known
  <2> QED BY <2>2, <2>3 DEF Gives
<1> QED BY <1>1, <1>2, <1>3 DEF Known

LEMMA GivesAddressed ==
  ASSUME TypeOK, TypeOK', NEW i \in Insts, NEW new \in Events, Gives(i, new), Homes, Addressed,
         i = Home(new.dst)
  PROVE  Addressed'
<1>0. /\ \A r \in Runs : driver'[r].home = Home(r)
      /\ \A x \in Subs : Channel(x)' = Channel(x)
      /\ \A s \in Streams : stream'[s].run = stream[s].run
  BY HomesStay DEF Homes
<1>1. ASSUME NEW s \in Streams, NEW e \in Events, Has(Seen(s)', e) PROVE e.dst = stream'[s].run
  <2>1. CASE Pruned(Seen(s)', Seen(s))
    BY <1>0, <1>1, <2>1, PrunedHas DEF Addressed
  <2>2. CASE stream[s].run = new.dst /\ Seen(s)' = Append(Seen(s), new)
    <3>1. Has(Seen(s), e) \/ e = new
      BY <1>1, <2>2, SeenTyped, AppendHas
    <3> QED BY <1>0, <2>2, <3>1 DEF Addressed
  <2> QED BY <2>1, <2>2 DEF Gives
<1>2. ASSUME NEW x \in Subs, NEW k \in 1 .. Len(remote'[x].inbox)
      PROVE  /\ remote'[x].inbox[k].ev.dst = Channel(x)'
             /\ remote'[x].inbox[k].from = driver'[remote'[x].inbox[k].ev.dst].home
  <2>1. PICK n \in Nat : \A c \in 1 .. Len(remote'[x].inbox) :
             c + n \in 1 .. Len(remote[x].inbox) /\ remote'[x].inbox[c] = remote[x].inbox[c + n]
    BY DEF Gives, Pruned
  <2>2. PICK c \in 1 .. Len(remote[x].inbox) : remote'[x].inbox[k] = remote[x].inbox[c]
    BY <2>1
  <2>3. PICK m \in Messages : m = remote[x].inbox[c]
    BY QueuesTyped, CarriedAre
  <2>4. m.ev.dst = Channel(x) /\ m.from = Home(m.ev.dst) /\ m.ev.dst \in Runs
    BY <2>3, EventTyped DEF Addressed, Messages
  <2> QED BY <1>0, <2>2, <2>3, <2>4
<1>3. ASSUME NEW j \in Insts, NEW k \in 1 .. Len(out'[j])
      PROVE  out'[j][k].from = j /\ j = driver'[out'[j][k].ev.dst].home
  <2>1. CASE Pruned(out'[j], out[j])
    <3>1. PICK n \in Nat : \A c \in 1 .. Len(out'[j]) :
             c + n \in 1 .. Len(out[j]) /\ out'[j][c] = out[j][c + n]
      BY <2>1 DEF Pruned
    <3>2. PICK c \in 1 .. Len(out[j]) : out'[j][k] = out[j][c]
      BY <3>1
    <3>3. PICK m \in Messages : m = out[j][c]
      BY QueuesTyped, CarriedAre
    <3>4. m.from = j /\ j = Home(m.ev.dst) /\ m.ev.dst \in Runs
      BY <3>3, EventTyped DEF Addressed, Messages
    <3> QED BY <1>0, <3>2, <3>3, <3>4
  <2>2. CASE j = i /\ out'[j] = Append(out[j], [ev |-> new, from |-> i])
    <3>1. PICK m : m = [ev |-> new, from |-> i]
      OBVIOUS
    <3>2. m \in Messages /\ m.ev = new /\ m.from = i /\ out[j] \in Seq(Messages)
      BY <3>1, QueuesTyped DEF Messages
    <3>3. PICK q \in Seq(Messages) : q = out[j]
      BY <3>2
    <3>4. PICK a \in Seq(Messages) : a = Append(q, m)
      BY <3>2, AppendAt
    <3>5. Len(a) = Len(q) + 1 /\ Len(q) \in Nat /\ (\A c \in 1 .. Len(q) : a[c] = q[c]) /\ a[Len(q) + 1] = m
      BY <3>2, <3>4, AppendAt
    <3>6. out'[j] = a
      BY <2>2, <3>1, <3>3, <3>4
    <3>7. CASE k \in 1 .. Len(q)
      <4>1. PICK z \in Messages : z = q[k]
        BY <3>7
      <4>2. z.from = j /\ j = Home(z.ev.dst) /\ z.ev.dst \in Runs
        BY <3>3, <3>7, <4>1, EventTyped DEF Addressed, Messages
      <4> QED BY <1>0, <3>5, <3>6, <3>7, <4>1, <4>2
    <3>8. CASE k = Len(q) + 1
      BY <1>0, <2>2, <3>2, <3>5, <3>6, <3>8, EventTyped
    <3> QED BY <3>5, <3>6, <3>7, <3>8
  <2> QED BY <2>1, <2>2 DEF Gives
<1> QED BY <1>1, <1>2, <1>3 DEF Addressed, Home

\* What an order may rely on: the new event is the youngest of its kind.
Youngest(new) == \A e \in Events : Known(e) => Before(e, new)

LEMMA GivesFollows ==
  ASSUME TypeOK, TypeOK', NEW i \in Insts, NEW new \in Events, Gives(i, new), Homes,
         i = Home(new.dst), Youngest(new),
         NEW s \in Streams, stream[s].home # Home(stream[s].run), Follows(s)
  PROVE  Follows(s)'
<1> DEFINE q == remote[s].inbox
           p == remote'[s].inbox
           h == Home(stream[s].run)
           S == Seen(s)
           T == Seen(s)'
<1>0. driver'[stream'[s].run].home = h /\ stream[s].run \in Runs /\ h \in Insts
  BY HomesStay, DriverTyped DEF Home
<1>1. Pruned(p, q)
  BY LinkIsASub DEF Gives
<1>2. Pruned(T, S)
  <2>1. ~(stream[s].home = i /\ stream[s].run = new.dst)
    OBVIOUS
  <2> QED BY <2>1 DEF Gives
<1>3. ASSUME NEW f \in Events, Carries(out'[h], f) PROVE Carries(out[h], f) \/ f = new
  <2>1. CASE Pruned(out'[h], out[h])
    BY <1>3, <2>1, PrunedHas
  <2>2. CASE out'[h] = Append(out[h], [ev |-> new, from |-> i])
    <3>1. PICK m : m = [ev |-> new, from |-> i]
      OBVIOUS
    <3>2. m \in Messages /\ m.ev = new /\ out[h] \in Seq(Messages)
      BY <1>0, <3>1, QueuesTyped DEF Messages
    <3> QED BY <1>3, <2>2, <3>1, <3>2, AppendCarries
  <2> QED BY <1>0, <2>1, <2>2 DEF Gives
<1>4. /\ \A e \in Events : (Has(T, e) => Has(S, e)) /\ (Carries(p, e) => Carries(q, e))
      /\ \A e \in Events : (Has(S, e) => Known(e)) /\ (Carries(q, e) => Known(e))
  BY <1>1, <1>2, PrunedHas, LinkIsASub DEF Known
<1>5. /\ QueueInOrder(q)
      /\ \A e, f \in Events : Has(S, e) /\ Carries(q, f) => Before(e, f)
      /\ \A e, f \in Events : Has(S, e) /\ Carries(out[h], f) => Before(e, f)
      /\ \A e, f \in Events : Carries(q, e) /\ Carries(out[h], f) => Before(e, f)
  BY DEF Follows
<1>6. QueueInOrder(p)
  BY <1>1, <1>5, PrunedOrder
<1>7. \A e, f \in Events : Has(T, e) /\ Carries(p, f) => Before(e, f)
  BY <1>4, <1>5
<1>8. \A e, f \in Events : Has(T, e) /\ Carries(out'[h], f) => Before(e, f)
  BY <1>3, <1>4, <1>5 DEF Youngest
<1>9. \A e, f \in Events : Carries(p, e) /\ Carries(out'[h], f) => Before(e, f)
  BY <1>3, <1>4, <1>5 DEF Youngest
<1> QED
  <2>1. /\ QueueInOrder(remote'[s].inbox)
        /\ \A e, f \in Events : Has(Seen(s)', e) /\ Carries(remote'[s].inbox, f) => Before(e, f)
        /\ \A e, f \in Events : Has(Seen(s)', e) /\ Carries(out'[driver'[stream'[s].run].home], f) => Before(e, f)
        /\ \A e, f \in Events : Carries(remote'[s].inbox, e) /\ Carries(out'[driver'[stream'[s].run].home], f) => Before(e, f)
    BY <1>0, <1>6, <1>7, <1>8, <1>9
  <2> QED BY <2>1 DEF Follows, Home

\* ... and of those that the mirror has shown.
LEMMA GivesEchoes ==
  ASSUME TypeOK, TypeOK', NEW i \in Insts, NEW new \in Events, Gives(i, new), Homes,
         Youngest(new), Team, Home(Child) # Home(Parent), Echoes,
         new.dst = Child => \A e \in Events : Known(e) /\ e.dst # e.src => e.seq < new.seq,
         new.dst # new.src => \A f \in Events : Upstream(f)' => new.seq < f.seq
  PROVE  Echoes'
<1> DEFINE q == remote[Link].inbox
           p == remote'[Link].inbox
           h == Home(Child)
<1>0. driver'[Child].home = h /\ h \in Insts /\ Link \in Subs
  BY HomesStay, RunsAre, DriverTyped, LinkIsASub DEF Home
<1>1. Pruned(p, q)
  BY <1>0 DEF Gives
<1>2. ASSUME NEW f \in Events, Carries(out'[h], f) PROVE Carries(out[h], f) \/ f = new
  <2>1. CASE Pruned(out'[h], out[h])
    BY <1>2, <2>1, PrunedHas
  <2>2. CASE out'[h] = Append(out[h], [ev |-> new, from |-> i])
    <3>1. PICK m : m = [ev |-> new, from |-> i]
      OBVIOUS
    <3>2. m \in Messages /\ m.ev = new /\ out[h] \in Seq(Messages)
      BY <1>0, <3>1, QueuesTyped DEF Messages
    <3> QED BY <1>2, <2>2, <3>1, <3>2, AppendCarries
  <2> QED BY <1>0, <2>1, <2>2 DEF Gives
<1>3. \A e \in Events : (Carries(p, e) => Carries(q, e)) /\ (Carries(q, e) => Known(e))
  BY <1>0, <1>1, PrunedHas DEF Known
<1>4. /\ QueueInOrder(q)
      /\ \A e, f \in Events : Carries(q, e) /\ Carries(out[h], f) => Before(e, f)
      /\ \A e, f \in Events : Known(e) /\ e.dst # e.src /\ Upstream(f) => e.seq < f.seq
  BY DEF Echoes
<1>5. QueueInOrder(p)
  BY <1>1, <1>4, PrunedOrder
<1>6. \A e, f \in Events : Carries(p, e) /\ Carries(out'[h], f) => Before(e, f)
  BY <1>2, <1>3, <1>4 DEF Youngest
<1>7. ASSUME NEW e \in Events, NEW f \in Events, Known(e)', e.dst # e.src, Upstream(f)'
      PROVE  e.seq < f.seq
  <2>1. Known(e) \/ e = new
    BY <1>7, GivesKnown
  <2>2. Upstream(f) \/ (f = new /\ f.dst = Child)
    <3>1. Carries(p, f) \/ (Carries(out'[h], f) /\ f.dst = Child)
      BY <1>0, <1>7 DEF Upstream, Home
    <3> QED BY <1>2, <1>3, <3>1 DEF Upstream
  <2>3. CASE e = new
    BY <1>7, <2>3
  <2>4. CASE Known(e) /\ Upstream(f)
    BY <1>4, <1>7, <2>4
  <2>5. CASE Known(e) /\ f = new /\ f.dst = Child
    BY <1>7, <2>5
  <2> QED BY <2>1, <2>2, <2>3, <2>4, <2>5
<1> QED
  <2>1. /\ QueueInOrder(remote'[Link].inbox)
        /\ \A e, f \in Events :
             Carries(remote'[Link].inbox, e) /\ Carries(out'[driver'[Child].home], f) => Before(e, f)
        /\ \A e, f \in Events : Known(e)' /\ e.dst # e.src /\ Upstream(f)' => e.seq < f.seq
    BY <1>0, <1>5, <1>6, <1>7
  <2> QED BY <2>1 DEF Echoes, Home

\* A step that hands over a new event, or none at all.
LEMMA GivesOrder ==
  ASSUME TypeOK, TypeOK', OrderInv, NEW i \in Insts, NEW new \in Events, Gives(i, new), Homes,
         i = Home(new.dst), Youngest(new),
         \A e \in Events : Known(e)' => Dated(e)',
         Team /\ Home(Child) # Home(Parent) =>
           /\ new.dst = Child => \A e \in Events : Known(e) /\ e.dst # e.src => e.seq < new.seq
           /\ new.dst # new.src => \A f \in Events : Upstream(f)' => new.seq < f.seq
  PROVE  OrderInv'
<1>0. /\ \A r \in Runs : driver'[r].home = Home(r)
      /\ \A s \in Streams : driver'[stream'[s].run].home = Home(stream[s].run) /\ stream'[s].home = stream[s].home
  BY HomesStay DEF Homes
<1>1. Addressed'
  BY GivesAddressed DEF OrderInv
<1>2. ASSUME NEW s \in Streams PROVE InOrder(Seen(s)')
  <2>1. InOrder(Seen(s)) /\ Seen(s) \in Seq(Events)
    BY SeenTyped DEF OrderInv
  <2>2. CASE Pruned(Seen(s)', Seen(s))
    BY <2>1, <2>2, PrunedOrder
  <2>3. CASE Seen(s)' = Append(Seen(s), new)
    <3>1. \A f \in Events : Has(Seen(s), f) => Before(f, new)
      BY DEF Youngest, Known
    <3> QED BY <2>1, <2>3, <3>1, AppendInOrder
  <2> QED BY <2>2, <2>3 DEF Gives
<1>3. ASSUME NEW j \in Insts PROVE QueueInOrder(out'[j])
  <2>1. QueueInOrder(out[j]) /\ out[j] \in Seq(Messages)
    BY QueuesTyped DEF OrderInv
  <2>2. CASE Pruned(out'[j], out[j])
    BY <2>1, <2>2, PrunedOrder
  <2>3. CASE out'[j] = Append(out[j], [ev |-> new, from |-> i])
    <3>1. PICK m : m = [ev |-> new, from |-> i]
      OBVIOUS
    <3>2. m \in Messages /\ m.ev = new
      BY <3>1 DEF Messages
    <3>3. \A f \in Events : Carries(out[j], f) => Before(f, m.ev)
      BY <3>2 DEF Youngest, Known
    <3> QED BY <2>1, <2>3, <3>1, <3>2, <3>3, AppendQueueInOrder
  <2> QED BY <2>2, <2>3 DEF Gives
<1>4. ASSUME NEW s \in Streams, stream'[s].home # driver'[stream'[s].run].home PROVE Follows(s)'
  <2>1. stream[s].home # Home(stream[s].run)
    BY <1>0, <1>4
  <2>2. Follows(s)
    BY <2>1 DEF OrderInv
  <2> QED BY <2>1, <2>2, GivesFollows
<1>5. ASSUME Team, driver'[Child].home # driver'[Parent].home PROVE Echoes'
  <2>1. Home(Child) # Home(Parent)
    BY <1>0, <1>5, RunsAre
  <2>2. Echoes
    BY <1>5, <2>1 DEF OrderInv
  <2> QED BY <1>5, <2>1, <2>2, GivesEchoes
<1> QED BY <1>1, <1>2, <1>3, <1>4, <1>5 DEF OrderInv, Home

\* A step that only loses events.
LEMMA LosesOrder ==
  ASSUME TypeOK, TypeOK', OrderInv, Homes,
         \A s \in Streams : Pruned(Seen(s)', Seen(s)),
         \A x \in Subs : Pruned(remote'[x].inbox, remote[x].inbox),
         \A j \in Insts : Pruned(out'[j], out[j]),
         \A e \in Events : Known(e) /\ Dated(e) => Dated(e)'
  PROVE  OrderInv' /\ News
<1>0. /\ \A r \in Runs : driver'[r].home = Home(r)
      /\ \A x \in Subs : Channel(x)' = Channel(x)
      /\ \A s \in Streams : stream[s].run \in Runs /\ driver'[stream'[s].run].home = Home(stream[s].run)
      /\ \A s \in Streams : stream'[s].home = stream[s].home /\ stream'[s].run = stream[s].run
      /\ \A s \in Streams : Home(stream[s].run) \in Insts
  BY HomesStay, DriverTyped DEF Homes, Home
<1>1. /\ \A s \in Streams, e \in Events : Has(Seen(s)', e) => Has(Seen(s), e)
      /\ \A x \in Subs, e \in Events : Carries(remote'[x].inbox, e) => Carries(remote[x].inbox, e)
      /\ \A j \in Insts, e \in Events : Carries(out'[j], e) => Carries(out[j], e)
  BY PrunedHas
<1>2. \A e \in Events : Known(e)' => Known(e)
  BY <1>1 DEF Known
<1>3. Addressed'
  <2>1. \A s \in Streams, e \in Events : Has(Seen(s)', e) => e.dst = stream'[s].run
    BY <1>0, <1>1 DEF OrderInv, Addressed
  <2>2. ASSUME NEW x \in Subs, NEW k \in 1 .. Len(remote'[x].inbox)
        PROVE  /\ remote'[x].inbox[k].ev.dst = Channel(x)'
               /\ remote'[x].inbox[k].from = driver'[remote'[x].inbox[k].ev.dst].home
    <3>1. PICK n \in Nat : \A c \in 1 .. Len(remote'[x].inbox) :
               c + n \in 1 .. Len(remote[x].inbox) /\ remote'[x].inbox[c] = remote[x].inbox[c + n]
      BY DEF Pruned
    <3>2. PICK c \in 1 .. Len(remote[x].inbox) : remote'[x].inbox[k] = remote[x].inbox[c]
      BY <3>1
    <3>3. PICK m \in Messages : m = remote[x].inbox[c]
      BY QueuesTyped, CarriedAre
    <3>4. m.ev.dst = Channel(x) /\ m.from = Home(m.ev.dst) /\ m.ev.dst \in Runs
      BY <3>3, EventTyped DEF OrderInv, Addressed, Messages
    <3> QED BY <1>0, <3>2, <3>3, <3>4
  <2>3. ASSUME NEW j \in Insts, NEW k \in 1 .. Len(out'[j])
        PROVE  out'[j][k].from = j /\ j = driver'[out'[j][k].ev.dst].home
    <3>1. PICK n \in Nat : \A c \in 1 .. Len(out'[j]) :
             c + n \in 1 .. Len(out[j]) /\ out'[j][c] = out[j][c + n]
      BY DEF Pruned
    <3>2. PICK c \in 1 .. Len(out[j]) : out'[j][k] = out[j][c]
      BY <3>1
    <3>3. PICK m \in Messages : m = out[j][c]
      BY QueuesTyped, CarriedAre
    <3>4. m.from = j /\ j = Home(m.ev.dst) /\ m.ev.dst \in Runs
      BY <3>3, EventTyped DEF OrderInv, Addressed, Messages
    <3> QED BY <1>0, <3>2, <3>3, <3>4
  <2> QED BY <2>1, <2>2, <2>3 DEF Addressed, Home
<1>4. \A s \in Streams : InOrder(Seen(s)')
  BY PrunedOrder DEF OrderInv
<1>5. \A j \in Insts : QueueInOrder(out'[j])
  BY PrunedOrder DEF OrderInv
<1>6. ASSUME NEW s \in Streams, stream'[s].home # driver'[stream'[s].run].home PROVE Follows(s)'
  <2>1. Follows(s)
    BY <1>0, <1>6 DEF OrderInv
  <2>2. PICK h \in Insts : h = Home(stream[s].run)
    BY <1>0
  <2>3. QueueInOrder(remote'[s].inbox)
    BY <2>1, PrunedOrder, LinkIsASub DEF Follows
  <2>4. /\ \A e, f \in Events : Has(Seen(s), e) /\ Carries(remote[s].inbox, f) => Before(e, f)
        /\ \A e, f \in Events : Has(Seen(s), e) /\ Carries(out[h], f) => Before(e, f)
        /\ \A e, f \in Events : Carries(remote[s].inbox, e) /\ Carries(out[h], f) => Before(e, f)
    BY <2>1, <2>2 DEF Follows
  <2>5. /\ \A e, f \in Events : Has(Seen(s)', e) /\ Carries(remote'[s].inbox, f) => Before(e, f)
        /\ \A e, f \in Events : Has(Seen(s)', e) /\ Carries(out'[h], f) => Before(e, f)
        /\ \A e, f \in Events : Carries(remote'[s].inbox, e) /\ Carries(out'[h], f) => Before(e, f)
    BY <1>1, <2>4, LinkIsASub
  <2>6. driver'[stream'[s].run].home = h
    BY <1>0, <2>2
  <2> QED BY <2>3, <2>5, <2>6 DEF Follows, Home
<1>7. ASSUME Team, driver'[Child].home # driver'[Parent].home PROVE Echoes'
  <2>1. PICK h \in Insts : h = Home(Child) /\ driver'[Child].home = h
    BY <1>0, <1>7, RunsAre, DriverTyped DEF Home
  <2>2. Echoes
    BY <1>0, <1>7, RunsAre DEF OrderInv
  <2>3. QueueInOrder(remote'[Link].inbox)
    BY <2>2, PrunedOrder, LinkIsASub DEF Echoes
  <2>4. \A e, f \in Events : Carries(remote[Link].inbox, e) /\ Carries(out[h], f) => Before(e, f)
    BY <2>1, <2>2 DEF Echoes
  <2>5. \A e, f \in Events : Carries(remote'[Link].inbox, e) /\ Carries(out'[h], f) => Before(e, f)
    BY <1>1, <2>4, LinkIsASub
  <2>6. \A f \in Events : Upstream(f)' => Upstream(f)
    BY <1>1, <2>1, LinkIsASub DEF Upstream, Home
  <2>7. \A e, f \in Events : Known(e)' /\ e.dst # e.src /\ Upstream(f)' => e.seq < f.seq
    BY <1>2, <2>2, <2>6 DEF Echoes
  <2> QED BY <2>1, <2>3, <2>5, <2>7 DEF Echoes, Home
<1>8. \A e \in Events : Known(e)' => Dated(e)'
  BY <1>2 DEF OrderInv
<1>9. News
  BY <1>2 DEF News
<1> QED BY <1>3, <1>4, <1>5, <1>6, <1>7, <1>8, <1>9 DEF OrderInv, Home

LEMMA RelayOrder ==
  ASSUME BaseInv, BaseInv', OrderInv, NEW i \in Insts, Relay(i)
  PROVE  OrderInv' /\ News
<1>0. /\ TypeOK /\ TypeOK' /\ driver' = driver /\ stream' = stream
      /\ (\A x \in Subs : Channel(x)' = Channel(x)) /\ \A s \in Streams : Seen(s)' = Seen(s)
  BY DEF BaseInv, Relay, Channel, Seen
<1>1. PICK m \in Messages :
        /\ out[i] # <<>> /\ m = Head(out[i])
        /\ out'[i] = Tail(out[i])
        /\ \A j \in Insts : j # i => out'[j] = out[j]
        /\ \A x \in Subs : \/ remote'[x].inbox = remote[x].inbox
                           \/ /\ m.ev.dst = Channel(x)
                              /\ remote'[x].inbox = Append(remote[x].inbox, m)
  BY <1>0, RelayShape
<1>2. /\ out[i] \in Seq(Messages) /\ \A x \in Subs : remote[x].inbox \in Seq(Messages)
      /\ \A j \in Insts : out[j] \in Seq(Messages)
  BY <1>0, QueuesTyped
<1>3. /\ Carries(out[i], m.ev) /\ m.ev \in Events
      /\ \A f \in Events : Carries(out'[i], f) => Before(m.ev, f)
  <2>1. QueueInOrder(out[i])
    BY DEF OrderInv
  <2> QED BY <1>1, <1>2, <2>1, HeadFirst
<1>4. m.from = i /\ i = Home(m.ev.dst) /\ m.ev.dst \in Runs
  <2>1. PICK k \in 1 .. Len(out[i]) : out[i][k] = m
    <3>1. Len(out[i]) \in Nat \ {0} /\ m = out[i][1]
      BY <1>1, <1>2, HeadTail
    <3> QED BY <3>1
  <2> QED BY <1>3, <2>1, EventTyped DEF OrderInv, Addressed
<1>5. \A j \in Insts : Pruned(out'[j], out[j])
  BY <1>1, <1>2, PrunedSame, PrunedTail
<1>6. \A j \in Insts, f \in Events : Carries(out'[j], f) => Carries(out[j], f)
  BY <1>5, PrunedHas
<1>7. \A x \in Subs, f \in Events : Carries(remote'[x].inbox, f) =>
        Carries(remote[x].inbox, f) \/ (f = m.ev /\ m.ev.dst = Channel(x))
  BY <1>1, <1>2, AppendCarries
<1>8. \A e \in Events : Known(e)' => Known(e)
  BY <1>0, <1>3, <1>6, <1>7 DEF Known
<1>9. Addressed'
  <2>1. \A s \in Streams, e \in Events : Has(Seen(s)', e) => e.dst = stream'[s].run
    BY <1>0 DEF OrderInv, Addressed
  <2>2. ASSUME NEW x \in Subs, NEW k \in 1 .. Len(remote'[x].inbox)
        PROVE  /\ remote'[x].inbox[k].ev.dst = Channel(x)'
               /\ remote'[x].inbox[k].from = driver'[remote'[x].inbox[k].ev.dst].home
    <3>1. \A c \in 1 .. Len(remote[x].inbox) :
            /\ remote[x].inbox[c].ev.dst = Channel(x)
            /\ remote[x].inbox[c].from = driver[remote[x].inbox[c].ev.dst].home
      BY DEF OrderInv, Addressed, Home
    <3>2. CASE remote'[x].inbox = remote[x].inbox
      BY <1>0, <3>1, <3>2
    <3>3. CASE m.ev.dst = Channel(x) /\ remote'[x].inbox = Append(remote[x].inbox, m)
      <4>1. PICK q \in Seq(Messages) : q = remote[x].inbox
        BY <1>2
      <4>2. PICK a \in Seq(Messages) : a = Append(q, m)
        BY AppendAt
      <4>3. Len(a) = Len(q) + 1 /\ Len(q) \in Nat /\ (\A c \in 1 .. Len(q) : a[c] = q[c]) /\ a[Len(q) + 1] = m
        BY <4>2, AppendAt
      <4>4. remote'[x].inbox = a
        BY <3>3, <4>1, <4>2
      <4>5. CASE k \in 1 .. Len(q)
        BY <1>0, <3>1, <4>1, <4>3, <4>4, <4>5
      <4>6. CASE k = Len(q) + 1
        BY <1>0, <1>4, <3>3, <4>3, <4>4, <4>6 DEF Home
      <4> QED BY <4>3, <4>4, <4>5, <4>6
    <3> QED BY <1>1, <3>2, <3>3
  <2>3. ASSUME NEW j \in Insts, NEW k \in 1 .. Len(out'[j])
        PROVE  out'[j][k].from = j /\ j = driver'[out'[j][k].ev.dst].home
    <3>1. PICK n \in Nat : \A c \in 1 .. Len(out'[j]) :
             c + n \in 1 .. Len(out[j]) /\ out'[j][c] = out[j][c + n]
      BY <1>5 DEF Pruned
    <3>2. PICK c \in 1 .. Len(out[j]) : out'[j][k] = out[j][c]
      BY <3>1
    <3> QED BY <1>0, <3>2 DEF OrderInv, Addressed, Home
  <2> QED BY <2>1, <2>2, <2>3 DEF Addressed, Home
<1>10. \A e \in Events : Known(e)' => Dated(e)'
  BY <1>0, <1>8 DEF OrderInv, Dated, Home
<1>11. (\A s \in Streams : InOrder(Seen(s)')) /\ \A j \in Insts : QueueInOrder(out'[j])
  BY <1>0, <1>5, PrunedOrder DEF OrderInv
<1>12. ASSUME NEW s \in Streams, stream[s].home # Home(stream[s].run) PROVE Follows(s)'
  <2>1. PICK h \in Insts : h = Home(stream[s].run)
    BY <1>0, StreamTyped, DriverTyped DEF Home
  <2>2. /\ QueueInOrder(remote[s].inbox)
        /\ \A e, f \in Events : Has(Seen(s), e) /\ Carries(remote[s].inbox, f) => Before(e, f)
        /\ \A e, f \in Events : Has(Seen(s), e) /\ Carries(out[h], f) => Before(e, f)
        /\ \A e, f \in Events : Carries(remote[s].inbox, e) /\ Carries(out[h], f) => Before(e, f)
    BY <1>12, <2>1 DEF OrderInv, Follows
  <2>3. /\ s \in Subs /\ Channel(s) = stream[s].run /\ (m.ev.dst = Channel(s) => i = h)
    BY <1>4, <2>1, LinkIsASub, LinkAssumption DEF Channel
  <2>4. QueueInOrder(remote'[s].inbox)
    <3>1. CASE remote'[s].inbox = remote[s].inbox
      BY <2>2, <3>1
    <3>2. CASE m.ev.dst = Channel(s) /\ remote'[s].inbox = Append(remote[s].inbox, m)
      <4>1. \A f \in Events : Carries(remote[s].inbox, f) => Before(f, m.ev)
        BY <1>3, <2>2, <2>3, <3>2
      <4> QED BY <1>2, <2>2, <2>3, <3>2, <4>1, AppendQueueInOrder
    <3> QED BY <1>1, <2>3, <3>1, <3>2
  <2>5. \A e, f \in Events : Has(Seen(s)', e) /\ Carries(remote'[s].inbox, f) => Before(e, f)
    BY <1>0, <1>3, <1>7, <2>2, <2>3
  <2>6. \A e, f \in Events : Has(Seen(s)', e) /\ Carries(out'[h], f) => Before(e, f)
    BY <1>0, <1>6, <2>2
  <2>7. \A e, f \in Events : Carries(remote'[s].inbox, e) /\ Carries(out'[h], f) => Before(e, f)
    BY <1>3, <1>6, <1>7, <2>2, <2>3
  <2>8. driver'[stream'[s].run].home = h
    BY <1>0, <2>1 DEF Home
  <2> QED BY <2>4, <2>5, <2>6, <2>7, <2>8 DEF Follows, Home
<1>13. ASSUME Team, Home(Child) # Home(Parent) PROVE Echoes'
  <2>1. PICK h \in Insts : h = Home(Child)
    BY <1>0, <1>13, RunsAre, DriverTyped DEF Home
  <2>2. /\ QueueInOrder(remote[Link].inbox)
        /\ \A e, f \in Events : Carries(remote[Link].inbox, e) /\ Carries(out[h], f) => Before(e, f)
        /\ \A e, f \in Events : Known(e) /\ e.dst # e.src /\ Upstream(f) => e.seq < f.seq
    BY <1>13, <2>1 DEF OrderInv, Echoes
  <2>3. Link \in Subs /\ Channel(Link) = Child /\ (m.ev.dst = Channel(Link) => i = h)
    BY <1>4, <2>1, LinkIsASub DEF Channel
  <2>4. QueueInOrder(remote'[Link].inbox)
    <3>1. CASE remote'[Link].inbox = remote[Link].inbox
      BY <2>2, <3>1
    <3>2. CASE m.ev.dst = Channel(Link) /\ remote'[Link].inbox = Append(remote[Link].inbox, m)
      <4>1. \A f \in Events : Carries(remote[Link].inbox, f) => Before(f, m.ev)
        BY <1>3, <2>2, <2>3, <3>2
      <4> QED BY <1>2, <2>2, <2>3, <3>2, <4>1, AppendQueueInOrder
    <3> QED BY <1>1, <2>3, <3>1, <3>2
  <2>5. \A e, f \in Events : Carries(remote'[Link].inbox, e) /\ Carries(out'[h], f) => Before(e, f)
    BY <1>3, <1>6, <1>7, <2>2, <2>3
  <2>6. driver'[Child].home = h
    BY <1>0, <2>1 DEF Home
  <2>7. ASSUME NEW f \in Events, Upstream(f)' PROVE Upstream(f)
    <3>1. Carries(remote'[Link].inbox, f) \/ (Carries(out'[h], f) /\ f.dst = Child)
      BY <2>6, <2>7 DEF Upstream, Home
    <3>2. CASE Carries(out'[h], f) /\ f.dst = Child
      BY <1>6, <2>1, <3>2 DEF Upstream
    <3>3. CASE Carries(remote'[Link].inbox, f)
      <4>1. Carries(remote[Link].inbox, f) \/ (f = m.ev /\ m.ev.dst = Child)
        BY <1>7, <2>3, <3>3
      <4>2. f = m.ev /\ m.ev.dst = Child => Carries(out[h], f)
        BY <1>3, <2>3
      <4> QED BY <2>1, <4>1, <4>2 DEF Upstream
    <3> QED BY <3>1, <3>2, <3>3
  <2>8. \A e, f \in Events : Known(e)' /\ e.dst # e.src /\ Upstream(f)' => e.seq < f.seq
    BY <1>8, <2>2, <2>7
  <2> QED BY <2>4, <2>5, <2>6, <2>8 DEF Echoes, Home
<1> QED
  <2>1. (\A s \in Streams : stream'[s].home # driver'[stream'[s].run].home => Follows(s)')
        /\ (Team /\ driver'[Child].home # driver'[Parent].home => Echoes')
    BY <1>0, <1>12, <1>13 DEF Home
  <2>2. News
    BY <1>8 DEF News
  <2> QED BY <1>9, <1>10, <1>11, <2>1, <2>2 DEF OrderInv, Home

LEMMA HearOrder ==
  ASSUME BaseInv, BaseInv', OrderInv, NEW s \in Streams, Hear(s)
  PROVE  OrderInv' /\ News
<1>0. TypeOK /\ TypeOK' /\ driver' = driver /\ out' = out /\ s \in Subs
  BY LinkIsASub DEF BaseInv, Hear
<1>1. /\ remote[s].inbox # <<>> /\ Kept
      /\ \A t \in Streams : /\ stream'[t].got = stream[t].got
                            /\ t # s => stream'[t] = stream[t]
      /\ \/ stream'[s].buf = stream[s].buf
         \/ /\ Head(remote[s].inbox).from # stream[s].home
            /\ stream'[s].buf = Append(stream[s].buf, Head(remote[s].inbox).ev)
      /\ \/ remote'[s].inbox = Tail(remote[s].inbox)
         \/ stream' = stream /\ remote'[s].inbox = <<>>
      /\ \A x \in Subs : x # s => remote'[x] = remote[x]
  BY <1>0, HearShape
<1>2. PICK m \in Messages : m = Head(remote[s].inbox)
  BY <1>0, <1>1, QueuesTyped, HeadTail
<1>3. Homes
  BY <1>0, <1>1 DEF Homes, Kept
<1>4. \A x \in Subs : Pruned(remote'[x].inbox, remote[x].inbox)
  BY <1>0, <1>1, QueuesTyped, PrunedTail, PrunedSame, PrunedEmpty
<1>5. \A j \in Insts : Pruned(out'[j], out[j])
  BY <1>0, QueuesTyped, PrunedSame
<1>6. \A t \in Streams : t # s => Seen(t)' = Seen(t) /\ Pruned(Seen(t)', Seen(t))
  BY <1>0, <1>1, SeenTyped, PrunedSame DEF Seen
<1>7. \A e \in Events : Dated(e) => Dated(e)'
  BY <1>0 DEF Dated, Home
<1>8. CASE stream'[s].buf = stream[s].buf
  <2>1. Seen(s)' = Seen(s)
    BY <1>1, <1>8 DEF Seen
  <2>2. \A t \in Streams : Pruned(Seen(t)', Seen(t))
    BY <1>0, <1>6, <2>1, SeenTyped, PrunedSame
  <2> QED BY <1>0, <1>3, <1>4, <1>5, <1>7, <2>2, LosesOrder
<1>9. CASE stream'[s].buf # stream[s].buf
  <2>1. /\ m.from # stream[s].home /\ stream'[s].buf = Append(stream[s].buf, m.ev)
        /\ remote'[s].inbox = Tail(remote[s].inbox)
    BY <1>1, <1>2, <1>9
  <2>2. m.ev \in Events /\ Carries(remote[s].inbox, m.ev)
    BY <1>0, <1>1, <1>2, QueuesTyped, HeadFirst
  <2>3. Seen(s)' = Append(Seen(s), m.ev)
    BY <1>0, <1>1, <2>1, <2>2, SeenGrows
  <2>4. m.ev.dst = stream[s].run /\ m.from = Home(stream[s].run)
    <3>1. PICK k \in 1 .. Len(remote[s].inbox) : remote[s].inbox[k] = m
      <4>1. Len(remote[s].inbox) \in Nat \ {0} /\ m = remote[s].inbox[1]
        BY <1>0, <1>1, <1>2, QueuesTyped, HeadTail
      <4> QED BY <4>1
    <3>2. Channel(s) = stream[s].run
      BY LinkAssumption DEF Channel
    <3> QED BY <1>0, <3>1, <3>2 DEF OrderInv, Addressed
  <2>5. PICK h \in Insts : h = Home(stream[s].run)
    BY <1>0, StreamTyped, DriverTyped DEF Home
  <2>6. /\ QueueInOrder(remote[s].inbox)
        /\ \A e, f \in Events : Has(Seen(s), e) /\ Carries(remote[s].inbox, f) => Before(e, f)
        /\ \A e, f \in Events : Has(Seen(s), e) /\ Carries(out[h], f) => Before(e, f)
        /\ \A e, f \in Events : Carries(remote[s].inbox, e) /\ Carries(out[h], f) => Before(e, f)
    BY <2>1, <2>4, <2>5 DEF OrderInv, Follows
  <2>7. \A f \in Events : Has(Seen(s)', f) => Has(Seen(s), f) \/ f = m.ev
    BY <1>0, <2>2, <2>3, SeenTyped, AppendHas
  <2>8. \A x \in Subs, f \in Events : Carries(remote'[x].inbox, f) => Carries(remote[x].inbox, f)
    BY <1>4, PrunedHas
  <2>9. \A e \in Events : Known(e)' => Known(e)
    BY <1>0, <1>6, <2>2, <2>7, <2>8 DEF Known
  <2>10. Addressed'
    <3>1. \A t \in Streams, e \in Events : Has(Seen(t)', e) => e.dst = stream'[t].run
      <4>1. \A t \in Streams : stream'[t].run = stream[t].run
        BY <1>3 DEF Homes
      <4> QED BY <1>6, <2>4, <2>7, <4>1 DEF OrderInv, Addressed
    <3>2. ASSUME NEW x \in Subs, NEW k \in 1 .. Len(remote'[x].inbox)
          PROVE  /\ remote'[x].inbox[k].ev.dst = Channel(x)'
                 /\ remote'[x].inbox[k].from = driver'[remote'[x].inbox[k].ev.dst].home
      <4>1. PICK n \in Nat : \A c \in 1 .. Len(remote'[x].inbox) :
                 c + n \in 1 .. Len(remote[x].inbox) /\ remote'[x].inbox[c] = remote[x].inbox[c + n]
        BY <1>4 DEF Pruned
      <4>2. PICK c \in 1 .. Len(remote[x].inbox) : remote'[x].inbox[k] = remote[x].inbox[c]
        BY <4>1
      <4>3. Channel(x)' = Channel(x)
        BY <1>0, <1>3, HomesStay
      <4> QED BY <1>0, <4>2, <4>3 DEF OrderInv, Addressed, Home
    <3>3. \A j \in Insts : \A k \in 1 .. Len(out'[j]) :
            out'[j][k].from = j /\ j = driver'[out'[j][k].ev.dst].home
      BY <1>0 DEF OrderInv, Addressed, Home
    <3> QED BY <3>1, <3>2, <3>3 DEF Addressed, Home
  <2>11. \A e \in Events : Known(e)' => Dated(e)'
    BY <1>7, <2>9 DEF OrderInv
  <2>12. \A t \in Streams : InOrder(Seen(t)')
    <3>1. InOrder(Seen(s)')
      <4>1. InOrder(Seen(s)) /\ Seen(s) \in Seq(Events)
        BY <1>0, SeenTyped DEF OrderInv
      <4>2. \A f \in Events : Has(Seen(s), f) => Before(f, m.ev)
        BY <2>2, <2>6
      <4> QED BY <2>2, <2>3, <4>1, <4>2, AppendInOrder
    <3> QED BY <1>6, <3>1 DEF OrderInv
  <2>13. \A j \in Insts : QueueInOrder(out'[j])
    BY <1>0 DEF OrderInv
  <2>14. Follows(s)'
    <3>1. \A f \in Events : Carries(remote'[s].inbox, f) => Before(m.ev, f)
      BY <1>0, <1>1, <1>2, <2>1, <2>6, QueuesTyped, HeadFirst
    <3>2. QueueInOrder(remote'[s].inbox)
      BY <1>0, <1>4, <2>6, PrunedOrder
    <3>3. \A e, f \in Events : Has(Seen(s)', e) /\ Carries(remote'[s].inbox, f) => Before(e, f)
      BY <1>0, <2>6, <2>7, <2>8, <3>1
    <3>4. \A e, f \in Events : Has(Seen(s)', e) /\ Carries(out'[h], f) => Before(e, f)
      BY <1>0, <2>2, <2>6, <2>7
    <3>5. \A e, f \in Events : Carries(remote'[s].inbox, e) /\ Carries(out'[h], f) => Before(e, f)
      BY <1>0, <2>6, <2>8
    <3>6. driver'[stream'[s].run].home = h
      BY <1>0, <1>3, <2>5 DEF Homes, Home
    <3> QED BY <3>2, <3>3, <3>4, <3>5, <3>6 DEF Follows, Home
  <2>15. ASSUME NEW t \in Streams, t # s, stream[t].home # Home(stream[t].run) PROVE Follows(t)'
    <3>1. Follows(t)
      BY <2>15 DEF OrderInv
    <3>2. /\ Seen(t)' = Seen(t) /\ remote'[t] = remote[t] /\ out' = out
          /\ driver'[stream'[t].run].home = Home(stream[t].run)
      BY <1>0, <1>1, <1>3, <1>6, <2>15, LinkIsASub DEF Homes, Home
    <3> QED BY <3>1, <3>2 DEF Follows, Home
  <2>16. ASSUME Team, Home(Child) # Home(Parent) PROVE Echoes'
    <3>1. Echoes
      BY <2>16 DEF OrderInv
    <3>2. remote'[Link] = remote[Link]
      BY <1>1, LinkIsASub, LinkAssumption
    <3>3. \A f \in Events : Upstream(f)' => Upstream(f)
      BY <1>0, <3>2 DEF Upstream, Home
    <3> QED BY <1>0, <2>9, <3>1, <3>2, <3>3 DEF Echoes, Home
  <2> QED
    <3>1. ASSUME NEW t \in Streams, stream'[t].home # driver'[stream'[t].run].home PROVE Follows(t)'
      <4>1. stream[t].home # Home(stream[t].run)
        BY <1>0, <1>3, <3>1 DEF Homes, Home
      <4> QED BY <2>14, <2>15, <4>1
    <3>2. Team /\ driver'[Child].home # driver'[Parent].home => Echoes'
      BY <1>0, <2>16 DEF Home
    <3>3. News
      BY <2>9 DEF News
    <3> QED BY <2>10, <2>11, <2>12, <2>13, <3>1, <3>2, <3>3 DEF OrderInv, Home
<1> QED BY <1>8, <1>9

\* Before its dispatch nobody has heard of the specialist.
LEMMA UnheardOf ==
  ASSUME BaseInv, OrderInv, driver[Child].seq = 0, NEW e \in Events, Known(e)
  PROVE  e.src = Parent /\ e.dst = Parent
<1>1. Dated(e) /\ e.seq > 0 /\ e.seq \in Nat /\ e.src \in {Parent, Child} /\ e.dst \in {Parent, Child}
  BY EventTyped, RunsAre DEF OrderInv
<1>2. e.src # Child
  BY <1>1 DEF Dated
<1>3. e.dst = e.src
  BY <1>1, <1>2 DEF Dated
<1> QED BY <1>1, <1>2, <1>3

LEMMA DispatchOrder ==
  ASSUME BaseInv, BaseInv', OrderInv, Dispatch
  PROVE  OrderInv' /\ News
<1>0. TypeOK /\ TypeOK' /\ Parent \in Runs /\ stream' = stream /\ out' = out /\ remote' = remote
  BY RunsAre DEF BaseInv, Dispatch
<1>1. /\ Team /\ Child \in Runs /\ driver[Parent].pc = "dispatch" /\ driver[Child].seq = 0
      /\ driver'[Parent].pc = "wait"
      /\ driver'[Parent].home = driver[Parent].home /\ driver'[Parent].seq = driver[Parent].seq
      /\ driver'[Child].pc = "run"
  BY DispatchShape
<1>2. \A e \in Events : Known(e)' => Known(e)
  BY <1>0 DEF Known, Seen
<1>3. \A e \in Events : Known(e) => e.src = Parent /\ e.dst = Parent
  BY <1>1, UnheardOf
<1>4. /\ \A s \in Streams : Seen(s)' = Seen(s)
      /\ \A x \in Subs : Channel(x)' = Channel(x)
  BY <1>0 DEF Seen, Channel
<1>5. Addressed'
  <2>1. ASSUME NEW x \in Subs, NEW k \in 1 .. Len(remote'[x].inbox)
        PROVE  /\ remote'[x].inbox[k].ev.dst = Channel(x)'
               /\ remote'[x].inbox[k].from = driver'[remote'[x].inbox[k].ev.dst].home
    <3>1. PICK m \in Messages : m = remote[x].inbox[k]
      BY <1>0, <2>1, QueuesTyped, CarriedAre
    <3>2. m.ev \in Events /\ Known(m.ev)
      BY <1>0, <2>1, <3>1, QueuesTyped, CarriedAre DEF Known
    <3>3. m.ev.dst = Channel(x) /\ m.from = driver[m.ev.dst].home
      BY <1>0, <3>1 DEF OrderInv, Addressed, Home
    <3> QED BY <1>0, <1>1, <1>3, <1>4, <3>1, <3>2, <3>3
  <2>2. ASSUME NEW j \in Insts, NEW k \in 1 .. Len(out'[j])
        PROVE  out'[j][k].from = j /\ j = driver'[out'[j][k].ev.dst].home
    <3>1. PICK m \in Messages : m = out[j][k]
      BY <1>0, <2>2, QueuesTyped, CarriedAre
    <3>2. m.ev \in Events /\ Known(m.ev)
      BY <1>0, <2>2, <3>1, QueuesTyped, CarriedAre DEF Known
    <3>3. m.from = j /\ j = driver[m.ev.dst].home
      BY <1>0, <3>1 DEF OrderInv, Addressed, Home
    <3> QED BY <1>0, <1>1, <1>3, <3>1, <3>2, <3>3
  <2>3. \A s \in Streams, e \in Events : Has(Seen(s)', e) => e.dst = stream'[s].run
    BY <1>0, <1>4 DEF OrderInv, Addressed
  <2> QED BY <2>1, <2>2, <2>3 DEF Addressed, Home
<1>6. ASSUME NEW e \in Events, Known(e)' PROVE Dated(e)'
  <2>1. Dated(e) /\ e.src = Parent /\ e.dst = Parent
    BY <1>2, <1>3, <1>6 DEF OrderInv
  <2> QED BY <1>1, <2>1 DEF Dated
<1>7. (\A s \in Streams : InOrder(Seen(s)')) /\ \A j \in Insts : QueueInOrder(out'[j])
  BY <1>0, <1>4 DEF OrderInv
<1>8. ASSUME NEW s \in Streams, stream'[s].home # driver'[stream'[s].run].home PROVE Follows(s)'
  <2>1. CASE stream[s].run = Parent
    <3>1. Follows(s)
      BY <1>0, <1>1, <1>8, <2>1 DEF OrderInv, Home
    <3> QED BY <1>0, <1>1, <1>4, <2>1, <3>1 DEF Follows, Home
  <2>2. CASE stream[s].run = Child
    <3>1. ASSUME NEW e \in Events PROVE ~Has(Seen(s), e) /\ ~Carries(remote[s].inbox, e)
      <4>1. SUFFICES ASSUME Has(Seen(s), e) \/ Carries(remote[s].inbox, e) PROVE FALSE
        OBVIOUS
      <4>2. Known(e)
        BY <4>1, LinkIsASub DEF Known
      <4>3. e.dst = Child
        <5>1. CASE Has(Seen(s), e)
          BY <2>2, <5>1 DEF OrderInv, Addressed
        <5>2. CASE Carries(remote[s].inbox, e)
          <6>1. PICK k \in 1 .. Len(remote[s].inbox) : remote[s].inbox[k].ev = e
            BY <5>2 DEF Carries
          <6>2. Channel(s) = Child /\ s \in Subs
            BY <2>2, LinkIsASub, LinkAssumption DEF Channel
          <6> QED BY <6>1, <6>2 DEF OrderInv, Addressed
        <5> QED BY <4>1, <5>1, <5>2
      <4> QED BY <1>3, <4>2, <4>3, RunAssumption
    <3>2. ASSUME NEW k \in 1 .. Len(remote[s].inbox) PROVE FALSE
      <4>1. remote[s].inbox[k].ev \in Events /\ Carries(remote[s].inbox, remote[s].inbox[k].ev)
        BY <1>0, <3>2, LinkIsASub, QueuesTyped, CarriedAre
      <4> QED BY <3>1, <4>1
    <3>3. QueueInOrder(remote'[s].inbox)
      BY <1>0, <3>2 DEF QueueInOrder
    <3> QED BY <1>0, <1>4, <3>1, <3>3 DEF Follows
  <2> QED BY <1>0, <2>1, <2>2, StreamTyped, RunsAre
<1>9. Echoes'
  <2>1. ASSUME NEW k \in 1 .. Len(remote[Link].inbox) PROVE FALSE
    <3>1. PICK m \in Messages : m = remote[Link].inbox[k]
      BY <1>0, <2>1, LinkIsASub, QueuesTyped, CarriedAre
    <3>2. m.ev \in Events /\ Known(m.ev)
      BY <1>0, <2>1, <3>1, LinkIsASub, QueuesTyped, CarriedAre DEF Known
    <3>3. m.ev.dst = Child
      BY <3>1, LinkIsASub DEF OrderInv, Addressed, Channel
    <3> QED BY <1>3, <3>2, <3>3, RunAssumption
  <2>2. QueueInOrder(remote'[Link].inbox) /\ \A e \in Events : ~Carries(remote'[Link].inbox, e)
    BY <1>0, <2>1 DEF QueueInOrder, Carries
  <2>3. \A e \in Events : Known(e)' => e.dst = e.src
    BY <1>2, <1>3
  <2> QED BY <2>2, <2>3 DEF Echoes
<1>10. News
  BY <1>2 DEF News
<1> QED BY <1>5, <1>6, <1>7, <1>8, <1>9, <1>10 DEF OrderInv, Home

\* A step that leaves the channels alone.
LEMMA ChannelsStay ==
  ASSUME TypeOK, TypeOK', OrderInv, Homes,
         \A s \in Streams : stream'[s].got \o stream'[s].buf = stream[s].got \o stream[s].buf,
         \A x \in Subs : remote'[x].inbox \in {<<>>, remote[x].inbox}, out' = out,
         \A e \in Events : Known(e) /\ Dated(e) => Dated(e)'
  PROVE  OrderInv' /\ News
<1>1. \A s \in Streams : Pruned(Seen(s)', Seen(s))
  <2> TAKE s \in Streams
  <2>1. Seen(s)' = Seen(s)
    BY DEF Seen
  <2> QED BY <2>1, SeenTyped, PrunedSame
<1>2. \A x \in Subs : Pruned(remote'[x].inbox, remote[x].inbox)
  BY QueuesTyped, PrunedSame, PrunedEmpty
<1>3. \A j \in Insts : Pruned(out'[j], out[j])
  BY QueuesTyped, PrunedSame
<1> QED BY <1>1, <1>2, <1>3, LosesOrder

LEMMA DatedSame ==
  ASSUME driver' = driver, NEW e \in Events, Dated(e)
  PROVE  Dated(e)'
BY DEF Dated, Home

LEMMA HandlerOrder ==
  ASSUME BaseInv, BaseInv', OrderInv, NEW s \in Streams,
         Check(s) \/ Acquire(s) \/ Add(s) \/ Subscribe(s) \/ Forward(s) \/ Drained(s)
           \/ StopRemote(s) \/ ClientGone(s) \/ Release(s)
  PROVE  OrderInv' /\ News
<1>0. TypeOK /\ TypeOK' /\ driver' = driver /\ out' = out /\ s \in Subs
  BY LinkIsASub DEF BaseInv, Check, Acquire, Add, Subscribe, Forward, Drained, StopRemote, ClientGone, Release
<1>1. \E p : Moves(s, p) /\ stream'[s].got \o stream'[s].buf = stream[s].got \o stream[s].buf
  <2>1. CASE Forward(s)
    <3>1. /\ stream[s].buf # <<>> /\ stream[s].got \in Seq(Events) /\ stream[s].buf \in Seq(Events)
          /\ stream'[s].buf = Tail(stream[s].buf)
          /\ stream'[s].got = Append(stream[s].got, Head(stream[s].buf))
          /\ \E p : Moves(s, p)
      BY <1>0, <2>1, ForwardShape, StreamTyped
    <3>2. PICK g \in Seq(Events), b \in Seq(Events) : g = stream[s].got /\ b = stream[s].buf
      BY <3>1
    <3>3. Append(g, Head(b)) \o Tail(b) = g \o b
      BY <3>1, <3>2, MoveOver
    <3> QED BY <3>1, <3>2, <3>3
  <2>2. CASE Add(s)
    BY <1>0, <2>2, AddShape
  <2>3. CASE \E p \in StreamPCs : Goes(s, [stream[s] EXCEPT !.pc = p])
    BY <1>0, <2>3, PcOnly
  <2>4. CASE \E p \in StreamPCs, w \in {"none", "event", "closed", "client", "answered", "refused"} :
               Goes(s, [stream[s] EXCEPT !.pc = p, !.why = w])
    BY <1>0, <2>4, PcAndWhy
  <2>5. Check(s) \/ Acquire(s) \/ Subscribe(s) \/ Drained(s) \/ StopRemote(s) \/ ClientGone(s) \/ Release(s) =>
          \/ \E p \in StreamPCs : Goes(s, [stream[s] EXCEPT !.pc = p])
          \/ \E p \in StreamPCs, w \in {"none", "event", "closed", "client", "answered", "refused"} :
               Goes(s, [stream[s] EXCEPT !.pc = p, !.why = w])
    <3>1. {"acquire", "gone", "add", "live", "stop", "remove"} \subseteq StreamPCs
      BY DEF StreamPCs
    <3>2. Check(s) => \/ Goes(s, [stream[s] EXCEPT !.pc = "acquire"])
                      \/ Goes(s, [stream[s] EXCEPT !.pc = "gone", !.why = "answered"])
      BY DEF Check
    <3>3. Acquire(s) => \/ Goes(s, [stream[s] EXCEPT !.pc = "add"])
                        \/ Goes(s, [stream[s] EXCEPT !.pc = "gone", !.why = "refused"])
      BY DEF Acquire
    <3>4. /\ Subscribe(s) => Goes(s, [stream[s] EXCEPT !.pc = "live"])
          /\ StopRemote(s) => Goes(s, [stream[s] EXCEPT !.pc = "remove"])
          /\ Release(s) => Goes(s, [stream[s] EXCEPT !.pc = "gone"])
      BY DEF Subscribe, StopRemote, Release
    <3>5. /\ Drained(s) => Goes(s, [stream[s] EXCEPT !.pc = "stop", !.why = "closed"])
          /\ ClientGone(s) => Goes(s, [stream[s] EXCEPT !.pc = "stop", !.why = "client"])
      BY DEF Drained, ClientGone
    <3> QED BY <3>1, <3>2, <3>3, <3>4, <3>5
  <2> QED BY <2>1, <2>2, <2>3, <2>4, <2>5
<1>2. Homes /\ \A t \in Streams : stream'[t].got \o stream'[t].buf = stream[t].got \o stream[t].buf
  BY <1>0, <1>1 DEF Homes, Moves, Kept
<1>3. \A x \in Subs : remote'[x].inbox \in {<<>>, remote[x].inbox}
  <2>1. CASE remote' = remote
    BY <2>1
  <2>2. CASE Subscribe(s)
    <3>1. PICK b \in BOOLEAN : remote' = [remote EXCEPT ![s].on = b]
      BY <2>2 DEF Subscribe
    <3>2. remote'[s].inbox = remote[s].inbox /\ \A x \in Subs : x # s => remote'[x] = remote[x]
      BY <1>0, <3>1, RemoteOpened
    <3> QED BY <3>2
  <2>3. CASE StopRemote(s)
    <3>1. remote'[s].inbox = <<>> /\ \A x \in Subs : x # s => remote'[x] = remote[x]
      BY <1>0, <2>3, RemoteEnded DEF StopRemote
    <3> QED BY <3>1
  <2> QED BY <2>1, <2>2, <2>3 DEF Check, Acquire, Add, Forward, Drained, ClientGone, Release
<1>4. \A e \in Events : Known(e) /\ Dated(e) => Dated(e)'
  BY <1>0, DatedSame
<1> QED BY <1>0, <1>2, <1>3, <1>4, ChannelsStay

LEMMA RemoveOrder ==
  ASSUME BaseInv, BaseInv', OrderInv, NEW s \in Streams, Remove(s)
  PROVE  OrderInv' /\ News
<1>0. TypeOK /\ TypeOK' /\ driver' = driver /\ out' = out /\ remote' = remote
  BY DEF BaseInv, Remove
<1>1. Moves(s, "release") /\ stream'[s].buf = <<>> /\ stream'[s].got = stream[s].got
  BY <1>0, RemoveShape
<1>2. Homes
  BY <1>0, <1>1 DEF Homes, Moves, Kept
<1>3. Pruned(Seen(s)', Seen(s))
  <2>1. PICK g \in Seq(Events), b \in Seq(Events) : g = stream[s].got /\ b = stream[s].buf
    BY <1>0, StreamTyped
  <2>2. Seen(s)' = g \o <<>> /\ Seen(s) = g \o b
    BY <1>1, <2>1 DEF Seen
  <2>3. Pruned(g \o <<>>, g \o b)
    BY PrunedPrefix
  <2> QED BY <2>2, <2>3
<1>4. \A t \in Streams : t # s => Pruned(Seen(t)', Seen(t))
  <2> TAKE t \in Streams
  <2> HAVE t # s
  <2>1. Seen(t)' = Seen(t)
    BY <1>1 DEF Seen, Moves
  <2> QED BY <1>0, <2>1, SeenTyped, PrunedSame
<1>5. \A x \in Subs : Pruned(remote'[x].inbox, remote[x].inbox)
  BY <1>0, QueuesTyped, PrunedSame
<1>6. \A j \in Insts : Pruned(out'[j], out[j])
  BY <1>0, QueuesTyped, PrunedSame
<1>7. \A e \in Events : Known(e) /\ Dated(e) => Dated(e)'
  BY <1>0, DatedSame
<1> QED BY <1>0, <1>2, <1>3, <1>4, <1>5, <1>6, <1>7, LosesOrder

LEMMA CloseAllOrder ==
  ASSUME BaseInv, BaseInv', OrderInv, NEW i \in Insts, CloseAll(i)
  PROVE  OrderInv' /\ News
<1>0. TypeOK /\ TypeOK' /\ driver' = driver /\ out' = out /\ remote' = remote
  BY DEF BaseInv, CloseAll
<1>1. /\ Kept
      /\ \A s \in Streams : stream'[s].buf = stream[s].buf /\ stream'[s].got = stream[s].got
  BY <1>0, CloseAllShape
<1>2. Homes /\ \A s \in Streams : stream'[s].got \o stream'[s].buf = stream[s].got \o stream[s].buf
  BY <1>0, <1>1 DEF Homes, Kept
<1>3. \A x \in Subs : remote'[x].inbox \in {<<>>, remote[x].inbox}
  BY <1>0
<1>4. \A e \in Events : Known(e) /\ Dated(e) => Dated(e)'
  BY <1>0, DatedSame
<1> QED BY <1>0, <1>2, <1>3, <1>4, ChannelsStay

\* A goroutine's step that publishes an event, or nothing.
LEMMA DatedOnwards ==
  ASSUME TypeOK, NEW r \in Runs, Drives(r), driver'[r].home = driver[r].home,
         \/ driver'[r].seq = driver[r].seq /\ driver'[r].pc \notin {"deliver", "mirror"}
         \/ driver'[r].seq = driver[r].seq + 1 /\ driver'[r].pc = "deliver",
         NEW e \in Events, Dated(e)
  PROVE  Dated(e)'
<1>1. e.src \in Runs /\ e.dst \in Runs /\ e.seq \in Nat
  BY EventTyped
<1>2. \A q \in Runs : driver'[q].home = driver[q].home /\ driver[q].seq \in Nat
                      /\ (q # r => driver'[q] = driver[q])
  BY DriverTyped DEF Drives
<1>3. /\ e.seq <= driver'[e.src].seq
      /\ driver'[e.src].pc = "deliver" => e.seq < driver'[e.src].seq
  <2>1. e.seq <= driver[e.src].seq /\ (driver[e.src].pc = "deliver" => e.seq < driver[e.src].seq)
    BY DEF Dated
  <2>2. CASE e.src = r
    BY <1>1, <1>2, <2>1, <2>2
  <2>3. CASE e.src # r
    BY <1>1, <1>2, <2>1, <2>3
  <2> QED BY <2>2, <2>3
<1>4. ASSUME e.dst # e.src
      PROVE  /\ e.src = Child
             /\ driver'[Child].pc = "mirror" /\ driver'[Child].home = driver'[Parent].home =>
                  e.seq < driver'[Child].seq
  <2>1. /\ e.src = Child
        /\ driver[Child].pc = "mirror" /\ driver[Child].home = driver[Parent].home => e.seq < driver[Child].seq
    BY <1>4 DEF Dated, Home
  <2>2. CASE Child = r
    BY <2>1, <2>2
  <2>3. CASE Child # r
    BY <1>1, <1>2, <2>1, <2>3, RunsAre
  <2> QED BY <2>1, <2>2, <2>3
<1> QED BY <1>3, <1>4 DEF Dated, Home

LEMMA DriverOrder ==
  ASSUME BaseInv, BaseInv', OrderInv, NEW r \in Runs, Drives(r), driver'[r].home = driver[r].home,
         \/ driver'[r].seq = driver[r].seq /\ driver'[r].pc \notin {"deliver", "mirror"}
         \/ driver'[r].seq = driver[r].seq + 1 /\ driver'[r].pc = "deliver",
         stream' = stream, out' = out,
         \A x \in Subs : remote'[x].inbox \in {<<>>, remote[x].inbox}
  PROVE  OrderInv' /\ News
<1>1. TypeOK /\ TypeOK' /\ Homes
  BY DEF BaseInv, Homes, Drives
<1>2. \A e \in Events : Known(e) /\ Dated(e) => Dated(e)'
  BY <1>1, DatedOnwards
<1> QED BY <1>1, <1>2, ChannelsStay

LEMMA GoroutineOrder ==
  ASSUME BaseInv, BaseInv', OrderInv,
         \/ \E r \in Runs : Progress(r) \/ EndNotified(r) \/ EndUnwritten(r) \/ EndSilent(r)
         \/ Delegate \/ LinkEnter \/ Answered \/ Unlink
  PROVE  OrderInv' /\ News
<1>0. TypeOK /\ Parent \in Runs
  BY RunsAre DEF BaseInv
<1>1. stream' = stream /\ out' = out
  BY DEF Progress, EndNotified, EndUnwritten, EndSilent, Delegate, LinkEnter, Answered, Unlink
<1>2. \A x \in Subs : remote'[x].inbox \in {<<>>, remote[x].inbox}
  <2>1. CASE remote' = remote
    BY <2>1
  <2>2. CASE Delegate
    <3>1. PICK b \in BOOLEAN : remote' = [remote EXCEPT ![Link].on = b]
      BY <2>2 DEF Delegate
    <3>2. remote'[Link].inbox = remote[Link].inbox /\ \A x \in Subs : x # Link => remote'[x] = remote[x]
      BY <1>0, <3>1, LinkIsASub, RemoteOpened
    <3> QED BY <3>2
  <2>3. CASE Unlink
    <3>1. remote'[Link].inbox = <<>> /\ \A x \in Subs : x # Link => remote'[x] = remote[x]
      BY <1>0, <2>3, LinkIsASub, RemoteEnded DEF Unlink
    <3> QED BY <3>1
  <2> QED BY <2>1, <2>2, <2>3 DEF Progress, EndNotified, EndUnwritten, EndSilent, LinkEnter, Answered
<1>3. \E r \in Runs :
        \/ \E last \in BOOLEAN, p \in DriverPCs : Publish(r, last, p)
        \/ \E p \in DriverPCs \ {"deliver", "mirror"} : driver' = [driver EXCEPT ![r].pc = p]
  <2>1. {"run", "done", "enter", "dispatch", "unlink"} \subseteq DriverPCs \ {"deliver", "mirror"}
    BY DEF DriverPCs
  <2>2. \A r \in Runs : /\ Progress(r) => Publish(r, FALSE, "run")
                        /\ EndNotified(r) \/ EndUnwritten(r) => Publish(r, TRUE, "done")
                        /\ EndSilent(r) => driver' = [driver EXCEPT ![r].pc = "done"]
    BY DEF Progress, EndNotified, EndUnwritten, EndSilent
  <2>3. /\ Delegate => driver' = [driver EXCEPT ![Parent].pc = "enter"]
        /\ LinkEnter => \/ Publish(Parent, FALSE, "dispatch")
                        \/ driver' = [driver EXCEPT ![Parent].pc = "dispatch"]
        /\ Answered => driver' = [driver EXCEPT ![Parent].pc = "unlink"]
        /\ Unlink => driver' = [driver EXCEPT ![Parent].pc = "run"]
    BY DEF Delegate, LinkEnter, Answered, Unlink
  <2>4. CASE \E r \in Runs : Progress(r) \/ EndNotified(r) \/ EndUnwritten(r) \/ EndSilent(r)
    BY <2>1, <2>2, <2>4
  <2>5. CASE Delegate \/ LinkEnter \/ Answered \/ Unlink
    BY <1>0, <2>1, <2>3, <2>5
  <2> QED BY <2>4, <2>5
<1>4. PICK r \in Runs :
        \/ \E last \in BOOLEAN, p \in DriverPCs : Publish(r, last, p)
        \/ \E p \in DriverPCs \ {"deliver", "mirror"} : driver' = [driver EXCEPT ![r].pc = p]
  BY <1>3
<1>5. CASE \E last \in BOOLEAN, p \in DriverPCs : Publish(r, last, p)
  <2>1. /\ Drives(r) /\ driver'[r].home = driver[r].home /\ driver'[r].pc = "deliver"
        /\ driver'[r].seq = driver[r].seq + 1
    BY <1>0, <1>5, PublishDrives
  <2> QED BY <1>1, <1>2, <2>1, DriverOrder
<1>6. CASE \E p \in DriverPCs \ {"deliver", "mirror"} : driver' = [driver EXCEPT ![r].pc = p]
  <2>1. /\ Drives(r) /\ driver'[r].home = driver[r].home /\ driver'[r].pc \notin {"deliver", "mirror"}
        /\ driver'[r].seq = driver[r].seq
    BY <1>0, <1>6, DriverGoes
  <2> QED BY <1>1, <1>2, <2>1, DriverOrder
<1> QED BY <1>4, <1>5, <1>6

\* What a step sends it hands over, to its own process's streams and the relay.
LEMMA SendGives ==
  ASSUME TypeOK, NEW i \in Insts, NEW e \in Events, Send(i, e),
         \A x \in Subs : Pruned(remote'[x].inbox, remote[x].inbox)
  PROVE  Gives(i, e) /\ Kept
<1>1. /\ Kept
      /\ \A s \in Streams : stream'[s].got = stream[s].got
      /\ \A s \in Streams : \/ stream'[s].buf = stream[s].buf
                            \/ /\ stream[s].home = i /\ stream[s].run = e.dst
                               /\ stream'[s].buf = Append(stream[s].buf, e)
      /\ \A j \in Insts : \/ out'[j] = out[j]
                          \/ j = i /\ out'[j] = Append(out[j], [ev |-> e, from |-> i])
  BY SendShape
<1>2. ASSUME NEW s \in Streams
      PROVE  \/ Pruned(Seen(s)', Seen(s))
             \/ stream[s].home = i /\ stream[s].run = e.dst /\ Seen(s)' = Append(Seen(s), e)
  <2>1. CASE stream'[s].buf = stream[s].buf
    <3>1. Seen(s)' = Seen(s)
      BY <1>1, <2>1 DEF Seen
    <3> QED BY <3>1, SeenTyped, PrunedSame
  <2>2. CASE stream[s].home = i /\ stream[s].run = e.dst /\ stream'[s].buf = Append(stream[s].buf, e)
    BY <1>1, <2>2, SeenGrows
  <2> QED BY <1>1, <2>1, <2>2
<1>3. \A j \in Insts : \/ Pruned(out'[j], out[j])
                       \/ j = i /\ out'[j] = Append(out[j], [ev |-> e, from |-> i])
  BY <1>1, QueuesTyped, PrunedSame
<1> QED BY <1>1, <1>2, <1>3 DEF Gives

LEMMA DeliverOrder ==
  ASSUME BaseInv, BaseInv', OrderInv, NEW r \in Runs, Hand(r)
  PROVE  OrderInv' /\ News
<1>0. TypeOK /\ TypeOK' /\ Armed(r) /\ remote' = remote
  BY DEF BaseInv, Hand
<1>1. PICK new \in Events : new = driver[r].ev
  BY HandShape
<1>2. PICK i \in Insts : i = driver[r].home
  BY HandShape
<1>3. /\ driver[r].pc = "deliver" /\ new.src = r /\ new.dst = r /\ new.seq = driver[r].seq
      /\ Send(i, new) /\ i = Home(new.dst)
  BY <1>1, <1>2, HandShape DEF Home
<1>4. \A x \in Subs : Pruned(remote'[x].inbox, remote[x].inbox)
  BY <1>0, QueuesTyped, PrunedSame
<1>5. Gives(i, new) /\ Kept
  BY <1>0, <1>3, <1>4, SendGives
<1>6. /\ Drives(r)
      /\ driver'[r].pc = IF r = Child THEN "mirror" ELSE driver[r].then
      /\ driver'[r].home = driver[r].home /\ driver'[r].seq = driver[r].seq
  BY <1>0, HandDrives
<1>7. Homes
  BY <1>5, <1>6 DEF Homes, Kept, Drives
<1>8. \A e \in Events : Known(e) => Dated(e)
  BY DEF OrderInv
<1>9. \A e \in Events : Known(e) /\ e.src = r => e.seq < new.seq
  BY <1>3, <1>8 DEF Dated
<1>10. Youngest(new)
  BY <1>3, <1>9 DEF Youngest, Before
<1>11. driver'[r].pc # "deliver"
  BY <1>0, <1>6 DEF Armed
<1>12. ASSUME NEW e \in Events, Known(e) PROVE Dated(e)'
  <2>1. Dated(e) /\ e.src \in Runs /\ e.seq \in Nat
    BY <1>8, <1>12, EventTyped
  <2>2. e.seq <= driver'[e.src].seq /\ (driver'[e.src].pc = "deliver" => e.seq < driver'[e.src].seq)
    <3>1. CASE e.src = r
      BY <1>6, <1>11, <2>1, <3>1 DEF Dated
    <3>2. CASE e.src # r
      BY <1>6, <2>1, <3>2 DEF Dated, Drives
    <3> QED BY <3>1, <3>2
  <2>3. ASSUME e.dst # e.src
        PROVE  /\ e.src = Child
               /\ driver'[Child].pc = "mirror" /\ driver'[Child].home = driver'[Parent].home =>
                    e.seq < driver'[Child].seq
    <3>1. e.src = Child /\ Child \in Runs
      BY <2>1, <2>3 DEF Dated
    <3>2. CASE r = Child
      BY <1>3, <1>6, <1>9, <1>12, <3>1, <3>2
    <3>3. CASE r # Child
      <4>1. driver'[Child] = driver[Child] /\ driver'[Parent].home = driver[Parent].home
        BY <1>7, <1>6, <3>1, <3>3, RunsAre DEF Drives, Homes
      <4> QED BY <2>1, <2>3, <4>1 DEF Dated, Home
    <3> QED BY <3>1, <3>2, <3>3
  <2> QED BY <2>2, <2>3 DEF Dated, Home
<1>13. Dated(new)'
  <2>1. new.seq <= driver'[new.src].seq /\ driver'[new.src].pc # "deliver" /\ new.dst = new.src
    <3>1. new.seq \in Nat
      BY EventTyped
    <3> QED BY <1>3, <1>6, <1>11, <3>1
  <2> QED BY <2>1 DEF Dated, Home
<1>14. \A e \in Events : Known(e)' => Dated(e)'
  BY <1>0, <1>5, <1>12, <1>13, GivesKnown
<1>15. /\ new.dst = Child => \A e \in Events : Known(e) /\ e.dst # e.src => e.seq < new.seq
       /\ new.dst = new.src
  BY <1>3, <1>8, <1>9 DEF Dated
<1>16. OrderInv'
  BY <1>0, <1>3, <1>5, <1>7, <1>10, <1>14, <1>15, GivesOrder
<1>17. News
  <2> SUFFICES ASSUME NEW e \in Events, Known(e)'
               PROVE  Known(e) \/ (driver[r].pc = "deliver" /\ e = driver[r].ev)
    BY DEF News
  <2>1. Known(e) \/ e = new
    BY <1>0, <1>5, GivesKnown
  <2> QED BY <1>1, <1>3, <2>1
<1> QED BY <1>16, <1>17

LEMMA MirrorOrder ==
  ASSUME BaseInv, BaseInv', OrderInv, Mirror
  PROVE  OrderInv' /\ News
<1>0. TypeOK /\ TypeOK' /\ Parent \in Runs /\ remote' = remote
  BY RunsAre DEF BaseInv, Mirror
<1>1. /\ Team /\ Child \in Runs /\ driver[Child].pc = "mirror"
      /\ driver[Child].ev \in Events /\ driver[Child].home \in Insts
      /\ driver[Child].ev.src = Child
      /\ driver[Child].ev.seq = driver[Child].seq
      /\ Drives(Child) /\ driver'[Child].pc = driver[Child].then
      /\ driver'[Child].home = driver[Child].home /\ driver'[Child].seq = driver[Child].seq
      /\ IF mirror /\ driver[Child].home = driver[Parent].home
         THEN Send(driver[Child].home, Mirrored(driver[Child].ev))
         ELSE stream' = stream /\ out' = out
  BY MirrorShape
<1>2. driver'[Child].pc \notin {"deliver", "mirror"}
  <2>1. Armed(Child)
    BY <1>1 DEF BaseInv
  <2> QED BY <1>1, <2>1 DEF Armed
<1>3. CASE ~(mirror /\ driver[Child].home = driver[Parent].home)
  <2>1. stream' = stream /\ out' = out
    BY <1>1, <1>3
  <2>2. \A x \in Subs : remote'[x].inbox \in {<<>>, remote[x].inbox}
    BY <1>0
  <2> QED BY <1>1, <1>2, <2>1, <2>2, DriverOrder
<1>4. CASE mirror /\ driver[Child].home = driver[Parent].home
  <2>1. PICK i \in Insts : i = driver[Child].home
    BY <1>1
  <2>2. PICK new \in Events : new = Mirrored(driver[Child].ev)
    BY <1>1, MirroredIs
  <2>3. new.src = Child /\ new.dst = Parent /\ new.seq = driver[Child].seq
    BY <1>1, <2>2, MirroredIs
  <2>4. Send(i, new) /\ i = Home(new.dst) /\ Home(Child) = Home(Parent)
    BY <1>1, <1>4, <2>1, <2>2, <2>3 DEF Home
  <2>5. \A x \in Subs : Pruned(remote'[x].inbox, remote[x].inbox)
    BY <1>0, QueuesTyped, PrunedSame
  <2>6. Gives(i, new) /\ Kept
    BY <1>0, <2>4, <2>5, SendGives
  <2>7. Homes
    BY <1>1, <2>6 DEF Homes, Kept, Drives
  <2>8. Youngest(new)
    <3> SUFFICES ASSUME NEW e \in Events, Known(e), e.src = Child, e.dst = Parent PROVE e.seq < new.seq
      BY <2>3 DEF Youngest, Before
    <3>1. Dated(e) /\ e.dst # e.src
      BY RunAssumption DEF OrderInv
    <3> QED BY <1>1, <2>3, <2>4, <3>1 DEF Dated
  <2>9. \A e \in Events : Known(e) => Dated(e)'
    BY <1>0, <1>1, <1>2, DatedOnwards DEF OrderInv
  <2>10. Dated(new)'
    <3>1. new.seq \in Nat
      BY EventTyped
    <3>2. new.seq <= driver'[new.src].seq /\ driver'[new.src].pc # "deliver"
      BY <1>1, <1>2, <2>3, <3>1
    <3> QED BY <1>2, <2>3, <3>2 DEF Dated, Home
  <2>11. \A e \in Events : Known(e)' => Dated(e)'
    BY <1>0, <2>6, <2>9, <2>10, GivesKnown
  <2>12. OrderInv'
    BY <1>0, <2>4, <2>6, <2>7, <2>8, <2>11, GivesOrder
  <2>13. Copied(new)
    <3>1. /\ new.src = driver[Child].ev.src /\ new.seq = driver[Child].ev.seq
          /\ new.last = driver[Child].ev.last
      BY <1>1, <2>2, MirroredIs
    <3> QED BY <1>1, <3>1 DEF Copied
  <2>14. \A e \in Events : Known(e)' => Known(e) \/ e = new
    BY <1>0, <2>6, GivesKnown
  <2> QED BY <1>1, <2>12, <2>13, <2>14 DEF News
<1> QED BY <1>3, <1>4

LEMMA HearChildOrder ==
  ASSUME BaseInv, BaseInv', OrderInv, HearChild
  PROVE  OrderInv' /\ News
<1>0. TypeOK /\ TypeOK' /\ Parent \in Runs /\ driver' = driver /\ Link \in Subs
  BY RunsAre, LinkIsASub DEF BaseInv, HearChild
<1>1. PICK m \in Messages :
        /\ remote[Link].inbox # <<>> /\ m = Head(remote[Link].inbox)
        /\ remote'[Link].inbox = Tail(remote[Link].inbox)
        /\ \A x \in Subs : x # Link => remote'[x] = remote[x]
        /\ driver[Parent].home \in Insts
        /\ IF m.from # driver[Parent].home THEN Send(driver[Parent].home, Mirrored(m.ev))
           ELSE stream' = stream /\ out' = out
  BY <1>0, HearChildShape
<1>2. \A x \in Subs : Pruned(remote'[x].inbox, remote[x].inbox)
  BY <1>0, <1>1, QueuesTyped, PrunedSame, PrunedTail
<1>3. \A e \in Events : Known(e) => Dated(e) /\ Dated(e)'
  BY <1>0, DatedSame DEF OrderInv
<1>4. CASE m.from = driver[Parent].home
  <2>1. stream' = stream /\ out' = out /\ Homes
    BY <1>0, <1>1, <1>4 DEF Homes
  <2>2. \A s \in Streams : Pruned(Seen(s)', Seen(s))
    <3> TAKE s \in Streams
    <3>1. Seen(s)' = Seen(s)
      BY <2>1 DEF Seen
    <3> QED BY <1>0, <3>1, SeenTyped, PrunedSame
  <2>3. \A j \in Insts : Pruned(out'[j], out[j])
    BY <1>0, <2>1, QueuesTyped, PrunedSame
  <2> QED BY <1>0, <1>2, <1>3, <2>1, <2>2, <2>3, LosesOrder
<1>5. CASE m.from # driver[Parent].home
  <2>1. PICK i \in Insts : i = driver[Parent].home
    BY <1>1
  <2>2. m.ev \in Events /\ Carries(remote[Link].inbox, m.ev) /\ Known(m.ev)
    BY <1>0, <1>1, QueuesTyped, HeadFirst DEF Known
  <2>3. m.ev.dst = Child /\ m.from = Home(Child)
    <3>1. PICK k \in 1 .. Len(remote[Link].inbox) : remote[Link].inbox[k] = m
      <4>1. Len(remote[Link].inbox) \in Nat \ {0} /\ m = remote[Link].inbox[1]
        BY <1>0, <1>1, QueuesTyped, HeadTail
      <4> QED BY <4>1
    <3> QED BY <1>0, <3>1 DEF OrderInv, Addressed, Channel
  <2>4. m.ev.src = Child /\ Child \in Runs /\ Team
    <3>1. Child \in Runs
      BY <2>2, <2>3, EventTyped
    <3>2. Team
      BY <3>1, RunAssumption DEF Runs
    <3> QED BY <1>3, <2>2, <2>3, <3>1, <3>2 DEF Dated
  <2>5. PICK new \in Events : new = Mirrored(m.ev)
    BY <2>2, MirroredIs
  <2>6. new.src = Child /\ new.dst = Parent /\ new.seq = m.ev.seq
    BY <2>2, <2>4, <2>5, MirroredIs
  <2>7. Send(i, new) /\ i = Home(new.dst) /\ Home(Child) # Home(Parent)
    BY <1>1, <1>5, <2>1, <2>3, <2>5, <2>6 DEF Home
  <2>8. Gives(i, new) /\ Kept
    BY <1>0, <1>2, <2>7, SendGives
  <2>9. Homes
    BY <1>0, <2>8 DEF Homes, Kept
  <2>10. /\ QueueInOrder(remote[Link].inbox)
         /\ \A e, f \in Events :
              Carries(remote[Link].inbox, e) /\ Carries(out[Home(Child)], f) => Before(e, f)
         /\ \A e, f \in Events : Known(e) /\ e.dst # e.src /\ Upstream(f) => e.seq < f.seq
    BY <2>4, <2>7 DEF OrderInv, Echoes
  <2>11. Youngest(new)
    <3> SUFFICES ASSUME NEW e \in Events, Known(e), e.src = Child, e.dst = Parent PROVE e.seq < new.seq
      BY <2>6 DEF Youngest, Before
    <3>1. Upstream(m.ev) /\ e.dst # e.src
      BY <2>2, RunAssumption DEF Upstream
    <3> QED BY <2>2, <2>6, <2>10, <3>1
  <2>12. Dated(new)'
    <3>1. Dated(m.ev)'
      BY <1>3, <2>2
    <3>2. driver'[Child].home # driver'[Parent].home
      BY <1>0, <2>7 DEF Home
    <3> QED BY <2>4, <2>6, <3>1, <3>2 DEF Dated, Home
  <2>13. \A e \in Events : Known(e)' => Dated(e)'
    BY <1>0, <1>3, <2>8, <2>12, GivesKnown
  <2>14. ASSUME NEW f \in Events, Upstream(f)' PROVE new.seq < f.seq
    <3>1. PICK h \in Insts : h = Home(Child)
      BY <1>0, <2>4, DriverTyped DEF Home
    <3>2. Carries(remote'[Link].inbox, f) \/ (Carries(out'[h], f) /\ f.dst = Child)
      BY <1>0, <2>14, <3>1 DEF Upstream, Home
    <3>3. f.dst = Child /\ Known(f) /\ Before(m.ev, f)
      <4>1. CASE Carries(remote'[Link].inbox, f)
        <5>1. Before(m.ev, f)
          BY <1>0, <1>1, <2>10, <4>1, QueuesTyped, HeadFirst
        <5>2. Carries(remote[Link].inbox, f)
          BY <1>0, <1>2, <4>1, PrunedHas
        <5>3. PICK k \in 1 .. Len(remote[Link].inbox) : remote[Link].inbox[k].ev = f
          BY <5>2 DEF Carries
        <5>4. f.dst = Child
          BY <1>0, <5>3 DEF OrderInv, Addressed, Channel
        <5> QED BY <1>0, <5>1, <5>2, <5>4 DEF Known
      <4>2. CASE Carries(out'[h], f) /\ f.dst = Child
        <5>1. Pruned(out'[h], out[h])
          <6>1. h # i
            BY <2>6, <2>7, <3>1
          <6> QED BY <2>8, <6>1 DEF Gives
        <5>2. Carries(out[h], f)
          BY <4>2, <5>1, PrunedHas
        <5>3. Before(m.ev, f)
          BY <2>2, <2>10, <3>1, <5>2
        <5> QED BY <4>2, <5>2, <5>3 DEF Known
      <4> QED BY <3>2, <4>1, <4>2
    <3>4. f.src = Child
      BY <1>3, <3>3 DEF Dated
    <3> QED BY <2>3, <2>4, <2>6, <3>3, <3>4 DEF Before
  <2>15. new.dst # Child
    BY <2>6, RunAssumption
  <2>16. OrderInv'
    BY <1>0, <2>7, <2>8, <2>9, <2>11, <2>13, <2>14, <2>15, GivesOrder
  <2>17. Copied(new)
    <3>1. new.src = m.ev.src /\ new.seq = m.ev.seq /\ new.last = m.ev.last
      BY <2>2, <2>5, MirroredIs
    <3> QED BY <2>2, <3>1 DEF Copied
  <2>18. \A e \in Events : Known(e)' => Known(e) \/ e = new
    BY <1>0, <2>8, GivesKnown
  <2> QED BY <2>4, <2>16, <2>17, <2>18 DEF News
<1> QED BY <1>4, <1>5

LEMMA StutterOrder ==
  ASSUME BaseInv, BaseInv', OrderInv, UNCHANGED <<driver, stream, out, remote>>
  PROVE  OrderInv' /\ News
<1>1. TypeOK /\ TypeOK' /\ driver' = driver /\ stream' = stream /\ out' = out /\ remote' = remote
  BY DEF BaseInv
<1>2. Homes /\ \A e \in Events : Known(e) /\ Dated(e) => Dated(e)'
  BY <1>1, DatedSame DEF Homes
<1> QED BY <1>1, <1>2, ChannelsStay

LEMMA OrderNext == BaseInv /\ BaseInv' /\ OrderInv /\ [Next]_vars => OrderInv' /\ News
<1> SUFFICES ASSUME BaseInv, BaseInv', OrderInv, [Next]_vars PROVE OrderInv' /\ News
  OBVIOUS
<1>1. CASE UNCHANGED vars
  BY <1>1, StutterOrder DEF vars
<1>2. CASE Next
  <2>1. CASE \E r \in Runs : \/ Hand(r) \/ Progress(r) \/ EndNotified(r) \/ EndUnwritten(r)
                             \/ EndSilent(r) \/ ReapStaleRuns(r)
    <3>1. (\E r \in Runs : ReapStaleRuns(r)) => UNCHANGED <<driver, stream, out, remote>>
      BY DEF ReapStaleRuns
    <3> QED BY <2>1, <3>1, DeliverOrder, GoroutineOrder, StutterOrder
  <2>2. CASE Mirror \/ Delegate \/ LinkEnter \/ Dispatch \/ Answered \/ Unlink
    BY <2>2, MirrorOrder, GoroutineOrder, DispatchOrder
  <2>3. CASE \E i \in Insts : Relay(i) \/ CloseAll(i)
    BY <2>3, RelayOrder, CloseAllOrder
  <2>4. CASE \E s \in Streams : \/ Hear(s) \/ Check(s) \/ Acquire(s) \/ Add(s) \/ Subscribe(s)
                                \/ Forward(s) \/ Drained(s) \/ StopRemote(s) \/ Remove(s) \/ Release(s)
                                \/ ClientGone(s)
    BY <2>4, HearOrder, HandlerOrder, RemoveOrder
  <2>5. CASE HearChild
    BY <2>5, HearChildOrder
  <2> QED BY <1>2, <2>1, <2>2, <2>3, <2>4, <2>5, NextSteps
<1> QED BY <1>1, <1>2

\* At first no event is out.
LEMMA NoneKnown == ASSUME Init PROVE \A e \in Events : ~Known(e)
<1>1. /\ \A s \in Streams : stream[s].got = <<>> /\ stream[s].buf = <<>>
      /\ \A x \in Subs : remote[x].inbox = <<>>
      /\ \A j \in Insts : out[j] = <<>>
  BY DEF Init
<1>2. Len(<<>>) = 0 /\ <<>> \o <<>> = <<>>
  OBVIOUS
<1>3. \A s \in Streams : Seen(s) = <<>>
  BY <1>1, <1>2 DEF Seen
<1>4. \A e : ~Has(<<>>, e) /\ ~Carries(<<>>, e)
  BY <1>2 DEF Has, Carries
<1> QED BY <1>1, <1>3, <1>4 DEF Known

LEMMA OrderInit == Init => OrderInv
<1> SUFFICES ASSUME Init PROVE OrderInv
  OBVIOUS
<1>1. /\ \A s \in Streams : stream[s].got = <<>> /\ stream[s].buf = <<>>
      /\ \A x \in Subs : remote[x].inbox = <<>>
      /\ \A j \in Insts : out[j] = <<>>
  BY DEF Init
<1>2. Len(<<>>) = 0 /\ <<>> \o <<>> = <<>>
  OBVIOUS
<1>3. \A s \in Streams : Seen(s) = <<>>
  BY <1>1, <1>2 DEF Seen
<1>4. /\ \A e : ~Has(<<>>, e) /\ ~Carries(<<>>, e)
      /\ InOrder(<<>>) /\ QueueInOrder(<<>>)
  BY <1>2 DEF Has, Carries, InOrder, QueueInOrder
<1>5. \A e \in Events : ~Known(e)
  BY NoneKnown
<1>6. Addressed
  BY <1>1, <1>2, <1>3, <1>4 DEF Addressed
<1>7. (\A s \in Streams : InOrder(Seen(s))) /\ \A j \in Insts : QueueInOrder(out[j])
  BY <1>1, <1>3, <1>4
<1>8. \A s \in Streams : Follows(s)
  BY <1>1, <1>3, <1>4, LinkIsASub DEF Follows
<1>9. Echoes
  BY <1>1, <1>4, <1>5, LinkIsASub DEF Echoes
<1> QED BY <1>5, <1>6, <1>7, <1>8, <1>9 DEF OrderInv

\* Of EnableRedis, Publish and mirrorEvent: what a client is sent of each run
\* comes in the order it was published and once, over whichever of the three
\* ways, for the streams of a process hear a run's own process or its relay,
\* never both.
THEOREM OrderSafe == Spec => []InOrderOnce
<1>1. BaseInv /\ OrderInv => InOrderOnce
  <2> SUFFICES ASSUME BaseInv, OrderInv, NEW s \in Streams,
                      NEW j \in 1 .. Len(Seen(s)), NEW k \in 1 .. Len(Seen(s)),
                      j < k, Seen(s)[j].src = Seen(s)[k].src
               PROVE  Seen(s)[j].seq < Seen(s)[k].seq
    BY DEF InOrderOnce, Seen
  <2>1. TypeOK
    BY DEF BaseInv
  <2>2. PICK e \in Events, f \in Events : e = Seen(s)[j] /\ f = Seen(s)[k]
    BY <2>1, SeenTyped
  <2>3. Has(Seen(s), e) /\ Has(Seen(s), f)
    BY <2>2 DEF Has
  <2>4. e.dst = stream[s].run /\ f.dst = stream[s].run
    BY <2>3 DEF OrderInv, Addressed
  <2>5. Before(e, f)
    BY <2>2 DEF OrderInv, InOrder
  <2> QED BY <2>2, <2>4, <2>5 DEF Before
<1> QED BY <1>1, BaseInit, BaseNext, OrderInit, OrderNext, PTL DEF Spec

-----------------------------------------------------------------------------
(* The end of a stream.                                                    *)

LEMMA AloneIs ==
  ASSUME ~Team, TypeOK
  PROVE  Runs = {Parent} /\ \A s \in Streams : stream[s].run = Parent
<1>1. Runs = {Parent}
  BY DEF Runs
<1> QED BY <1>1, StreamTyped

\* What the steps need not say of LastIsOver.
LEMMA LastStays ==
  ASSUME ~Team, LastIsOver, News, row[Parent] = "over" => row'[Parent] = "over",
         driver'[Parent].pc = "deliver" /\ driver'[Parent].ev.last =>
           row'[Parent] = "over" \/ (driver[Parent].pc = "deliver" /\ driver[Parent].ev.last),
         \A s \in Streams : stream'[s].why = "event" => stream[s].why = "event" \/ row[Parent] = "over"
  PROVE  LastIsOver'
<1>1. driver[Parent].pc = "deliver" /\ driver[Parent].ev.last => row'[Parent] = "over"
  BY DEF LastIsOver
<1>2. ASSUME NEW e \in Events, Known(e)', e.last PROVE row'[Parent] = "over"
  <2>1. Known(e) \/ (driver[Parent].pc = "deliver" /\ e = driver[Parent].ev)
    BY <1>2 DEF News, Runs
  <2> QED BY <1>1, <1>2, <2>1 DEF LastIsOver
<1>3. driver'[Parent].pc = "deliver" /\ driver'[Parent].ev.last => row'[Parent] = "over"
  BY <1>1
<1>4. \A s \in Streams : stream'[s].why = "event" => row'[Parent] = "over"
  BY DEF LastIsOver
<1> QED BY <1>2, <1>3, <1>4 DEF LastIsOver

\* What a handler's step says ended its stream.
LEMMA WhyHandler ==
  ASSUME BaseInv, LastIsOver, NEW s \in Streams,
         \/ Check(s) \/ Acquire(s) \/ Add(s) \/ Subscribe(s) \/ Forward(s) \/ Drained(s)
         \/ StopRemote(s) \/ Remove(s) \/ Release(s) \/ ClientGone(s),
         NEW t \in Streams, stream'[t].why = "event"
  PROVE  stream[t].why = "event" \/ row[Parent] = "over"
<1>0. TypeOK
  BY DEF BaseInv
<1>1. CASE Forward(s)
  <2>1. /\ stream[s].buf # <<>> /\ (t # s => stream'[t] = stream[t])
        /\ stream'[s].why = IF Head(stream[s].buf).last THEN "event" ELSE stream[s].why
    BY <1>0, <1>1, ForwardShape DEF Moves
  <2>2. PICK g \in Seq(Events), b \in Seq(Events) : g = stream[s].got /\ b = stream[s].buf
    BY <1>0, StreamTyped
  <2>3. PICK e \in Events : e = Head(b) /\ e = b[1] /\ Len(b) \in Nat \ {0}
    BY <2>1, <2>2, HeadTail
  <2>4. Has(g \o b, e)
    <3>1. PICK w \in Seq(Events) : w = g \o b
      BY ConcatAt
    <3>2. Len(w) = Len(g) + Len(b) /\ Len(g) \in Nat /\ w[Len(g) + 1] = b[1]
      BY <2>3, <3>1, ConcatAt
    <3>3. Len(g) + 1 \in 1 .. Len(w)
      BY <2>3, <3>2
    <3> QED BY <2>3, <3>1, <3>2, <3>3 DEF Has
  <2>5. Known(e)
    BY <2>2, <2>4 DEF Known, Seen
  <2>6. e.last => row[Parent] = "over"
    BY <2>5 DEF LastIsOver
  <2> QED BY <2>1, <2>2, <2>3, <2>6
<1>2. CASE Add(s)
  BY <1>0, <1>2, AddShape DEF Moves
<1>3. CASE Remove(s)
  BY <1>0, <1>3, RemoveShape DEF Moves
<1>4. CASE \E p \in StreamPCs : Goes(s, [stream[s] EXCEPT !.pc = p])
  <2>1. stream'[s].why = stream[s].why /\ (t # s => stream'[t] = stream[t])
    BY <1>0, <1>4, PcOnly DEF Moves
  <2> QED BY <2>1
<1>5. CASE \E p \in StreamPCs, w \in {"closed", "client", "answered", "refused"} :
             Goes(s, [stream[s] EXCEPT !.pc = p, !.why = w])
  <2>1. stream'[s].why # "event" /\ (t # s => stream'[t] = stream[t])
    BY <1>0, <1>5, PcAndWhy DEF Moves
  <2> QED BY <2>1
<1>6. Check(s) \/ Acquire(s) \/ Subscribe(s) \/ Drained(s) \/ StopRemote(s) \/ Release(s) \/ ClientGone(s) =>
        \/ \E p \in StreamPCs : Goes(s, [stream[s] EXCEPT !.pc = p])
        \/ \E p \in StreamPCs, w \in {"closed", "client", "answered", "refused"} :
             Goes(s, [stream[s] EXCEPT !.pc = p, !.why = w])
  <2>1. {"acquire", "gone", "add", "live", "stop", "remove"} \subseteq StreamPCs
    BY DEF StreamPCs
  <2>2. Check(s) => \/ Goes(s, [stream[s] EXCEPT !.pc = "acquire"])
                    \/ Goes(s, [stream[s] EXCEPT !.pc = "gone", !.why = "answered"])
    BY DEF Check
  <2>3. Acquire(s) => \/ Goes(s, [stream[s] EXCEPT !.pc = "add"])
                      \/ Goes(s, [stream[s] EXCEPT !.pc = "gone", !.why = "refused"])
    BY DEF Acquire
  <2>4. /\ Subscribe(s) => Goes(s, [stream[s] EXCEPT !.pc = "live"])
        /\ StopRemote(s) => Goes(s, [stream[s] EXCEPT !.pc = "remove"])
        /\ Release(s) => Goes(s, [stream[s] EXCEPT !.pc = "gone"])
    BY DEF Subscribe, StopRemote, Release
  <2>5. /\ Drained(s) => Goes(s, [stream[s] EXCEPT !.pc = "stop", !.why = "closed"])
        /\ ClientGone(s) => Goes(s, [stream[s] EXCEPT !.pc = "stop", !.why = "client"])
    BY DEF Drained, ClientGone
  <2> QED BY <2>1, <2>2, <2>3, <2>4, <2>5
<1> QED BY <1>1, <1>2, <1>3, <1>4, <1>5, <1>6

LEMMA LastNext ==
  ASSUME ~Team, ~DbFaults, BaseInv, LastIsOver, News, [Next]_vars
  PROVE  LastIsOver'
<1>0. TypeOK /\ Parent \in Runs /\ Runs = {Parent} /\ row \in [Runs -> {"none", "live", "over"}]
  BY AloneIs, RunsAre DEF BaseInv, TypeOK
<1>1. CASE UNCHANGED vars
  BY <1>1, LastStays DEF vars
<1>2. CASE Deliver(Parent)
  <2>1. row' = row
    BY <1>2 DEF Deliver, Hand
  <2>2. driver'[Parent].pc # "deliver"
    <3>1. driver'[Parent].pc = IF Parent = Child THEN "mirror" ELSE driver[Parent].then
      BY <1>0, <1>2, HandDrives DEF Deliver
    <3>2. Armed(Parent)
      BY <1>0 DEF BaseInv
    <3> QED BY <3>1, <3>2 DEF Armed
  <2>3. \A s \in Streams : stream'[s].why = stream[s].why
    <3>1. Hand(Parent)
      BY <1>2 DEF Deliver
    <3>2. PICK e \in Events, i \in Insts : Send(i, e)
      BY <1>0, <3>1, HandShape
    <3> QED BY <1>0, <3>2, SendShape
  <2> QED BY <2>1, <2>2, <2>3, LastStays
<1>3. CASE Progress(Parent) \/ EndNotified(Parent) \/ EndSilent(Parent) \/ ReapStaleRuns(Parent)
  <2>1. stream' = stream
    BY <1>3 DEF Progress, EndNotified, EndSilent, ReapStaleRuns
  <2>2. CASE Progress(Parent)
    <3>1. row' = row /\ Publish(Parent, FALSE, "run") /\ "run" \in DriverPCs
      BY <2>2 DEF Progress, DriverPCs
    <3>2. driver'[Parent].ev.last = FALSE
      BY <1>0, <3>1, PublishDrives
    <3> QED BY <2>1, <3>1, <3>2, LastStays
  <2>3. CASE EndNotified(Parent) \/ EndSilent(Parent) \/ ReapStaleRuns(Parent)
    <3>1. row'[Parent] = "over"
      BY <1>0, <2>3 DEF EndNotified, EndSilent, ReapStaleRuns
    <3> QED BY <2>1, <3>1, LastStays
  <2> QED BY <1>3, <2>2, <2>3
<1>4. CASE Mirror \/ Delegate \/ LinkEnter \/ Dispatch \/ Answered \/ Unlink
  <2>1. CASE Mirror \/ Delegate
    BY <2>1 DEF Mirror, Delegate
  <2>2. CASE LinkEnter \/ Dispatch
    <3>1. Dispatching
      BY <2>2 DEF LinkEnter, Dispatch, Dispatching
    <3> QED BY <3>1 DEF BaseInv, Undispatched
  <2>3. CASE Answered \/ Unlink
    <3>1. /\ stream' = stream /\ row' = row
          /\ driver' = [driver EXCEPT ![Parent].pc = "unlink"] \/ driver' = [driver EXCEPT ![Parent].pc = "run"]
          /\ {"unlink", "run"} \subseteq DriverPCs
      BY <2>3 DEF Answered, Unlink, DriverPCs
    <3>2. driver'[Parent].pc # "deliver"
      BY <1>0, <3>1, DriverGoes
    <3> QED BY <3>1, <3>2, LastStays
  <2> QED BY <1>4, <2>1, <2>2, <2>3
<1>5. CASE \E i \in Insts : Relay(i) \/ CloseAll(i)
  <2>1. row' = row /\ driver' = driver
    BY <1>5 DEF Relay, CloseAll
  <2>2. \A s \in Streams : stream'[s].why = stream[s].why
    <3>1. CASE \E i \in Insts : Relay(i)
      BY <3>1 DEF Relay
    <3>2. CASE \E i \in Insts : CloseAll(i)
      BY <1>0, <3>2, CloseAllShape
    <3> QED BY <1>5, <3>1, <3>2
  <2> QED BY <2>1, <2>2, LastStays
<1>6. CASE \E s \in Streams : Hear(s)
  <2>1. row' = row /\ driver' = driver
    BY <1>6 DEF Hear
  <2>2. \A s \in Streams : stream'[s].why = stream[s].why
    BY <1>0, <1>6, HearShape
  <2> QED BY <2>1, <2>2, LastStays
<1>7. CASE \E s \in Streams : \/ Check(s) \/ Acquire(s) \/ Add(s) \/ Subscribe(s) \/ Forward(s)
                              \/ Drained(s) \/ StopRemote(s) \/ Remove(s) \/ Release(s) \/ ClientGone(s)
  <2>1. row' = row /\ driver' = driver
    BY <1>7 DEF Check, Acquire, Add, Subscribe, Forward, Drained, StopRemote, Remove, Release, ClientGone
  <2>2. \A t \in Streams : stream'[t].why = "event" => stream[t].why = "event" \/ row[Parent] = "over"
    BY <1>7, WhyHandler
  <2> QED BY <2>1, <2>2, LastStays
<1>8. CASE HearChild
  <2>1. row' = row /\ driver' = driver
    BY <1>8 DEF HearChild
  <2>2. \A s \in Streams : stream'[s].why = stream[s].why
    <3>1. PICK m \in Messages :
             /\ driver[Parent].home \in Insts
             /\ IF m.from # driver[Parent].home THEN Send(driver[Parent].home, Mirrored(m.ev))
                ELSE stream' = stream /\ out' = out
      BY <1>0, <1>8, HearChildShape
    <3>2. CASE m.from # driver[Parent].home
      <4>1. Mirrored(m.ev) \in Events
        BY MirroredIs DEF Messages
      <4> QED BY <1>0, <3>1, <3>2, <4>1, SendShape
    <3>3. CASE m.from = driver[Parent].home
      BY <3>1, <3>3
    <3> QED BY <3>2, <3>3
  <2> QED BY <2>1, <2>2, LastStays
<1> QED
  <2>1. Next => \/ Deliver(Parent)
                \/ Progress(Parent) \/ EndNotified(Parent) \/ EndSilent(Parent) \/ ReapStaleRuns(Parent)
                \/ Mirror \/ Delegate \/ LinkEnter \/ Dispatch \/ Answered \/ Unlink
                \/ \E i \in Insts : Relay(i) \/ CloseAll(i)
                \/ \E s \in Streams : Hear(s)
                \/ \E s \in Streams :
                     \/ Check(s) \/ Acquire(s) \/ Add(s) \/ Subscribe(s) \/ Forward(s)
                     \/ Drained(s) \/ StopRemote(s) \/ Remove(s) \/ Release(s) \/ ClientGone(s)
                \/ HearChild
    BY <1>0, NextSteps DEF Deliver, EndUnwritten
  <2> QED BY <1>1, <1>2, <1>3, <1>4, <1>5, <1>6, <1>7, <1>8, <2>1

LEMMA LastInit == Init => LastIsOver
<1> SUFFICES ASSUME Init PROVE LastIsOver
  OBVIOUS
<1>1. (\A s \in Streams : stream[s].why = "none") /\ driver[Parent].pc = "run"
  BY RunsAre DEF Init
<1> QED BY <1>1, NoneKnown DEF LastIsOver

\* Of Execute, which publishes EventComplete after the checkpoint that ends the
\* run, and of Stream, which ends at it: a stream that an event ended followed
\* its run to the end, wherever it heard the event.
\* With a team it is not so: a specialist's last event ends the streams of the
\* orchestrator's run.  Nor when the database fails: the end of a failed run is
\* published though its checkpoint was not written.
THEOREM EndSafe == ASSUME ~Team, ~DbFaults PROVE Spec => []EndMeansOver
<1>1. BaseInv /\ LastIsOver => EndMeansOver
  BY AloneIs DEF BaseInv, LastIsOver, EndMeansOver
<1>2. BaseInv /\ BaseInv' /\ OrderInv /\ LastIsOver /\ [Next]_vars => LastIsOver'
  BY OrderNext, LastNext
<1> QED BY <1>1, <1>2, BaseInit, BaseNext, OrderInit, OrderNext, LastInit, PTL DEF Spec

-----------------------------------------------------------------------------
(* The feed that a stream and its run amount to (LiveFeed).                *)

\* A last event is the latest of its run, whose goroutine publishes no more.
Final(e) == e.last => Silent(e.src) /\ e.seq = driver[e.src].seq

\* A goroutine that has one in hand is on its way out.
Ready(r) ==
  driver[r].pc \in {"deliver", "mirror"} /\ driver[r].ev.last => driver[r].then = "done"

FinalInv ==
  /\ \A e \in Events : Known(e) => Final(e)
  /\ \A r \in Runs : Ready(r)

\* What a step changes of what run r has published: nothing, one event more,
\* or that there will be no more.
Steady(r) == driver'[r].seq = driver[r].seq /\ (Silent(r)' <=> Silent(r))
Speaks(r) == ~Silent(r) /\ driver'[r].seq = driver[r].seq + 1
Hushes(r) == ~Silent(r) /\ driver'[r].seq = driver[r].seq /\ Silent(r)'

Tells(r) ==
  /\ \A t \in Runs : t # r => Steady(t)
  /\ Steady(r) \/ Speaks(r) \/ Hushes(r)

\* A step that no client sees.
Unseen ==
  \A s \in Streams : /\ stream'[s].run = stream[s].run /\ stream'[s].got = stream[s].got
                     /\ Open(s)' <=> Open(s)

LEMMA QuietTells ==
  ASSUME driver' = driver
  PROVE  /\ \A r \in Runs : Tells(r)
         /\ \A r \in Runs : Ready(r) => Ready(r)'
BY DEF Tells, Steady, Silent, Ready

\* A goroutine goes from one place of its own to another, or is done with an
\* event.
LEMMA GoesTells ==
  ASSUME NEW r \in Runs, \A t \in Runs : t # r => driver'[t] = driver[t],
         driver'[r].seq = driver[r].seq, driver'[r].then = driver[r].then,
         driver'[r].pc # "deliver",
         driver'[r].pc = "mirror" => driver[r].pc = "deliver" /\ driver'[r].ev = driver[r].ev,
         driver[r].pc # "done",
         driver[r].pc \in {"deliver", "mirror"} => driver'[r].pc \in {"mirror", driver[r].then}
  PROVE  Tells(r) /\ \A t \in Runs : Ready(t) => Ready(t)'
<1>1. ASSUME NEW t \in Runs, t # r PROVE Steady(t) /\ (Ready(t) => Ready(t)')
  BY <1>1 DEF Steady, Silent, Ready
<1>2. Ready(r) => Ready(r)'
  BY DEF Ready
<1>3. Steady(r) \/ Hushes(r)
  BY DEF Steady, Hushes, Silent
<1> QED BY <1>1, <1>2, <1>3 DEF Tells

LEMMA PublishTells ==
  ASSUME TypeOK, NEW r \in Runs, NEW last \in BOOLEAN, NEW p \in DriverPCs, Publish(r, last, p),
         driver[r].pc \in {"run", "enter"}, last => p = "done"
  PROVE  Tells(r) /\ \A t \in Runs : Ready(t) => Ready(t)'
<1>1. /\ Drives(r) /\ driver'[r].pc = "deliver" /\ driver'[r].then = p
      /\ driver'[r].seq = driver[r].seq + 1 /\ driver'[r].ev.last = last
  BY PublishDrives
<1>2. ASSUME NEW t \in Runs, t # r PROVE Steady(t) /\ (Ready(t) => Ready(t)')
  BY <1>1, <1>2 DEF Drives, Steady, Silent, Ready
<1>3. Speaks(r) /\ Ready(r)'
  BY <1>1 DEF Speaks, Silent, Ready
<1> QED BY <1>2, <1>3 DEF Tells

\* Every step of a goroutine.
LEMMA DriverTells ==
  ASSUME BaseInv, NEW r \in Runs,
         Hand(r) \/ Progress(r) \/ EndNotified(r) \/ EndUnwritten(r) \/ EndSilent(r) \/ ReapStaleRuns(r)
  PROVE  /\ \E q \in Runs : Tells(q)
         /\ \A t \in Runs : Ready(t) => Ready(t)'
<1>0. TypeOK /\ Armed(r) /\ {"run", "done"} \subseteq DriverPCs
  BY DEF BaseInv, DriverPCs
<1>1. CASE Hand(r)
  <2>1. /\ Drives(r)
        /\ driver'[r].pc = IF r = Child THEN "mirror" ELSE driver[r].then
        /\ driver'[r].seq = driver[r].seq /\ driver'[r].then = driver[r].then
        /\ r = Child => driver'[r].ev = driver[r].ev
        /\ driver[r].pc = "deliver"
    BY <1>0, <1>1, HandDrives, HandShape
  <2>2. driver[r].then \notin {"deliver", "mirror"}
    BY <1>0 DEF Armed
  <2> QED BY <2>1, <2>2, GoesTells DEF Drives
<1>2. CASE Progress(r)
  <2>1. Publish(r, FALSE, "run") /\ driver[r].pc = "run"
    BY <1>2 DEF Progress
  <2> QED BY <1>0, <2>1, PublishTells
<1>3. CASE EndNotified(r) \/ EndUnwritten(r)
  <2>1. Publish(r, TRUE, "done") /\ driver[r].pc = "run"
    BY <1>3 DEF EndNotified, EndUnwritten
  <2> QED BY <1>0, <2>1, PublishTells
<1>4. CASE EndSilent(r)
  <2>1. driver' = [driver EXCEPT ![r].pc = "done"] /\ driver[r].pc = "run"
    BY <1>4 DEF EndSilent
  <2>2. /\ Drives(r) /\ driver'[r].pc = "done"
        /\ driver'[r].seq = driver[r].seq /\ driver'[r].then = driver[r].then
    BY <1>0, <2>1, DriverGoes
  <2> QED BY <2>1, <2>2, GoesTells DEF Drives
<1>5. CASE ReapStaleRuns(r)
  BY <1>5, QuietTells DEF ReapStaleRuns
<1> QED BY <1>1, <1>2, <1>3, <1>4, <1>5

\* ... and of a delegation.
LEMMA TeamTells ==
  ASSUME BaseInv, Mirror \/ Delegate \/ LinkEnter \/ Dispatch \/ Answered \/ Unlink
  PROVE  /\ \E q \in Runs : Tells(q)
         /\ \A t \in Runs : Ready(t) => Ready(t)'
<1>0. /\ TypeOK /\ Parent \in Runs
      /\ {"enter", "dispatch", "unlink", "run"} \subseteq DriverPCs
  BY RunsAre DEF BaseInv, DriverPCs
<1>1. CASE Mirror
  <2>1. /\ Child \in Runs /\ driver[Child].pc = "mirror" /\ Drives(Child)
        /\ driver'[Child].pc = driver[Child].then /\ driver'[Child].seq = driver[Child].seq
        /\ driver'[Child].then = driver[Child].then
    BY <1>1, MirrorShape
  <2>2. driver[Child].then \notin {"deliver", "mirror"}
    BY <2>1 DEF BaseInv, Armed
  <2> QED BY <2>1, <2>2, GoesTells DEF Drives
<1>2. CASE Delegate \/ Answered \/ Unlink
  <2>1. PICK p \in {"enter", "unlink", "run"} :
          driver' = [driver EXCEPT ![Parent].pc = p] /\ driver[Parent].pc \in {"run", "wait", "unlink"}
    <3>1. /\ Delegate => driver[Parent].pc = "run" /\ driver' = [driver EXCEPT ![Parent].pc = "enter"]
          /\ Answered => driver[Parent].pc = "wait" /\ driver' = [driver EXCEPT ![Parent].pc = "unlink"]
          /\ Unlink => driver[Parent].pc = "unlink" /\ driver' = [driver EXCEPT ![Parent].pc = "run"]
      BY DEF Delegate, Answered, Unlink
    <3> QED BY <1>2, <3>1
  <2>2. /\ Drives(Parent) /\ driver'[Parent].pc = p
        /\ driver'[Parent].seq = driver[Parent].seq /\ driver'[Parent].then = driver[Parent].then
    BY <1>0, <2>1, DriverGoes
  <2> QED BY <1>0, <2>1, <2>2, GoesTells DEF Drives
<1>3. CASE LinkEnter
  <2>1. driver[Parent].pc = "enter"
    BY <1>3 DEF LinkEnter
  <2>2. CASE Publish(Parent, FALSE, "dispatch")
    BY <1>0, <2>1, <2>2, PublishTells
  <2>3. CASE driver' = [driver EXCEPT ![Parent].pc = "dispatch"]
    <3>1. /\ Drives(Parent) /\ driver'[Parent].pc = "dispatch"
          /\ driver'[Parent].seq = driver[Parent].seq /\ driver'[Parent].then = driver[Parent].then
      BY <1>0, <2>3, DriverGoes
    <3> QED BY <1>0, <2>1, <3>1, GoesTells DEF Drives
  <2> QED BY <1>3, <2>2, <2>3 DEF LinkEnter
<1>4. CASE Dispatch
  <2>1. /\ Child \in Runs /\ driver[Parent].pc = "dispatch" /\ driver[Child].pc = "off"
        /\ driver'[Parent].pc = "wait" /\ driver'[Parent].seq = driver[Parent].seq
        /\ driver'[Child].pc = "run" /\ driver'[Child].seq = driver[Child].seq
    BY <1>4, DispatchShape
  <2>2. \A t \in Runs : Steady(t) /\ Ready(t)'
    BY <2>1, RunsAre DEF Steady, Silent, Ready
  <2> QED BY <1>0, <2>2 DEF Tells
<1> QED BY <1>1, <1>2, <1>3, <1>4

\* Every event that gets out is its run's, and its last one only at the end.
LEMMA FinalStays ==
  ASSUME BaseInv, FinalInv, News, NEW r \in Runs, Tells(r),
         \A t \in Runs : Ready(t) => Ready(t)'
  PROVE  FinalInv'
<1>0. TypeOK
  BY DEF BaseInv
<1>1. ASSUME NEW e \in Events, Final(e) PROVE Final(e)'
  <2>1. e.src \in Runs
    BY EventTyped
  <2>2. e.last => Steady(e.src)
    BY <1>1, <2>1 DEF Final, Tells, Speaks, Hushes
  <2> QED BY <1>1, <2>2 DEF Final, Steady
<1>2. ASSUME NEW e \in Events, NEW t \in Runs, driver[t].pc \in {"deliver", "mirror"},
             e.src = driver[t].ev.src, e.seq = driver[t].ev.seq, e.last = driver[t].ev.last
      PROVE  Final(e)
  <2>1. Armed(t) /\ Ready(t)
    BY DEF BaseInv, FinalInv
  <2> QED BY <1>2, <2>1 DEF Armed, Ready, Final, Silent
<1>3. ASSUME NEW e \in Events, Known(e)' PROVE Final(e)
  <2>1. CASE Known(e)
    BY <2>1 DEF FinalInv
  <2>2. CASE \E t \in Runs : driver[t].pc = "deliver" /\ e = driver[t].ev
    BY <1>2, <2>2
  <2>3. CASE Team /\ Copied(e)
    <3>1. PICK f \in Events : /\ Known(f) \/ (driver[Child].pc = "mirror" /\ f = driver[Child].ev)
                              /\ e.src = f.src /\ e.seq = f.seq /\ e.last = f.last
      BY <2>3 DEF Copied
    <3>2. CASE Known(f)
      BY <3>1, <3>2 DEF FinalInv, Final
    <3>3. CASE driver[Child].pc = "mirror" /\ f = driver[Child].ev
      BY <1>2, <2>3, <3>1, <3>3, RunsAre
    <3> QED BY <3>1, <3>2, <3>3
  <2> QED BY <1>3, <2>1, <2>2, <2>3 DEF News
<1> QED BY <1>1, <1>3 DEF FinalInv

-----------------------------------------------------------------------------
(* The steps of the feed.                                                  *)

FeedStep == [Feed!Next]_(Feed!feedVars)

LEMMA WatchStays ==
  ASSUME TypeOK, Unseen
  PROVE  [s \in Streams |-> [run |-> stream[s].run, shown |-> stream[s].got, open |-> Open(s)]]' =
         [s \in Streams |-> [run |-> stream[s].run, shown |-> stream[s].got, open |-> Open(s)]]
<1>1. \A s \in Streams : /\ stream'[s].run = stream[s].run /\ stream'[s].got = stream[s].got
                         /\ Open(s)' = Open(s)
  BY DEF Unseen, Open
<1> QED BY <1>1

LEMMA TellsFeed ==
  ASSUME TypeOK, NEW r \in Runs, Tells(r), Unseen
  PROVE  FeedStep
<1>1. UNCHANGED [s \in Streams |-> [run |-> stream[s].run, shown |-> stream[s].got, open |-> Open(s)]]
  BY WatchStays
<1>2. \A t \in Runs : t # r => Steady(t)
  BY DEF Tells
<1>3. CASE Steady(r)
  <2>1. \A t \in Runs : driver'[t].seq = driver[t].seq /\ (Silent(t)' <=> Silent(t))
    BY <1>2, <1>3 DEF Steady
  <2>2. /\ UNCHANGED [t \in Runs |-> driver[t].seq]
        /\ UNCHANGED {t \in Runs : Silent(t)}
    BY <2>1
  <2> QED BY <1>1, <2>2 DEF FeedStep, Feed!feedVars
<1>4. CASE Speaks(r)
  <2>1. [t \in Runs |-> driver[t].seq]' = [[t \in Runs |-> driver[t].seq] EXCEPT ![r] = @ + 1]
    BY <1>2, <1>4 DEF Steady, Speaks
  <2>2. {t \in Runs : Silent(t)}' \in {{t \in Runs : Silent(t)}, {t \in Runs : Silent(t)} \cup {r}}
    BY <1>2, <1>4 DEF Steady, Speaks
  <2>3. r \notin {t \in Runs : Silent(t)}
    BY <1>4 DEF Speaks
  <2>4. Feed!Publish(r)
    BY <1>1, <2>1, <2>2, <2>3 DEF Feed!Publish
  <2> QED BY <2>4 DEF FeedStep, Feed!Next
<1>5. CASE Hushes(r)
  <2>1. UNCHANGED [t \in Runs |-> driver[t].seq]
    BY <1>2, <1>5 DEF Steady, Hushes
  <2>2. {t \in Runs : Silent(t)}' = {t \in Runs : Silent(t)} \cup {r}
    BY <1>2, <1>5 DEF Steady, Hushes
  <2>3. Feed!Hush(r)
    BY <1>1, <2>1, <2>2 DEF Feed!Hush
  <2> QED BY <2>3 DEF FeedStep, Feed!Next
<1> QED BY <1>3, <1>4, <1>5 DEF Tells

\* A handler's step is one of the feed, if its stream shows nothing by it.
LEMMA CloseFeed ==
  ASSUME TypeOK, driver' = driver, NEW s \in Streams,
         \A t \in Streams : t # s => stream'[t] = stream[t],
         stream'[s].run = stream[s].run, stream'[s].got = stream[s].got,
         Open(s)' => Open(s)
  PROVE  FeedStep
<1>1. CASE Open(s)' <=> Open(s)
  <2>1. Unseen
    BY <1>1 DEF Unseen, Open
  <2> QED BY <2>1, QuietTells, RunsAre, TellsFeed
<1>2. CASE Open(s) /\ ~Open(s)'
  <2>1. [t \in Streams |-> [run |-> stream[t].run, shown |-> stream[t].got, open |-> Open(t)]]' =
        [[t \in Streams |-> [run |-> stream[t].run, shown |-> stream[t].got, open |-> Open(t)]]
           EXCEPT ![s] = [@ EXCEPT !.open = FALSE]]
    <3>1. \A t \in Streams : t # s => Open(t)' = Open(t) /\ stream'[t].run = stream[t].run
                                      /\ stream'[t].got = stream[t].got
      BY DEF Open
    <3>2. Open(s)' = FALSE
      BY <1>2 DEF Open
    <3> QED BY <3>1, <3>2
  <2>2. UNCHANGED [t \in Runs |-> driver[t].seq] /\ UNCHANGED {t \in Runs : Silent(t)}
    BY DEF Silent
  <2>3. [t \in Streams |-> [run |-> stream[t].run, shown |-> stream[t].got, open |-> Open(t)]][s].open
    BY <1>2
  <2>4. Feed!Close(s)
    BY <2>1, <2>2, <2>3 DEF Feed!Close
  <2> QED BY <2>4 DEF FeedStep, Feed!Next
<1> QED BY <1>1, <1>2

\* The head of a stream's channel may be shown: it is known, the stream's
\* own, and comes after all the stream has shown of the same run.
LEMMA HeadIsNext ==
  ASSUME BaseInv, OrderInv, FinalInv, NEW s \in Streams, stream[s].buf # <<>>,
         NEW e, e = Head(stream[s].buf)
  PROVE  /\ e \in Events /\ e.dst = stream[s].run
         /\ e.src = e.dst \/ (Team /\ e.dst = Parent /\ e.src = Child)
         /\ e.seq \in 1 .. driver[e.src].seq
         /\ Final(e)
         /\ \A k \in 1 .. Len(stream[s].got) : stream[s].got[k].src = e.src => stream[s].got[k].seq < e.seq
<1>0. TypeOK
  BY DEF BaseInv
<1>1. PICK g \in Seq(Events), b \in Seq(Events) : g = stream[s].got /\ b = stream[s].buf
  BY <1>0, StreamTyped
<1>2. e \in Events /\ e = b[1] /\ Len(b) \in Nat \ {0} /\ Len(g) \in Nat
  BY <1>1, HeadTail
<1>3. PICK w \in Seq(Events) : w = g \o b
  BY ConcatAt
<1>4. /\ Len(w) = Len(g) + Len(b) /\ w[Len(g) + 1] = e
      /\ \A k \in 1 .. Len(g) : w[k] = g[k]
  BY <1>2, <1>3, ConcatAt
<1>5. w = Seen(s) /\ Len(g) + 1 \in 1 .. Len(w)
  <2>1. w = Seen(s)
    BY <1>1, <1>3 DEF Seen
  <2>2. Len(g) + 1 \in 1 .. Len(w)
    BY <1>2, <1>4
  <2> QED BY <2>1, <2>2
<1>6. Has(Seen(s), e)
  BY <1>4, <1>5 DEF Has
<1>7. Known(e)
  BY <1>6 DEF Known
<1>8. e.dst = stream[s].run /\ Dated(e) /\ Final(e)
  BY <1>2, <1>6, <1>7 DEF OrderInv, Addressed, FinalInv
<1>9. e.src \in Runs /\ e.dst \in Runs /\ e.seq \in Nat /\ e.seq > 0 /\ driver[e.src].seq \in Nat
  BY <1>0, <1>2, EventTyped, DriverTyped
<1>10. e.src = e.dst \/ (Team /\ e.dst = Parent /\ e.src = Child)
  BY <1>8, <1>9 DEF Dated, Runs
<1>11. ASSUME NEW k \in 1 .. Len(g), g[k].src = e.src PROVE g[k].seq < e.seq
  <2>1. k \in 1 .. Len(w) /\ w[k] = g[k] /\ k < Len(g) + 1 /\ g[k] \in Events
    BY <1>2, <1>4, <1>5
  <2>2. Has(Seen(s), g[k])
    BY <1>5, <2>1 DEF Has
  <2>3. g[k].dst = e.dst
    BY <1>8, <2>1, <2>2 DEF OrderInv, Addressed
  <2>4. Before(g[k], e)
    BY <1>4, <1>5, <2>1 DEF OrderInv, InOrder
  <2> QED BY <1>11, <2>3, <2>4 DEF Before
<1>12. e.seq \in 1 .. driver[e.src].seq
  BY <1>8, <1>9 DEF Dated
<1> QED BY <1>1, <1>2, <1>8, <1>10, <1>11, <1>12

\* Writing an event to the client is the feed showing it.
LEMMA ForwardFeed ==
  ASSUME BaseInv, OrderInv, FinalInv, NEW s \in Streams, Forward(s)
  PROVE  FeedStep
<1>0. TypeOK /\ driver' = driver
  BY DEF BaseInv, Forward
<1>1. PICK e : e = Head(stream[s].buf)
  OBVIOUS
<1>2. /\ stream[s].pc = "live" /\ stream[s].buf # <<>>
      /\ \A t \in Streams : t # s => stream'[t] = stream[t]
      /\ stream'[s].run = stream[s].run
      /\ stream'[s].got = Append(stream[s].got, e)
      /\ stream'[s].pc = IF e.last THEN "stop" ELSE "live"
  BY <1>0, <1>1, ForwardShape DEF Moves, Kept
<1>3. /\ e \in Events /\ e.dst = stream[s].run
      /\ e.src = e.dst \/ (Team /\ e.dst = Parent /\ e.src = Child)
      /\ e.seq \in 1 .. driver[e.src].seq /\ Final(e)
      /\ \A k \in 1 .. Len(stream[s].got) : stream[s].got[k].src = e.src => stream[s].got[k].seq < e.seq
  BY <1>1, <1>2, HeadIsNext
<1>4. /\ e.src \in Runs /\ e.last \in BOOLEAN
      /\ e = [src |-> e.src, dst |-> stream[s].run, seq |-> e.seq, last |-> e.last]
  BY <1>3 DEF Events
<1> DEFINE W == [t \in Streams |-> [run |-> stream[t].run, shown |-> stream[t].got, open |-> Open(t)]]
<1>5. /\ W[s].run = stream[s].run /\ W[s].shown = stream[s].got /\ W[s].open
  BY <1>2 DEF Open
<1>6. W' = [W EXCEPT ![s] =
        [W[s] EXCEPT !.shown = Append(@, [src |-> e.src, dst |-> W[s].run, seq |-> e.seq, last |-> e.last]),
                     !.open = ~e.last]]
  <2>1. \A t \in Streams : t # s => W'[t] = W[t]
    BY <1>2 DEF Open
  <2>2. Open(s)' = ~e.last
    BY <1>2, <1>4 DEF Open
  <2>3. W'[s] = [run |-> stream[s].run, shown |-> Append(stream[s].got, e), open |-> ~e.last]
    BY <1>2, <2>2
  <2>4. [W[s] EXCEPT !.shown = Append(@, e), !.open = ~e.last] =
        [run |-> stream[s].run, shown |-> Append(stream[s].got, e), open |-> ~e.last]
    <3>1. PICK x : x = [run |-> stream[s].run, shown |-> stream[s].got, open |-> TRUE]
      OBVIOUS
    <3>2. PICK n : n = Append(stream[s].got, e)
      OBVIOUS
    <3>3. PICK c \in BOOLEAN : c = ~e.last
      OBVIOUS
    <3>4. PICK z : z = [x EXCEPT !.shown = n, !.open = c]
      OBVIOUS
    <3>5. z = [run |-> stream[s].run, shown |-> n, open |-> c]
      BY <3>1, <3>4
    <3>6. [x EXCEPT !.shown = Append(@, e), !.open = c] = [x EXCEPT !.shown = n, !.open = c]
      BY <3>1, <3>2
    <3>7. W[s] = x
      BY <1>5, <3>1
    <3> QED BY <3>2, <3>3, <3>4, <3>5, <3>6, <3>7
  <2>5. e = [src |-> e.src, dst |-> W[s].run, seq |-> e.seq, last |-> e.last]
    BY <1>4, <1>5
  <2>6. PICK v : v = [W[s] EXCEPT !.shown = Append(@, e), !.open = ~e.last]
    OBVIOUS
  <2>7. W'[s] = v
    BY <2>3, <2>4, <2>6
  <2>8. W' = [W EXCEPT ![s] = v]
    BY <2>1, <2>7
  <2> QED BY <2>5, <2>6, <2>8
<1>7. UNCHANGED [t \in Runs |-> driver[t].seq] /\ UNCHANGED {t \in Runs : Silent(t)}
  BY <1>0 DEF Silent
<1>8. /\ Feed!Covers(W[s].run, e.src)
      /\ e.seq \in 1 .. [t \in Runs |-> driver[t].seq][e.src]
      /\ e.last => e.src \in {t \in Runs : Silent(t)} /\ e.seq = [t \in Runs |-> driver[t].seq][e.src]
  BY <1>3, <1>4, <1>5 DEF Final, Feed!Covers
<1>9. Feed!Show(s, e.src, e.seq, e.last)
  BY <1>3, <1>5, <1>6, <1>7, <1>8 DEF Feed!Show
<1> QED BY <1>4, <1>8, <1>9 DEF FeedStep, Feed!Next

\* The other steps of a handler show nothing, and none opens a stream again.
LEMMA HandlerFeed ==
  ASSUME BaseInv, OrderInv, FinalInv, NEW s \in Streams,
         \/ Check(s) \/ Acquire(s) \/ Add(s) \/ Subscribe(s) \/ Forward(s) \/ Drained(s)
         \/ StopRemote(s) \/ Remove(s) \/ Release(s) \/ ClientGone(s)
  PROVE  FeedStep
<1>0. TypeOK /\ driver' = driver
  BY DEF BaseInv, Check, Acquire, Add, Subscribe, Forward, Drained, StopRemote, Remove, Release,
         ClientGone
<1>1. CASE Forward(s)
  BY <1>1, ForwardFeed
<1>2. CASE Add(s)
  <2>1. /\ \A t \in Streams : t # s => stream'[t] = stream[t]
        /\ stream'[s].run = stream[s].run /\ stream'[s].got = stream[s].got
    BY <1>0, <1>2, AddShape DEF Moves, Kept
  <2>2. Open(s)
    BY <1>2 DEF Add, Open
  <2> QED BY <1>0, <2>1, <2>2, CloseFeed
<1>3. CASE Remove(s)
  <2>1. /\ \A t \in Streams : t # s => stream'[t] = stream[t]
        /\ stream'[s].run = stream[s].run /\ stream'[s].got = stream[s].got
        /\ stream'[s].pc = "release"
    BY <1>0, <1>3, RemoveShape DEF Moves, Kept
  <2>2. ~Open(s)'
    BY <2>1 DEF Open
  <2> QED BY <1>0, <2>1, <2>2, CloseFeed
<1>4. ASSUME NEW p \in StreamPCs, Goes(s, [stream[s] EXCEPT !.pc = p]),
             Open(s) \/ p \notin {"check", "acquire", "add", "sub", "live"}
      PROVE  FeedStep
  <2>1. /\ \A t \in Streams : t # s => stream'[t] = stream[t]
        /\ stream'[s].run = stream[s].run /\ stream'[s].got = stream[s].got
        /\ stream'[s].pc = p
    BY <1>0, <1>4, PcOnly DEF Moves, Kept
  <2>2. Open(s)' => Open(s)
    BY <1>4, <2>1 DEF Open
  <2> QED BY <1>0, <2>1, <2>2, CloseFeed
<1>5. ASSUME NEW p \in {"gone", "stop"}, NEW w \in {"closed", "client", "answered", "refused"},
             Goes(s, [stream[s] EXCEPT !.pc = p, !.why = w])
      PROVE  FeedStep
  <2>1. p \in StreamPCs
    BY DEF StreamPCs
  <2>2. /\ \A t \in Streams : t # s => stream'[t] = stream[t]
        /\ stream'[s].run = stream[s].run /\ stream'[s].got = stream[s].got
        /\ stream'[s].pc = p
    BY <1>0, <1>5, <2>1, PcAndWhy DEF Moves, Kept
  <2>3. ~Open(s)'
    BY <2>2 DEF Open
  <2> QED BY <1>0, <2>2, <2>3, CloseFeed
<1>6. CASE Check(s)
  <2>1. /\ \/ Goes(s, [stream[s] EXCEPT !.pc = "acquire"])
           \/ Goes(s, [stream[s] EXCEPT !.pc = "gone", !.why = "answered"])
        /\ Open(s) /\ "acquire" \in StreamPCs
    BY <1>6 DEF Check, Open, StreamPCs
  <2> QED BY <1>4, <1>5, <2>1
<1>7. CASE Acquire(s)
  <2>1. /\ \/ Goes(s, [stream[s] EXCEPT !.pc = "add"])
           \/ Goes(s, [stream[s] EXCEPT !.pc = "gone", !.why = "refused"])
        /\ Open(s) /\ "add" \in StreamPCs
    BY <1>7 DEF Acquire, Open, StreamPCs
  <2> QED BY <1>4, <1>5, <2>1
<1>8. CASE Subscribe(s)
  <2>1. Goes(s, [stream[s] EXCEPT !.pc = "live"]) /\ Open(s) /\ "live" \in StreamPCs
    BY <1>8 DEF Subscribe, Open, StreamPCs
  <2> QED BY <1>4, <2>1
<1>9. CASE StopRemote(s) \/ Release(s)
  <2>1. /\ \/ Goes(s, [stream[s] EXCEPT !.pc = "remove"])
           \/ Goes(s, [stream[s] EXCEPT !.pc = "gone"])
        /\ {"remove", "gone"} \subseteq StreamPCs
    BY <1>9 DEF StopRemote, Release, StreamPCs
  <2> QED BY <1>4, <2>1
<1>10. CASE Drained(s) \/ ClientGone(s)
  <2>1. \/ Goes(s, [stream[s] EXCEPT !.pc = "stop", !.why = "closed"])
        \/ Goes(s, [stream[s] EXCEPT !.pc = "stop", !.why = "client"])
    BY <1>10 DEF Drained, ClientGone
  <2> QED BY <1>5, <2>1
<1> QED BY <1>1, <1>2, <1>3, <1>6, <1>7, <1>8, <1>9, <1>10

\* What goes on outside the handlers, no client sees as it happens.
LEMMA ElsewhereUnseen ==
  ASSUME BaseInv,
         \/ \E r \in Runs : \/ Hand(r) \/ Progress(r) \/ EndNotified(r) \/ EndUnwritten(r)
                            \/ EndSilent(r) \/ ReapStaleRuns(r)
         \/ Mirror \/ Delegate \/ LinkEnter \/ Dispatch \/ Answered \/ Unlink
         \/ \E i \in Insts : Relay(i) \/ CloseAll(i)
         \/ \E s \in Streams : Hear(s)
         \/ HearChild
  PROVE  Unseen
<1>0. TypeOK
  BY DEF BaseInv
<1>1. ASSUME stream' = stream PROVE Unseen
  BY <1>1 DEF Unseen, Open
<1>2. ASSUME Kept,
             \A s \in Streams : stream'[s].pc = stream[s].pc /\ stream'[s].got = stream[s].got
      PROVE  Unseen
  BY <1>2 DEF Unseen, Open, Kept
<1>3. ASSUME NEW i \in Insts, NEW e \in Events, Send(i, e) PROVE Unseen
  BY <1>0, <1>2, <1>3, SendShape
<1>4. CASE \E r \in Runs : Hand(r)
  BY <1>3, <1>4, HandShape
<1>5. CASE \E r \in Runs : Progress(r) \/ EndNotified(r) \/ EndUnwritten(r) \/ EndSilent(r) \/ ReapStaleRuns(r)
  BY <1>1, <1>5 DEF Progress, EndNotified, EndUnwritten, EndSilent, ReapStaleRuns
<1>6. CASE Mirror
  <2>1. /\ driver[Child].ev \in Events /\ driver[Child].home \in Insts
        /\ IF mirror /\ driver[Child].home = driver[Parent].home
           THEN Send(driver[Child].home, Mirrored(driver[Child].ev))
           ELSE stream' = stream
    BY <1>6, MirrorShape
  <2>2. Mirrored(driver[Child].ev) \in Events
    BY <2>1, MirroredIs
  <2> QED BY <1>1, <1>3, <2>1, <2>2
<1>7. CASE Delegate \/ LinkEnter \/ Dispatch \/ Answered \/ Unlink
  BY <1>1, <1>7 DEF Delegate, LinkEnter, Dispatch, Answered, Unlink
<1>8. CASE \E i \in Insts : Relay(i)
  BY <1>1, <1>8 DEF Relay
<1>9. CASE \E i \in Insts : CloseAll(i)
  BY <1>0, <1>2, <1>9, CloseAllShape
<1>10. CASE \E s \in Streams : Hear(s)
  BY <1>0, <1>2, <1>10, HearShape
<1>11. CASE HearChild
  <2>1. PICK m \in Messages :
          /\ driver[Parent].home \in Insts
          /\ IF m.from # driver[Parent].home THEN Send(driver[Parent].home, Mirrored(m.ev))
             ELSE stream' = stream /\ out' = out
    BY <1>0, <1>11, HearChildShape
  <2>2. Mirrored(m.ev) \in Events
    BY MirroredIs DEF Messages
  <2> QED BY <1>1, <1>3, <2>1, <2>2
<1> QED BY <1>4, <1>5, <1>6, <1>7, <1>8, <1>9, <1>10, <1>11

\* ... and is the publishing of an event, the end of a run, or nothing.
LEMMA ElsewhereTells ==
  ASSUME BaseInv, Next
  PROVE  /\ \E r \in Runs : Tells(r)
         /\ \A t \in Runs : Ready(t) => Ready(t)'
<1>1. CASE driver' = driver
  BY <1>1, QuietTells, RunsAre
<1>2. CASE \/ \E r \in Runs : \/ Hand(r) \/ Progress(r) \/ EndNotified(r) \/ EndUnwritten(r)
                              \/ EndSilent(r) \/ ReapStaleRuns(r)
           \/ Mirror \/ Delegate \/ LinkEnter \/ Dispatch \/ Answered \/ Unlink
  BY <1>2, DriverTells, TeamTells
<1>3. CASE \/ \E i \in Insts : Relay(i) \/ CloseAll(i)
           \/ \E s \in Streams : \/ Hear(s) \/ Check(s) \/ Acquire(s) \/ Add(s) \/ Subscribe(s)
                                 \/ Forward(s) \/ Drained(s) \/ StopRemote(s) \/ Remove(s) \/ Release(s)
                                 \/ ClientGone(s)
           \/ HearChild
  <2>1. driver' = driver
    BY <1>3 DEF Relay, CloseAll, Hear, Check, Acquire, Add, Subscribe, Forward, Drained, StopRemote,
       Remove, Release, ClientGone, HearChild
  <2> QED BY <1>1, <2>1
<1> QED BY <1>1, <1>2, <1>3, NextSteps

LEMMA FeedNext == BaseInv /\ OrderInv /\ FinalInv /\ [Next]_vars => FeedStep
<1> SUFFICES ASSUME BaseInv, OrderInv, FinalInv, [Next]_vars PROVE FeedStep
  OBVIOUS
<1>0. TypeOK
  BY DEF BaseInv
<1>1. CASE UNCHANGED vars
  <2>1. driver' = driver /\ stream' = stream
    BY <1>1 DEF vars
  <2>2. Unseen
    BY <2>1 DEF Unseen, Open
  <2> QED BY <1>0, <2>1, <2>2, QuietTells, RunsAre, TellsFeed
<1>2. CASE Next
  <2>1. CASE Unseen
    BY <1>0, <1>2, <2>1, ElsewhereTells, TellsFeed
  <2>2. CASE \E s \in Streams : \/ Check(s) \/ Acquire(s) \/ Add(s) \/ Subscribe(s)
                                \/ Forward(s) \/ Drained(s) \/ StopRemote(s) \/ Remove(s) \/ Release(s)
                                \/ ClientGone(s)
    BY <2>2, HandlerFeed
  <2> QED BY <1>2, <2>1, <2>2, ElsewhereUnseen, NextSteps
<1> QED BY <1>1, <1>2

LEMMA FinalNext ==
  BaseInv /\ BaseInv' /\ OrderInv /\ FinalInv /\ [Next]_vars => FinalInv'
<1> SUFFICES ASSUME BaseInv, BaseInv', OrderInv, FinalInv, [Next]_vars PROVE FinalInv'
  OBVIOUS
<1>1. News
  BY OrderNext
<1>2. /\ \E r \in Runs : Tells(r)
      /\ \A t \in Runs : Ready(t) => Ready(t)'
  <2>1. CASE UNCHANGED vars
    BY <2>1, QuietTells, RunsAre DEF vars
  <2> QED BY <2>1, ElsewhereTells
<1> QED BY <1>1, <1>2, FinalStays

LEMMA FinalInit == Init => FinalInv
<1> SUFFICES ASSUME Init PROVE FinalInv
  OBVIOUS
<1>1. \A e \in Events : ~Known(e)
  BY NoneKnown
<1>2. \A r \in Runs : Ready(r)
  BY DEF Init, Ready
<1> QED BY <1>1, <1>2 DEF FinalInv

LEMMA FeedInit == Init => Feed!Init
<1> SUFFICES ASSUME Init PROVE Feed!Init
  OBVIOUS
<1>1. /\ \A r \in Runs : driver[r].seq = 0 /\ driver[r].pc \in {"run", "off"}
      /\ \A s \in Streams : stream[s].got = <<>> /\ stream[s].pc = "check" /\ stream[s].run \in Runs
  BY DEF Init
<1>2. [r \in Runs |-> driver[r].seq] = [r \in Runs |-> 0]
  BY <1>1
<1>3. {r \in Runs : Silent(r)} = {}
  BY <1>1 DEF Silent
<1>4. [s \in Streams |-> [run |-> stream[s].run, shown |-> stream[s].got, open |-> Open(s)]]
        \in [Streams -> [run: Runs, shown: {<<>>}, open: {TRUE}]]
  <2>1. \A s \in Streams : Open(s) = TRUE
    BY <1>1 DEF Open
  <2> QED BY <1>1, <2>1
<1> QED BY <1>2, <1>3, <1>4 DEF Feed!Init

\* EventStream implements LiveFeed: whichever of bus, relay and mirror brings
\* an event, on whichever process, and whatever they lose, drop or delay, what
\* the clients are shown is a feed of what the runs published.
THEOREM FeedRefined == Spec => ImplementsFeed
<1>1. BaseInv /\ OrderInv /\ FinalInv /\ [Next]_vars => [Feed!Next]_(Feed!feedVars)
  BY FeedNext DEF FeedStep
<1> QED
  BY <1>1, FeedInit, BaseInit, BaseNext, OrderInit, OrderNext, FinalInit, FinalNext, PTL
  DEF Spec, ImplementsFeed, Feed!Spec

-----------------------------------------------------------------------------
(* Who serves a team's tasks: TeamRuns, whose delegation the link above     *)
(* shows to the watchers.                                                  *)

CONSTANTS Agents, Roles, Teams, MaxTeams, MaxActive, MaxEdits, MaxDeaths
VARIABLES active, team, used

T == INSTANCE TeamRuns

\* A connection that is up has somebody at its other end.
Attended(t) ==
  server[t].open => task[t].pc = "waiting" /\ lead[task[t].lead].pc = "delegate"

\* The run of an orchestrator ends as its goroutine does, or after it.
Left(l) == run[l] \in {"completed", "failed", "cancelled"} => lead[l].pc = "gone"

TeamInv ==
  /\ T!TypeOK
  /\ \A t \in Tasks : Attended(t)
  /\ \A l \in Leads : Left(l)

\* What TeamRuns assumes of its constants.
TeamBounds ==
  /\ {MaxTeams, MaxActive, MaxEdits, MaxDeaths} \subseteq Nat
  /\ Leads \cap Tasks = {}
  /\ {} \notin {Agents, Roles, Teams, Leads}

LEMMA TeamTyped ==
  ASSUME T!TypeOK
  PROVE  /\ \A l \in Leads : /\ lead[l] \in T!LeadStates
                             /\ lead[l].pc \in T!LeadPCs /\ lead[l].team \in Teams
                             /\ lead[l].members \in T!Rosters /\ lead[l].cancelled \in BOOLEAN
         /\ \A t \in Tasks : /\ task[t] \in T!TaskStates /\ server[t] \in T!ServerStates
                             /\ task[t].lead \in Leads /\ server[t].open \in BOOLEAN
BY DEF T!TypeOK, T!LeadStates, T!TaskStates, T!ServerStates

\* What the statements and the small steps leave.
LEMMA StatusSet ==
  ASSUME T!TypeOK, NEW r \in Leads \cup Tasks, NEW s \in T!Statuses, T!SetStatus(r, s)
  PROVE  /\ run' \in [Leads \cup Tasks -> T!Statuses]
         /\ run'[r] = s /\ \A q \in Leads \cup Tasks : q # r => run'[q] = run[q]
BY DEF T!TypeOK, T!SetStatus

LEMMA LeadGoes ==
  ASSUME T!TypeOK, NEW l \in Leads, NEW p \in T!LeadPCs, lead' = [lead EXCEPT ![l].pc = p]
  PROVE  /\ lead' \in [Leads -> T!LeadStates]
         /\ lead'[l].pc = p /\ \A k \in Leads : k # l => lead'[k] = lead[k]
<1>1. PICK q \in T!LeadStates : q = lead[l]
  BY TeamTyped
<1>2. PICK z : z = [q EXCEPT !.pc = p]
  OBVIOUS
<1>3. z \in T!LeadStates /\ z.pc = p
  BY <1>2 DEF T!LeadStates
<1>4. lead' = [lead EXCEPT ![l] = z] /\ lead \in [Leads -> T!LeadStates]
  BY <1>1, <1>2 DEF T!TypeOK
<1> QED BY <1>3, <1>4

LEMMA ServerGoes ==
  ASSUME T!TypeOK, NEW t \in Tasks,
         NEW p \in {"verify", "check", "insert", "build", "engine", "gone"}, T!Step(t, p)
  PROVE  /\ server' \in [Tasks -> T!ServerStates]
         /\ \A x \in Tasks : server'[x].open = server[x].open
<1>1. PICK q \in T!ServerStates : q = server[t]
  BY TeamTyped
<1>2. PICK z : z = [q EXCEPT !.pc = p]
  OBVIOUS
<1>3. z \in T!ServerStates /\ z.open = q.open
  BY <1>2 DEF T!ServerStates
<1>4. server' = [server EXCEPT ![t] = z] /\ server \in [Tasks -> T!ServerStates]
  BY <1>1, <1>2 DEF T!TypeOK, T!Step
<1> QED BY <1>1, <1>3, <1>4

LEMMA ServerCut ==
  ASSUME T!TypeOK, NEW t \in Tasks, T!Cut(t)
  PROVE  /\ server' \in [Tasks -> T!ServerStates]
         /\ server'[t].open = FALSE /\ \A x \in Tasks : x # t => server'[x] = server[x]
<1>1. PICK q \in T!ServerStates : q = server[t]
  BY TeamTyped
<1>2. PICK z : z = [q EXCEPT !.open = FALSE]
  OBVIOUS
<1>3. z \in T!ServerStates /\ z.open = FALSE
  BY <1>2 DEF T!ServerStates
<1>4. server' = [server EXCEPT ![t] = z] /\ server \in [Tasks -> T!ServerStates]
  BY <1>1, <1>2 DEF T!TypeOK, T!Cut
<1> QED BY <1>3, <1>4

LEMMA TaskDone ==
  ASSUME T!TypeOK, NEW t \in Tasks, NEW r \in {"completed", "failed"}, T!Result(t, r)
  PROVE  /\ task' \in [Tasks -> T!TaskStates]
         /\ task'[t].lead = task[t].lead /\ \A x \in Tasks : x # t => task'[x] = task[x]
<1>1. PICK q \in T!TaskStates : q = task[t]
  BY TeamTyped
<1>2. PICK z : z = [q EXCEPT !.pc = "done", !.result = r]
  OBVIOUS
<1>3. z \in T!TaskStates /\ z.lead = q.lead
  BY <1>2 DEF T!TaskStates
<1>4. task' = [task EXCEPT ![t] = z] /\ task \in [Tasks -> T!TaskStates]
  BY <1>1, <1>2 DEF T!TypeOK, T!Result
<1> QED BY <1>1, <1>3, <1>4

LEMMA Replied ==
  ASSUME T!TypeOK, NEW t \in Tasks, NEW r \in {"completed", "failed"}, T!Reply(t, r)
  PROVE  /\ server' \in [Tasks -> T!ServerStates] /\ task' \in [Tasks -> T!TaskStates]
         /\ server'[t].open = FALSE
         /\ \A x \in Tasks : x # t => server'[x] = server[x] /\ task'[x] = task[x]
<1>1. server' = [server EXCEPT ![t] = [pc |-> "gone", open |-> FALSE]] /\ server \in [Tasks -> T!ServerStates]
  BY DEF T!Reply, T!TypeOK
<1>2. PICK z : z = [pc |-> "gone", open |-> FALSE]
  OBVIOUS
<1>3. z \in T!ServerStates /\ z.open = FALSE
  BY <1>2 DEF T!ServerStates
<1>4. task' \in [Tasks -> T!TaskStates] /\ \A x \in Tasks : x # t => task'[x] = task[x]
  <2>1. CASE T!Result(t, r)
    BY <2>1, TaskDone
  <2>2. CASE task' = task
    BY <2>2 DEF T!TypeOK
  <2> QED BY <2>1, <2>2 DEF T!Reply
<1> QED BY <1>1, <1>2, <1>3, <1>4

\* A step that puts nobody on the line and leaves those who are.
LEMMA AttendedStays ==
  ASSUME TeamInv,
         \A t \in Tasks : server'[t].open =>
           /\ server[t].open /\ task'[t] = task[t]
           /\ lead'[task[t].lead].pc = lead[task[t].lead].pc
  PROVE  \A t \in Tasks : Attended(t)'
BY DEF TeamInv, Attended

\* A goroutine that is gone stays so, and a run ends with it.
LEMMA LeftStays ==
  ASSUME TeamInv,
         \A l \in Leads :
           /\ lead[l].pc = "gone" => lead'[l].pc = "gone"
           /\ run'[l] = run[l] \/ run'[l] \in T!InFlightStatuses \/ lead'[l].pc = "gone"
  PROVE  \A l \in Leads : Left(l)'
BY DEF TeamInv, Left, T!InFlightStatuses

LEMMA TeamRowsInv ==
  ASSUME TeamBounds, TeamInv,
         \/ \E t \in Teams, a \in Agents, members \in T!Rosters : T!Create(t, a, members)
         \/ \E t \in Teams : T!Delete(t)
         \/ \E a \in Agents : T!DeleteAgent(a)
  PROVE  TeamInv'
<1>0. T!TypeOK /\ UNCHANGED <<run, lead, task, server>>
  BY DEF TeamInv, T!Create, T!Delete, T!DeleteAgent
<1>1. (\A t \in Tasks : Attended(t)') /\ \A l \in Leads : Left(l)'
  BY <1>0, AttendedStays, LeftStays
<1>2. CASE \E t \in Teams, a \in Agents, members \in T!Rosters : T!Create(t, a, members)
  <2>1. PICK t \in Teams, a \in Agents, members \in T!Rosters : T!Create(t, a, members)
    BY <1>2
  <2>2. PICK qs \in SUBSET (DOMAIN members), b \in BOOLEAN :
           T!InsertAgentTeam(t, a, T!InsertAgentTeamMember(members, qs), b)
    BY <2>1 DEF T!Create, T!InsertMembers
  <2>3. PICK rs \in SUBSET Roles : members \in [rs -> Agents]
    BY DEF T!Rosters
  <2>4. PICK m : m = T!InsertAgentTeamMember(members, qs)
    OBVIOUS
  <2>5. m \in [qs -> Agents] /\ qs \in SUBSET Roles
    BY <2>3, <2>4 DEF T!InsertAgentTeamMember, T!Restrict
  <2>6. m \in T!Rosters
    BY <2>5 DEF T!Rosters
  <2>7. PICK z : z = [there |-> TRUE, active |-> TRUE, orchestrator |-> a, members |-> m, workflow |-> b]
    OBVIOUS
  <2>8. z \in T!TeamRows
    BY <2>6, <2>7 DEF T!TeamRows
  <2>9. team' = [team EXCEPT ![t] = z]
    BY <2>2, <2>4, <2>7 DEF T!InsertAgentTeam
  <2>10. team' \in [Teams -> T!TeamRows \cup {T!NoTeam}]
    BY <1>0, <2>8, <2>9 DEF T!TypeOK
  <2>11. UNCHANGED <<active, used>>
    BY <2>1 DEF T!Create
  <2>12. T!TypeOK'
    BY <1>0, <2>10, <2>11 DEF T!TypeOK
  <2> QED BY <1>1, <2>12 DEF TeamInv
<1>3. ASSUME T!Edit PROVE used' \in [edits: 0 .. MaxEdits, deaths: 0 .. MaxDeaths]
  BY <1>0, <1>3 DEF T!TypeOK, T!Edit, TeamBounds
<1>4. CASE \E t \in Teams : T!Delete(t)
  <2>1. PICK t \in Teams : T!Delete(t)
    BY <1>4
  <2>2. T!Edit /\ team[t].there /\ team' = [team EXCEPT ![t].active = FALSE] /\ active' = active
    BY <2>1 DEF T!Delete, T!DeactivateAgentTeam, T!Live
  <2>3. team[t] \in T!TeamRows
    BY <1>0, <2>2 DEF T!TypeOK, T!NoTeam
  <2>4. PICK q \in T!TeamRows : q = team[t]
    BY <2>3
  <2>5. PICK z : z = [q EXCEPT !.active = FALSE]
    OBVIOUS
  <2>6. z \in T!TeamRows
    BY <2>5 DEF T!TeamRows
  <2>7. team' = [team EXCEPT ![t] = z]
    BY <2>2, <2>4, <2>5
  <2>8. team' \in [Teams -> T!TeamRows \cup {T!NoTeam}]
    BY <1>0, <2>6, <2>7 DEF T!TypeOK
  <2>9. T!TypeOK'
    BY <1>0, <1>3, <2>2, <2>8 DEF T!TypeOK
  <2> QED BY <1>1, <2>9 DEF TeamInv
<1>5. CASE \E a \in Agents : T!DeleteAgent(a)
  <2>1. T!Edit /\ team' = team /\ active' \subseteq Agents
    BY <1>0, <1>5 DEF T!DeleteAgent, T!TypeOK
  <2>2. T!TypeOK'
    BY <1>0, <1>3, <2>1 DEF T!TypeOK
  <2> QED BY <1>1, <2>2 DEF TeamInv
<1> QED BY <1>2, <1>4, <1>5

\* What an action on the runs leaves alone.
LEMMA TeamKept ==
  ASSUME TeamInv, UNCHANGED <<active, team>>
  PROVE  active' \subseteq Agents /\ team' \in [Teams -> T!TeamRows \cup {T!NoTeam}]
BY DEF TeamInv, T!TypeOK

LEMMA Typed ==
  ASSUME TeamInv, UNCHANGED <<active, team>>,
         run' \in [Leads \cup Tasks -> T!Statuses],
         lead' \in [Leads -> T!LeadStates],
         task' \in [Tasks -> T!TaskStates],
         server' \in [Tasks -> T!ServerStates],
         used' \in [edits: 0 .. MaxEdits, deaths: 0 .. MaxDeaths]
  PROVE  T!TypeOK'
BY TeamKept DEF T!TypeOK

LEMMA EndedStatus ==
  ASSUME NEW l \in Leads
  PROVE  T!Ended(l) \in T!Statuses
BY DEF T!Ended, T!Statuses

LEMMA RunReadInv ==
  ASSUME TeamInv, NEW l \in Leads, NEW t \in Teams, T!RunRead(l, t)
  PROVE  TeamInv'
<1>0. T!TypeOK /\ lead[l].pc = T!None /\ UNCHANGED <<active, team, run, task, server, used>>
  BY DEF TeamInv, T!RunRead
<1>1. team[t].there
  BY DEF T!RunRead, T!GetAgentTeam, T!Live
<1>2. team[t] \in T!TeamRows
  BY <1>0, <1>1 DEF T!TypeOK, T!NoTeam
<1>3. PICK m \in T!Rosters : m = team[t].members
  BY <1>2 DEF T!TeamRows
<1>4. PICK q \in T!LeadStates : q = lead[l]
  BY <1>0, TeamTyped
<1>5. PICK z : z = [q EXCEPT !.pc = "insert", !.team = t, !.members = m]
  OBVIOUS
<1>6. z \in T!LeadStates /\ z.pc = "insert"
  BY <1>5 DEF T!LeadStates, T!LeadPCs
<1>7. lead' = [lead EXCEPT ![l] = z]
  BY <1>3, <1>4, <1>5 DEF T!RunRead, T!ListAgentTeamMembers
<1>8. lead' \in [Leads -> T!LeadStates] /\ lead'[l].pc = "insert" /\ \A k \in Leads : k # l => lead'[k] = lead[k]
  BY <1>0, <1>6, <1>7 DEF T!TypeOK
<1>9. T!TypeOK'
  BY <1>0, <1>8 DEF T!TypeOK
<1>10. \A x \in Tasks : Attended(x)'
  <2>1. \A x \in Tasks : server[x].open => task[x].lead # l /\ task[x].lead \in Leads
    BY <1>0, TeamTyped DEF TeamInv, Attended, T!None
  <2> QED BY <2>1, <1>0, <1>8, AttendedStays
<1>11. \A k \in Leads : Left(k)'
  BY <1>0, <1>8, LeftStays DEF T!None
<1> QED BY <1>9, <1>10, <1>11 DEF TeamInv

\* The goroutine of l, which delegates nothing, goes on or goes away.
LEMMA LeadStepInv ==
  ASSUME TeamInv, NEW l \in Leads, NEW p \in T!LeadPCs \ {T!None}, NEW s \in T!Statuses,
         lead[l].pc \notin {"delegate", "gone"},
         lead' = [lead EXCEPT ![l].pc = p], T!SetStatus(l, s),
         s \in T!InFlightStatuses \/ p = "gone",
         UNCHANGED <<active, team, task, server, used>>
  PROVE  TeamInv'
<1>0. T!TypeOK
  BY DEF TeamInv
<1>1. /\ lead' \in [Leads -> T!LeadStates]
      /\ lead'[l].pc = p /\ \A k \in Leads : k # l => lead'[k] = lead[k]
  BY <1>0, LeadGoes
<1>2. /\ run' \in [Leads \cup Tasks -> T!Statuses]
      /\ run'[l] = s /\ \A q \in Leads \cup Tasks : q # l => run'[q] = run[q]
  BY <1>0, StatusSet
<1>3. T!TypeOK'
  BY <1>0, <1>1, <1>2 DEF T!TypeOK
<1>4. \A x \in Tasks : Attended(x)'
  <2>1. \A x \in Tasks : server[x].open => task[x].lead # l /\ task[x].lead \in Leads
    BY <1>0, TeamTyped DEF TeamInv, Attended
  <2> QED BY <2>1, <1>1, AttendedStays
<1>5. \A k \in Leads : Left(k)'
  BY <1>1, <1>2, LeftStays
<1> QED BY <1>3, <1>4, <1>5 DEF TeamInv

LEMMA StartInv ==
  ASSUME TeamInv, NEW l \in Leads, T!RunInsert(l) \/ T!Build(l)
  PROVE  TeamInv'
<1>1. CASE T!RunInsert(l)
  <2>1. T!SetStatus(l, "pending") /\ lead' = [lead EXCEPT ![l].pc = "build"] /\ lead[l].pc = "insert"
        /\ UNCHANGED <<active, team, task, server, used>>
    BY <1>1 DEF T!RunInsert
  <2> QED BY <2>1, LeadStepInv DEF T!LeadPCs, T!None, T!Statuses, T!InFlightStatuses
<1>2. CASE T!Build(l)
  <2>1. lead[l].pc = "build" /\ UNCHANGED <<active, team, task, server, used>>
    BY <1>2 DEF T!Build
  <2>2. CASE T!SetStatus(l, "failed") /\ T!Leave(l)
    BY <2>1, <2>2, LeadStepInv DEF T!Leave, T!LeadPCs, T!None, T!Statuses
  <2>3. CASE T!SetStatus(l, "running") /\ lead' = [lead EXCEPT ![l].pc = "decompose"]
    BY <2>1, <2>3, LeadStepInv DEF T!LeadPCs, T!None, T!Statuses, T!InFlightStatuses
  <2> QED BY <1>2, <2>2, <2>3 DEF T!Build
<1> QED BY <1>1, <1>2

LEMMA DecomposeInv ==
  ASSUME TeamInv, NEW l \in Leads, T!Decompose(l)
  PROVE  TeamInv'
<1>0. T!TypeOK /\ lead[l].pc = "decompose" /\ UNCHANGED <<active, team, server, used>>
  BY DEF TeamInv, T!Decompose
<1>1. CASE T!SetStatus(l, T!Ended(l)) /\ T!Leave(l) /\ UNCHANGED task
  BY <1>0, <1>1, EndedStatus, LeadStepInv DEF T!Leave, T!LeadPCs, T!None
<1>2. CASE ~(T!SetStatus(l, T!Ended(l)) /\ T!Leave(l) /\ UNCHANGED task)
  <2>1. /\ lead' = [lead EXCEPT ![l].pc = "delegate"] /\ UNCHANGED run
        /\ \E ts \in (SUBSET {t \in Tasks : task[t].pc = T!None}) \ {{}} :
             \E role \in [ts -> DOMAIN lead[l].members] : T!decomposeTask(l, ts, role)
    BY <1>2 DEF T!Decompose
  <2>13. PICK ts \in SUBSET {t \in Tasks : task[t].pc = T!None} :
           \E role \in [ts -> DOMAIN lead[l].members] : T!decomposeTask(l, ts, role)
    BY <2>1
  <2>2. PICK role \in [ts -> DOMAIN lead[l].members] : T!decomposeTask(l, ts, role)
    BY <2>13
  <2>3. /\ lead' \in [Leads -> T!LeadStates]
        /\ lead'[l].pc = "delegate" /\ \A k \in Leads : k # l => lead'[k] = lead[k]
    BY <1>0, <2>1, LeadGoes DEF T!LeadPCs
  <2>4. PICK m \in T!Rosters : m = lead[l].members
    BY <1>0, TeamTyped
  <2>5. PICK rs \in SUBSET Roles : m \in [rs -> Agents]
    BY DEF T!Rosters
  <2>6. \A t \in ts : role[t] \in Roles /\ m[role[t]] \in Agents
    BY <2>2, <2>4, <2>5
  <2>7. task' = [t \in Tasks |->
           IF t \in ts THEN [pc |-> "planned", lead |-> l, role |-> role[t], agent |-> m[role[t]], result |-> T!None]
           ELSE task[t]]
    BY <2>2, <2>4 DEF T!decomposeTask, T!memberForRole
  <2>8. \A t \in ts : [pc |-> "planned", lead |-> l, role |-> role[t], agent |-> m[role[t]], result |-> T!None] \in T!TaskStates
    BY <2>6 DEF T!TaskStates, T!None
  <2>9. task' \in [Tasks -> T!TaskStates]
    BY <1>0, <2>7, <2>8, TeamTyped
  <2>10. T!TypeOK'
    BY <1>0, <2>1, <2>3, <2>9 DEF T!TypeOK
  <2>11. \A x \in Tasks : Attended(x)'
    <3>1. \A x \in Tasks : server[x].open => task[x].lead # l /\ task[x].lead \in Leads /\ x \notin ts
      BY <1>0, TeamTyped DEF TeamInv, Attended, T!None
    <3>2. \A x \in Tasks : x \notin ts => task'[x] = task[x]
      BY <2>7
    <3> QED BY <3>1, <3>2, <1>0, <2>3, AttendedStays
  <2>12. \A k \in Leads : Left(k)'
    BY <1>0, <2>1, <2>3, LeftStays
  <2> QED BY <2>10, <2>11, <2>12 DEF TeamInv
<1> QED BY <1>1, <1>2

LEMMA SynthesizeInv ==
  ASSUME TeamInv, NEW l \in Leads, T!Synthesize(l)
  PROVE  TeamInv'
<1>0. T!TypeOK /\ UNCHANGED <<active, team, task, server, used>>
  BY DEF TeamInv, T!Synthesize
<1>1. PICK s \in T!Statuses : T!SetStatus(l, s)
  BY EndedStatus DEF T!Synthesize, T!Statuses
<1>2. /\ run' \in [Leads \cup Tasks -> T!Statuses]
      /\ \A q \in Leads \cup Tasks : q # l => run'[q] = run[q]
  BY <1>0, <1>1, StatusSet
<1>3. /\ lead' \in [Leads -> T!LeadStates]
      /\ lead'[l].pc = "gone" /\ \A k \in Leads : k # l => lead'[k] = lead[k]
  BY <1>0, LeadGoes DEF T!Synthesize, T!Leave, T!LeadPCs
<1>4. T!TypeOK'
  BY <1>0, <1>2, <1>3 DEF T!TypeOK
<1>5. \A x \in Tasks : Attended(x)'
  <2>1. \A x \in Tasks : server[x].open => task[x].lead # l /\ task[x].lead \in Leads
    <3>1. SUFFICES ASSUME NEW x \in Tasks, server[x].open, task[x].lead = l PROVE FALSE
      BY <1>0, TeamTyped
    <3>2. task[x].pc = "waiting"
      BY <3>1 DEF TeamInv, Attended
    <3>3. x \in T!Plan(l)
      BY <3>1, <3>2 DEF T!Plan, T!None
    <3> QED BY <3>2, <3>3 DEF T!Synthesize, T!AllAnswered
  <2> QED BY <2>1, <1>0, <1>3, AttendedStays
<1>6. \A k \in Leads : Left(k)'
  BY <1>2, <1>3, LeftStays
<1> QED BY <1>4, <1>5, <1>6 DEF TeamInv

\* Every connection of l's tasks is cut.
LEMMA PlanCut ==
  ASSUME TeamInv, NEW l \in Leads,
         server' = [t \in Tasks |-> IF t \in T!Plan(l) THEN [server[t] EXCEPT !.open = FALSE] ELSE server[t]]
  PROVE  /\ server' \in [Tasks -> T!ServerStates]
         /\ \A x \in Tasks : server'[x].open => server[x].open /\ task[x].lead # l
<1>1. \A q \in T!ServerStates : [q EXCEPT !.open = FALSE] \in T!ServerStates /\ [q EXCEPT !.open = FALSE].open = FALSE
  <2>1. SUFFICES ASSUME NEW q \in T!ServerStates, NEW z, z = [q EXCEPT !.open = FALSE]
                 PROVE  z \in T!ServerStates /\ z.open = FALSE
    OBVIOUS
  <2> QED BY <2>1 DEF T!ServerStates
<1>2. \A x \in Tasks : server[x] \in T!ServerStates
  BY TeamTyped DEF TeamInv
<1>3. \A x \in Tasks : x \in T!Plan(l) => server'[x] \in T!ServerStates /\ server'[x].open = FALSE
  BY <1>1, <1>2
<1>4. \A x \in Tasks : x \notin T!Plan(l) => server'[x] = server[x]
  OBVIOUS
<1>5. server' \in [Tasks -> T!ServerStates]
  BY <1>2, <1>3, <1>4
<1>6. ASSUME NEW x \in Tasks, server'[x].open PROVE server[x].open /\ task[x].lead # l
  <2>1. x \notin T!Plan(l) /\ server[x].open
    BY <1>3, <1>4, <1>6
  <2>2. task[x].pc = "waiting"
    BY <2>1 DEF TeamInv, Attended
  <2> QED BY <2>1, <2>2 DEF T!Plan, T!None
<1> QED BY <1>5, <1>6

LEMMA CancelInv ==
  ASSUME TeamBounds, TeamInv, NEW l \in Leads, T!Cancel(l)
  PROVE  TeamInv'
<1>0. T!TypeOK /\ UNCHANGED <<active, team, run>>
  BY DEF TeamInv, T!Cancel
<1>1. PICK q \in T!LeadStates : q = lead[l]
  BY <1>0, TeamTyped
<1>2. PICK z : z = [q EXCEPT !.cancelled = TRUE]
  OBVIOUS
<1>3. z \in T!LeadStates /\ z.pc = q.pc
  BY <1>2 DEF T!LeadStates
<1>4. lead' = [lead EXCEPT ![l] = z]
  BY <1>1, <1>2 DEF T!Cancel
<1>5. lead' \in [Leads -> T!LeadStates] /\ \A k \in Leads : lead'[k].pc = lead[k].pc
  BY <1>0, <1>1, <1>3, <1>4 DEF T!TypeOK
<1>6. /\ server' \in [Tasks -> T!ServerStates]
      /\ \A x \in Tasks : server'[x].open => server[x].open /\ task[x].lead # l
  BY PlanCut DEF T!Cancel
<1>7. \A y \in T!TaskStates : [y EXCEPT !.pc = "done", !.result = "failed"] \in T!TaskStates
  <2>1. SUFFICES ASSUME NEW y \in T!TaskStates, NEW w, w = [y EXCEPT !.pc = "done", !.result = "failed"]
                 PROVE  w \in T!TaskStates
    OBVIOUS
  <2> QED BY <2>1 DEF T!TaskStates
<1>8. \A x \in Tasks : task[x] \in T!TaskStates
  BY <1>0, TeamTyped
<1>9. task' \in [Tasks -> T!TaskStates]
  BY <1>7, <1>8 DEF T!Cancel
<1>10. used' \in [edits: 0 .. MaxEdits, deaths: 0 .. MaxDeaths]
  <2>1. T!Edit
    BY DEF T!Cancel
  <2> QED BY <1>0, <2>1 DEF T!TypeOK, T!Edit, TeamBounds
<1>11. T!TypeOK'
  BY <1>0, <1>5, <1>6, <1>9, <1>10 DEF T!TypeOK
<1>12. \A x \in Tasks : Attended(x)'
  <2>1. \A x \in Tasks : task[x].lead # l => task'[x] = task[x]
    BY DEF T!Cancel, T!Plan
  <2>2. \A x \in Tasks : task[x].lead \in Leads
    BY <1>0, TeamTyped
  <2> QED BY <2>1, <2>2, <1>5, <1>6, AttendedStays
<1>13. \A k \in Leads : Left(k)'
  BY <1>0, <1>5, LeftStays
<1> QED BY <1>11, <1>12, <1>13 DEF TeamInv

LEMMA LeadDiesInv ==
  ASSUME TeamBounds, TeamInv, NEW l \in Leads, T!LeadDies(l)
  PROVE  TeamInv'
<1>0. T!TypeOK /\ UNCHANGED <<active, team, run, task>>
  BY DEF TeamInv, T!LeadDies
<1>1. /\ lead' \in [Leads -> T!LeadStates]
      /\ lead'[l].pc = "gone" /\ \A k \in Leads : k # l => lead'[k] = lead[k]
  BY <1>0, LeadGoes DEF T!LeadDies, T!Leave, T!LeadPCs
<1>2. /\ server' \in [Tasks -> T!ServerStates]
      /\ \A x \in Tasks : server'[x].open => server[x].open /\ task[x].lead # l
  BY PlanCut DEF T!LeadDies
<1>3. used' \in [edits: 0 .. MaxEdits, deaths: 0 .. MaxDeaths]
  BY <1>0 DEF T!TypeOK, T!LeadDies, T!Dies, TeamBounds
<1>4. T!TypeOK'
  BY <1>0, <1>1, <1>2, <1>3 DEF T!TypeOK
<1>5. \A x \in Tasks : Attended(x)'
  <2>1. \A x \in Tasks : task[x].lead \in Leads
    BY <1>0, TeamTyped
  <2> QED BY <2>1, <1>0, <1>1, <1>2, AttendedStays
<1>6. \A k \in Leads : Left(k)'
  BY <1>0, <1>1, LeftStays
<1> QED BY <1>4, <1>5, <1>6 DEF TeamInv

\* A request goes on or answers; whoever is on another line is not disturbed.
LEMMA ServeStepInv ==
  ASSUME TeamBounds, TeamInv, NEW t \in Tasks, NEW s \in T!Statuses,
         run' = run \/ T!SetStatus(t, s),
         \/ \E p \in {"check", "insert", "build", "engine"} : T!Step(t, p) /\ UNCHANGED task
         \/ \E r \in {"completed", "failed"} : T!Reply(t, r),
         UNCHANGED <<active, team, lead, used>>
  PROVE  TeamInv'
<1>0. T!TypeOK
  BY DEF TeamInv
<1>1. run' \in [Leads \cup Tasks -> T!Statuses] /\ \A l \in Leads : run'[l] = run[l]
  <2>1. CASE run' = run
    BY <1>0, <2>1 DEF T!TypeOK
  <2>2. CASE T!SetStatus(t, s)
    <3>1. \A l \in Leads : l # t
      BY DEF TeamBounds
    <3> QED BY <1>0, <2>2, <3>1, StatusSet
  <2> QED BY <2>1, <2>2
<1>2. /\ server' \in [Tasks -> T!ServerStates] /\ task' \in [Tasks -> T!TaskStates]
      /\ \A x \in Tasks : server'[x].open => server[x].open /\ task'[x] = task[x]
  <2>1. CASE \E p \in {"check", "insert", "build", "engine"} : T!Step(t, p) /\ UNCHANGED task
    <3>1. PICK p \in {"check", "insert", "build", "engine"} : T!Step(t, p) /\ UNCHANGED task
      BY <2>1
    <3>2. server' \in [Tasks -> T!ServerStates] /\ \A x \in Tasks : server'[x].open = server[x].open
      BY <1>0, <3>1, ServerGoes
    <3> QED BY <1>0, <3>1, <3>2 DEF T!TypeOK
  <2>2. CASE \E r \in {"completed", "failed"} : T!Reply(t, r)
    <3>1. PICK r \in {"completed", "failed"} : T!Reply(t, r)
      BY <2>2
    <3>2. /\ server' \in [Tasks -> T!ServerStates] /\ task' \in [Tasks -> T!TaskStates]
          /\ server'[t].open = FALSE
          /\ \A x \in Tasks : x # t => server'[x] = server[x] /\ task'[x] = task[x]
      BY <1>0, <3>1, Replied
    <3> QED BY <3>2
  <2> QED BY <2>1, <2>2
<1>3. T!TypeOK'
  BY <1>0, <1>1, <1>2 DEF T!TypeOK
<1>4. \A x \in Tasks : Attended(x)'
  BY <1>2, AttendedStays
<1>5. \A k \in Leads : Left(k)'
  BY <1>1, LeftStays
<1> QED BY <1>3, <1>4, <1>5 DEF TeamInv

LEMMA ServeInv ==
  ASSUME TeamBounds, TeamInv, NEW t \in Tasks, T!Serve(t)
  PROVE  TeamInv'
<1>s. {"completed", "failed", "cancelled", "pending", "running", "awaiting_approval"} \subseteq T!Statuses
  BY DEF T!Statuses, T!InFlightStatuses
<1>1. CASE T!Verify(t)
  <2>1. \/ \E p \in {"check", "insert", "build", "engine"} : T!Step(t, p) /\ UNCHANGED task
        \/ \E r \in {"completed", "failed"} : T!Reply(t, r)
    BY <1>1 DEF T!Verify
  <2>2. run' = run /\ UNCHANGED <<active, team, lead, used>>
    BY <1>1 DEF T!Verify
  <2> QED BY <1>s, <2>1, <2>2, ServeStepInv
<1>2. CASE T!Check(t)
  <2>1. \/ \E p \in {"check", "insert", "build", "engine"} : T!Step(t, p) /\ UNCHANGED task
        \/ \E r \in {"completed", "failed"} : T!Reply(t, r)
    BY <1>2 DEF T!Check
  <2>2. run' = run /\ UNCHANGED <<active, team, lead, used>>
    BY <1>2 DEF T!Check
  <2> QED BY <1>s, <2>1, <2>2, ServeStepInv
<1>3. CASE T!Insert(t)
  <2>1. \/ \E p \in {"check", "insert", "build", "engine"} : T!Step(t, p) /\ UNCHANGED task
        \/ \E r \in {"completed", "failed"} : T!Reply(t, r)
    BY <1>3 DEF T!Insert
  <2>2. (run' = run \/ T!SetStatus(t, "pending")) /\ UNCHANGED <<active, team, lead, used>>
    BY <1>3 DEF T!Insert
  <2> QED BY <1>s, <2>1, <2>2, ServeStepInv
<1>4. CASE T!StartSpecialist(t)
  <2>1. \/ \E p \in {"check", "insert", "build", "engine"} : T!Step(t, p) /\ UNCHANGED task
        \/ \E r \in {"completed", "failed"} : T!Reply(t, r)
    BY <1>4 DEF T!StartSpecialist
  <2>2. (run' = run \/ T!SetStatus(t, "running")) /\ UNCHANGED <<active, team, lead, used>>
    BY <1>4 DEF T!StartSpecialist
  <2> QED BY <1>s, <2>1, <2>2, ServeStepInv
<1>5. CASE T!RunSpecialist(t)
  <2>1. \E r \in {"completed", "failed"} : T!Reply(t, r)
    BY <1>5 DEF T!RunSpecialist
  <2>2. UNCHANGED <<active, team, lead, used>>
    BY <1>5 DEF T!RunSpecialist
  <2>3. PICK s \in {"completed", "awaiting_approval", "failed", "cancelled"} : T!SetStatus(t, s)
    BY <1>5 DEF T!RunSpecialist
  <2> QED BY <1>s, <2>1, <2>2, <2>3, ServeStepInv
<1> QED BY <1>1, <1>2, <1>3, <1>4, <1>5 DEF T!Serve

LEMMA DispatchInv ==
  ASSUME TeamInv, NEW t \in Tasks, T!Dispatch(t)
  PROVE  TeamInv'
<1>0. /\ T!TypeOK /\ UNCHANGED <<active, team, run, lead, used>>
      /\ task[t].pc = "planned" /\ lead[task[t].lead].pc = "delegate"
  BY DEF TeamInv, T!Dispatch, T!Delegating
<1>1. ~server[t].open
  BY <1>0 DEF TeamInv, Attended
<1>2. \A k \in Leads : Left(k)'
  BY <1>0, LeftStays
<1>3. CASE lead[task[t].lead].cancelled
  <2>1. T!Result(t, "failed") /\ UNCHANGED server
    BY <1>3 DEF T!Dispatch
  <2>2. task' \in [Tasks -> T!TaskStates] /\ \A x \in Tasks : x # t => task'[x] = task[x]
    BY <1>0, <2>1, TaskDone
  <2>3. T!TypeOK'
    BY <1>0, <2>1, <2>2 DEF T!TypeOK
  <2>4. \A x \in Tasks : Attended(x)'
    BY <1>0, <1>1, <2>1, <2>2, AttendedStays
  <2> QED BY <1>2, <2>3, <2>4 DEF TeamInv
<1>4. CASE ~lead[task[t].lead].cancelled
  <2>1. /\ task' = [task EXCEPT ![t].pc = "waiting"]
        /\ server' = [server EXCEPT ![t] = [pc |-> "verify", open |-> TRUE]]
    BY <1>4 DEF T!Dispatch
  <2>2. PICK q \in T!TaskStates : q = task[t]
    BY <1>0, TeamTyped
  <2>3. PICK z : z = [q EXCEPT !.pc = "waiting"]
    OBVIOUS
  <2>4. z \in T!TaskStates /\ z.pc = "waiting" /\ z.lead = q.lead
    BY <2>3 DEF T!TaskStates
  <2>5. task' = [task EXCEPT ![t] = z]
    BY <2>1, <2>2, <2>3
  <2>6. task' \in [Tasks -> T!TaskStates] /\ task'[t] = z /\ \A x \in Tasks : x # t => task'[x] = task[x]
    BY <1>0, <2>4, <2>5 DEF T!TypeOK
  <2>7. PICK y : y = [pc |-> "verify", open |-> TRUE]
    OBVIOUS
  <2>8. y \in T!ServerStates
    BY <2>7 DEF T!ServerStates
  <2>9. server' \in [Tasks -> T!ServerStates] /\ \A x \in Tasks : x # t => server'[x] = server[x]
    BY <1>0, <2>1, <2>7, <2>8 DEF T!TypeOK
  <2>10. T!TypeOK'
    BY <1>0, <2>6, <2>9 DEF T!TypeOK
  <2>11. ASSUME NEW x \in Tasks PROVE Attended(x)'
    <3>1. CASE x = t
      BY <1>0, <2>2, <2>4, <2>6, <3>1 DEF Attended
    <3>2. CASE x # t
      BY <1>0, <2>6, <2>9, <3>2 DEF TeamInv, Attended
    <3> QED BY <3>1, <3>2
  <2> QED BY <1>2, <2>10, <2>11 DEF TeamInv
<1> QED BY <1>3, <1>4

LEMMA GiveUpInv ==
  ASSUME TeamInv, NEW t \in Tasks, T!GiveUp(t)
  PROVE  TeamInv'
<1>0. T!TypeOK /\ T!Result(t, "failed") /\ T!Cut(t) /\ UNCHANGED <<active, team, run, lead, used>>
  BY DEF TeamInv, T!GiveUp
<1>1. task' \in [Tasks -> T!TaskStates] /\ \A x \in Tasks : x # t => task'[x] = task[x]
  BY <1>0, TaskDone
<1>2. /\ server' \in [Tasks -> T!ServerStates]
      /\ server'[t].open = FALSE /\ \A x \in Tasks : x # t => server'[x] = server[x]
  BY <1>0, ServerCut
<1>3. T!TypeOK'
  BY <1>0, <1>1, <1>2 DEF T!TypeOK
<1>4. \A x \in Tasks : Attended(x)'
  BY <1>0, <1>1, <1>2, AttendedStays
<1>5. \A k \in Leads : Left(k)'
  BY <1>0, LeftStays
<1> QED BY <1>3, <1>4, <1>5 DEF TeamInv

LEMMA ServerDiesInv ==
  ASSUME TeamBounds, TeamInv, NEW t \in Tasks, T!ServerDies(t)
  PROVE  TeamInv'
<1>0. T!TypeOK /\ UNCHANGED <<active, team, run, lead, task>>
  BY DEF TeamInv, T!ServerDies
<1>1. PICK z : z = [pc |-> "gone", open |-> FALSE]
  OBVIOUS
<1>2. z \in T!ServerStates /\ z.open = FALSE
  BY <1>1 DEF T!ServerStates
<1>3. server' = [server EXCEPT ![t] = z]
  BY <1>1 DEF T!ServerDies
<1>4. /\ server' \in [Tasks -> T!ServerStates]
      /\ server'[t].open = FALSE /\ \A x \in Tasks : x # t => server'[x] = server[x]
  BY <1>0, <1>2, <1>3 DEF T!TypeOK
<1>5. used' \in [edits: 0 .. MaxEdits, deaths: 0 .. MaxDeaths]
  BY <1>0 DEF T!TypeOK, T!ServerDies, T!Dies, TeamBounds
<1>6. T!TypeOK'
  BY <1>0, <1>4, <1>5 DEF T!TypeOK
<1>7. \A x \in Tasks : Attended(x)'
  BY <1>0, <1>4, AttendedStays
<1>8. \A k \in Leads : Left(k)'
  BY <1>0, LeftStays
<1> QED BY <1>6, <1>7, <1>8 DEF TeamInv

\* A row that changes after its goroutine or its request is gone.
LEMMA LateInv ==
  ASSUME TeamBounds, TeamInv,
         (\E t \in Tasks : T!Decide(t)) \/ \E r \in Leads \cup Tasks : T!Reap(r)
  PROVE  TeamInv'
<1>0. T!TypeOK /\ UNCHANGED <<active, team, lead, task, server, used>>
  BY DEF TeamInv, T!Decide, T!Reap
<1>1. PICK r \in Leads \cup Tasks, s \in T!Statuses : T!SetStatus(r, s) /\ (r \in Leads => lead[r].pc = "gone")
  <2>1. CASE \E t \in Tasks : T!Decide(t)
    <3>1. PICK t \in Tasks : T!Decide(t)
      BY <2>1
    <3>2. PICK s \in {"completed", "failed"} : T!SetStatus(t, s)
      BY <3>1 DEF T!Decide
    <3>3. t \notin Leads /\ s \in T!Statuses
      BY DEF TeamBounds, T!Statuses
    <3> QED BY <3>2, <3>3
  <2>2. CASE \E r \in Leads \cup Tasks : T!Reap(r)
    <3>1. PICK r \in Leads \cup Tasks : T!Reap(r)
      BY <2>2
    <3>2. T!SetStatus(r, "failed") /\ "failed" \in T!Statuses
      BY <3>1 DEF T!Reap, T!Statuses
    <3>3. r \in Leads => lead[r].pc = "gone"
      BY <3>1 DEF T!Reap, T!Reapable, T!Undriven
    <3> QED BY <3>2, <3>3
  <2> QED BY <2>1, <2>2
<1>2. /\ run' \in [Leads \cup Tasks -> T!Statuses]
      /\ \A q \in Leads \cup Tasks : q # r => run'[q] = run[q]
  BY <1>0, <1>1, StatusSet
<1>3. T!TypeOK'
  BY <1>0, <1>2 DEF T!TypeOK
<1>4. \A x \in Tasks : Attended(x)'
  BY <1>0, AttendedStays
<1>5. \A k \in Leads : Left(k)'
  BY <1>0, <1>1, <1>2, LeftStays
<1> QED BY <1>3, <1>4, <1>5 DEF TeamInv

LEMMA TeamStepInv ==
  ASSUME TeamBounds, TeamInv, [T!Next]_(T!vars)
  PROVE  TeamInv'
<1>1. CASE \/ \E t \in Teams, a \in Agents, members \in T!Rosters : T!Create(t, a, members)
           \/ \E t \in Teams : T!Delete(t)
           \/ \E a \in Agents : T!DeleteAgent(a)
  BY <1>1, TeamRowsInv
<1>2. ASSUME NEW l \in Leads, T!Lead(l) PROVE TeamInv'
  BY <1>2, StartInv, DecomposeInv, SynthesizeInv DEF T!Lead
<1>3. CASE \/ \E t \in Teams : \E l \in Leads : T!RunRead(l, t)
           \/ \E l \in Leads : T!Lead(l) \/ T!Cancel(l) \/ T!LeadDies(l)
  BY <1>2, <1>3, RunReadInv, CancelInv, LeadDiesInv
<1>4. CASE \/ \E t \in Tasks : T!Dispatch(t) \/ T!GiveUp(t) \/ T!Serve(t) \/ T!Decide(t) \/ T!ServerDies(t)
           \/ \E r \in Leads \cup Tasks : T!Reap(r)
  BY <1>4, DispatchInv, GiveUpInv, ServeInv, ServerDiesInv, LateInv
<1>5. CASE UNCHANGED T!vars
  BY <1>5 DEF TeamInv, T!vars, T!TypeOK, Attended, Left
<1> QED BY <1>1, <1>3, <1>4, <1>5 DEF T!Next

LEMMA TeamInit ==
  ASSUME TeamBounds, T!Init
  PROVE  TeamInv
<1>1. /\ active = Agents /\ team = [t \in Teams |-> T!NoTeam]
      /\ run = [r \in Leads \cup Tasks |-> T!None]
      /\ used = [edits |-> 0, deaths |-> 0]
  BY DEF T!Init
<1>2. PICK e : e = [q \in {} |-> T!None]
  OBVIOUS
<1>3. e \in T!Rosters
  <2>1. e \in [{} -> Agents]
    BY <1>2
  <2>2. \A rs \in SUBSET Roles : \A m \in [rs -> Agents] : m \in T!Rosters
    BY DEF T!Rosters
  <2> QED BY <2>1, <2>2
<1>4. PICK z : z = [pc |-> T!None, team |-> CHOOSE t \in Teams : TRUE, members |-> e, cancelled |-> FALSE]
  OBVIOUS
<1>5. (CHOOSE t \in Teams : TRUE) \in Teams
  BY DEF TeamBounds
<1>6. z \in T!LeadStates /\ z.pc = T!None
  BY <1>3, <1>4, <1>5 DEF T!LeadStates, T!LeadPCs
<1>7. lead = [l \in Leads |-> z]
  BY <1>2, <1>4 DEF T!Init
<1>8. PICK y : y = [pc |-> T!None, lead |-> CHOOSE l \in Leads : TRUE, role |-> CHOOSE q \in Roles : TRUE,
                    agent |-> CHOOSE a \in Agents : TRUE, result |-> T!None]
  OBVIOUS
<1>9. (CHOOSE l \in Leads : TRUE) \in Leads /\ (CHOOSE q \in Roles : TRUE) \in Roles /\ (CHOOSE a \in Agents : TRUE) \in Agents
  BY DEF TeamBounds
<1>10. y \in T!TaskStates
  BY <1>8, <1>9 DEF T!TaskStates
<1>11. task = [t \in Tasks |-> y]
  BY <1>8 DEF T!Init
<1>12. PICK w : w = [pc |-> T!None, open |-> FALSE]
  OBVIOUS
<1>13. w \in T!ServerStates /\ w.open = FALSE
  BY <1>12 DEF T!ServerStates
<1>14. server = [x \in Tasks |-> w]
  BY <1>12 DEF T!Init
<1>15. /\ lead \in [Leads -> T!LeadStates] /\ task \in [Tasks -> T!TaskStates]
       /\ server \in [Tasks -> T!ServerStates]
  BY <1>6, <1>7, <1>10, <1>11, <1>13, <1>14
<1>16. run \in [Leads \cup Tasks -> T!Statuses] /\ used \in [edits: 0 .. MaxEdits, deaths: 0 .. MaxDeaths]
  BY <1>1 DEF T!Statuses, TeamBounds
<1>17. T!TypeOK
  BY <1>1, <1>15, <1>16 DEF T!TypeOK
<1>18. \A t \in Tasks : Attended(t)
  BY <1>13, <1>14 DEF Attended
<1>19. \A l \in Leads : Left(l)
  BY <1>1 DEF Left, T!None
<1> QED BY <1>17, <1>18, <1>19 DEF TeamInv

\* When a team's run is over, whatever ended it, no request serves one of its
\* tasks with somebody on the line: for any teams, runs and tasks, and any
\* number of edits, cancels and deaths on either side.
THEOREM ServedSafe ==
  ASSUME TeamBounds
  PROVE  T!Spec => []NoneServedAfterTheEnd
<1>1. TeamInv => NoneServedAfterTheEnd
  BY DEF TeamInv, Attended, Left, NoneServedAfterTheEnd, Plan
<1>2. T!Init => TeamInv
  BY TeamInit
<1>3. TeamInv /\ [T!Next]_(T!vars) => TeamInv'
  BY TeamStepInv
<1> QED BY <1>1, <1>2, <1>3, PTL DEF T!Spec
=============================================================================
