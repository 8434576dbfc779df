-------------------------- MODULE StreamRefinement ---------------------------
(* EventStream implements LiveFeed.  What waits in a stream's channel has    *)
(* not been shown: a stream that stops leaves it unread.                     *)
EXTENDS MCEventStream

\* The goroutine of run r publishes nothing more.
Silent(r) ==
  \/ driver[r].pc = "done"
  \/ driver[r].pc \in {"deliver", "mirror"} /\ driver[r].then = "done"

Open(s) == stream[s].pc \in {"check", "acquire", "add", "sub", "live"}

Feed == INSTANCE LiveFeed WITH
  Mirrors   <- IF Team THEN {<<Parent, Child>>} ELSE {},
  published <- [r \in Runs |-> driver[r].seq],
  silent    <- {r \in Runs : Silent(r)},
  watch     <- [s \in Streams |->
                  [run |-> stream[s].run, shown |-> stream[s].got, open |-> Open(s)]]

\* Whatever way an event took to a client - the bus, the relay, the mirror on
\* either side - and whatever was lost or dropped on it, each thing the client
\* sees happen is a step of the feed: no event is made up, shown twice or out
\* of its run's order, a last one is the run's last, and a stream that ended
\* shows nothing more (Publish, relayOut, mirrorEvent, Stream).
ImplementsFeed == Feed!Spec
=============================================================================
