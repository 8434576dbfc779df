--------------------------- MODULE MCEventStream ----------------------------
(* Small instances of EventStream for TLC. *)
EXTENDS EventStream, TLC

\* Processes are interchangeable, and so are streams: sound for the runs that
\* check no liveness.
Symmetry == Permutations(Insts) \cup Permutations(Streams)
=============================================================================
