------------------------------ MODULE MCPractice -----------------------------
EXTENDS Practice, TLC

CONSTANTS starter, growth

\* plans.go with its numbers scaled down.
SmallTiers == {starter, growth}
SmallIncluded == [t \in SmallTiers |-> IF t = starter THEN 1 ELSE 1]
SmallMaxClients == [t \in SmallTiers |-> IF t = starter THEN 1 ELSE 2]
SmallExtraPriced == {growth}

Symmetry == Permutations(Procs) \cup Permutations(Workspaces) \cup Permutations(Subscriptions)
=============================================================================
