---------------------------- MODULE MCMembership -----------------------------
EXTENDS Membership, TLC

\* Nothing tells one person from another, the founder is any of them.
Symmetry == Permutations(People)
=============================================================================
