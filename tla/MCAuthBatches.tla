------------------------------ MODULE MCAuthBatches -----------------------------
EXTENDS AuthBatches, TLC

CONSTANTS s1, s2

TwoTries == [k \in Secrets |-> 2]

\* Requests, workers and the reaper loop are sessions alike.
Symmetry == Permutations(Sessions)
================================================================================
