----------------------------- MODULE MCNeuroLimiter -----------------------------
EXTENDS NeuroLimiter, TLC

\* Senders are interchangeable.
Symmetry == Permutations(Senders)
================================================================================
