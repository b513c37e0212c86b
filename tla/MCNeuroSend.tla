------------------------------- MODULE MCNeuroSend ------------------------------
EXTENDS NeuroSend, TLC

\* Requests are interchangeable, and so are workers.
Symmetry == Permutations(Requests) \cup Permutations(Workers)
================================================================================
