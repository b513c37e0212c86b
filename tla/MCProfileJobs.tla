------------------------------ MODULE MCProfileJobs -----------------------------
EXTENDS ProfileJobs, TLC

CONSTANTS j1, j2

\* Two requests with one intent, and two of different intents.
SameIntent == (j1 :> "a") @@ (j2 :> "a")
TwoIntents == (j1 :> "a") @@ (j2 :> "b")

\* Workers are interchangeable, and so are jobs of one intent.
Symmetry == Permutations(Workers) \cup Permutations(Jobs)
================================================================================
