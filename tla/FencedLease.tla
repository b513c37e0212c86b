------------------------------ MODULE FencedLease ------------------------------
(***************************************************************************)
(* What the account lock promises to those who use it.  A process is       *)
(* outside, holds the lease, or has been deposed without knowing it.  A    *)
(* process writes only with a licence, and a licence is given to the       *)
(* holder alone.  A process that was licensed while it held the lease may  *)
(* still write after it was deposed: the licence is a comparison in one    *)
(* transaction and the write is a later one.                               *)
(***************************************************************************)
CONSTANT Owners

VARIABLES
  standing,  \* each process is "out", "holder" or "deposed"
  licensed,  \* the process may write without looking again
  lapsed     \* the lease was not renewed in time

vars == <<standing, licensed, lapsed>>

TypeOK ==
  /\ standing \in [Owners -> {"out", "holder", "deposed"}]
  /\ licensed \in [Owners -> BOOLEAN]
  /\ lapsed \in BOOLEAN

Init ==
  /\ standing = [o \in Owners |-> "out"]
  /\ licensed = [o \in Owners |-> FALSE]
  /\ lapsed = FALSE

Vacant == \A o \in Owners : standing[o] # "holder"

\* Every standing once the lease has been taken from whoever holds it.
Deposing == [o \in Owners |-> IF standing[o] = "holder" THEN "deposed" ELSE standing[o]]

\* A process outside is admitted; the lease must be vacant or lapsed.
Admit(o) ==
  /\ standing[o] = "out"
  /\ Vacant \/ lapsed
  /\ standing' = [Deposing EXCEPT ![o] = "holder"]
  /\ lapsed' = FALSE
  /\ UNCHANGED licensed

\* The holder, and nobody else, obtains a licence.
License(o) ==
  /\ standing[o] = "holder"
  /\ licensed' = [licensed EXCEPT ![o] = TRUE]
  /\ UNCHANGED <<standing, lapsed>>

\* A licensed write lands. It may renew the lease and may use up the licence.
Land(o) ==
  /\ licensed[o]
  /\ \E kept \in BOOLEAN : licensed' = [licensed EXCEPT ![o] = kept]
  /\ lapsed' \in {lapsed, FALSE}
  /\ UNCHANGED standing

\* A licensed process gives the lease back, whoever holds it by then.
GiveBack(o) ==
  /\ licensed[o]
  /\ standing' = [Deposing EXCEPT ![o] = "out"]
  /\ licensed' = [licensed EXCEPT ![o] = FALSE]
  /\ lapsed' = FALSE

\* A process stops using the lease without writing.
Leave(o) ==
  /\ standing' = [standing EXCEPT ![o] = "out"]
  /\ licensed' = [licensed EXCEPT ![o] = FALSE]
  /\ UNCHANGED lapsed

\* The outside world revokes the lease, renews it, or lets it lapse.
Revoke == standing' = Deposing /\ lapsed' = FALSE /\ UNCHANGED licensed
Renew == lapsed' = FALSE /\ UNCHANGED <<standing, licensed>>
Lapse == lapsed' = TRUE /\ UNCHANGED <<standing, licensed>>

Next ==
  \/ \E o \in Owners :
       Admit(o) \/ License(o) \/ Land(o) \/ GiveBack(o) \/ Leave(o)
  \/ Revoke \/ Renew \/ Lapse

Spec == Init /\ [][Next]_vars

================================================================================
