------------------------------ MODULE BatchLedger ------------------------------
(***************************************************************************)
(* What a batch of authorisations promises to the user who watches it:     *)
(* items go where the table lets them, are started only while the batch    *)
(* runs, and stay authorised or cancelled; the counters say how the items  *)
(* ended; the batch ends in the very step in which the last of its items   *)
(* does, as completed if one was authorised and as failed if none was, and *)
(* is over from then on. An item of a batch that is over may be queued     *)
(* again, and nothing more.                                                *)
(***************************************************************************)
EXTENDS Naturals, FiniteSets

CONSTANTS
  Items,
  Steps,   \* the statuses that may follow each status of an item
  Ends     \* the counter of each status that an item ends with

VARIABLES status, batch, count

vars == <<status, batch, count>>

Over == {"completed", "failed"}
AllEnded(st) == \A i \in Items : st[i] \in DOMAIN Ends
Tally(st) ==
  [k \in {Ends[u] : u \in DOMAIN Ends} |->
     Cardinality({i \in Items : st[i] \in DOMAIN Ends /\ Ends[st[i]] = k})]

Init ==
  /\ status = [i \in Items |-> "queued"]
  /\ batch = "pending"
  /\ count = Tally(status)

\* The batch is started, paused and resumed.
Switch ==
  /\ <<batch, batch'>> \in {<<"pending", "running">>, <<"running", "paused">>, <<"paused", "running">>}
  /\ UNCHANGED <<status, count>>

Start(i) ==
  /\ batch = "running" /\ status[i] = "queued"
  /\ status' = [status EXCEPT ![i] = "starting"]
  /\ UNCHANGED <<batch, count>>

\* Items go on, and the batch ends if they all have ended.
Go ==
  /\ status' \in [Items -> DOMAIN Steps]
  /\ \A i \in Items :
       status'[i] # status[i] => status'[i] \in Steps[status[i]] \ {"starting"}
  /\ \A i \in Items : status[i] \in {"authorized", "cancelled"} => status'[i] = status[i]
  /\ count' = Tally(status')
  /\ batch' = IF batch \in Over \/ ~ AllEnded(status') THEN batch
              ELSE IF \E i \in Items : status'[i] = "authorized" THEN "completed" ELSE "failed"
  /\ batch \in Over => \A i \in Items : status'[i] \in {"queued"} \cup DOMAIN Ends

Next == Switch \/ Go \/ \E i \in Items : Start(i)

Spec == Init /\ [][Next]_vars

================================================================================
