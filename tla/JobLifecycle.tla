---------------------------- MODULE JobLifecycle ----------------------------
(***************************************************************************)
(* What a row of the table sync_jobs promises to whoever polls it with     *)
(* GET /jobs/{id}, whatever the API process, the queue and the workers do. *)
(*                                                                         *)
(* A row appears either queued or already failed; it is started any number *)
(* of times, each start counted once; it is settled from started, and a    *)
(* settled row is never started again.  finished may still be revoked,     *)
(* failed is final.  The actions are what the operations of                *)
(* SyncJobRepository that write a row do to it.  SyncJobs implements this  *)
(* specification.                                                          *)
(***************************************************************************)
EXTENDS Naturals

CONSTANT Jobs       \* the identifiers a row may have

VARIABLES status,   \* the column status, "absent" when there is no row
          attempts  \* the column attempts

lifecycleVars == <<status, attempts>>

ActiveStatuses   == {"queued", "started"}
TerminalStatuses == {"finished", "failed"}

Init ==
  /\ status = [j \in Jobs |-> "absent"]
  /\ attempts = [j \in Jobs |-> 0]

\* The row is inserted with the status queued, or inserted and marked failed
\* in the transaction that inserts it.
Create(j) ==
  /\ status[j] = "absent"
  /\ \E s \in {"queued", "failed"} : status' = [status EXCEPT ![j] = s]
  /\ UNCHANGED attempts

\* One execution begins: mark_started.
Start(j) ==
  /\ status[j] \in ActiveStatuses
  /\ status' = [status EXCEPT ![j] = "started"]
  /\ attempts' = [attempts EXCEPT ![j] = @ + 1]

\* An execution ends with a verdict: mark_finished or mark_failed.
Settle(j) ==
  /\ status[j] = "started"
  /\ \E s \in TerminalStatuses : status' = [status EXCEPT ![j] = s]
  /\ UNCHANGED attempts

\* An execution that has committed finished and is interrupted before it has
\* returned: the handler's mark_failed.
Revoke(j) ==
  /\ status[j] = "finished"
  /\ status' = [status EXCEPT ![j] = "failed"]
  /\ UNCHANGED attempts

Next == \E j \in Jobs : Create(j) \/ Start(j) \/ Settle(j) \/ Revoke(j)

Spec == Init /\ [][Next]_lifecycleVars
=============================================================================
