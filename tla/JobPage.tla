------------------------------ MODULE JobPage ------------------------------
(***************************************************************************)
(* Browsers on top of SyncJobs.  Some requests are sent by the form of an  *)
(* entity page; their 202 is a redirect to the page of the job, and that   *)
(* page asks to be loaded again after three seconds as long as the status  *)
(* it shows is not a verdict.  A load may fail, and nothing reloads the    *)
(* error that it shows.                                                    *)
(***************************************************************************)
EXTENDS SyncJobs

CONSTANT Browsers    \* the requests that a form sends

ASSUME JobPageAssumption == Browsers \subseteq Requests

VARIABLE page    \* what each browser shows

pageVars == <<vars, page>>

Shows == {"form", "error"} \cup ActiveStatuses \cup TerminalStatuses

PageInit == Init /\ page = [r \in Browsers |-> "form"]

\* Mutant: the page of a started job does not reload.
MutReloads(shown) == shown \in {"form", "queued"}

\* Whether the browser goes on by itself: the form is redirected.
Reloads(shown) == shown \in {"form", "queued", "started"}

Follows(r) == Accepted(r) /\ Reloads(page[r])

\* The redirect is followed, or the three seconds are over.
LoadPage(r) ==
  /\ Follows(r)
  /\ page' = [page EXCEPT ![r] =
       IF Present(req[r].job) THEN row[req[r].job].status ELSE "error"]
  /\ UNCHANGED vars

LoadFails(r) ==
  /\ Follows(r)
  /\ page' = [page EXCEPT ![r] = "error"]
  /\ UNCHANGED vars

PageNext ==
  \/ Next /\ UNCHANGED page
  \/ \E r \in Browsers : LoadPage(r) \/ LoadFails(r)

PageSpec == PageInit /\ [][PageNext]_pageVars

-----------------------------------------------------------------------------
(* Properties *)

\* Once the job is settled, a page that follows it comes to show the verdict
\* without anybody's help, unless a load fails.  The page stops reloading at
\* the first verdict it sees: one that showed finished keeps it when the
\* verdict is revoked.
VerdictShown ==
  \A r \in Browsers, j \in Requests :
    Accepted(r) /\ req[r].job = j /\ IsTerminal(j)
      ~> \/ page[r] = "error"
         \/ page[r] = row[j].status
         \/ page[r] = "finished" /\ row[j].reason = "sync_execution_failed"
=============================================================================
