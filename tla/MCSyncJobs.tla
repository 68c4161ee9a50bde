----------------------------- MODULE MCSyncJobs -----------------------------
(***************************************************************************)
(* Instances of SyncJobs and JobPage for TLC.  The model values are        *)
(* interchangeable within each set, so safety runs use them as symmetry    *)
(* sets; runs with temporal properties do not.                             *)
(*                                                                         *)
(* A run explores the system in one or more environments: "any", "serial"  *)
(* which lets one request per target into enqueue at a time (SerialSpec),  *)
(* "operators" who requeue every failed job.                               *)
(***************************************************************************)
EXTENDS JobPage, TLC

CONSTANT Environments

VARIABLE environment

MCVars == <<pageVars, environment>>

ProcessSymmetry == Permutations(Requests) \cup Permutations(Workers)

MCInit == PageInit /\ environment \in Environments

MCNext ==
  /\ Next /\ UNCHANGED page
  /\ environment = "serial" => OneAtATime'
  /\ UNCHANGED environment

\* The jobs alone, nobody loads a page.
MCSpec == MCInit /\ [][MCNext]_MCVars

MCPageNext == PageNext /\ UNCHANGED environment

\* Processes run, operators requeue where there are such, browsers reload.
MCFairSpec ==
  /\ MCInit /\ [][MCPageNext]_MCVars
  /\ ProcessFairness
  /\ \A j \in Requests : WF_vars(environment = "operators" /\ Requeue(j))
  /\ \A r \in Browsers : WF_pageVars(LoadPage(r))

-----------------------------------------------------------------------------
\* A second POST for a target reuses the job that is active for it, as long as
\* no two of its requests are inside enqueue at once.
SerialReusesJob == environment = "serial" => AtMostOneActiveJob

\* With operators that requeue what failed, every job that a 202 named is
\* settled, also one whose first execution ran before its row was committed.
OperatorsSettle ==
  \A r, j \in Requests :
    environment = "operators" /\ Accepted(r) /\ req[r].job = j ~> IsTerminal(j)
=============================================================================
