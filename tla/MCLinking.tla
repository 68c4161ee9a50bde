----------------------------- MODULE MCLinking -----------------------------
(***************************************************************************)
(* Instances of Linking and EntityDetails for TLC.  A run explores several *)
(* scenarios: which rows each session may list, whether pages are loaded   *)
(* meanwhile, and whether the sessions are fair.  With liveness among the  *)
(* properties there is no symmetry; instead, ids are given out in          *)
(* ascending order, and of two idle searches that are alike the first one  *)
(* begins.  A left row is listed again only in the scenario with a second  *)
(* right row that it could match.                                          *)
(***************************************************************************)
EXTENDS EntityDetails

MCLefts    == {"l1", "l2"}
MCRights   == {"r1", "r2"}
MCSearches == {"s1", "s2"}
MCSyncs    == {"w1"}

Scenario(s1, s2, w1, pages, fair) ==
  [rows |-> [s1 |-> s1, s2 |-> s2, w1 |-> w1], pages |-> pages, fair |-> fair]

Scenarios ==
  { \* searches that list the same new rows at the same time
    Scenario({"l1", "l2", "r1"}, {"l1", "l2", "r1"}, {}, FALSE, FALSE),
    \* a history of matches that contradict each other
    Scenario(Entities, {}, {}, FALSE, FALSE),
    \* pages of what two searches commit
    Scenario({"l1", "r1"}, {"l1", "r1"}, {}, TRUE, FALSE),
    \* the worker refreshes what a search writes
    Scenario({"l1", "l2", "r1"}, {}, {"l1", "l2", "r1"}, FALSE, TRUE) }

VARIABLE scenario

MCVars == <<detailVars, scenario>>

MCInit == DetailInit /\ scenario \in Scenarios

IdsBefore(c) == \A d \in 1..(c - 1) : d \in canon \cup UNION {made[t] : t \in Sessions}

MCNext ==
  /\ IF scenario.pages THEN DetailNext ELSE Next /\ UNCHANGED page
  /\ \A s \in Sessions :
       /\ scenario.rows[s] = {} => pc'[s] = "idle"
       /\ todo'[s] \subseteq scenario.rows[s]
       /\ pair'[s] # pair[s] /\ pair'[s] # <<>> =>
            scenario.rows[s] = Entities \/ pair'[s][1] \notin todo'[s]
       /\ \A c \in made'[s] \ made[s] : IdsBefore(c)
  /\ scenario.rows["s1"] = scenario.rows["s2"] /\ ~ Active("s1") /\ ~ Active("s2")
       => pc'["s2"] = "idle"
  /\ UNCHANGED scenario

\* Where the scenario asks for it, a session goes on with its work, rows are
\* granted in the order they are waited for, and the database looks for cycles.
MCFairness ==
  \A s \in {"s1", "w1"} :
    /\ WF_vars(scenario.fair /\ Choice(s)) /\ WF_vars(scenario.fair /\ Deadlock(s))
    /\ SF_vars(scenario.fair /\ Statement(s))

MCSpec == MCInit /\ [][MCNext]_MCVars /\ MCFairness

-----------------------------------------------------------------------------
\* A session that has begun ends, although a search and the worker lock the same
\* rows in orders of their own and wait for each other.
EverySessionEnds == \A s \in {"s1", "w1"} : scenario.fair /\ Active(s) ~> ~ Active(s)
=============================================================================
