------------------------------ MODULE SyncJobs ------------------------------
(***************************************************************************)
(* The sync pipeline: POST /sync/{kind}/{id} creates a row of sync_jobs    *)
(* and pushes its identifier on the RQ queue (SyncService.enqueue,         *)
(* RQSyncJobScheduler), an RQ worker pops it and refreshes every platform  *)
(* entity linked to the target (run_sync_job, SyncService.execute).        *)
(*                                                                         *)
(* Two stores are written and no transaction spans them: the database,     *)
(* where only committed rows are visible to others, and Redis, where a     *)
(* push is visible at once.  An API request is one process, a worker is    *)
(* another; each step below ends where another process may observe or      *)
(* disturb it.  A process that fails, by a crash or by a database error,   *)
(* loses its open transaction.                                             *)
(*                                                                         *)
(* A request creates at most one job, so a job is named by its request.    *)
(***************************************************************************)
EXTENDS Naturals, Sequences, FiniteSets

CONSTANTS
  Requests,      \* POST /sync requests, and the jobs they may create
  Workers,       \* RQ worker processes
  Targets,       \* (kind, target_id) pairs that requests name
  Known,         \* the targets that have a canonical row
  Links,         \* platform entities a canonical row may be linked to
  Configured,    \* the links whose provider is in the registry
  MaxAttempts,   \* sync_provider_max_attempts, at least 1
  MaxFaults,     \* bound on the failures injected in a behaviour
  NoJob, NoLink

ASSUME SyncAssumption ==
  /\ IsFiniteSet(Requests)
  /\ Known \subseteq Targets
  /\ Configured \subseteq Links
  /\ MaxAttempts \in Nat \ {0}
  /\ MaxFaults \in Nat
  /\ NoJob \notin Requests
  /\ NoLink \notin Links

VARIABLES
  req,             \* each request: its pc, its target, the job it answers with
  row,             \* the committed rows of sync_jobs
  born,            \* created_at of each inserted row, as its rank
  queue,           \* the RQ queue: job identifiers in FIFO order
  failedRegistry,  \* RQ's FailedJobRegistry
  worker,          \* each worker: the job it holds and where it is in it
  refreshed,       \* history: platform rows committed on behalf of each job
  faults           \* failures injected so far

vars == <<req, row, born, queue, failedRegistry, worker, refreshed, faults>>

-----------------------------------------------------------------------------
(* Types *)

Absent == [status |-> "absent", attempts |-> 0, reason |-> "none",
           updated |-> {}, partial |-> FALSE]

RequestPcs == {"idle", "create", "schedule", "commit", "reject",
               "created", "reused", "notfound", "unavailable", "error"}

WorkerPcs == {"idle", "load", "start", "links", "refresh", "fetch", "persist",
              "answer", "ack"}

ActiveStatuses   == {"queued", "started"}
TerminalStatuses == {"finished", "failed"}

Reasons == {"none", "queue_enqueue_failed", "no_platform_links",
            "provider_refresh_failed", "sync_execution_failed"}

RowType == [status : {"absent"} \cup ActiveStatuses \cup TerminalStatuses,
            attempts : Nat, reason : Reasons,
            updated : SUBSET Links, partial : BOOLEAN]

RequestType == [pc : RequestPcs, target : Targets, job : Requests \cup {NoJob}]

WorkerType == [pc : WorkerPcs, job : Requests \cup {NoJob}, seen : Nat,
               todo : SUBSET Links, cur : Links \cup {NoLink}, attempt : 0..MaxAttempts,
               flushed : SUBSET Links, updated : SUBSET Links, missed : SUBSET Links]

IdleWorker == [pc |-> "idle", job |-> NoJob, seen |-> 0,
               todo |-> {}, cur |-> NoLink, attempt |-> 0,
               flushed |-> {}, updated |-> {}, missed |-> {}]

-----------------------------------------------------------------------------
(* Derived state *)

InQueue(j) == \E i \in 1..Len(queue) : queue[i] = j
Held(j) == \E w \in Workers : worker[w].job = j

Present(j)  == row[j].status # "absent"

IsActive(j) == row[j].status \in ActiveStatuses
IsTerminal(j) == row[j].status \in TerminalStatuses

\* get_active_for_target sees committed rows only, and takes the newest.
ActiveJobs(t) == {j \in Requests : IsActive(j) /\ req[j].target = t}
NewestActive(t) ==
  {j \in ActiveJobs(t) : \A k \in ActiveJobs(t) : born[k] <= born[j]}

InFlight(r) == req[r].pc \in {"create", "schedule", "commit", "reject"}
Accepted(r) == req[r].pc \in {"created", "reused"}

-----------------------------------------------------------------------------
Init ==
  /\ req \in [Requests -> [pc : {"idle"}, target : Targets, job : {NoJob}]]
  /\ row = [j \in Requests |-> Absent]
  /\ born = [j \in Requests |-> 0]
  /\ queue = <<>>
  /\ failedRegistry = {}
  /\ worker = [w \in Workers |-> IdleWorker]
  /\ refreshed = [j \in Requests |-> {}]
  /\ faults = 0

Fault == faults < MaxFaults /\ faults' = faults + 1

-----------------------------------------------------------------------------
(* The API process: SyncService.enqueue *)

Answer(r, pc, j) == req' = [req EXCEPT ![r] = [@ EXCEPT !.pc = pc, !.job = j]]
Goto(r, pc) == req' = [req EXCEPT ![r] = [@ EXCEPT !.pc = pc]]

\* _ensure_target_exists raises NotFoundError: 404.
RefuseUnknownTarget(r) ==
  /\ req[r].pc = "idle" /\ req[r].target \notin Known
  /\ Goto(r, "notfound")
  /\ UNCHANGED <<row, born, queue, failedRegistry, worker, refreshed, faults>>

\* Mutants, here and below, are actions changed as a plausible bug would.

\* Mutant: the reused job is pushed again, to be sure that it runs.
MutReuseAndSchedule(r) ==
  /\ req[r].pc = "idle" /\ req[r].target \in Known
  /\ \E j \in NewestActive(req[r].target) :
       Answer(r, "reused", j) /\ queue' = Append(queue, j)
  /\ UNCHANGED <<row, born, failedRegistry, worker, refreshed, faults>>

\* An active row is found: 202 with created=False, nothing is scheduled.
ReuseActiveJob(r) ==
  /\ req[r].pc = "idle" /\ req[r].target \in Known
  /\ \E j \in NewestActive(req[r].target) : Answer(r, "reused", j)
  /\ UNCHANGED <<row, born, queue, failedRegistry, worker, refreshed, faults>>

\* Mutant: a started job is not looked for.
MutMissStarted(r) ==
  /\ req[r].pc = "idle" /\ req[r].target \in Known
  /\ \A j \in ActiveJobs(req[r].target) : row[j].status = "started"
  /\ Goto(r, "create")
  /\ UNCHANGED <<row, born, queue, failedRegistry, worker, refreshed, faults>>

\* No committed active row is found; nothing reserves the target.
MissActiveJob(r) ==
  /\ req[r].pc = "idle" /\ req[r].target \in Known
  /\ ActiveJobs(req[r].target) = {}
  /\ Goto(r, "create")
  /\ UNCHANGED <<row, born, queue, failedRegistry, worker, refreshed, faults>>

\* The INSERT is flushed: created_at is fixed, the row stays uncommitted.
CreateJob(r) ==
  /\ req[r].pc = "create"
  /\ born' = [born EXCEPT ![r] = 1 + Cardinality({j \in Requests : born[j] # 0})]
  /\ Goto(r, "schedule")
  /\ UNCHANGED <<row, queue, failedRegistry, worker, refreshed, faults>>

\* The push succeeds; workers see it before the row is committed.
Schedule(r) ==
  /\ req[r].pc = "schedule"
  /\ queue' = Append(queue, r)
  /\ Goto(r, "commit")
  /\ UNCHANGED <<row, born, failedRegistry, worker, refreshed, faults>>

\* Mutant: the None that schedule() returned is not looked at.
MutFailureIgnored(r) ==
  /\ req[r].pc = "schedule" /\ Fault
  /\ queue' \in {queue, Append(queue, r)}
  /\ Goto(r, "commit")
  /\ UNCHANGED <<row, born, failedRegistry, worker, refreshed>>

\* schedule() caught an exception and returned None: the push did not happen,
\* or it happened and the reply was lost.
ScheduleFails(r) ==
  /\ req[r].pc = "schedule" /\ Fault
  /\ queue' \in {queue, Append(queue, r)}
  /\ Goto(r, "reject")
  /\ UNCHANGED <<row, born, failedRegistry, worker, refreshed>>

\* set_rq_job_id and COMMIT: 202 with created=True.
CommitJob(r) ==
  /\ req[r].pc = "commit"
  /\ row' = [row EXCEPT ![r] = [Absent EXCEPT !.status = "queued"]]
  /\ Answer(r, "created", r)
  /\ UNCHANGED <<born, queue, failedRegistry, worker, refreshed, faults>>

\* Mutant: the refusal records its reason and leaves the status queued.
MutRefusedButQueued(r) ==
  /\ req[r].pc = "reject"
  /\ row' = [row EXCEPT ![r] = [Absent EXCEPT !.status = "queued",
                                              !.reason = "queue_enqueue_failed"]]
  /\ Goto(r, "unavailable")
  /\ UNCHANGED <<born, queue, failedRegistry, worker, refreshed, faults>>

\* mark_failed and COMMIT, then ServiceUnavailableError: 503.
CommitRefusal(r) ==
  /\ req[r].pc = "reject"
  /\ row' = [row EXCEPT ![r] = [Absent EXCEPT !.status = "failed",
                                              !.reason = "queue_enqueue_failed"]]
  /\ Goto(r, "unavailable")
  /\ UNCHANGED <<born, queue, failedRegistry, worker, refreshed, faults>>

\* The request dies or its statement fails: the session is closed without a
\* commit, the insert is rolled back, a push already made is not undone.
AbortRequest(r) ==
  /\ InFlight(r) /\ Fault
  /\ Goto(r, "error")
  /\ UNCHANGED <<row, born, queue, failedRegistry, worker, refreshed>>

-----------------------------------------------------------------------------
(* The worker process: Worker.work, run_sync_job, SyncService.execute *)

Step(w, f) == worker' = [worker EXCEPT ![w] = f]

\* RQ hands the oldest identifier to an idle worker.
Dequeue(w) ==
  /\ worker[w].pc = "idle" /\ queue # <<>>
  /\ Step(w, [IdleWorker EXCEPT !.pc = "load", !.job = Head(queue)])
  /\ queue' = Tail(queue)
  /\ UNCHANGED <<req, row, born, failedRegistry, refreshed, faults>>

\* Mutant: a missing row is answered like a settled one.
MutMissingIsDone(w) ==
  /\ worker[w].pc = "load" /\ ~ Present(worker[w].job)
  /\ Step(w, IdleWorker)
  /\ UNCHANGED <<req, row, born, queue, failedRegistry, refreshed, faults>>

\* No committed row yet: NotFoundError leaves run_sync_job, and RQ, which is
\* given no retry policy, moves the job to its failed registry.
LoadMissing(w) ==
  /\ worker[w].pc = "load" /\ ~ Present(worker[w].job)
  /\ failedRegistry' = failedRegistry \cup {worker[w].job}
  /\ Step(w, IdleWorker)
  /\ UNCHANGED <<req, row, born, queue, refreshed, faults>>

\* A settled job is answered as it is.
LoadSettled(w) ==
  /\ worker[w].pc = "load" /\ IsTerminal(worker[w].job)
  /\ Step(w, [worker[w] EXCEPT !.pc = "ack"])
  /\ UNCHANGED <<req, row, born, queue, failedRegistry, refreshed, faults>>

\* Mutant: a failed job that is delivered again is tried again.
MutRetryFailed(w) ==
  /\ worker[w].pc = "load" /\ row[worker[w].job].status \in ActiveStatuses \cup {"failed"}
  /\ Step(w, [worker[w] EXCEPT !.pc = "start", !.seen = row[worker[w].job].attempts])
  /\ UNCHANGED <<req, row, born, queue, failedRegistry, refreshed, faults>>

\* The row is read into the worker's session and not read again.
LoadActive(w) ==
  /\ worker[w].pc = "load" /\ IsActive(worker[w].job)
  /\ Step(w, [worker[w] EXCEPT !.pc = "start", !.seen = row[worker[w].job].attempts])
  /\ UNCHANGED <<req, row, born, queue, failedRegistry, refreshed, faults>>

\* Mutant: the start is not counted.
MutStartNotCounted(w) ==
  /\ worker[w].pc = "start"
  /\ row' = [row EXCEPT ![worker[w].job] = [@ EXCEPT !.status = "started"]]
  /\ Step(w, [worker[w] EXCEPT !.pc = "links"])
  /\ UNCHANGED <<req, born, queue, failedRegistry, refreshed, faults>>

\* mark_started and COMMIT, from the attempts that were loaded.
MarkStarted(w) ==
  /\ worker[w].pc = "start"
  /\ row' = [row EXCEPT ![worker[w].job] =
               [@ EXCEPT !.status = "started", !.attempts = worker[w].seen + 1]]
  /\ Step(w, [worker[w] EXCEPT !.pc = "links"])
  /\ UNCHANGED <<req, born, queue, failedRegistry, refreshed, faults>>

\* mark_failed and mark_finished: update_status leaves the column that it is
\* given no value for, so a row marked failed keeps the result it has.
Failed(r, reason) == [r EXCEPT !.status = "failed", !.reason = reason]
Finished(r, listed, partial) ==
  [r EXCEPT !.status = "finished", !.updated = listed, !.partial = partial]

\* The COMMIT of a verdict also makes the platform rows that this execution
\* has flushed visible.
CommitVerdict(w, verdict) ==
  /\ row' = [row EXCEPT ![worker[w].job] = verdict]
  /\ refreshed' = [refreshed EXCEPT ![worker[w].job] = @ \cup worker[w].flushed]

\* After the COMMIT the answer is built, still inside the try of execute.
Settle(w, verdict) ==
  /\ CommitVerdict(w, verdict)
  /\ Step(w, [worker[w] EXCEPT !.pc = "answer"])
  /\ UNCHANGED <<req, born, queue, failedRegistry, faults>>

\* Mutant: a target without links is answered without a verdict.
MutNoLinksNoVerdict(w) ==
  /\ worker[w].pc = "links"
  /\ Step(w, [worker[w] EXCEPT !.pc = "ack"])
  /\ UNCHANGED <<req, row, born, queue, failedRegistry, refreshed, faults>>

FindNoLinks(w) ==
  /\ worker[w].pc = "links"
  /\ Settle(w, Failed(row[worker[w].job], "no_platform_links"))

\* The links are written by other components: any non-empty set may be found.
FindLinks(w) ==
  /\ worker[w].pc = "links"
  /\ \E ls \in SUBSET Links \ {{}} :
       Step(w, [worker[w] EXCEPT !.pc = "refresh", !.todo = ls])
  /\ UNCHANGED <<req, row, born, queue, failedRegistry, refreshed, faults>>

\* The loop takes the next link; the relationship has no ORDER BY.
TakeLink(w) ==
  /\ worker[w].pc = "refresh"
  /\ \E l \in worker[w].todo :
       Step(w, [worker[w] EXCEPT !.pc = "fetch", !.cur = l, !.attempt = 1,
                                 !.todo = @ \ {l}])
  /\ UNCHANGED <<req, row, born, queue, failedRegistry, refreshed, faults>>

\* _call_with_timeout returns an entity within the timeout.
FetchOk(w) ==
  /\ worker[w].pc = "fetch" /\ worker[w].cur \in Configured
  /\ Step(w, [worker[w] EXCEPT !.pc = "persist"])
  /\ UNCHANGED <<req, row, born, queue, failedRegistry, refreshed, faults>>

\* Mutant: one attempt too many.
MutOneRetryMore(w) ==
  /\ worker[w].pc = "fetch" /\ worker[w].cur \in Configured
  /\ worker[w].attempt <= MaxAttempts
  /\ Step(w, [worker[w] EXCEPT !.attempt = @ + 1])
  /\ UNCHANGED <<req, row, born, queue, failedRegistry, refreshed, faults>>

\* Mutant: the attempt counter starts again when it is used up.
MutRetryForever(w) ==
  /\ worker[w].pc = "fetch" /\ worker[w].cur \in Configured
  /\ Step(w, [worker[w] EXCEPT !.attempt = (@ % MaxAttempts) + 1])
  /\ UNCHANGED <<req, row, born, queue, failedRegistry, refreshed, faults>>

\* An error or a timeout that leaves an attempt: a late answer is dropped.
FetchRetry(w) ==
  /\ worker[w].pc = "fetch" /\ worker[w].cur \in Configured
  /\ worker[w].attempt < MaxAttempts
  /\ Step(w, [worker[w] EXCEPT !.attempt = @ + 1])
  /\ UNCHANGED <<req, row, born, queue, failedRegistry, refreshed, faults>>

\* The link is recorded as failed and the loop goes on: the provider is not in
\* the registry, its last attempt failed, or its entity could not be persisted.
GiveUp(w) ==
  /\ \/ worker[w].pc = "fetch" /\ worker[w].cur \notin Configured
     \/ worker[w].pc = "fetch" /\ worker[w].attempt = MaxAttempts
     \/ worker[w].pc = "persist"
  /\ Step(w, [worker[w] EXCEPT !.pc = "refresh", !.cur = NoLink, !.attempt = 0,
                               !.missed = @ \cup {worker[w].cur}])
  /\ UNCHANGED <<req, row, born, queue, failedRegistry, refreshed, faults>>

\* Mutant: the session is committed after each provider.
MutCommitEach(w) ==
  /\ worker[w].pc = "persist"
  /\ Step(w, [worker[w] EXCEPT !.pc = "refresh", !.cur = NoLink, !.attempt = 0,
                               !.flushed = @ \cup {worker[w].cur},
                               !.updated = @ \cup {worker[w].cur}])
  /\ refreshed' = [refreshed EXCEPT ![worker[w].job] = @ \cup {worker[w].cur}]
  /\ UNCHANGED <<req, row, born, queue, failedRegistry, faults>>

\* persist_platform_entity flushes the platform row and does not commit it;
\* the link is recorded as updated and counted.
Persist(w) ==
  /\ worker[w].pc = "persist"
  /\ Step(w, [worker[w] EXCEPT !.pc = "refresh", !.cur = NoLink, !.attempt = 0,
                               !.flushed = @ \cup {worker[w].cur},
                               !.updated = @ \cup {worker[w].cur}])
  /\ UNCHANGED <<req, row, born, queue, failedRegistry, refreshed, faults>>

\* RQ's JobTimeoutException, raised between two lines of the per-provider try,
\* arrives after the flush: the link is recorded as failed, counted or not.
PersistInterrupted(w) ==
  /\ worker[w].pc = "persist" /\ Fault
  /\ \E counted \in SUBSET {worker[w].cur} :
       Step(w, [worker[w] EXCEPT !.pc = "refresh", !.cur = NoLink, !.attempt = 0,
                                 !.flushed = @ \cup {worker[w].cur},
                                 !.updated = @ \cup counted,
                                 !.missed = @ \cup {worker[w].cur}])
  /\ UNCHANGED <<req, row, born, queue, failedRegistry, refreshed>>

\* Every link has been tried: finished when one was counted, else failed.
Verdict(w) ==
  IF worker[w].updated = {}
    THEN Failed(row[worker[w].job], "provider_refresh_failed")
    ELSE Finished(row[worker[w].job], worker[w].updated, worker[w].missed # {})

SettleRefresh(w) ==
  /\ worker[w].pc = "refresh" /\ worker[w].todo = {}
  /\ Settle(w, Verdict(w))

\* What the handler of execute finds in its session: the committed row, or the
\* row with a verdict that is flushed and was interrupted before its COMMIT.
Interrupted(w) ==
  {row[worker[w].job]} \cup
    {v \in {Verdict(w)} : worker[w].pc = "refresh" /\ worker[w].todo = {}}

\* An exception outside the per-provider try that leaves the session usable,
\* such as JobTimeoutException: mark_failed, COMMIT.  The try also encloses the
\* return after each verdict, so a committed verdict may be revoked.
ExecutionFails(w) ==
  /\ worker[w].pc \in {"links", "refresh", "answer"} /\ Fault
  /\ \E r \in Interrupted(w) : CommitVerdict(w, Failed(r, "sync_execution_failed"))
  /\ Step(w, [worker[w] EXCEPT !.pc = "ack"])
  /\ UNCHANGED <<req, born, queue, failedRegistry>>

\* The worker dies, or a database error deactivates its session so that the
\* handler of execute raises too: the open transaction is lost and RQ moves the
\* job to its failed registry.
LoseExecution(w) ==
  /\ worker[w].pc # "idle" /\ Fault
  /\ failedRegistry' = failedRegistry \cup {worker[w].job}
  /\ Step(w, IdleWorker)
  /\ UNCHANGED <<req, row, born, queue, refreshed>>

\* run_sync_job returns and RQ forgets the job.
Ack(w) ==
  /\ worker[w].pc \in {"answer", "ack"}
  /\ Step(w, IdleWorker)
  /\ UNCHANGED <<req, row, born, queue, failedRegistry, refreshed, faults>>

\* An operator runs rq requeue on a failed job.
Requeue(j) ==
  /\ j \in failedRegistry
  /\ failedRegistry' = failedRegistry \ {j}
  /\ queue' = Append(queue, j)
  /\ UNCHANGED <<req, row, born, worker, refreshed, faults>>

-----------------------------------------------------------------------------
RequestStep(r) ==
  \/ RefuseUnknownTarget(r) \/ ReuseActiveJob(r) \/ MissActiveJob(r)
  \/ CreateJob(r) \/ Schedule(r) \/ CommitJob(r) \/ CommitRefusal(r)

RequestFault(r) == ScheduleFails(r) \/ AbortRequest(r)

WorkerStep(w) ==
  \/ Dequeue(w) \/ LoadMissing(w) \/ LoadSettled(w) \/ LoadActive(w)
  \/ MarkStarted(w) \/ FindNoLinks(w) \/ FindLinks(w) \/ TakeLink(w)
  \/ FetchOk(w) \/ FetchRetry(w) \/ GiveUp(w) \/ Persist(w)
  \/ SettleRefresh(w) \/ Ack(w)

WorkerFault(w) == PersistInterrupted(w) \/ ExecutionFails(w) \/ LoseExecution(w)

Next ==
  \/ \E r \in Requests : RequestStep(r) \/ RequestFault(r)
  \/ \E w \in Workers : WorkerStep(w) \/ WorkerFault(w)
  \/ \E j \in Requests : Requeue(j)

Spec == Init /\ [][Next]_vars

\* A handler in flight and a worker run until they are done (the OS schedules
\* them, every provider call has a timeout); faults and operators owe nothing.
ProcessFairness ==
  /\ \A r \in Requests : WF_vars(InFlight(r) /\ RequestStep(r))
  /\ \A w \in Workers : WF_vars(WorkerStep(w))

\* An environment that lets one request per target into enqueue at a time.
OneAtATime ==
  \A r1, r2 \in Requests :
    InFlight(r1) /\ InFlight(r2) /\ req[r1].target = req[r2].target => r1 = r2

SerialSpec == Init /\ [][Next /\ OneAtATime']_vars

-----------------------------------------------------------------------------
(* Properties *)

\* Every variable holds a value of its kind.
TypeOK ==
  /\ req \in [Requests -> RequestType]
  /\ row \in [Requests -> RowType]
  /\ born \in [Requests -> Nat]
  /\ queue \in Seq(Requests)
  /\ failedRegistry \in SUBSET Requests
  /\ worker \in [Workers -> WorkerType]
  /\ refreshed \in [Requests -> SUBSET Links]
  /\ faults \in 0..MaxFaults

\* A job is executed by one worker at a time and waits in one place only: its
\* identifier is at most once in the queue, in one worker, or in the failed
\* registry.  Without it execute(), which writes attempts + 1 from a row it
\* loaded earlier and settles the row unconditionally, would race with itself.
ExclusiveExecution ==
  /\ \A i, k \in 1..Len(queue) : queue[i] = queue[k] => i = k
  /\ \A v, w \in Workers :
       worker[v].pc # "idle" /\ worker[w].pc # "idle"
         /\ worker[v].job = worker[w].job => v = w
  /\ \A j \in Requests :
       /\ InQueue(j) => ~ Held(j) /\ j \notin failedRegistry
       /\ Held(j) => j \notin failedRegistry

\* No row is left active with nobody to settle it: a queued or started row has
\* its identifier in the queue, in a worker, or where an operator can requeue
\* it.  enqueue pushes before it commits and refuses by settling the row.
ActiveRowBacked ==
  \A j \in Requests :
    IsActive(j) => InQueue(j) \/ Held(j) \/ j \in failedRegistry

\* Platform rows become visible together with a verdict: a finished job has
\* refreshed every link it lists, at least one, and no other unless it says
\* partial; a job that is not settled has left none behind, nor has a failed
\* one unless an interruption (sync_execution_failed, or a link that was
\* flushed and then recorded as failed) committed what had been flushed.
RefreshAtomic ==
  \A j \in Requests :
    /\ row[j].status = "finished" =>
         /\ row[j].updated # {} /\ row[j].updated \subseteq refreshed[j]
         /\ row[j].updated = refreshed[j] \/ row[j].partial
    /\ refreshed[j] # {} =>
         \/ row[j].status = "finished"
         \/ row[j].status = "failed"
              /\ row[j].reason \in {"sync_execution_failed", "provider_refresh_failed"}

\* A 202 names a row that GET /jobs/{id} finds, that belongs to the requested
\* target, and whose scheduling was not refused.
AcceptedJobRecorded ==
  \A r \in Requests :
    Accepted(r) =>
      /\ Present(req[r].job)
      /\ req[req[r].job].target = req[r].target
      /\ row[req[r].job].reason # "queue_enqueue_failed"

\* The handler of execute may still replace the verdict of job j: the worker
\* that committed it has not left the try.
Revocable(j) == \E w \in Workers : worker[w].job = j /\ worker[w].pc = "answer"

\* A verdict stands once the execution that committed it has returned, whatever
\* is redelivered, requeued or executed later.  Until then one change is
\* possible, to failed with sync_execution_failed, which takes back neither
\* the attempts nor the result that the row lists.
VerdictStands ==
  [][\A j \in Requests : IsTerminal(j) =>
       \/ row'[j] = row[j]
       \/ Revocable(j) /\ row'[j] = Failed(row[j], "sync_execution_failed")]_vars

\* The rows of sync_jobs behave as JobLifecycle promises: one start per
\* execution, each counted, a verdict only from started, and failed is final.
Lifecycle == INSTANCE JobLifecycle WITH
  Jobs     <- Requests,
  status   <- [j \in Requests |-> row[j].status],
  attempts <- [j \in Requests |-> row[j].attempts]

LifecycleSpec == Lifecycle!Spec

\* A job that a 202 named is settled, or fails where RQ shows it to operators.
AcceptedJobResolves ==
  \A r, j \in Requests :
    Accepted(r) /\ req[r].job = j ~> IsTerminal(j) \/ j \in failedRegistry

\* An execution ends whatever its providers answer: retries are bounded and
\* every loaded link is tried once, so a worker always becomes idle again.
WorkersReturn == \A w \in Workers : worker[w].pc # "idle" ~> worker[w].pc = "idle"

\* A second POST for a target reuses the job that is already active for it.
AtMostOneActiveJob == \A t \in Targets : Cardinality(ActiveJobs(t)) <= 1

\* A 202 with created=False names a job that is on its way: in the queue or in
\* the hands of a worker.
ReusedJobIsAlive ==
  [][\A r \in Requests :
       req'[r].pc = "reused" /\ req[r].pc # "reused" =>
         InQueue(req'[r].job) \/ Held(req'[r].job)]_vars
=============================================================================
