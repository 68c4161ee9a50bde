--------------------------- MODULE SyncJobsProofs ---------------------------
(***************************************************************************)
(* Theorems about SyncJobs for any number of requests, workers, targets,   *)
(* links, attempts and faults: every state is typed, one executor per job, *)
(* no active row without a holder, verdicts that stand and are published   *)
(* with the data they report, at most one active job per target when       *)
(* requests do not overlap, and the refinement of JobLifecycle.            *)
(*                                                                         *)
(* The argument has two layers above the types.  TokenInv follows a job's  *)
(* identifier: it is in one place at most, and in none before its request  *)
(* has pushed it.  RowInv then ties the committed row to the request that  *)
(* wrote it and to the worker that holds the identifier: because the       *)
(* holder is the only one, what it loaded from the row is still true when  *)
(* it writes it back.                                                      *)
(***************************************************************************)
EXTENDS MCSyncJobs, FiniteSetTheorems, TLAPS

LEMMA StartedIsNat == ASSUME NEW r \in Requests, born \in [Requests -> Nat]
                      PROVE Cardinality({j \in Requests : born[j] # 0}) \in Nat
<1>1. {j \in Requests : born[j] # 0} \subseteq Requests
  OBVIOUS
<1>2. IsFiniteSet({j \in Requests : born[j] # 0})
  BY <1>1, SyncAssumption, FS_Subset
<1> QED BY <1>2, FS_CardinalityType

-----------------------------------------------------------------------------
(* What the ways of writing a record do to the state. *)

LEMMA GotoEffect ==
  ASSUME NEW r \in Requests, req \in [Requests -> RequestType],
         NEW pc \in RequestPcs, Goto(r, pc)
  PROVE  /\ req' \in [Requests -> RequestType]
         /\ req'[r].pc = pc /\ req'[r].job = req[r].job
         /\ \A q \in Requests : req'[q].target = req[q].target
         /\ \A q \in Requests : q # r => req'[q] = req[q]
BY DEF Goto, RequestType

LEMMA AnswerEffect ==
  ASSUME NEW r \in Requests, req \in [Requests -> RequestType],
         NEW pc \in RequestPcs, NEW j \in Requests, Answer(r, pc, j)
  PROVE  /\ req' \in [Requests -> RequestType]
         /\ req'[r].pc = pc /\ req'[r].job = j
         /\ \A q \in Requests : req'[q].target = req[q].target
         /\ \A q \in Requests : q # r => req'[q] = req[q]
BY DEF Answer, RequestType

LEMMA StepEffect ==
  ASSUME NEW w \in Workers, worker \in [Workers -> WorkerType],
         NEW f \in WorkerType, Step(w, f)
  PROVE  /\ worker' \in [Workers -> WorkerType]
         /\ worker'[w] = f
         /\ \A v \in Workers : v # w => worker'[v] = worker[v]
BY DEF Step

\* The two ways of marking a row.
LEMMA FailedEffect ==
  ASSUME NEW r \in RowType, NEW reason \in Reasons
  PROVE  /\ Failed(r, reason) \in RowType
         /\ Failed(r, reason).status = "failed"
         /\ Failed(r, reason).reason = reason
         /\ Failed(r, reason).attempts = r.attempts
BY DEF Failed, RowType, TerminalStatuses

LEMMA FinishedEffect ==
  ASSUME NEW r \in RowType, NEW listed \in SUBSET Links, NEW partial \in BOOLEAN
  PROVE  /\ Finished(r, listed, partial) \in RowType
         /\ Finished(r, listed, partial).status = "finished"
         /\ Finished(r, listed, partial).reason = r.reason
         /\ Finished(r, listed, partial).attempts = r.attempts
         /\ Finished(r, listed, partial).updated = listed
         /\ Finished(r, listed, partial).partial = partial
BY DEF Finished, RowType, TerminalStatuses

LEMMA VerdictEffect ==
  ASSUME NEW w \in Workers, worker[w].job \in Requests,
         worker[w].flushed \in SUBSET Links, row \in [Requests -> RowType],
         refreshed \in [Requests -> SUBSET Links], NEW verdict \in RowType,
         CommitVerdict(w, verdict)
  PROVE  /\ row' \in [Requests -> RowType]
         /\ refreshed' \in [Requests -> SUBSET Links]
         /\ row'[worker[w].job] = verdict
         /\ refreshed'[worker[w].job] = refreshed[worker[w].job] \cup worker[w].flushed
         /\ \A k \in Requests :
              k # worker[w].job => row'[k] = row[k] /\ refreshed'[k] = refreshed[k]
BY DEF CommitVerdict

\* The values that the field attempt is set to.
LEMMA AttemptType == 0 \in 0..MaxAttempts /\ 1 \in 0..MaxAttempts
BY SyncAssumption

LEMMA IdleType == IdleWorker \in WorkerType
BY AttemptType DEF IdleWorker, WorkerType, WorkerPcs

\* The fields that the invariant needs of a record changed in pc only.
LEMMA PcEffect ==
  ASSUME NEW f \in WorkerType, NEW pc \in WorkerPcs
  PROVE  /\ [f EXCEPT !.pc = pc] \in WorkerType
         /\ [f EXCEPT !.pc = pc].pc = pc
         /\ [f EXCEPT !.pc = pc].job = f.job
         /\ [f EXCEPT !.pc = pc].seen = f.seen
         /\ [f EXCEPT !.pc = pc].cur = f.cur
         /\ [f EXCEPT !.pc = pc].flushed = f.flushed
         /\ [f EXCEPT !.pc = pc].updated = f.updated
         /\ [f EXCEPT !.pc = pc].missed = f.missed
BY DEF WorkerType

-----------------------------------------------------------------------------
(* Type correctness.  TypeOK is not inductive: that a busy worker holds a    *)
(* job, and a link while it fetches or persists it, is needed with it.       *)

Busy ==
  \A w \in Workers :
    /\ worker[w].pc = "idle" <=> worker[w].job = NoJob
    /\ worker[w].pc \in {"fetch", "persist"} => worker[w].cur \in Links

TypeInv == TypeOK /\ Busy

\* A worker step keeps the workers typed when the record it writes is.
LEMMA WorkerTyped ==
  ASSUME TypeInv, NEW w \in Workers, NEW f \in WorkerType, Step(w, f),
         f.pc = "idle" <=> f.job = NoJob,
         f.pc \in {"fetch", "persist"} => f.cur \in Links
  PROVE  worker' \in [Workers -> WorkerType] /\ Busy'
<1>1. worker \in [Workers -> WorkerType]
  BY DEF TypeInv, TypeOK
<1>2. /\ worker' \in [Workers -> WorkerType] /\ worker'[w] = f
      /\ \A v \in Workers : v # w => worker'[v] = worker[v]
  BY <1>1, StepEffect
<1> QED BY <1>2 DEF TypeInv, Busy

LEMMA IdleTyped ==
  ASSUME TypeInv, NEW w \in Workers, Step(w, IdleWorker)
  PROVE  worker' \in [Workers -> WorkerType] /\ Busy'
<1>1. IdleWorker.pc = "idle" /\ IdleWorker.job = NoJob
  BY DEF IdleWorker
<1> QED BY <1>1, IdleType, WorkerTyped

LEMMA PcTyped ==
  ASSUME TypeInv, NEW w \in Workers, NEW pc \in WorkerPcs \ {"idle"},
         worker[w].pc # "idle", pc = "persist" => worker[w].pc = "fetch", pc # "fetch",
         Step(w, [worker[w] EXCEPT !.pc = pc])
  PROVE  worker' \in [Workers -> WorkerType] /\ Busy'
<1>1. worker[w] \in WorkerType
  BY DEF TypeInv, TypeOK
<1> DEFINE f == [worker[w] EXCEPT !.pc = pc]
<1>2. /\ f \in WorkerType /\ f.pc = pc
      /\ f.job = worker[w].job /\ f.cur = worker[w].cur
  BY <1>1, PcEffect
<1>3. worker[w].job # NoJob /\ (pc = "persist" => worker[w].cur \in Links)
  BY DEF TypeInv, Busy
<1> HIDE DEF f
<1> QED BY <1>2, <1>3, WorkerTyped DEF f

\* The verdicts of an execution, and what its handler may find.
LEMMA VerdictTyped ==
  ASSUME TypeInv, NEW w \in Workers, worker[w].job \in Requests
  PROVE  /\ Verdict(w) \in RowType
         /\ Verdict(w).attempts = row[worker[w].job].attempts
         /\ worker[w].updated = {} =>
              /\ Verdict(w).status = "failed"
              /\ Verdict(w).reason = "provider_refresh_failed"
         /\ worker[w].updated # {} =>
              /\ Verdict(w).status = "finished"
              /\ Verdict(w).reason = row[worker[w].job].reason
              /\ Verdict(w).updated = worker[w].updated
              /\ Verdict(w).partial = (worker[w].missed # {})
<1>1. row[worker[w].job] \in RowType /\ worker[w] \in WorkerType
  BY DEF TypeInv, TypeOK
<1>2. worker[w].updated \in SUBSET Links /\ (worker[w].missed # {}) \in BOOLEAN
  BY <1>1 DEF WorkerType
<1>3. CASE worker[w].updated = {}
  BY <1>1, <1>3, FailedEffect DEF Verdict, Reasons
<1>4. CASE worker[w].updated # {}
  BY <1>1, <1>2, <1>4, FinishedEffect DEF Verdict
<1> QED BY <1>3, <1>4

LEMMA InterruptedTyped ==
  ASSUME TypeInv, NEW w \in Workers, worker[w].job \in Requests,
         NEW r \in Interrupted(w)
  PROVE  /\ r \in RowType
         /\ r.attempts = row[worker[w].job].attempts
         /\ worker[w].pc # "refresh" => r = row[worker[w].job]
<1>1. r = row[worker[w].job] \/ (r = Verdict(w) /\ worker[w].pc = "refresh")
  BY DEF Interrupted
<1>2. row[worker[w].job] \in RowType
  BY DEF TypeInv, TypeOK
<1> QED BY <1>1, <1>2, VerdictTyped

\* The COMMIT of a verdict on the job that w holds.
LEMMA SettleTyped ==
  ASSUME TypeInv, NEW w \in Workers, worker[w].pc # "idle",
         NEW verdict \in RowType, NEW pc \in {"answer", "ack"},
         CommitVerdict(w, verdict), Step(w, [worker[w] EXCEPT !.pc = pc]),
         UNCHANGED <<req, born, queue, failedRegistry>>, faults' \in 0..MaxFaults
  PROVE  TypeInv'
<1>1. worker[w].job \in Requests /\ worker[w].flushed \in SUBSET Links
  BY DEF TypeInv, TypeOK, Busy, WorkerType
<1>2. row' \in [Requests -> RowType] /\ refreshed' \in [Requests -> SUBSET Links]
  BY <1>1, VerdictEffect DEF TypeInv, TypeOK
<1>3. worker' \in [Workers -> WorkerType] /\ Busy'
  BY PcTyped DEF WorkerPcs
<1> QED BY <1>2, <1>3 DEF TypeInv, TypeOK

LEMMA TypeInit == Init => TypeInv
<1> SUFFICES ASSUME Init PROVE TypeInv
  OBVIOUS
<1>1. Absent \in RowType
  BY DEF Absent, RowType, Reasons
<1>2. req \in [Requests -> RequestType]
  BY DEF Init, RequestType, RequestPcs
<1>3. TypeOK
  BY <1>1, <1>2, IdleType, SyncAssumption DEF Init, TypeOK
<1>4. Busy
  BY DEF Init, Busy, IdleWorker
<1> QED BY <1>3, <1>4 DEF TypeInv

LEMMA TypeStep == TypeInv /\ [Next]_vars => TypeInv'
<1> SUFFICES ASSUME TypeInv, [Next]_vars PROVE TypeInv'
  OBVIOUS
<1> USE DEF TypeInv, TypeOK, Busy
<1>1. ASSUME NEW r \in Requests, RequestStep(r) PROVE TypeInv'
  <2> USE DEF RequestPcs
  <2>1. CASE RefuseUnknownTarget(r)
    BY <2>1, GotoEffect DEF RefuseUnknownTarget
  <2>2. CASE ReuseActiveJob(r)
    <3> PICK j \in Requests : Answer(r, "reused", j)
      BY <2>2 DEF ReuseActiveJob, NewestActive, ActiveJobs
    <3> QED BY <2>2, AnswerEffect DEF ReuseActiveJob
  <2>3. CASE MissActiveJob(r)
    BY <2>3, GotoEffect DEF MissActiveJob
  <2>4. CASE CreateJob(r)
    <3>1. 1 + Cardinality({j \in Requests : born[j] # 0}) \in Nat
      BY StartedIsNat
    <3>2. born' \in [Requests -> Nat]
      BY <2>4, <3>1 DEF CreateJob
    <3> QED BY <2>4, <3>2, GotoEffect DEF CreateJob
  <2>5. CASE Schedule(r)
    <3>1. queue' \in Seq(Requests)
      BY <2>5 DEF Schedule
    <3> QED BY <2>5, <3>1, GotoEffect DEF Schedule
  <2>6. CASE CommitJob(r)
    <3>1. row' \in [Requests -> RowType]
      BY <2>6 DEF CommitJob, RowType, Absent, ActiveStatuses, Reasons
    <3> QED BY <2>6, <3>1, AnswerEffect DEF CommitJob
  <2>7. CASE CommitRefusal(r)
    <3>1. row' \in [Requests -> RowType]
      BY <2>7 DEF CommitRefusal, RowType, Absent, TerminalStatuses, Reasons
    <3> QED BY <2>7, <3>1, GotoEffect DEF CommitRefusal
  <2> QED BY <1>1, <2>1, <2>2, <2>3, <2>4, <2>5, <2>6, <2>7 DEF RequestStep
<1>2. ASSUME NEW r \in Requests, RequestFault(r) PROVE TypeInv'
  <2> USE DEF RequestPcs
  <2>1. CASE ScheduleFails(r)
    <3>1. Append(queue, r) \in Seq(Requests)
      OBVIOUS
    <3>2. queue' \in Seq(Requests)
      BY <2>1, <3>1 DEF ScheduleFails
    <3>3. faults' \in 0..MaxFaults
      BY <2>1, SyncAssumption DEF ScheduleFails, Fault
    <3> QED BY <2>1, <3>2, <3>3, GotoEffect DEF ScheduleFails
  <2>2. CASE AbortRequest(r)
    <3>1. faults' \in 0..MaxFaults
      BY <2>2, SyncAssumption DEF AbortRequest, Fault
    <3> QED BY <2>2, <3>1, GotoEffect DEF AbortRequest
  <2> QED BY <1>2, <2>1, <2>2 DEF RequestFault
<1>3. ASSUME NEW w \in Workers, WorkerStep(w) PROVE TypeInv'
  <2>0. worker[w] \in WorkerType /\ (worker[w].pc # "idle" => worker[w].job \in Requests)
    BY DEF WorkerType
  <2> USE DEF WorkerPcs
  <2>1. CASE Dequeue(w)
    <3> DEFINE f == [IdleWorker EXCEPT !.pc = "load", !.job = Head(queue)]
    <3>1. Head(queue) \in Requests /\ Tail(queue) \in Seq(Requests)
      BY <2>1 DEF Dequeue
    <3>2. f \in WorkerType /\ f.pc = "load" /\ f.job \in Requests
      BY <3>1, AttemptType DEF IdleWorker, WorkerType
    <3>3. Step(w, f)
      BY <2>1 DEF Dequeue
    <3> HIDE DEF f
    <3>4. worker' \in [Workers -> WorkerType] /\ Busy'
      BY <3>2, <3>3, WorkerTyped, SyncAssumption
    <3> QED BY <2>1, <3>1, <3>4 DEF Dequeue
  <2>2. CASE LoadMissing(w)
    BY <2>0, <2>2, IdleTyped DEF LoadMissing
  <2>3. CASE LoadSettled(w)
    <3>1. worker' \in [Workers -> WorkerType] /\ Busy'
      BY <2>3, PcTyped DEF LoadSettled
    <3> QED BY <2>3, <3>1 DEF LoadSettled
  <2>4. CASE LoadActive(w)
    <3> DEFINE n == row[worker[w].job].attempts
               f == [worker[w] EXCEPT !.pc = "start", !.seen = n]
    <3>1. worker[w].job \in Requests
      BY <2>0, <2>4 DEF LoadActive
    <3>2. n \in Nat
      BY <3>1 DEF RowType
    <3>3. f \in WorkerType /\ f.pc = "start" /\ f.job = worker[w].job
      BY <2>0, <3>2 DEF WorkerType
    <3>4. Step(w, f)
      BY <2>4 DEF LoadActive
    <3> HIDE DEF f
    <3>5. worker' \in [Workers -> WorkerType] /\ Busy'
      BY <3>1, <3>3, <3>4, WorkerTyped, SyncAssumption
    <3> QED BY <2>4, <3>5 DEF LoadActive
  <2>5. CASE MarkStarted(w)
    <3>1. worker[w].job \in Requests /\ worker[w].seen + 1 \in Nat
      BY <2>0, <2>5 DEF MarkStarted, WorkerType
    <3>2. row' \in [Requests -> RowType]
      BY <2>5, <3>1 DEF MarkStarted, RowType, ActiveStatuses
    <3>3. worker' \in [Workers -> WorkerType] /\ Busy'
      BY <2>5, PcTyped DEF MarkStarted
    <3> QED BY <2>5, <3>2, <3>3 DEF MarkStarted
  <2>6. CASE FindNoLinks(w)
    <3>1. row[worker[w].job] \in RowType
      BY <2>0, <2>6 DEF FindNoLinks
    <3>2. Failed(row[worker[w].job], "no_platform_links") \in RowType
      BY <3>1, FailedEffect DEF Reasons
    <3> QED BY <2>6, <3>2, SettleTyped DEF FindNoLinks, Settle
  <2>7. CASE FindLinks(w)
    <3> PICK ls \in SUBSET Links \ {{}} :
          Step(w, [worker[w] EXCEPT !.pc = "refresh", !.todo = ls])
      BY <2>7 DEF FindLinks
    <3> DEFINE f == [worker[w] EXCEPT !.pc = "refresh", !.todo = ls]
    <3>1. f \in WorkerType /\ f.pc = "refresh" /\ f.job = worker[w].job
      BY <2>0 DEF WorkerType
    <3>2. worker[w].job # NoJob
      BY <2>0, <2>7, SyncAssumption DEF FindLinks
    <3> HIDE DEF f
    <3>3. worker' \in [Workers -> WorkerType] /\ Busy'
      BY <3>1, <3>2, WorkerTyped DEF f
    <3> QED BY <2>7, <3>3 DEF FindLinks
  <2>8. CASE TakeLink(w)
    <3> PICK l \in worker[w].todo :
          Step(w, [worker[w] EXCEPT !.pc = "fetch", !.cur = l, !.attempt = 1,
                                    !.todo = @ \ {l}])
      BY <2>8 DEF TakeLink
    <3> DEFINE f == [worker[w] EXCEPT !.pc = "fetch", !.cur = l, !.attempt = 1,
                                      !.todo = @ \ {l}]
    <3>1. l \in Links
      BY <2>0 DEF WorkerType
    <3>2. f \in WorkerType /\ f.pc = "fetch" /\ f.job = worker[w].job /\ f.cur = l
      BY <2>0, <3>1, AttemptType DEF WorkerType
    <3>3. worker[w].job # NoJob
      BY <2>0, <2>8, SyncAssumption DEF TakeLink
    <3> HIDE DEF f
    <3>4. worker' \in [Workers -> WorkerType] /\ Busy'
      BY <3>1, <3>2, <3>3, WorkerTyped DEF f
    <3> QED BY <2>8, <3>4 DEF TakeLink
  <2>9. CASE FetchOk(w)
    <3>1. worker' \in [Workers -> WorkerType] /\ Busy'
      BY <2>9, PcTyped DEF FetchOk
    <3> QED BY <2>9, <3>1 DEF FetchOk
  <2>10. CASE FetchRetry(w)
    <3> DEFINE f == [worker[w] EXCEPT !.attempt = @ + 1]
    <3>0. worker[w].attempt + 1 \in 0..MaxAttempts
      BY <2>0, <2>10, SyncAssumption DEF WorkerType, FetchRetry
    <3>1. /\ f \in WorkerType
          /\ f.pc = worker[w].pc /\ f.job = worker[w].job /\ f.cur = worker[w].cur
      BY <2>0, <3>0 DEF WorkerType
    <3>2. Step(w, f)
      BY <2>10 DEF FetchRetry
    <3> HIDE DEF f
    <3>3. worker' \in [Workers -> WorkerType] /\ Busy'
      BY <3>1, <3>2, WorkerTyped
    <3> QED BY <2>10, <3>3 DEF FetchRetry
  <2>11. CASE GiveUp(w)
    <3> DEFINE f == [worker[w] EXCEPT !.pc = "refresh", !.cur = NoLink, !.attempt = 0,
                                      !.missed = @ \cup {worker[w].cur}]
    <3>1. worker[w].cur \in Links /\ worker[w].job # NoJob
      BY <2>0, <2>11, SyncAssumption DEF GiveUp
    <3>2. f \in WorkerType /\ f.pc = "refresh" /\ f.job = worker[w].job
      BY <2>0, <3>1, AttemptType DEF WorkerType
    <3>3. Step(w, f)
      BY <2>11 DEF GiveUp
    <3> HIDE DEF f
    <3>4. worker' \in [Workers -> WorkerType] /\ Busy'
      BY <3>1, <3>2, <3>3, WorkerTyped
    <3> QED BY <2>11, <3>4 DEF GiveUp
  <2>12. CASE Persist(w)
    <3> DEFINE f == [worker[w] EXCEPT !.pc = "refresh", !.cur = NoLink, !.attempt = 0,
                                      !.flushed = @ \cup {worker[w].cur},
                                      !.updated = @ \cup {worker[w].cur}]
    <3>1. worker[w].cur \in Links /\ worker[w].job # NoJob
      BY <2>0, <2>12, SyncAssumption DEF Persist
    <3>2. f \in WorkerType /\ f.pc = "refresh" /\ f.job = worker[w].job
      BY <2>0, <3>1, AttemptType DEF WorkerType
    <3>3. Step(w, f)
      BY <2>12 DEF Persist
    <3> HIDE DEF f
    <3>4. worker' \in [Workers -> WorkerType] /\ Busy'
      BY <3>1, <3>2, <3>3, WorkerTyped
    <3> QED BY <2>12, <3>4 DEF Persist
  <2>13. CASE SettleRefresh(w)
    <3>1. worker[w].job \in Requests
      BY <2>0, <2>13 DEF SettleRefresh
    <3>2. Verdict(w) \in RowType
      BY <3>1, VerdictTyped
    <3> QED BY <2>13, <3>2, SettleTyped DEF SettleRefresh, Settle
  <2>14. CASE Ack(w)
    <3>1. worker' \in [Workers -> WorkerType] /\ Busy'
      BY <2>14, IdleTyped DEF Ack
    <3> QED BY <2>14, <3>1 DEF Ack
  <2> QED BY <1>3, <2>1, <2>2, <2>3, <2>4, <2>5, <2>6, <2>7, <2>8, <2>9, <2>10,
             <2>11, <2>12, <2>13, <2>14 DEF WorkerStep
<1>4. ASSUME NEW w \in Workers, WorkerFault(w) PROVE TypeInv'
  <2>0. worker[w] \in WorkerType /\ (worker[w].pc # "idle" => worker[w].job \in Requests)
    BY DEF WorkerType
  <2> USE DEF WorkerPcs
  <2>1. CASE ExecutionFails(w)
    <3>1. worker[w].job \in Requests
      BY <2>0, <2>1 DEF ExecutionFails
    <3> PICK r \in Interrupted(w) :
          CommitVerdict(w, Failed(r, "sync_execution_failed"))
      BY <2>1 DEF ExecutionFails
    <3>2. Failed(r, "sync_execution_failed") \in RowType
      BY <3>1, InterruptedTyped, FailedEffect DEF Reasons
    <3>3. faults' \in 0..MaxFaults
      BY <2>1, SyncAssumption DEF ExecutionFails, Fault
    <3> QED BY <2>1, <3>2, <3>3, SettleTyped DEF ExecutionFails
  <2>3. CASE PersistInterrupted(w)
    <3> PICK counted \in SUBSET {worker[w].cur} :
          Step(w, [worker[w] EXCEPT !.pc = "refresh", !.cur = NoLink, !.attempt = 0,
                                    !.flushed = @ \cup {worker[w].cur},
                                    !.updated = @ \cup counted,
                                    !.missed = @ \cup {worker[w].cur}])
      BY <2>3 DEF PersistInterrupted
    <3> DEFINE f == [worker[w] EXCEPT !.pc = "refresh", !.cur = NoLink, !.attempt = 0,
                                      !.flushed = @ \cup {worker[w].cur},
                                      !.updated = @ \cup counted,
                                      !.missed = @ \cup {worker[w].cur}]
    <3>1. worker[w].cur \in Links /\ worker[w].job # NoJob
      BY <2>0, <2>3, SyncAssumption DEF PersistInterrupted
    <3>2. f \in WorkerType /\ f.pc = "refresh" /\ f.job = worker[w].job
      BY <2>0, <3>1, AttemptType DEF WorkerType
    <3>3. Step(w, f)
      OBVIOUS
    <3> HIDE DEF f
    <3>4. worker' \in [Workers -> WorkerType] /\ Busy'
      BY <3>1, <3>2, <3>3, WorkerTyped
    <3>5. faults' \in 0..MaxFaults
      BY <2>3, SyncAssumption DEF PersistInterrupted, Fault
    <3> QED BY <2>3, <3>4, <3>5 DEF PersistInterrupted
  <2>2. CASE LoseExecution(w)
    <3>1. worker[w].job \in Requests
      BY <2>0, <2>2 DEF LoseExecution
    <3>2. faults' \in 0..MaxFaults
      BY <2>2, SyncAssumption DEF LoseExecution, Fault
    <3>3. worker' \in [Workers -> WorkerType] /\ Busy'
      BY <2>2, IdleTyped DEF LoseExecution
    <3> QED BY <2>2, <3>1, <3>2, <3>3 DEF LoseExecution
  <2> QED BY <1>4, <2>1, <2>2, <2>3 DEF WorkerFault
<1>5. ASSUME NEW j \in Requests, Requeue(j) PROVE TypeInv'
  BY <1>5 DEF Requeue
<1>6. CASE UNCHANGED vars
  BY <1>6 DEF vars
<1> QED BY <1>1, <1>2, <1>3, <1>4, <1>5, <1>6 DEF Next

\* Every reachable state is well typed.
THEOREM TypeCorrect == Spec => []TypeOK
<1>1. Spec => []TypeInv
  BY TypeInit, TypeStep, PTL DEF Spec
<1>2. TypeInv => TypeOK
  BY DEF TypeInv
<1> QED BY <1>1, <1>2, PTL

-----------------------------------------------------------------------------
(* Where a job's identifier is. *)

Token(j) == InQueue(j) \/ Held(j) \/ j \in failedRegistry

QueueDistinct == \A i, k \in 1..Len(queue) : queue[i] = queue[k] => i = k

HeldOnce ==
  \A v, w \in Workers :
    worker[v].job # NoJob /\ worker[v].job = worker[w].job => v = w

OnePlace ==
  \A j \in Requests :
    /\ InQueue(j) => ~ Held(j) /\ j \notin failedRegistry
    /\ Held(j) => j \notin failedRegistry

\* A job's identifier is nowhere before its request pushed it ...
Unsent ==
  \A r \in Requests : req[r].pc \in {"idle", "create", "schedule"} => ~ Token(r)

\* ... and somewhere between the push and the commit.
Sent == \A r \in Requests : req[r].pc = "commit" => Token(r)

TokenInv == QueueDistinct /\ HeldOnce /\ OnePlace /\ Unsent /\ Sent

-----------------------------------------------------------------------------
(* The queue as a set of identifiers. *)

LEMMA AppendEffect ==
  ASSUME NEW j \in Requests, queue \in Seq(Requests), queue' = Append(queue, j),
         QueueDistinct, ~ InQueue(j)
  PROVE  /\ QueueDistinct'
         /\ \A k \in Requests : InQueue(k)' <=> InQueue(k) \/ k = j
<1>1. /\ Len(queue') = Len(queue) + 1 /\ Len(queue) \in Nat
      /\ \A i \in 1..Len(queue) : queue'[i] = queue[i]
      /\ queue'[Len(queue) + 1] = j
  OBVIOUS
<1>2. QueueDistinct'
  BY <1>1 DEF QueueDistinct, InQueue
<1>3. \A k \in Requests : InQueue(k)' <=> InQueue(k) \/ k = j
  BY <1>1 DEF InQueue
<1> QED BY <1>2, <1>3

LEMMA TailEffect ==
  ASSUME queue \in Seq(Requests), queue # <<>>, queue' = Tail(queue), QueueDistinct
  PROVE  /\ QueueDistinct'
         /\ Head(queue) \in Requests /\ InQueue(Head(queue))
         /\ \A k \in Requests : InQueue(k)' <=> InQueue(k) /\ k # Head(queue)
<1>1. /\ Len(queue) \in Nat /\ Len(queue) >= 1 /\ Len(queue') = Len(queue) - 1
      /\ \A i \in 1..Len(queue') : queue'[i] = queue[i + 1]
      /\ Head(queue) = queue[1] /\ Head(queue) \in Requests
  OBVIOUS
<1>2. QueueDistinct'
  BY <1>1 DEF QueueDistinct
<1>3. InQueue(Head(queue))
  BY <1>1 DEF InQueue
<1>4. ASSUME NEW k \in Requests, InQueue(k)' PROVE InQueue(k) /\ k # Head(queue)
  <2>1. PICK i \in 1..Len(queue') : queue'[i] = k
    BY <1>4 DEF InQueue
  <2>2. i + 1 \in 1..Len(queue) /\ queue[i + 1] = k /\ i + 1 # 1 /\ 1 \in 1..Len(queue)
    BY <1>1, <2>1
  <2> QED BY <1>1, <2>2 DEF InQueue, QueueDistinct
<1>5. ASSUME NEW k \in Requests, InQueue(k), k # Head(queue) PROVE InQueue(k)'
  <2>1. PICK i \in 1..Len(queue) : queue[i] = k
    BY <1>5 DEF InQueue
  <2>2. i - 1 \in 1..Len(queue') /\ queue'[i - 1] = k
    BY <1>1, <1>5, <2>1
  <2> QED BY <2>2 DEF InQueue
<1> QED BY <1>1, <1>2, <1>3, <1>4, <1>5

\* A step that moves no identifier.
LEMMA TokensStay ==
  ASSUME UNCHANGED <<queue, failedRegistry>>,
         \A v \in Workers : worker'[v].job = worker[v].job
  PROVE  /\ QueueDistinct' <=> QueueDistinct
         /\ HeldOnce' <=> HeldOnce
         /\ OnePlace' <=> OnePlace
         /\ \A j \in Requests : /\ InQueue(j)' <=> InQueue(j)
                                /\ Held(j)' <=> Held(j)
                                /\ Token(j)' <=> Token(j)
BY DEF QueueDistinct, HeldOnce, OnePlace, InQueue, Held, Token

\* A worker that becomes idle, or takes the job j, holds what it now holds.
LEMMA HeldEffect ==
  ASSUME NEW w \in Workers, NEW f \in WorkerType, worker \in [Workers -> WorkerType],
         Step(w, f), HeldOnce
  PROVE  \A j \in Requests :
           Held(j)' <=> (Held(j) /\ worker[w].job # j) \/ f.job = j
<1>1. worker'[w] = f /\ \A v \in Workers : v # w => worker'[v] = worker[v]
  BY StepEffect
<1>2. ASSUME NEW j \in Requests, Held(j)'
      PROVE  (Held(j) /\ worker[w].job # j) \/ f.job = j
  <2>1. PICK v \in Workers : worker'[v].job = j
    BY <1>2 DEF Held
  <2>2. CASE v = w
    BY <1>1, <2>1, <2>2
  <2>3. CASE v # w
    <3>1. worker[v].job = j /\ j # NoJob
      BY <1>1, <2>1, <2>3, SyncAssumption
    <3>2. worker[w].job # j
      BY <2>3, <3>1 DEF HeldOnce
    <3> QED BY <3>1, <3>2 DEF Held
  <2> QED BY <2>2, <2>3
<1>3. ASSUME NEW j \in Requests, (Held(j) /\ worker[w].job # j) \/ f.job = j
      PROVE  Held(j)'
  BY <1>1, <1>3 DEF Held
<1> QED BY <1>2, <1>3

-----------------------------------------------------------------------------
(* Where identifiers are: TokenInv is inductive relative to TypeInv. *)

LEMMA TokenInit == Init => TokenInv
BY SyncAssumption
   DEF Init, TokenInv, QueueDistinct, HeldOnce, OnePlace, Unsent, Sent, Token,
       InQueue, Held, IdleWorker

\* Steps of a request that push nothing.
LEMMA TokenRequest ==
  ASSUME TypeInv, TokenInv, NEW r \in Requests,
         UNCHANGED <<queue, failedRegistry, worker>>,
         \A q \in Requests : q # r => req'[q] = req[q],
         req'[r].pc \in {"idle", "create", "schedule"} => req[r].pc \in {"idle", "create"},
         req'[r].pc # "commit"
  PROVE  TokenInv'
<1>1. /\ QueueDistinct' /\ HeldOnce' /\ OnePlace'
      /\ \A j \in Requests : Token(j)' <=> Token(j)
  BY TokensStay DEF TokenInv
<1>2. Unsent'
  BY <1>1 DEF TokenInv, Unsent
<1>3. Sent'
  BY <1>1 DEF TokenInv, Sent
<1> QED BY <1>1, <1>2, <1>3 DEF TokenInv

\* The push.
LEMMA TokenPush ==
  ASSUME TypeInv, TokenInv, NEW r \in Requests, req[r].pc = "schedule",
         queue' = Append(queue, r), UNCHANGED <<failedRegistry, worker>>,
         \A q \in Requests : q # r => req'[q] = req[q],
         req'[r].pc \in {"commit", "reject"}
  PROVE  TokenInv'
<1>1. ~ InQueue(r) /\ ~ Held(r) /\ r \notin failedRegistry
  BY DEF TokenInv, Unsent, Token
<1>2. /\ QueueDistinct'
      /\ \A k \in Requests : InQueue(k)' <=> InQueue(k) \/ k = r
  BY <1>1, AppendEffect DEF TokenInv, TypeInv, TypeOK
<1>3. HeldOnce' /\ \A k \in Requests : Held(k)' <=> Held(k)
  BY DEF TokenInv, HeldOnce, Held
<1>4. OnePlace'
  BY <1>1, <1>2, <1>3 DEF TokenInv, OnePlace
<1>5. Unsent' /\ Sent'
  BY <1>2, <1>3 DEF TokenInv, Unsent, Sent, Token
<1> QED BY <1>2, <1>3, <1>4, <1>5 DEF TokenInv

\* Steps inside an execution.
LEMMA TokenWork ==
  ASSUME TypeInv, TokenInv, NEW w \in Workers, NEW f \in WorkerType, Step(w, f),
         f.job = worker[w].job, UNCHANGED <<req, queue, failedRegistry>>
  PROVE  TokenInv'
<1>1. \A v \in Workers : worker'[v].job = worker[v].job
  BY StepEffect DEF TypeInv, TypeOK
<1>2. /\ QueueDistinct' /\ HeldOnce' /\ OnePlace'
      /\ \A j \in Requests : Token(j)' <=> Token(j)
  BY <1>1, TokensStay DEF TokenInv
<1> QED BY <1>2 DEF TokenInv, Unsent, Sent

\* A worker drops the job it holds, with or without a failed registry entry;
\* without one, only a job whose request is done.
LEMMA TokenDrop ==
  ASSUME TypeInv, TokenInv, NEW w \in Workers, worker[w].job \in Requests,
         Step(w, IdleWorker), UNCHANGED <<req, queue>>,
         \/ failedRegistry' = failedRegistry \cup {worker[w].job}
         \/ failedRegistry' = failedRegistry /\ req[worker[w].job].pc # "commit"
  PROVE  TokenInv'
<1> DEFINE d == worker[w].job
<1>0. IdleWorker.job = NoJob
  BY DEF IdleWorker
<1>1. /\ worker'[w].job = NoJob
      /\ \A v \in Workers : v # w => worker'[v] = worker[v]
  BY <1>0, IdleType, StepEffect DEF TypeInv, TypeOK
<1>2. HeldOnce'
  BY <1>1 DEF TokenInv, HeldOnce
<1>3. Held(d) /\ ~ InQueue(d) /\ d \notin failedRegistry
  BY DEF TokenInv, OnePlace, Held
<1>4. \A k \in Requests : Held(k)' <=> Held(k) /\ k # d
  <2>1. IdleWorker.job \notin Requests
    BY SyncAssumption DEF IdleWorker
  <2> QED BY <2>1, IdleType, HeldEffect DEF TypeInv, TypeOK, TokenInv
<1>5. QueueDistinct' /\ \A k \in Requests : InQueue(k)' <=> InQueue(k)
  BY DEF TokenInv, QueueDistinct, InQueue
<1>6. OnePlace'
  BY <1>3, <1>4, <1>5 DEF TokenInv, OnePlace
<1>7. Unsent' /\ Sent'
  BY <1>3, <1>4, <1>5 DEF TokenInv, Unsent, Sent, Token
<1> QED BY <1>2, <1>5, <1>6, <1>7 DEF TokenInv

LEMMA TokenDequeue ==
  ASSUME TypeInv, TokenInv, NEW w \in Workers, Dequeue(w) PROVE TokenInv'
<1> DEFINE h == Head(queue)
           f == [IdleWorker EXCEPT !.pc = "load", !.job = h]
<1>1. /\ QueueDistinct' /\ h \in Requests /\ InQueue(h)
      /\ \A k \in Requests : InQueue(k)' <=> InQueue(k) /\ k # h
  BY TailEffect DEF Dequeue, TypeInv, TypeOK, TokenInv
<1>2. f \in WorkerType /\ f.job = h
  BY <1>1, AttemptType DEF IdleWorker, WorkerType, WorkerPcs
<1>3. Step(w, f)
  BY DEF Dequeue
<1>4. worker[w].job = NoJob
  BY DEF Dequeue, TypeInv, Busy
<1> HIDE DEF f
<1>5. /\ worker'[w].job = h
      /\ \A v \in Workers : v # w => worker'[v] = worker[v]
  BY <1>2, <1>3, StepEffect DEF TypeInv, TypeOK
<1>6. ~ Held(h) /\ h \notin failedRegistry
  BY <1>1 DEF TokenInv, OnePlace
<1>7. \A k \in Requests : Held(k)' <=> Held(k) \/ k = h
  <2>1. \A k \in Requests : worker[w].job # k
    BY <1>4, SyncAssumption
  <2> QED BY <1>2, <1>3, <2>1, HeldEffect DEF TypeInv, TypeOK, TokenInv
<1>8. HeldOnce'
  BY <1>1, <1>5, <1>6 DEF TokenInv, HeldOnce, Held
<1>9. OnePlace'
  BY <1>1, <1>6, <1>7 DEF TokenInv, OnePlace, Dequeue
<1>10. Unsent' /\ Sent'
  BY <1>1, <1>7 DEF TokenInv, Unsent, Sent, Token, Dequeue
<1> QED BY <1>1, <1>8, <1>9, <1>10 DEF TokenInv

LEMMA TokenRequeue ==
  ASSUME TypeInv, TokenInv, NEW j \in Requests, Requeue(j) PROVE TokenInv'
<1>1. ~ InQueue(j) /\ ~ Held(j)
  BY DEF Requeue, TokenInv, OnePlace
<1>2. /\ QueueDistinct'
      /\ \A k \in Requests : InQueue(k)' <=> InQueue(k) \/ k = j
  BY <1>1, AppendEffect DEF Requeue, TokenInv, TypeInv, TypeOK
<1>3. HeldOnce' /\ \A k \in Requests : Held(k)' <=> Held(k)
  BY DEF Requeue, TokenInv, HeldOnce, Held
<1>4. OnePlace'
  BY <1>1, <1>2, <1>3 DEF Requeue, TokenInv, OnePlace
<1>5. Unsent' /\ Sent'
  BY <1>2, <1>3 DEF Requeue, TokenInv, Unsent, Sent, Token
<1> QED BY <1>2, <1>3, <1>4, <1>5 DEF TokenInv

-----------------------------------------------------------------------------
(* What the committed rows say. *)

\* A row exists once its request has committed, and not before.
RowByPc ==
  \A r \in Requests : Present(r) <=> req[r].pc \in {"created", "unavailable"}

\* Until it is settled a job has no reason and has left no platform row.
Clean ==
  \A j \in Requests :
    ~ IsTerminal(j) => refreshed[j] = {} /\ row[j].reason = "none"

Unstarted == \A j \in Requests : ~ Present(j) => row[j].attempts = 0

\* What a finished or failed row may say of the platform rows behind it.
AtomicAt(j) ==
  /\ row[j].status = "finished" =>
       /\ row[j].updated # {} /\ row[j].updated \subseteq refreshed[j]
       /\ row[j].updated = refreshed[j] \/ row[j].partial
  /\ refreshed[j] # {} =>
       \/ row[j].status = "finished"
       \/ row[j].status = "failed"
            /\ row[j].reason \in {"sync_execution_failed", "provider_refresh_failed"}

\* Before its links are loaded an execution has flushed nothing; later it has
\* counted what it flushed, except links that it recorded as failed.
Untried(f) == f.flushed = {} /\ f.updated = {}
Tallied(f) == /\ f.updated \subseteq f.flushed
              /\ f.updated = f.flushed \/ f.missed # {}

\* What the holder of a job knows about its row.
HolderKnows(w) ==
  /\ worker[w].pc = "start" =>
       IsActive(worker[w].job) /\ worker[w].seen = row[worker[w].job].attempts
  /\ worker[w].pc \in {"links", "refresh", "fetch", "persist"} =>
       row[worker[w].job].status = "started"
  /\ worker[w].pc \in {"answer", "ack"} => IsTerminal(worker[w].job)
  /\ worker[w].pc \in {"load", "start", "links"} => Untried(worker[w])
  /\ worker[w].pc \in {"refresh", "fetch", "persist"} => Tallied(worker[w])

WorkerRow == \A w \in Workers : HolderKnows(w)

AnswerOf(r, j) ==
  /\ Present(j)
  /\ req[j].target = req[r].target
  /\ row[j].reason # "queue_enqueue_failed"

Answers ==
  \A r \in Requests :
    Accepted(r) => req[r].job \in Requests /\ AnswerOf(r, req[r].job)

RowInv == /\ RowByPc /\ Clean /\ Unstarted /\ WorkerRow
          /\ ActiveRowBacked /\ RefreshAtomic /\ Answers

IInv == TypeInv /\ TokenInv /\ RowInv

LEMMA RowInit == Init => RowInv
BY DEF Init, RowInv, RowByPc, Clean, Unstarted, WorkerRow, HolderKnows, ActiveRowBacked, RefreshAtomic,
       Answers, AnswerOf, Absent, IdleWorker, Present, IsActive, IsTerminal,
       Accepted, ActiveStatuses, TerminalStatuses

\* Steps of a request that write no row; a reused job is active.
LEMMA RowRequest ==
  ASSUME IInv, NEW r \in Requests, UNCHANGED <<row, worker, refreshed>>,
         \A q \in Requests : q # r => req'[q] = req[q],
         \A q \in Requests : req'[q].target = req[q].target,
         req[r].pc \notin {"created", "unavailable"},
         req'[r].pc \notin {"created", "unavailable"},
         Accepted(r)' =>
           \E j \in Requests : /\ req'[r].job = j /\ IsActive(j)
                               /\ req[j].target = req[r].target,
         \A j \in Requests : Token(j) => Token(j)'
  PROVE  RowInv'
<1> USE DEF IInv, RowInv
<1>1. RowByPc' /\ Unstarted'
  BY DEF RowByPc, Unstarted, Present
<1>2. Clean' /\ WorkerRow' /\ RefreshAtomic'
  BY DEF Clean, WorkerRow, HolderKnows, RefreshAtomic, IsActive, IsTerminal
<1>3. ActiveRowBacked'
  BY DEF ActiveRowBacked, IsActive, Token
<1>4. ASSUME NEW q \in Requests, Accepted(q)'
      PROVE  req'[q].job \in Requests /\ AnswerOf(q, req[q].job)'
  <2>1. CASE q = r
    <3> PICK j \in Requests : /\ req'[r].job = j /\ IsActive(j)
                              /\ req[j].target = req[r].target
      BY <1>4, <2>1
    <3>1. Present(j) /\ ~ IsTerminal(j)
      BY DEF Present, IsActive, IsTerminal, ActiveStatuses, TerminalStatuses
    <3>2. row[j].reason = "none"
      BY <3>1 DEF Clean
    <3> QED BY <2>1, <3>1, <3>2 DEF AnswerOf, Present
  <2>2. CASE q # r
    <3>1. Accepted(q) /\ req'[q] = req[q]
      BY <1>4, <2>2 DEF Accepted
    <3>2. req[q].job \in Requests /\ AnswerOf(q, req[q].job)
      BY <3>1 DEF Answers
    <3> QED BY <3>1, <3>2 DEF AnswerOf, Present
  <2> QED BY <2>1, <2>2
<1>5. Answers'
  BY <1>4 DEF Answers
<1> QED BY <1>1, <1>2, <1>3, <1>5

\* The row of a request is written by its commit.
LEMMA RowCommit ==
  ASSUME IInv, NEW r \in Requests, CommitJob(r) \/ CommitRefusal(r)
  PROVE  RowInv'
<1> USE DEF IInv, RowInv
<1>1. /\ \A q \in Requests : req'[q].target = req[q].target
      /\ \A q \in Requests : q # r => req'[q] = req[q]
      /\ \/ req'[r].pc = "created" /\ req'[r].job = r
         \/ req'[r].pc = "unavailable"
  BY GotoEffect, AnswerEffect DEF CommitJob, CommitRefusal, TypeInv, TypeOK, RequestPcs
<1>2. /\ \A q \in Requests : q # r => row'[q] = row[q]
      /\ \/ /\ row'[r].status = "queued" /\ row'[r].reason = "none"
            /\ req[r].pc = "commit" /\ req'[r].pc = "created"
         \/ /\ row'[r].status = "failed" /\ row'[r].reason = "queue_enqueue_failed"
            /\ req[r].pc = "reject" /\ req'[r].pc = "unavailable"
      /\ UNCHANGED <<worker, queue, failedRegistry, refreshed>>
  <2>1. CASE CommitJob(r)
    <3>1. req'[r].pc = "created"
      BY <2>1, AnswerEffect DEF CommitJob, TypeInv, TypeOK, RequestPcs
    <3> QED BY <2>1, <3>1 DEF CommitJob, Absent, TypeInv, TypeOK
  <2>2. CASE CommitRefusal(r)
    <3>1. req'[r].pc = "unavailable"
      BY <2>2, GotoEffect DEF CommitRefusal, TypeInv, TypeOK, RequestPcs
    <3> QED BY <2>2, <3>1 DEF CommitRefusal, Absent, TypeInv, TypeOK
  <2> QED BY <2>1, <2>2
<1>3. ~ Present(r)
  BY <1>2 DEF RowByPc
<1>4. RowByPc' /\ Unstarted'
  BY <1>1, <1>2 DEF RowByPc, Unstarted, Present
<1>5. refreshed[r] = {}
  BY <1>3 DEF Clean, Present, IsTerminal, TerminalStatuses
<1>6. Clean' /\ RefreshAtomic'
  BY <1>2, <1>5 DEF Clean, RefreshAtomic, IsTerminal, TerminalStatuses
<1>7. WorkerRow'
  <2> SUFFICES ASSUME NEW w \in Workers PROVE HolderKnows(w)'
    BY DEF WorkerRow
  <2>1. row[r].status = "absent"
    BY <1>3 DEF Present
  <2>2. worker[w].pc \in {"start", "links", "refresh", "fetch", "persist", "answer", "ack"}
          => worker[w].job # r /\ worker[w].job \in Requests
    BY <2>1 DEF WorkerRow, HolderKnows, IsActive, IsTerminal, ActiveStatuses, TerminalStatuses,
                TypeInv, TypeOK, Busy, WorkerType
  <2> QED BY <1>2, <2>2 DEF WorkerRow, HolderKnows, IsActive, IsTerminal
<1>8. ActiveRowBacked'
  <2>1. req[r].pc = "commit" => Token(r)
    BY DEF TokenInv, Sent
  <2>2. \A j \in Requests : Token(j)' <=> Token(j)
    BY <1>2 DEF Token, InQueue, Held
  <2> QED BY <1>2, <2>1, <2>2 DEF ActiveRowBacked, IsActive, ActiveStatuses, Token
<1>9. Answers'
  <2> SUFFICES ASSUME NEW q \in Requests, Accepted(q)'
      PROVE  req'[q].job \in Requests /\ AnswerOf(q, req[q].job)'
    BY DEF Answers
  <2>1. CASE q = r
    BY <1>1, <1>2, <2>1 DEF Accepted, AnswerOf, Present
  <2>2. CASE q # r
    <3>1. Accepted(q) /\ req'[q] = req[q]
      BY <1>1, <2>2 DEF Accepted
    <3>2. req[q].job \in Requests /\ AnswerOf(q, req[q].job)
      BY <3>1 DEF Answers
    <3>3. req[q].job # r
      BY <1>3, <3>2 DEF AnswerOf
    <3> QED BY <1>1, <1>2, <3>1, <3>2, <3>3 DEF AnswerOf, Present
  <2> QED BY <2>1, <2>2
<1> QED BY <1>4, <1>6, <1>7, <1>8, <1>9

\* Steps of workers and operators that write no row.
LEMMA RowStays ==
  ASSUME IInv, UNCHANGED <<row, refreshed, req>>, WorkerRow',
         \A j \in Requests : IsActive(j) /\ Token(j) => Token(j)'
  PROVE  RowInv'
<1> USE DEF IInv, RowInv
<1>1. RowByPc' /\ Clean' /\ Unstarted' /\ RefreshAtomic' /\ Answers'
  BY DEF RowByPc, Unstarted, Clean, RefreshAtomic, Answers, AnswerOf, Present,
         IsTerminal, Accepted
<1>2. ActiveRowBacked'
  BY DEF ActiveRowBacked, IsActive, Token
<1> QED BY <1>1, <1>2

\* The holder of a job writes its row: nobody else holds the job, and the row
\* stays present, so every other worker and every request keeps its relation.
LEMMA RowWritten ==
  ASSUME IInv, NEW w \in Workers, worker[w].job \in Requests,
         NEW f \in WorkerType, Step(w, f), f.job = worker[w].job,
         UNCHANGED <<req, queue, failedRegistry>>,
         Present(worker[w].job),
         \A k \in Requests :
           k # worker[w].job => row'[k] = row[k] /\ refreshed'[k] = refreshed[k],
         \/ /\ row'[f.job].status = "started" /\ row'[f.job].reason = "none"
            /\ refreshed'[f.job] = {} /\ f.pc = "links" /\ Untried(f)
         \/ /\ row'[f.job].status \in TerminalStatuses /\ f.pc \in {"answer", "ack"}
            /\ row'[f.job].reason # "queue_enqueue_failed" /\ AtomicAt(f.job)'
  PROVE  RowInv'
<1> USE DEF IInv, RowInv
<1> DEFINE d == worker[w].job
<1>1. worker'[w] = f /\ \A v \in Workers : v # w => worker'[v] = worker[v]
  BY StepEffect DEF TypeInv, TypeOK
<1>2. /\ row'[d].status \in {"started", "finished", "failed"}
      /\ row'[d].reason # "queue_enqueue_failed"
  BY DEF TerminalStatuses
<1>3. RowByPc' /\ Unstarted'
  BY <1>2 DEF RowByPc, Unstarted, Present
<1>4. Clean'
  BY DEF Clean, IsTerminal
<1>5. RefreshAtomic'
  <2>1. \A k \in Requests : k = d => AtomicAt(k)'
    BY DEF AtomicAt
  <2>2. ASSUME NEW k \in Requests, k # d PROVE AtomicAt(k)'
    BY <2>2 DEF RefreshAtomic, AtomicAt
  <2> QED BY <2>1, <2>2 DEF RefreshAtomic, AtomicAt
<1>6. \A j \in Requests : Token(j)' <=> Token(j)
  <2>1. \A v \in Workers : worker'[v].job = worker[v].job
    BY <1>1
  <2> QED BY <2>1, TokensStay
<1>7. ActiveRowBacked'
  <2>1. Token(d)
    BY DEF Token, Held
  <2> QED BY <1>6, <2>1 DEF ActiveRowBacked, IsActive, Token
<1>8. Answers'
  BY <1>2 DEF Answers, AnswerOf, Accepted, Present
<1>9. WorkerRow'
  <2> SUFFICES ASSUME NEW v \in Workers PROVE HolderKnows(v)'
    BY DEF WorkerRow
  <2>1. CASE v = w
    BY <1>1, <2>1 DEF HolderKnows, IsTerminal, TerminalStatuses
  <2>2. CASE v # w
    <3>1. worker[v].job # d
      BY <2>2, SyncAssumption DEF TokenInv, HeldOnce
    <3>2. worker[v].pc # "idle" => worker[v].job \in Requests
      BY DEF TypeInv, TypeOK, Busy, WorkerType
    <3> QED BY <1>1, <2>2, <3>1, <3>2 DEF WorkerRow, HolderKnows, IsActive, IsTerminal
  <2> QED BY <2>1, <2>2
<1> QED BY <1>3, <1>4, <1>5, <1>7, <1>8, <1>9

-----------------------------------------------------------------------------
(* IInv is inductive. *)

\* Steps inside an execution that write no row.
LEMMA WorkStep ==
  ASSUME IInv, NEW w \in Workers, NEW f \in WorkerType, Step(w, f),
         f.job = worker[w].job,
         UNCHANGED <<req, row, queue, failedRegistry, refreshed>>,
         f.pc = "start" => IsActive(f.job) /\ f.seen = row[f.job].attempts,
         f.pc \in {"links", "refresh", "fetch", "persist"} => row[f.job].status = "started",
         f.pc \in {"answer", "ack"} => IsTerminal(f.job),
         f.pc \in {"load", "start", "links"} => Untried(f),
         f.pc \in {"refresh", "fetch", "persist"} => Tallied(f)
  PROVE  TokenInv' /\ RowInv'
<1> USE DEF IInv
<1>1. TokenInv'
  BY TokenWork
<1>2. worker'[w] = f /\ \A v \in Workers : v # w => worker'[v] = worker[v]
  BY StepEffect DEF TypeInv, TypeOK
<1>3. WorkerRow'
  <2> SUFFICES ASSUME NEW v \in Workers PROVE HolderKnows(v)'
    BY DEF WorkerRow
  <2> QED BY <1>2 DEF RowInv, WorkerRow, HolderKnows, IsActive, IsTerminal
<1>4. \A j \in Requests : Token(j)' <=> Token(j)
  <2>1. \A v \in Workers : worker'[v].job = worker[v].job
    BY <1>2
  <2> QED BY <2>1, TokensStay
<1> QED BY <1>1, <1>3, <1>4, RowStays

\* A worker that takes or drops a job has nothing to know about its row yet.
LEMMA RowHandover ==
  ASSUME IInv, NEW w \in Workers, NEW f \in WorkerType, Step(w, f),
         f.pc \in {"idle", "load"}, Untried(f), UNCHANGED <<req, row, refreshed>>,
         \A j \in Requests : IsActive(j) /\ Token(j) => Token(j)'
  PROVE  RowInv'
<1>1. worker'[w] = f /\ \A v \in Workers : v # w => worker'[v] = worker[v]
  BY StepEffect DEF IInv, TypeInv, TypeOK
<1>2. WorkerRow'
  <2> SUFFICES ASSUME NEW v \in Workers PROVE HolderKnows(v)'
    BY DEF WorkerRow
  <2> QED BY <1>1 DEF IInv, RowInv, WorkerRow, HolderKnows, IsActive, IsTerminal
<1> QED BY <1>2, RowStays

LEMMA RequestKeepsInv ==
  ASSUME IInv, NEW r \in Requests, RequestStep(r) \/ RequestFault(r)
  PROVE  TokenInv' /\ RowInv'
<1> USE DEF IInv, TypeInv, TypeOK, RequestPcs, Accepted
<1>1. CASE RefuseUnknownTarget(r)
  <2>1. /\ req'[r].pc = "notfound" /\ \A q \in Requests : req'[q].target = req[q].target
        /\ \A q \in Requests : q # r => req'[q] = req[q]
    BY <1>1, GotoEffect DEF RefuseUnknownTarget
  <2>2. TokenInv'
    BY <1>1, <2>1, TokenRequest DEF RefuseUnknownTarget
  <2>3. \A j \in Requests : Token(j)' <=> Token(j)
    BY <1>1, TokensStay DEF RefuseUnknownTarget
  <2> QED BY <1>1, <2>1, <2>2, <2>3, RowRequest DEF RefuseUnknownTarget
<1>2. CASE ReuseActiveJob(r)
  <2> PICK j \in Requests : /\ Answer(r, "reused", j) /\ IsActive(j)
                            /\ req[j].target = req[r].target
    BY <1>2 DEF ReuseActiveJob, NewestActive, ActiveJobs
  <2>1. /\ req'[r].pc = "reused" /\ req'[r].job = j
        /\ \A q \in Requests : req'[q].target = req[q].target
        /\ \A q \in Requests : q # r => req'[q] = req[q]
    BY AnswerEffect
  <2>2. TokenInv'
    BY <1>2, <2>1, TokenRequest DEF ReuseActiveJob
  <2>3. \A k \in Requests : Token(k)' <=> Token(k)
    BY <1>2, TokensStay DEF ReuseActiveJob
  <2> QED BY <1>2, <2>1, <2>2, <2>3, RowRequest DEF ReuseActiveJob
<1>3. CASE MissActiveJob(r)
  <2>1. /\ req'[r].pc = "create" /\ \A q \in Requests : req'[q].target = req[q].target
        /\ \A q \in Requests : q # r => req'[q] = req[q]
    BY <1>3, GotoEffect DEF MissActiveJob
  <2>2. TokenInv'
    BY <1>3, <2>1, TokenRequest DEF MissActiveJob
  <2>3. \A j \in Requests : Token(j)' <=> Token(j)
    BY <1>3, TokensStay DEF MissActiveJob
  <2> QED BY <1>3, <2>1, <2>2, <2>3, RowRequest DEF MissActiveJob
<1>4. CASE CreateJob(r)
  <2>1. /\ req'[r].pc = "schedule" /\ \A q \in Requests : req'[q].target = req[q].target
        /\ \A q \in Requests : q # r => req'[q] = req[q]
    BY <1>4, GotoEffect DEF CreateJob
  <2>2. TokenInv'
    BY <1>4, <2>1, TokenRequest DEF CreateJob
  <2>3. \A j \in Requests : Token(j)' <=> Token(j)
    BY <1>4, TokensStay DEF CreateJob
  <2> QED BY <1>4, <2>1, <2>2, <2>3, RowRequest DEF CreateJob
<1>5. CASE /\ req[r].pc = "schedule" /\ queue' = Append(queue, r)
           /\ Goto(r, "commit") \/ Goto(r, "reject")
           /\ UNCHANGED <<row, failedRegistry, worker, refreshed>>
  <2>1. /\ req'[r].pc \in {"commit", "reject"}
        /\ \A q \in Requests : req'[q].target = req[q].target
        /\ \A q \in Requests : q # r => req'[q] = req[q]
    BY <1>5, GotoEffect
  <2>2. TokenInv'
    BY <1>5, <2>1, TokenPush
  <2>3. \A j \in Requests : Token(j) => Token(j)'
    <3>1. \A k \in Requests : InQueue(k)' <=> InQueue(k) \/ k = r
      BY <1>5, AppendEffect DEF TokenInv, Unsent, Token
    <3> QED BY <1>5, <3>1 DEF Token, Held
  <2> QED BY <1>5, <2>1, <2>2, <2>3, RowRequest
<1>6. CASE Schedule(r)
  BY <1>5, <1>6 DEF Schedule
<1>7. CASE ScheduleFails(r)
  <2>1. CASE queue' = Append(queue, r)
    BY <1>5, <1>7, <2>1 DEF ScheduleFails
  <2>2. CASE queue' = queue
    <3>1. /\ req'[r].pc = "reject" /\ \A q \in Requests : req'[q].target = req[q].target
          /\ \A q \in Requests : q # r => req'[q] = req[q]
      BY <1>7, GotoEffect DEF ScheduleFails
    <3>2. TokenInv'
      BY <1>7, <2>2, <3>1, TokenRequest DEF ScheduleFails
    <3>3. \A j \in Requests : Token(j)' <=> Token(j)
      BY <1>7, <2>2, TokensStay DEF ScheduleFails
    <3> QED BY <1>7, <3>1, <3>2, <3>3, RowRequest DEF ScheduleFails
  <2> QED BY <1>7, <2>1, <2>2 DEF ScheduleFails
<1>8. CASE CommitJob(r) \/ CommitRefusal(r)
  <2>1. /\ req'[r].pc \in {"created", "unavailable"}
        /\ \A q \in Requests : q # r => req'[q] = req[q]
    BY <1>8, GotoEffect, AnswerEffect DEF CommitJob, CommitRefusal
  <2>2. TokenInv'
    BY <1>8, <2>1, TokenRequest DEF CommitJob, CommitRefusal
  <2> QED BY <1>8, <2>2, RowCommit
<1>9. CASE AbortRequest(r)
  <2>1. /\ req'[r].pc = "error" /\ \A q \in Requests : req'[q].target = req[q].target
        /\ \A q \in Requests : q # r => req'[q] = req[q]
    BY <1>9, GotoEffect DEF AbortRequest
  <2>2. TokenInv'
    BY <1>9, <2>1, TokenRequest DEF AbortRequest
  <2>3. \A j \in Requests : Token(j)' <=> Token(j)
    BY <1>9, TokensStay DEF AbortRequest
  <2> QED BY <1>9, <2>1, <2>2, <2>3, RowRequest DEF AbortRequest, InFlight
<1> QED BY <1>1, <1>2, <1>3, <1>4, <1>6, <1>7, <1>8, <1>9 DEF RequestStep, RequestFault

LEMMA StartKeepsInv ==
  ASSUME IInv, NEW w \in Workers, MarkStarted(w)
  PROVE  /\ TokenInv' /\ RowInv'
         /\ worker[w].job \in Requests /\ IsActive(worker[w].job)
         /\ row'[worker[w].job].status = "started"
         /\ row'[worker[w].job].attempts = row[worker[w].job].attempts + 1
         /\ \A k \in Requests : k # worker[w].job => row'[k] = row[k]
<1> USE DEF IInv
<1> DEFINE d == worker[w].job
           f == [worker[w] EXCEPT !.pc = "links"]
<1>1. d \in Requests /\ worker[w] \in WorkerType
  BY DEF MarkStarted, TypeInv, TypeOK, Busy, WorkerType
<1>2. IsActive(d) /\ worker[w].seen = row[d].attempts
  BY DEF MarkStarted, RowInv, WorkerRow, HolderKnows
<1>3. f \in WorkerType /\ f.pc = "links" /\ f.job = d /\ Untried(f)
  <2>1. Untried(worker[w])
    BY DEF MarkStarted, RowInv, WorkerRow, HolderKnows
  <2> QED BY <1>1, <2>1, PcEffect DEF WorkerPcs, Untried
<1>4. Present(d) /\ ~ IsTerminal(d)
  BY <1>2 DEF Present, IsActive, IsTerminal, ActiveStatuses, TerminalStatuses
<1>5. refreshed[d] = {} /\ row[d].reason = "none"
  BY <1>1, <1>4 DEF RowInv, Clean
<1>6. /\ row'[d].status = "started" /\ row'[d].reason = "none"
      /\ row'[d].attempts = row[d].attempts + 1
      /\ \A k \in Requests : k # d => row'[k] = row[k]
  BY <1>1, <1>2, <1>5 DEF MarkStarted, TypeInv, TypeOK, RowType
<1>7. Step(w, f) /\ UNCHANGED <<req, queue, failedRegistry, refreshed>>
  BY DEF MarkStarted
<1> HIDE DEF f
<1>8. TokenInv'
  BY <1>3, <1>7, TokenWork
<1>9. RowInv'
  BY <1>1, <1>3, <1>4, <1>5, <1>6, <1>7, RowWritten
<1> QED BY <1>1, <1>2, <1>6, <1>8, <1>9

\* Every way of settling: at the end of execute and in its handler.
LEMMA VerdictKeepsInv ==
  ASSUME IInv, NEW w \in Workers, worker[w].pc \in {"links", "refresh", "answer"},
         NEW verdict \in RowType, CommitVerdict(w, verdict),
         NEW pc \in {"answer", "ack"}, Step(w, [worker[w] EXCEPT !.pc = pc]),
         UNCHANGED <<req, queue, failedRegistry>>,
         verdict.status \in TerminalStatuses, verdict.reason # "queue_enqueue_failed",
         verdict.status = "finished" =>
           /\ worker[w].pc = "refresh"
           /\ verdict.updated = worker[w].updated /\ verdict.updated # {}
           /\ verdict.partial = (worker[w].missed # {}),
         verdict.status = "failed" =>
           \/ worker[w].pc = "links"
           \/ verdict.reason \in {"sync_execution_failed", "provider_refresh_failed"}
  PROVE  /\ TokenInv' /\ RowInv'
         /\ worker[w].job \in Requests
         /\ IF worker[w].pc = "answer" THEN IsTerminal(worker[w].job)
                                       ELSE row[worker[w].job].status = "started"
         /\ row'[worker[w].job] = verdict
         /\ \A k \in Requests : k # worker[w].job => row'[k] = row[k]
<1> USE DEF IInv
<1> DEFINE d == worker[w].job
           f == [worker[w] EXCEPT !.pc = pc]
<1>1. /\ d \in Requests /\ worker[w] \in WorkerType
      /\ worker[w].flushed \in SUBSET Links
  BY DEF TypeInv, TypeOK, Busy, WorkerType
<1>2. IF worker[w].pc = "answer" THEN IsTerminal(d) ELSE row[d].status = "started"
  BY DEF RowInv, WorkerRow, HolderKnows
<1>3. f \in WorkerType /\ f.pc = pc /\ f.job = d
  <2>1. pc \in WorkerPcs
    BY DEF WorkerPcs
  <2> QED BY <1>1, <2>1, PcEffect
<1>4. Present(d)
  BY <1>2 DEF Present, IsTerminal, TerminalStatuses
<1>5. worker[w].pc # "answer" => refreshed[d] = {}
  BY <1>1, <1>2 DEF RowInv, Clean, IsTerminal, TerminalStatuses
<1>6. /\ row'[d] = verdict
      /\ refreshed'[d] = refreshed[d] \cup worker[w].flushed
      /\ \A k \in Requests : k # d => row'[k] = row[k] /\ refreshed'[k] = refreshed[k]
  BY <1>1, VerdictEffect DEF TypeInv, TypeOK
<1> HIDE DEF f
<1>7. TokenInv'
  BY <1>3, TokenWork DEF f
<1>8. ASSUME NEW k \in Requests, k = d PROVE AtomicAt(k)'
  <2>0. row'[k] = verdict /\ refreshed'[k] = refreshed[d] \cup worker[w].flushed
    BY <1>6, <1>8
  <2>1. CASE verdict.status = "finished"
    <3>1. Tallied(worker[w])
      BY <2>1 DEF RowInv, WorkerRow, HolderKnows
    <3> QED BY <1>5, <2>0, <2>1, <3>1 DEF AtomicAt, Tallied
  <2>2. CASE verdict.status = "failed"
    <3>1. worker[w].pc = "links" => worker[w].flushed = {}
      BY DEF RowInv, WorkerRow, HolderKnows, Untried
    <3> QED BY <1>5, <2>0, <2>2, <3>1 DEF AtomicAt
  <2> QED BY <2>1, <2>2 DEF TerminalStatuses
<1>9. Step(w, f)
  BY DEF f
<1>10. RowInv'
  <2>1. row'[f.job].status \in TerminalStatuses
        /\ row'[f.job].reason # "queue_enqueue_failed"
    BY <1>3, <1>6
  <2> QED BY <1>1, <1>3, <1>4, <1>6, <1>8, <1>9, <2>1, RowWritten
<1> QED BY <1>1, <1>2, <1>6, <1>7, <1>10

\* The settling steps of a worker.
LEMMA SettlingStep ==
  ASSUME IInv, NEW w \in Workers,
         FindNoLinks(w) \/ SettleRefresh(w) \/ ExecutionFails(w)
  PROVE  /\ TokenInv' /\ RowInv'
         /\ worker[w].job \in Requests
         /\ row'[worker[w].job].status \in TerminalStatuses
         /\ row'[worker[w].job].attempts = row[worker[w].job].attempts
         /\ \/ row[worker[w].job].status = "started"
            \/ /\ Revocable(worker[w].job) /\ IsTerminal(worker[w].job)
               /\ row'[worker[w].job] =
                    Failed(row[worker[w].job], "sync_execution_failed")
         /\ \A k \in Requests : k # worker[w].job => row'[k] = row[k]
<1> DEFINE d == worker[w].job
<1>1. worker[w].pc # "idle" => d \in Requests /\ row[d] \in RowType
  BY DEF IInv, TypeInv, TypeOK, Busy, WorkerType
<1>2. CASE FindNoLinks(w)
  <2> DEFINE v == Failed(row[d], "no_platform_links")
  <2>1. /\ v \in RowType /\ v.status = "failed" /\ v.reason = "no_platform_links"
        /\ v.attempts = row[d].attempts
    BY <1>1, <1>2, FailedEffect DEF FindNoLinks, Reasons
  <2>2. /\ CommitVerdict(w, v) /\ Step(w, [worker[w] EXCEPT !.pc = "answer"])
        /\ worker[w].pc = "links" /\ UNCHANGED <<req, queue, failedRegistry>>
    BY <1>2 DEF FindNoLinks, Settle
  <2> HIDE DEF v
  <2> QED BY <2>1, <2>2, VerdictKeepsInv DEF TerminalStatuses
<1>3. CASE SettleRefresh(w)
  <2>1. /\ CommitVerdict(w, Verdict(w)) /\ Step(w, [worker[w] EXCEPT !.pc = "answer"])
        /\ worker[w].pc = "refresh" /\ UNCHANGED <<req, queue, failedRegistry>>
    BY <1>3 DEF SettleRefresh, Settle
  <2>2. d \in Requests /\ row[d].reason = "none"
    BY <1>1, <2>1 DEF IInv, RowInv, Clean, WorkerRow, HolderKnows, IsTerminal,
                      TerminalStatuses
  <2>3. /\ Verdict(w) \in RowType /\ Verdict(w).attempts = row[d].attempts
        /\ worker[w].updated = {} =>
             /\ Verdict(w).status = "failed"
             /\ Verdict(w).reason = "provider_refresh_failed"
        /\ worker[w].updated # {} =>
             /\ Verdict(w).status = "finished" /\ Verdict(w).reason = "none"
             /\ Verdict(w).updated = worker[w].updated
             /\ Verdict(w).partial = (worker[w].missed # {})
    BY <2>2, VerdictTyped DEF IInv
  <2>4. CASE worker[w].updated = {}
    BY <2>1, <2>3, <2>4, VerdictKeepsInv DEF TerminalStatuses
  <2>5. CASE worker[w].updated # {}
    BY <2>1, <2>3, <2>5, VerdictKeepsInv DEF TerminalStatuses
  <2> QED BY <2>4, <2>5
<1>4. CASE ExecutionFails(w)
  <2> PICK r \in Interrupted(w) :
        CommitVerdict(w, Failed(r, "sync_execution_failed"))
    BY <1>4 DEF ExecutionFails
  <2> DEFINE v == Failed(r, "sync_execution_failed")
  <2>1. /\ Step(w, [worker[w] EXCEPT !.pc = "ack"])
        /\ worker[w].pc \in {"links", "refresh", "answer"}
        /\ UNCHANGED <<req, queue, failedRegistry>>
    BY <1>4 DEF ExecutionFails
  <2>2. /\ r \in RowType /\ r.attempts = row[d].attempts
        /\ worker[w].pc # "refresh" => r = row[d]
    BY <1>1, <2>1, InterruptedTyped DEF IInv
  <2>3. /\ v \in RowType /\ v.status = "failed" /\ v.reason = "sync_execution_failed"
        /\ v.attempts = r.attempts
    BY <2>2, FailedEffect DEF Reasons
  <2>4. CommitVerdict(w, v) /\ (worker[w].pc # "refresh" =>
                                 v = Failed(row[d], "sync_execution_failed"))
    BY <2>2
  <2> HIDE DEF v
  <2>5. /\ TokenInv' /\ RowInv' /\ d \in Requests
        /\ IF worker[w].pc = "answer" THEN IsTerminal(d) ELSE row[d].status = "started"
        /\ row'[d] = v /\ \A k \in Requests : k # d => row'[k] = row[k]
    BY <2>1, <2>3, <2>4, VerdictKeepsInv DEF TerminalStatuses
  <2> QED BY <2>2, <2>3, <2>4, <2>5 DEF Revocable, TerminalStatuses
<1> QED BY <1>2, <1>3, <1>4

\* The steps of a worker that write no row.
LEMMA WorkKeepsInv ==
  ASSUME IInv, NEW w \in Workers,
         \/ LoadSettled(w) \/ LoadActive(w) \/ FindLinks(w) \/ TakeLink(w)
         \/ FetchOk(w) \/ FetchRetry(w) \/ GiveUp(w) \/ Persist(w)
         \/ PersistInterrupted(w)
  PROVE  TokenInv' /\ RowInv'
<1>1. worker[w] \in WorkerType /\ HolderKnows(w)
  BY DEF IInv, TypeInv, TypeOK, RowInv, WorkerRow
<1> USE DEF WorkerPcs
<1>2. CASE LoadSettled(w)
  <2> DEFINE f == [worker[w] EXCEPT !.pc = "ack"]
  <2>1. f \in WorkerType /\ f.pc = "ack" /\ f.job = worker[w].job
    BY <1>1, PcEffect
  <2>2. Step(w, f) /\ UNCHANGED <<req, row, queue, failedRegistry, refreshed>>
    BY <1>2 DEF LoadSettled
  <2>3. IsTerminal(worker[w].job)
    BY <1>2 DEF LoadSettled
  <2> HIDE DEF f
  <2> QED BY <2>1, <2>2, <2>3, WorkStep
<1>3. CASE LoadActive(w)
  <2> DEFINE n == row[worker[w].job].attempts
             f == [worker[w] EXCEPT !.pc = "start", !.seen = n]
  <2>0. n \in Nat
    BY <1>3 DEF LoadActive, IInv, TypeInv, TypeOK, Busy, WorkerType, RowType
  <2>1. /\ f \in WorkerType /\ f.pc = "start" /\ f.job = worker[w].job
        /\ f.seen = n /\ (Untried(f) <=> Untried(worker[w]))
    BY <1>1, <2>0, AttemptType DEF WorkerType, Untried
  <2>2. Step(w, f) /\ UNCHANGED <<req, row, queue, failedRegistry, refreshed>>
    BY <1>3 DEF LoadActive
  <2>3. IsActive(worker[w].job) /\ Untried(worker[w])
    BY <1>1, <1>3 DEF LoadActive, HolderKnows
  <2> HIDE DEF f
  <2> QED BY <2>1, <2>2, <2>3, WorkStep
<1>4. CASE FindLinks(w)
  <2> PICK ls \in SUBSET Links \ {{}} :
        Step(w, [worker[w] EXCEPT !.pc = "refresh", !.todo = ls])
    BY <1>4 DEF FindLinks
  <2> DEFINE f == [worker[w] EXCEPT !.pc = "refresh", !.todo = ls]
  <2>1. f \in WorkerType /\ f.pc = "refresh" /\ f.job = worker[w].job
    BY <1>1 DEF WorkerType
  <2>2. row[worker[w].job].status = "started" /\ Tallied(f)
    <3>1. Untried(worker[w]) /\ row[worker[w].job].status = "started"
      BY <1>1, <1>4 DEF FindLinks, HolderKnows
    <3> QED BY <1>1, <3>1 DEF Untried, Tallied, WorkerType
  <2>3. UNCHANGED <<req, row, queue, failedRegistry, refreshed>>
    BY <1>4 DEF FindLinks
  <2>4. Step(w, f)
    OBVIOUS
  <2> HIDE DEF f
  <2> QED BY <2>1, <2>2, <2>3, <2>4, WorkStep
<1>5. CASE TakeLink(w)
  <2> PICK l \in worker[w].todo :
        Step(w, [worker[w] EXCEPT !.pc = "fetch", !.cur = l, !.attempt = 1,
                                  !.todo = @ \ {l}])
    BY <1>5 DEF TakeLink
  <2> DEFINE f == [worker[w] EXCEPT !.pc = "fetch", !.cur = l, !.attempt = 1,
                                    !.todo = @ \ {l}]
  <2>0. l \in Links
    BY <1>1 DEF WorkerType
  <2>1. f \in WorkerType /\ f.pc = "fetch" /\ f.job = worker[w].job
    BY <1>1, <2>0, AttemptType DEF WorkerType
  <2>2. row[worker[w].job].status = "started" /\ Tallied(f)
    <3>1. Tallied(worker[w]) /\ row[worker[w].job].status = "started"
      BY <1>1, <1>5 DEF TakeLink, HolderKnows
    <3> QED BY <1>1, <3>1 DEF Tallied, WorkerType
  <2>3. UNCHANGED <<req, row, queue, failedRegistry, refreshed>>
    BY <1>5 DEF TakeLink
  <2>4. Step(w, f)
    OBVIOUS
  <2> HIDE DEF f
  <2> QED BY <2>1, <2>2, <2>3, <2>4, WorkStep
<1>6. CASE FetchOk(w)
  <2> DEFINE f == [worker[w] EXCEPT !.pc = "persist"]
  <2>1. f \in WorkerType /\ f.pc = "persist" /\ f.job = worker[w].job
    BY <1>1, PcEffect
  <2>2. Step(w, f) /\ UNCHANGED <<req, row, queue, failedRegistry, refreshed>>
    BY <1>6 DEF FetchOk
  <2>3. row[worker[w].job].status = "started" /\ Tallied(f)
    <3>1. Tallied(worker[w]) /\ row[worker[w].job].status = "started"
      BY <1>1, <1>6 DEF FetchOk, HolderKnows
    <3> QED BY <1>1, <3>1 DEF Tallied, WorkerType
  <2> HIDE DEF f
  <2> QED BY <2>1, <2>2, <2>3, WorkStep
<1>7. CASE FetchRetry(w)
  <2> DEFINE f == [worker[w] EXCEPT !.attempt = @ + 1]
  <2>0. worker[w].attempt + 1 \in 0..MaxAttempts
    BY <1>1, <1>7, SyncAssumption DEF WorkerType, FetchRetry
  <2>1. f \in WorkerType /\ f.pc = "fetch" /\ f.job = worker[w].job
    BY <1>1, <1>7, <2>0 DEF WorkerType, FetchRetry
  <2>2. Step(w, f) /\ UNCHANGED <<req, row, queue, failedRegistry, refreshed>>
    BY <1>7 DEF FetchRetry
  <2>3. row[worker[w].job].status = "started" /\ Tallied(f)
    <3>1. Tallied(worker[w]) /\ row[worker[w].job].status = "started"
      BY <1>1, <1>7 DEF FetchRetry, HolderKnows
    <3> QED BY <1>1, <3>1 DEF Tallied, WorkerType
  <2> HIDE DEF f
  <2> QED BY <2>1, <2>2, <2>3, WorkStep
<1>8. CASE GiveUp(w)
  <2> DEFINE f == [worker[w] EXCEPT !.pc = "refresh", !.cur = NoLink, !.attempt = 0,
                                    !.missed = @ \cup {worker[w].cur}]
  <2>0. worker[w].cur \in Links
    BY <1>8 DEF GiveUp, IInv, TypeInv, Busy
  <2>1. f \in WorkerType /\ f.pc = "refresh" /\ f.job = worker[w].job
    BY <1>1, <2>0, AttemptType DEF WorkerType
  <2>2. Step(w, f) /\ UNCHANGED <<req, row, queue, failedRegistry, refreshed>>
    BY <1>8 DEF GiveUp
  <2>3. row[worker[w].job].status = "started" /\ Tallied(f)
    <3>1. Tallied(worker[w]) /\ row[worker[w].job].status = "started"
      BY <1>1, <1>8 DEF GiveUp, HolderKnows
    <3> QED BY <1>1, <3>1 DEF Tallied, WorkerType
  <2> HIDE DEF f
  <2> QED BY <2>1, <2>2, <2>3, WorkStep
<1>9. CASE Persist(w)
  <2> DEFINE f == [worker[w] EXCEPT !.pc = "refresh", !.cur = NoLink, !.attempt = 0,
                                    !.flushed = @ \cup {worker[w].cur},
                                    !.updated = @ \cup {worker[w].cur}]
  <2>0. worker[w].cur \in Links
    BY <1>9 DEF Persist, IInv, TypeInv, Busy
  <2>1. f \in WorkerType /\ f.pc = "refresh" /\ f.job = worker[w].job
    BY <1>1, <2>0, AttemptType DEF WorkerType
  <2>2. Step(w, f) /\ UNCHANGED <<req, row, queue, failedRegistry, refreshed>>
    BY <1>9 DEF Persist
  <2>3. row[worker[w].job].status = "started" /\ Tallied(f)
    <3>1. Tallied(worker[w]) /\ row[worker[w].job].status = "started"
      BY <1>1, <1>9 DEF Persist, HolderKnows
    <3> QED BY <1>1, <3>1 DEF Tallied, WorkerType
  <2> HIDE DEF f
  <2> QED BY <2>1, <2>2, <2>3, WorkStep
<1>10. CASE PersistInterrupted(w)
  <2> PICK counted \in SUBSET {worker[w].cur} :
        Step(w, [worker[w] EXCEPT !.pc = "refresh", !.cur = NoLink, !.attempt = 0,
                                  !.flushed = @ \cup {worker[w].cur},
                                  !.updated = @ \cup counted,
                                  !.missed = @ \cup {worker[w].cur}])
    BY <1>10 DEF PersistInterrupted
  <2> DEFINE f == [worker[w] EXCEPT !.pc = "refresh", !.cur = NoLink, !.attempt = 0,
                                    !.flushed = @ \cup {worker[w].cur},
                                    !.updated = @ \cup counted,
                                    !.missed = @ \cup {worker[w].cur}]
  <2>0. worker[w].cur \in Links
    BY <1>10 DEF PersistInterrupted, IInv, TypeInv, Busy
  <2>1. f \in WorkerType /\ f.pc = "refresh" /\ f.job = worker[w].job
    BY <1>1, <2>0, AttemptType DEF WorkerType
  <2>2. Step(w, f) /\ UNCHANGED <<req, row, queue, failedRegistry, refreshed>>
    BY <1>10 DEF PersistInterrupted
  <2>3. row[worker[w].job].status = "started" /\ Tallied(f)
    <3>1. Tallied(worker[w]) /\ row[worker[w].job].status = "started"
      BY <1>1, <1>10 DEF PersistInterrupted, HolderKnows
    <3> QED BY <1>1, <3>1 DEF Tallied, WorkerType
  <2> HIDE DEF f
  <2> QED BY <2>1, <2>2, <2>3, WorkStep
<1> QED BY <1>2, <1>3, <1>4, <1>5, <1>6, <1>7, <1>8, <1>9, <1>10

\* The steps that move an identifier.
LEMMA HandoverKeepsInv ==
  ASSUME IInv, NEW w \in Workers,
         Dequeue(w) \/ LoadMissing(w) \/ LoseExecution(w) \/ Ack(w)
  PROVE  TokenInv' /\ RowInv'
<1>1. /\ worker[w] \in WorkerType
      /\ worker[w].pc # "idle" => worker[w].job \in Requests
      /\ HolderKnows(w)
  BY DEF IInv, TypeInv, TypeOK, Busy, WorkerType, RowInv, WorkerRow
<1>2. IdleWorker.pc = "idle" /\ Untried(IdleWorker) /\ IdleWorker.job = NoJob
  BY DEF IdleWorker, Untried
<1>3. CASE Dequeue(w)
  <2> DEFINE f == [IdleWorker EXCEPT !.pc = "load", !.job = Head(queue)]
  <2>1. /\ Head(queue) \in Requests
        /\ \A k \in Requests : InQueue(k)' <=> InQueue(k) /\ k # Head(queue)
    BY <1>3, TailEffect DEF Dequeue, IInv, TypeInv, TypeOK, TokenInv
  <2>2. f \in WorkerType /\ f.pc = "load" /\ f.job = Head(queue) /\ Untried(f)
    BY <2>1, AttemptType DEF IdleWorker, WorkerType, WorkerPcs, Untried
  <2>3. Step(w, f)
    BY <1>3 DEF Dequeue
  <2>4. \A k \in Requests : worker[w].job # k
    BY <1>3, SyncAssumption DEF Dequeue, IInv, TypeInv, Busy
  <2> HIDE DEF f
  <2>5. \A k \in Requests : Held(k)' <=> Held(k) \/ f.job = k
    BY <2>2, <2>3, <2>4, HeldEffect DEF IInv, TypeInv, TypeOK, TokenInv
  <2>6. \A k \in Requests : Token(k) => Token(k)'
    BY <1>3, <2>1, <2>2, <2>5 DEF Token, Dequeue
  <2>7. TokenInv'
    BY <1>3, TokenDequeue DEF IInv
  <2> QED BY <1>3, <2>2, <2>3, <2>6, <2>7, RowHandover DEF Dequeue
<1>4. ASSUME worker[w].pc # "idle", Step(w, IdleWorker), UNCHANGED <<req, row, queue, refreshed>>,
             \/ failedRegistry' = failedRegistry \cup {worker[w].job}
             \/ failedRegistry' = failedRegistry /\ IsTerminal(worker[w].job)
      PROVE  TokenInv' /\ RowInv'
  <2> DEFINE d == worker[w].job
  <2>1. d \in Requests
    BY <1>1, <1>4
  <2>2. IsTerminal(d) => req[d].pc # "commit"
    BY <2>1 DEF IInv, RowInv, RowByPc, Present, IsTerminal, TerminalStatuses
  <2>3. TokenInv'
    BY <1>4, <2>1, <2>2, TokenDrop DEF IInv
  <2>4. \A k \in Requests : Held(k)' <=> Held(k) /\ d # k
    <3>1. \A k \in Requests : IdleWorker.job # k
      BY <1>2, SyncAssumption
    <3> QED BY <1>4, <3>1, IdleType, HeldEffect DEF IInv, TypeInv, TypeOK, TokenInv
  <2>5. \A k \in Requests : InQueue(k)' <=> InQueue(k)
    BY <1>4 DEF InQueue
  <2>6. \A k \in Requests : IsActive(k) /\ Token(k) => Token(k)'
    BY <1>4, <2>4, <2>5
       DEF Token, IsActive, IsTerminal, ActiveStatuses, TerminalStatuses
  <2> QED BY <1>2, <1>4, <2>3, <2>6, IdleType, RowHandover
<1>5. CASE LoadMissing(w)
  BY <1>4, <1>5 DEF LoadMissing
<1>6. CASE LoseExecution(w)
  BY <1>4, <1>6 DEF LoseExecution
<1>7. CASE Ack(w)
  BY <1>1, <1>4, <1>7 DEF Ack, HolderKnows
<1> QED BY <1>3, <1>5, <1>6, <1>7

LEMMA RequeueKeepsInv ==
  ASSUME IInv, NEW j \in Requests, Requeue(j) PROVE TokenInv' /\ RowInv'
<1>1. TokenInv'
  BY TokenRequeue DEF IInv
<1>2. \A k \in Requests : InQueue(k)' <=> InQueue(k) \/ k = j
  BY AppendEffect DEF Requeue, IInv, TokenInv, OnePlace, TypeInv, TypeOK
<1>3. \A k \in Requests : Token(k) => Token(k)'
  BY <1>2 DEF Token, Held, Requeue
<1>4. WorkerRow'
  BY DEF Requeue, IInv, RowInv, WorkerRow, HolderKnows, IsActive, IsTerminal
<1> QED BY <1>1, <1>3, <1>4, RowStays DEF Requeue

LEMMA IInit == Init => IInv
BY TypeInit, TokenInit, RowInit DEF IInv

LEMMA IStep == IInv /\ [Next]_vars => IInv'
<1> SUFFICES ASSUME IInv, [Next]_vars PROVE IInv'
  OBVIOUS
<1>1. TypeInv'
  BY TypeStep DEF IInv
<1>2. ASSUME NEW r \in Requests, RequestStep(r) \/ RequestFault(r)
      PROVE  TokenInv' /\ RowInv'
  BY <1>2, RequestKeepsInv
<1>3. ASSUME NEW w \in Workers, WorkerStep(w) \/ WorkerFault(w)
      PROVE  TokenInv' /\ RowInv'
  BY <1>3, StartKeepsInv, SettlingStep, WorkKeepsInv, HandoverKeepsInv
     DEF WorkerStep, WorkerFault
<1>4. ASSUME NEW j \in Requests, Requeue(j) PROVE TokenInv' /\ RowInv'
  BY <1>4, RequeueKeepsInv
<1>5. CASE UNCHANGED vars
  <2>1. TokenInv'
    BY <1>5 DEF IInv, vars, TokenInv, QueueDistinct, HeldOnce, OnePlace, Unsent, Sent,
                Token, InQueue, Held
  <2>2. WorkerRow'
    BY <1>5 DEF IInv, vars, RowInv, WorkerRow, HolderKnows, IsActive, IsTerminal
  <2>3. \A k \in Requests : Token(k) => Token(k)'
    BY <1>5 DEF vars, Token, InQueue, Held
  <2>4. UNCHANGED <<row, refreshed, req>>
    BY <1>5 DEF vars
  <2>5. RowInv'
    BY <2>2, <2>3, <2>4, RowStays
  <2> QED BY <1>1, <2>1, <2>5 DEF IInv
<1> QED BY <1>1, <1>2, <1>3, <1>4, <1>5 DEF Next, IInv

LEMMA Inductive == Spec => []IInv
BY IInit, IStep, PTL DEF Spec

-----------------------------------------------------------------------------
(* The theorems. *)

\* However requests, workers, failures and operators interleave, a job is
\* executed by one worker at a time.
THEOREM Exclusive == Spec => []ExclusiveExecution
<1>1. IInv => ExclusiveExecution
  BY DEF IInv, TokenInv, TypeInv, Busy, QueueDistinct, HeldOnce, OnePlace,
         ExclusiveExecution
<1> QED BY <1>1, Inductive, PTL

\* An active row always has a holder: the queue, a worker or the failed registry.
THEOREM ActiveBacked == Spec => []ActiveRowBacked
<1>1. IInv => ActiveRowBacked
  BY DEF IInv, RowInv
<1> QED BY <1>1, Inductive, PTL

\* Platform rows become visible with the verdict that reports them.
THEOREM RefreshIsAtomic == Spec => []RefreshAtomic
<1>1. IInv => RefreshAtomic
  BY DEF IInv, RowInv
<1> QED BY <1>1, Inductive, PTL

\* What a 202 names exists, is of the requested target and was not refused.
THEOREM AcceptedRecorded == Spec => []AcceptedJobRecorded
<1>1. IInv => AcceptedJobRecorded
  BY DEF IInv, RowInv, Answers, AnswerOf, AcceptedJobRecorded
<1> QED BY <1>1, Inductive, PTL

\* Every step that writes a row writes one row, in one of four ways.
LEMMA RowSteps ==
  ASSUME IInv, [Next]_vars
  PROVE  \/ row' = row
         \/ \E j \in Requests :
              /\ \A k \in Requests : k # j => row'[k] = row[k]
              /\ \/ /\ ~ Present(j) /\ row'[j].status \in {"queued", "failed"}
                    /\ row'[j].attempts = row[j].attempts /\ InFlight(j)
                 \/ /\ IsActive(j) /\ row'[j].status = "started"
                    /\ row'[j].attempts = row[j].attempts + 1
                 \/ /\ row[j].status = "started"
                    /\ row'[j].status \in TerminalStatuses
                    /\ row'[j].attempts = row[j].attempts
                 \/ /\ IsTerminal(j) /\ Revocable(j)
                    /\ row'[j] = Failed(row[j], "sync_execution_failed")
                    /\ row'[j].status = "failed" /\ row'[j].attempts = row[j].attempts
<1>1. ASSUME NEW r \in Requests, CommitJob(r) \/ CommitRefusal(r)
      PROVE  /\ \A k \in Requests : k # r => row'[k] = row[k]
             /\ ~ Present(r) /\ row'[r].status \in {"queued", "failed"}
             /\ row'[r].attempts = row[r].attempts /\ InFlight(r)
  <2>1. ~ Present(r)
    BY <1>1 DEF CommitJob, CommitRefusal, IInv, RowInv, RowByPc
  <2>2. row[r].attempts = 0
    BY <2>1 DEF IInv, RowInv, Unstarted
  <2> QED BY <1>1, <2>1, <2>2
          DEF CommitJob, CommitRefusal, Absent, IInv, TypeInv, TypeOK, InFlight
<1>2. ASSUME NEW r \in Requests, RequestStep(r) \/ RequestFault(r),
             ~ CommitJob(r), ~ CommitRefusal(r)
      PROVE  row' = row
  BY <1>2 DEF RequestStep, RequestFault, RefuseUnknownTarget, ReuseActiveJob,
              MissActiveJob, CreateJob, Schedule, ScheduleFails, AbortRequest
<1>3. ASSUME NEW w \in Workers, WorkerStep(w) \/ WorkerFault(w), ~ MarkStarted(w),
             ~ FindNoLinks(w), ~ SettleRefresh(w), ~ ExecutionFails(w)
      PROVE  row' = row
  BY <1>3 DEF WorkerStep, WorkerFault, Dequeue, LoadMissing, LoadSettled, LoadActive,
              FindLinks, TakeLink, FetchOk, FetchRetry, GiveUp, Persist, Ack,
              LoseExecution, PersistInterrupted
<1>4. ASSUME NEW j \in Requests, Requeue(j) PROVE row' = row
  BY <1>4 DEF Requeue
<1>5. CASE UNCHANGED vars
  BY <1>5 DEF vars
<1>6. ASSUME NEW w \in Workers, FindNoLinks(w) \/ SettleRefresh(w) \/ ExecutionFails(w)
      PROVE  \E j \in Requests :
               /\ \A k \in Requests : k # j => row'[k] = row[k]
               /\ row'[j].status \in TerminalStatuses
               /\ row'[j].attempts = row[j].attempts
               /\ \/ row[j].status = "started"
                  \/ /\ IsTerminal(j) /\ Revocable(j) /\ row'[j].status = "failed"
                     /\ row'[j] = Failed(row[j], "sync_execution_failed")
  <2> DEFINE d == worker[w].job
  <2>1. /\ d \in Requests /\ \A k \in Requests : k # d => row'[k] = row[k]
        /\ row'[d].status \in TerminalStatuses /\ row'[d].attempts = row[d].attempts
        /\ \/ row[d].status = "started"
           \/ /\ Revocable(d) /\ IsTerminal(d)
              /\ row'[d] = Failed(row[d], "sync_execution_failed")
    BY <1>6, SettlingStep
  <2>2. Failed(row[d], "sync_execution_failed").status = "failed"
    BY <2>1, FailedEffect DEF IInv, TypeInv, TypeOK, Reasons
  <2> QED BY <2>1, <2>2
<1>7. ASSUME NEW w \in Workers, MarkStarted(w)
      PROVE  \E j \in Requests :
               /\ \A k \in Requests : k # j => row'[k] = row[k]
               /\ IsActive(j) /\ row'[j].status = "started"
               /\ row'[j].attempts = row[j].attempts + 1
  BY <1>7, StartKeepsInv
<1> QED BY <1>1, <1>2, <1>3, <1>4, <1>5, <1>6, <1>7 DEF Next

\* A verdict stands once the execution that committed it has returned; until
\* then only the handler of that execution writes the row, and only to failed.
THEOREM VerdictsStand == Spec => VerdictStands
<1>1. IInv /\ [Next]_vars =>
        [\A j \in Requests : IsTerminal(j) =>
           \/ row'[j] = row[j]
           \/ Revocable(j) /\ row'[j] = Failed(row[j], "sync_execution_failed")]_vars
  <2> SUFFICES ASSUME IInv, [Next]_vars, NEW j \in Requests, IsTerminal(j)
               PROVE  \/ row'[j] = row[j]
                      \/ Revocable(j) /\ row'[j] = Failed(row[j], "sync_execution_failed")
    OBVIOUS
  <2> QED BY RowSteps DEF Present, IsActive, IsTerminal, ActiveStatuses, TerminalStatuses
<1> QED BY <1>1, Inductive, PTL DEF Spec, VerdictStands

\* The table sync_jobs implements JobLifecycle.
THEOREM ImplementsLifecycle == Spec => LifecycleSpec
<1> USE DEF Lifecycle!lifecycleVars
<1>1. Init => Lifecycle!Init
  BY DEF Init, Lifecycle!Init, Absent
<1>2. IInv /\ [Next]_vars => [Lifecycle!Next]_(Lifecycle!lifecycleVars)
  <2> SUFFICES ASSUME IInv, [Next]_vars,
                      ~ UNCHANGED Lifecycle!lifecycleVars
               PROVE  \E j \in Requests :
                        \/ Lifecycle!Create(j) \/ Lifecycle!Start(j)
                        \/ Lifecycle!Settle(j) \/ Lifecycle!Revoke(j)
    BY DEF Lifecycle!Next
  <2> PICK j \in Requests :
         /\ \A k \in Requests : k # j => row'[k] = row[k]
         /\ \/ /\ ~ Present(j) /\ row'[j].status \in {"queued", "failed"}
               /\ row'[j].attempts = row[j].attempts
            \/ /\ IsActive(j) /\ row'[j].status = "started"
               /\ row'[j].attempts = row[j].attempts + 1
            \/ /\ row[j].status = "started"
               /\ row'[j].status \in TerminalStatuses
               /\ row'[j].attempts = row[j].attempts
            \/ /\ IsTerminal(j) /\ row'[j].status = "failed"
               /\ row'[j].attempts = row[j].attempts
    BY RowSteps
  <2>1. \A k \in Requests : k # j => /\ row'[k].status = row[k].status
                                     /\ row'[k].attempts = row[k].attempts
    OBVIOUS
  <2>2. CASE /\ ~ Present(j) /\ row'[j].status \in {"queued", "failed"}
             /\ row'[j].attempts = row[j].attempts
    BY <2>1, <2>2 DEF Present, Lifecycle!Create
  <2>3. CASE /\ IsActive(j) /\ row'[j].status = "started"
             /\ row'[j].attempts = row[j].attempts + 1
    BY <2>1, <2>3
       DEF IsActive, ActiveStatuses, Lifecycle!Start, Lifecycle!ActiveStatuses
  <2>4. CASE /\ row[j].status = "started" /\ row'[j].status \in TerminalStatuses
             /\ row'[j].attempts = row[j].attempts
    BY <2>1, <2>4
       DEF TerminalStatuses, Lifecycle!Settle, Lifecycle!TerminalStatuses
  <2>5. CASE /\ row[j].status = "finished" /\ row'[j].status = "failed"
             /\ row'[j].attempts = row[j].attempts
    BY <2>1, <2>5 DEF Lifecycle!Revoke
  <2>6. CASE /\ row[j].status = "failed" /\ row'[j].status = "failed"
             /\ row'[j].attempts = row[j].attempts
    BY <2>1, <2>6
  <2> QED BY <2>2, <2>3, <2>4, <2>5, <2>6 DEF IsTerminal, TerminalStatuses
<1> QED BY <1>1, <1>2, Inductive, PTL DEF Spec, LifecycleSpec, Lifecycle!Spec

-----------------------------------------------------------------------------
(* With one request per target in enqueue at a time, the lookup and the      *)
(* commit that acts on it are as good as atomic.                             *)

OneActive ==
  \A j, k \in Requests :
    IsActive(j) /\ IsActive(k) /\ req[j].target = req[k].target => j = k

\* What MissActiveJob saw stays true until the request commits.
MissIsTrue ==
  \A r, j \in Requests :
    InFlight(r) /\ IsActive(j) => req[j].target # req[r].target

SerialInv == IInv /\ OneAtATime /\ OneActive /\ MissIsTrue

\* Who can become in flight, and that targets are fixed.
LEMMA FlightSteps ==
  ASSUME IInv, [Next]_vars
  PROVE  /\ \A q \in Requests : req'[q].target = req[q].target
         /\ \A q \in Requests : InFlight(q)' => InFlight(q) \/ MissActiveJob(q)
<1> USE DEF InFlight
<1>1. ASSUME NEW r \in Requests, RequestStep(r) \/ RequestFault(r)
      PROVE  /\ \A q \in Requests : req'[q].target = req[q].target
             /\ \A q \in Requests : InFlight(q)' => InFlight(q) \/ MissActiveJob(q)
  <2> USE DEF IInv, TypeInv, TypeOK, RequestPcs
  <2>1. CASE RefuseUnknownTarget(r)
    BY <2>1, GotoEffect DEF RefuseUnknownTarget
  <2>2. CASE ReuseActiveJob(r)
    <3> PICK j \in Requests : Answer(r, "reused", j)
      BY <2>2 DEF ReuseActiveJob, NewestActive, ActiveJobs
    <3> QED BY AnswerEffect
  <2>3. CASE MissActiveJob(r)
    <3>1. Goto(r, "create")
      BY <2>3 DEF MissActiveJob
    <3> QED BY <2>3, <3>1, GotoEffect
  <2>4. CASE CreateJob(r)
    BY <2>4, GotoEffect DEF CreateJob
  <2>5. CASE Schedule(r)
    BY <2>5, GotoEffect DEF Schedule
  <2>6. CASE CommitJob(r)
    BY <2>6, AnswerEffect DEF CommitJob
  <2>7. CASE CommitRefusal(r)
    BY <2>7, GotoEffect DEF CommitRefusal
  <2>8. CASE ScheduleFails(r)
    BY <2>8, GotoEffect DEF ScheduleFails
  <2>9. CASE AbortRequest(r)
    BY <2>9, GotoEffect DEF AbortRequest
  <2> QED BY <1>1, <2>1, <2>2, <2>3, <2>4, <2>5, <2>6, <2>7, <2>8, <2>9
          DEF RequestStep, RequestFault
<1>2. ASSUME NEW w \in Workers, WorkerStep(w) \/ WorkerFault(w) PROVE req' = req
  BY <1>2 DEF WorkerStep, WorkerFault, Dequeue, LoadMissing, LoadSettled, LoadActive,
              MarkStarted, FindNoLinks, FindLinks, TakeLink, FetchOk, FetchRetry, GiveUp,
              Persist, PersistInterrupted, SettleRefresh, Settle, Ack, ExecutionFails,
              LoseExecution
<1>3. ASSUME NEW j \in Requests, Requeue(j) PROVE req' = req
  BY <1>3 DEF Requeue
<1>4. CASE UNCHANGED vars
  BY <1>4 DEF vars
<1> QED BY <1>1, <1>2, <1>3, <1>4 DEF Next

LEMMA SerialStep == SerialInv /\ [Next /\ OneAtATime']_vars => SerialInv'
<1> SUFFICES ASSUME SerialInv, [Next /\ OneAtATime']_vars PROVE SerialInv'
  OBVIOUS
<1> USE DEF SerialInv
<1>1. [Next]_vars
  OBVIOUS
<1>2. IInv'
  BY <1>1, IStep
<1>3. OneAtATime'
  <2>1. CASE UNCHANGED vars
    BY <2>1 DEF vars, OneAtATime, InFlight
  <2> QED BY <2>1
<1>4. /\ \A q \in Requests : req'[q].target = req[q].target
      /\ \A q \in Requests : InFlight(q)' => InFlight(q) \/ MissActiveJob(q)
  BY <1>1, FlightSteps
<1>5. CASE row' = row
  <2>1. \A j \in Requests : IsActive(j)' <=> IsActive(j)
    BY <1>5 DEF IsActive
  <2>2. OneActive'
    BY <1>4, <2>1 DEF OneActive
  <2>3. MissIsTrue'
    BY <1>4, <2>1 DEF MissIsTrue, MissActiveJob, ActiveJobs
  <2> QED BY <1>2, <1>3, <2>2, <2>3
<1>6. CASE row' # row
  <2>0. PICK n \in Requests :
          /\ \A k \in Requests : k # n => row'[k] = row[k]
          /\ \/ ~ Present(n) /\ InFlight(n) /\ row'[n].status \in {"queued", "failed"}
             \/ IsActive(n)
             \/ row'[n].status \in TerminalStatuses
    <3>1. PICK n \in Requests :
            /\ \A k \in Requests : k # n => row'[k] = row[k]
            /\ \/ ~ Present(n) /\ InFlight(n) /\ row'[n].status \in {"queued", "failed"}
               \/ IsActive(n)
               \/ row'[n].status \in TerminalStatuses
               \/ row'[n].status = "failed"
      BY <1>1, <1>6, RowSteps
    <3> QED BY <3>1 DEF TerminalStatuses
  <2>1. (IsActive(n)' => IsActive(n)) \/ (InFlight(n) /\ ~ InFlight(n)')
    <3>1. CASE ~ Present(n) /\ InFlight(n) /\ row'[n].status \in {"queued", "failed"}
      <4>1. Present(n)'
        BY <3>1 DEF Present
      <4>2. ~ InFlight(n)'
        BY <1>2, <4>1 DEF IInv, RowInv, RowByPc, InFlight
      <4> QED BY <3>1, <4>2
    <3>2. CASE IsActive(n)
      BY <3>2
    <3>3. CASE row'[n].status \in TerminalStatuses
      BY <3>3 DEF IsActive, ActiveStatuses, TerminalStatuses
    <3> QED BY <2>0, <3>1, <3>2, <3>3
  <2>2. \A k \in Requests : k # n => (IsActive(k)' <=> IsActive(k))
    BY <2>0 DEF IsActive
  <2>3. \A q \in Requests : InFlight(q)' => InFlight(q)
    BY <1>4, <1>6 DEF MissActiveJob
  <2>4. OneActive'
    BY <1>4, <2>1, <2>2 DEF OneActive, MissIsTrue
  <2>5. MissIsTrue'
    BY <1>4, <2>1, <2>2, <2>3 DEF MissIsTrue, OneAtATime
  <2> QED BY <1>2, <1>3, <2>4, <2>5
<1> QED BY <1>5, <1>6

LEMMA SerialInit == Init => SerialInv
<1>1. Init => OneAtATime /\ OneActive /\ MissIsTrue
  BY DEF Init, OneAtATime, OneActive, MissIsTrue, InFlight, IsActive, ActiveStatuses, Absent
<1> QED BY <1>1, IInit DEF SerialInv

LEMMA OneActiveCounts == OneActive => AtMostOneActiveJob
<1> SUFFICES ASSUME OneActive, NEW t \in Targets PROVE Cardinality(ActiveJobs(t)) <= 1
  BY DEF AtMostOneActiveJob
<1>1. CASE ActiveJobs(t) = {}
  BY <1>1, FS_EmptySet
<1>2. CASE ActiveJobs(t) # {}
  <2> PICK j \in Requests : j \in ActiveJobs(t)
    BY <1>2 DEF ActiveJobs
  <2>1. \A k \in ActiveJobs(t) : k = j
    BY DEF ActiveJobs, OneActive
  <2>2. ActiveJobs(t) = {j}
    BY <2>1
  <2> QED BY <2>2, FS_Singleton
<1> QED BY <1>1, <1>2

\* If no two requests for one target are inside enqueue together, a target never
\* has two active jobs: the lookup is the only guard, and it is enough then.
THEOREM SerialRequestsShareOneJob == SerialSpec => []AtMostOneActiveJob
<1>1. SerialInv => AtMostOneActiveJob
  BY OneActiveCounts DEF SerialInv
<1> QED BY <1>1, SerialInit, SerialStep, PTL DEF SerialSpec

\* The two environments of the safety run.
EitherInv == IInv /\ (environment = "serial" => SerialInv)

LEMMA EitherInit == MCInit => EitherInv
BY IInit, SerialInit DEF MCInit, PageInit, EitherInv

LEMMA EitherStep == EitherInv /\ [MCNext]_MCVars => EitherInv'
<1> SUFFICES ASSUME EitherInv, [MCNext]_MCVars PROVE EitherInv'
  OBVIOUS
<1>1. [Next]_vars /\ environment' = environment
  BY DEF MCNext, MCVars, pageVars
<1>2. IInv'
  BY <1>1, IStep DEF EitherInv
<1>3. ASSUME environment = "serial" PROVE SerialInv'
  <2>1. [Next /\ OneAtATime']_vars
    BY <1>3 DEF MCNext, MCVars, pageVars
  <2> QED BY <1>3, <2>1, SerialStep DEF EitherInv
<1> QED BY <1>1, <1>2, <1>3 DEF EitherInv

\* The same of the runs, whose environments are fixed at the start: where one
\* request per target is in enqueue at a time, a second POST reuses the job.
THEOREM SerialRequestsReuse == MCSpec => []SerialReusesJob
<1>1. EitherInv => SerialReusesJob
  BY OneActiveCounts DEF EitherInv, SerialInv, SerialReusesJob
<1> QED BY <1>1, EitherInit, EitherStep, PTL DEF MCSpec
=============================================================================
