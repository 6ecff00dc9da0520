----------------------------- MODULE RunPipeline -----------------------------
(***************************************************************************)
(* How a run request travels: the API stores a row and enqueues a message  *)
(* (internal/jobs/service.go), workers consume messages and drive the row  *)
(* through the store (internal/worker/pool.go), the recovery service takes *)
(* back expired leases and re-dispatches queued rows (internal/recovery),  *)
(* and the pending-message recovery clears or re-enqueues what was handed  *)
(* out and never acknowledged (internal/jobs/pending_recovery.go).         *)
(*                                                                         *)
(* ExecutionStore is the table and RedisStream the queue; each call to     *)
(* either is one step, so every two calls can be separated by any steps of *)
(* the others.  A call that may fail does so in two ways: the statement    *)
(* was not executed, or it was and the answer was lost.  Calls that fail,  *)
(* panics, cancelled pools and crashes are charged to MaxFaults.           *)
(***************************************************************************)
EXTENDS ExecutionStore, RedisStream

CONSTANTS
  NoJob,          \* the job of a worker that has none
  NumInputs,      \* NumInputs[j]: len(job.Inputs)
  Recoverer,      \* instances of the recovery service (roles api, all)
  Sweeper,        \* instances of PendingRecovery (roles worker, all)
  DispatchLimit,  \* LIMIT 100 of DispatchDelayedJobs
  ClaimBatch,     \* REDIS_PENDING_CLAIM_BATCH_SIZE
  MaxFaults       \* bound: how many faults a behaviour has

\* What Execute can return for one input: the program's own outcome, or what
\* was captured when the execution context was cancelled (RunProcess reports
\* no error for that: process.go:84-87).
Output == {"whole", "cut"}

\* Rows created by CreateExecution leave ExecutionJob.MaxAttempts unset.
APIMaxAttempts == 0

ASSUME PipelineConstants ==
  /\ Job \subseteq Payload
  /\ NoJob \notin Payload
  /\ NumInputs \in [Job -> Nat]
  /\ APIMaxAttempts \in MaxAttempts
  /\ DispatchLimit \in Nat \ {0}
  /\ ClaimBatch \in Nat \ {0}
  /\ MaxFaults \in Nat
  /\ \A j \in Job, m \in MaxAttempts :
       \A a \in 1..Tries(m), s \in [1..NumInputs[j] -> Output] :
         [attempt |-> a, outs |-> s] \in Result

VARIABLES
  req,      \* req[j]: progress of the request that creates job j
  wk,       \* wk[w]: the local variables of processRun in worker w
  rec,      \* rec[r]: where recovery service r is in its tick
  sweep,    \* sweep[s]: where PendingRecovery s is in runRecovery
  faults    \* faults so far

pipeVars == <<executions, stream, req, wk, rec, sweep, faults>>
tableAndQueue == <<executions, stream>>

Idle == [pc |-> "idle", msg |-> 0, job |-> NoJob, att |-> 0, outs |-> <<>>,
         ctx |-> "live"]

PipeInit ==
  /\ StoreInit
  /\ StreamInit
  /\ req    = [j \in Job |-> IF executions[j].status = "ABSENT" THEN "new" ELSE "accepted"]
  /\ wk     = [w \in Worker |-> Idle]
  /\ rec    = [r \in Recoverer |-> [pc |-> "recover", cur |-> NoJob, batch |-> {}]]
  /\ sweep  = [s \in Sweeper |-> [pc |-> "idle", batch |-> <<>>, seen |-> "ABSENT"]]
  /\ faults = 0

ShiftedBatch(b) == [k \in DOMAIN b |-> [id |-> Shifted(b[k].id), job |-> b[k].job]]

\* Enqueue; the ids the processes hold follow the entries (see RedisStream).
\* `sw` is the value of sweep the step leaves apart from that.
EnqueueRun(j, sw) ==
  /\ Enqueue(j)
  /\ wk'    = [w \in Worker |-> [wk[w] EXCEPT !.msg = Shifted(@)]]
  /\ sweep' = [s \in Sweeper |-> [sw[s] EXCEPT !.batch = ShiftedBatch(@)]]

Fault == faults < MaxFaults /\ faults' = faults + 1

-----------------------------------------------------------------------------
(* CreateExecution: store the row, then enqueue its id. *)

StoreRequest(j) ==
  /\ req[j] = "new"
  /\ Create(j, APIMaxAttempts)
  /\ req' = [req EXCEPT ![j] = "stored"]
  /\ UNCHANGED <<stream, wk, rec, sweep, faults>>

EnqueueRequest(j) ==
  /\ req[j] = "stored"
  /\ EnqueueRun(j, sweep)
  /\ req' = [req EXCEPT ![j] = "accepted"]
  /\ UNCHANGED <<executions, rec, faults>>

\* store.Create or queue.Enqueue returns an error (or the API process dies):
\* the client is told the run was not created.  The row may be there already.
RequestFails(j) ==
  /\ Fault
  /\ \/ req[j] = "new" /\ (Create(j, APIMaxAttempts) \/ UNCHANGED executions)
     \/ req[j] = "stored" /\ UNCHANGED executions
  /\ req' = [req EXCEPT ![j] = "rejected"]
  /\ UNCHANGED <<stream, wk, rec, sweep>>

-----------------------------------------------------------------------------
(* workerLoop and processRun *)

Goto(w, pc) == wk' = [wk EXCEPT ![w].pc = pc]

\* processRun returns: to Consume, or out of the loop if the pool is cancelled.
Return(w) ==
  wk' = [wk EXCEPT ![w] = IF wk[w].ctx = "pool" THEN [Idle EXCEPT !.pc = "stopped"]
                                                ELSE Idle]

\* The calls made with the pool's context, which fail once it is cancelled.
CtxCalls   == {"claim", "check", "mark", "fetch"}
OtherCalls == {"fail", "complete", "ack"}

\* Call k of processRun is made: with the pool's context it must be live.
At(w, k) == wk[w].pc = k /\ (k \in CtxCalls => wk[w].ctx = "live")

LocalToWorker == UNCHANGED <<req, rec, sweep, faults>>

Consume(w) ==
  /\ wk[w].pc = "idle"
  /\ \E m \in DOMAIN stream :
       /\ IsNext(m)
       /\ HandOut(m)
       /\ wk' = [wk EXCEPT ![w] = [Idle EXCEPT !.pc = "claim", !.msg = m,
                                               !.job = stream[m].job]]
  /\ UNCHANGED executions
  /\ LocalToWorker

ClaimJob(w) ==
  /\ At(w, "claim")
  /\ Claim(wk[w].job, w)
  /\ wk' = [wk EXCEPT ![w].pc = "mark", ![w].att = executions'[wk[w].job].attempts]
  /\ UNCHANGED stream
  /\ LocalToWorker

ClaimRefused(w) ==
  /\ At(w, "claim")
  /\ ~ Claimable(executions[wk[w].job])
  /\ Goto(w, "check")
  /\ UNCHANGED tableAndQueue
  /\ LocalToWorker

\* Get after ErrInvalidState: the message of a finished job will be acknowledged,
\* with a context nobody cancels; any other message is left pending.
CheckRefusedAcksAll(w) ==
  /\ At(w, "check")
  /\ Goto(w, "clear")
  /\ UNCHANGED tableAndQueue
  /\ LocalToWorker
CheckRefused(w) ==
  /\ At(w, "check")
  /\ IF Terminal(executions[wk[w].job]) THEN Goto(w, "clear") ELSE Return(w)
  /\ UNCHANGED tableAndQueue
  /\ LocalToWorker

AckRefused(w) ==
  /\ At(w, "clear")
  /\ Ack(wk[w].msg)
  /\ Return(w)
  /\ UNCHANGED executions
  /\ LocalToWorker

MarkJobRunning(w) ==
  /\ At(w, "mark")
  /\ \/ MarkRunning(wk[w].job, w) /\ Goto(w, "fetch")
     \/ ~ (executions[wk[w].job].status = "CLAIMED" /\ executions[wk[w].job].worker = w)
        /\ Return(w) /\ UNCHANGED executions
  /\ UNCHANGED stream
  /\ LocalToWorker

\* Where the loop over job.Inputs stands when `outs` has been collected.
LoopStopsEarly(j, outs) == IF Len(outs) + 1 >= NumInputs[j] THEN "complete" ELSE "run"
Loop(j, outs) == IF Len(outs) = NumInputs[j] THEN "complete" ELSE "run"

\* Get reads the inputs; the status it reads is published, never tested.
FetchJob(w) ==
  /\ At(w, "fetch")
  /\ Goto(w, Loop(wk[w].job, <<>>))
  /\ UNCHANGED tableAndQueue
  /\ LocalToWorker

\* execService.Execute returns a result.  A cancelled context lets the program
\* end by itself, or cuts it and still yields a result.
ExecuteInput(w) ==
  /\ At(w, "run")
  /\ \E o \in IF wk[w].ctx = "live" THEN {"whole"} ELSE Output :
       LET outs == Append(wk[w].outs, o)
       IN  wk' = [wk EXCEPT ![w].outs = outs, ![w].pc = Loop(wk[w].job, outs)]
  /\ UNCHANGED tableAndQueue
  /\ LocalToWorker

\* Execute returns an error: a platform failure is recorded by FailJob; under
\* a cancelled context the worker returns and leaves everything as it is.
ExecuteError(w) ==
  /\ At(w, "run")
  /\ IF wk[w].ctx = "live" THEN Goto(w, "fail") ELSE Return(w)
  /\ UNCHANGED tableAndQueue
  /\ LocalToWorker

\* FailJob with a backoff of 2 s; whatever it answers, no acknowledgement.
RecordFailure(w) ==
  /\ At(w, "fail")
  /\ \/ FailJob(wk[w].job, w, "future")
     \/ ~ HeldBy(executions[wk[w].job], w) /\ UNCHANGED executions
  /\ Return(w)
  /\ UNCHANGED stream
  /\ LocalToWorker

Answer(w) == [attempt |-> wk[w].att, outs |-> wk[w].outs]

CompleteJob(w) ==
  /\ At(w, "complete")
  /\ \/ Complete(wk[w].job, w, Answer(w)) /\ Goto(w, "ack")
     \/ ~ Completable(executions[wk[w].job], w) /\ Return(w) /\ UNCHANGED executions
  /\ UNCHANGED stream
  /\ LocalToWorker

AckDone(w) ==
  /\ At(w, "ack")
  /\ Ack(wk[w].msg)
  /\ Return(w)
  /\ UNCHANGED executions
  /\ LocalToWorker

\* A call made with the cancelled pool context fails without being sent.
CancelledCallFails(w) ==
  /\ wk[w].pc \in CtxCalls /\ wk[w].ctx # "live"
  /\ Return(w)
  /\ UNCHANGED tableAndQueue
  /\ LocalToWorker

WorkerStep(w) ==
  \/ Consume(w)      \/ ClaimJob(w)      \/ ClaimRefused(w)  \/ CheckRefused(w)
  \/ AckRefused(w)
  \/ MarkJobRunning(w) \/ FetchJob(w)    \/ ExecuteInput(w)  \/ ExecuteError(w)
  \/ RecordFailure(w) \/ CompleteJob(w)  \/ AckDone(w)       \/ CancelledCallFails(w)

\* The lease renewal goroutine, alive from the fetch to the return.
Renewing(w) == wk[w].pc \in {"run", "fail", "complete", "ack"} /\ wk[w].ctx = "live"

Renewal(w) ==
  /\ Renewing(w)
  /\ \/ RenewLease(wk[w].job, w) /\ UNCHANGED wk
     \/ ~ HeldBy(executions[wk[w].job], w)
        /\ wk' = [wk EXCEPT ![w].ctx = "exec"] /\ UNCHANGED executions
  /\ UNCHANGED stream
  /\ LocalToWorker

(* Faults of a worker *)

\* The store or the queue answers with an error nobody expected.  Every such
\* path of processRun logs and returns; `applied` is the effect of a call that
\* was executed all the same.
WorkerCallFails(w) ==
  /\ Fault
  /\ wk[w].pc \in CtxCalls \cup OtherCalls \cup {"clear"}
  /\ LET j == wk[w].job
         applied == \/ At(w, "claim")    /\ Claim(j, w)               /\ UNCHANGED stream
                    \/ At(w, "mark")     /\ MarkRunning(j, w)         /\ UNCHANGED stream
                    \/ At(w, "fail")     /\ FailJob(j, w, "future")   /\ UNCHANGED stream
                    \/ At(w, "complete") /\ Complete(j, w, Answer(w)) /\ UNCHANGED stream
                    \/ At(w, "ack")      /\ Ack(wk[w].msg)            /\ UNCHANGED executions
                    \/ At(w, "clear")    /\ Ack(wk[w].msg)            /\ UNCHANGED executions
     IN  applied \/ UNCHANGED tableAndQueue
  /\ Return(w)
  /\ UNCHANGED <<req, rec, sweep>>

\* RenewLease fails for another reason than lost ownership.
RenewalFails(w) ==
  /\ Fault
  /\ Renewing(w)
  /\ wk' = [wk EXCEPT ![w].ctx = "exec"]
  /\ UNCHANGED <<tableAndQueue, req, rec, sweep>>

\* A panic in processRun: processJobSafely calls FailJob with no backoff.
Panic(w) ==
  /\ Fault
  /\ wk[w].pc \notin {"idle", "stopped"}
  /\ \/ FailJob(wk[w].job, w, "due")
     \/ ~ HeldBy(executions[wk[w].job], w) /\ UNCHANGED executions
  /\ Return(w)
  /\ UNCHANGED <<stream, req, rec, sweep>>

\* Pool.Stop gives up waiting and cancels the pool's context.
CancelPool(w) ==
  /\ Fault
  /\ wk[w].pc \notin {"idle", "stopped"}
  /\ wk' = [wk EXCEPT ![w].ctx = "pool"]
  /\ UNCHANGED <<tableAndQueue, req, rec, sweep>>

\* The process dies wherever it is ...
Crash(w) ==
  /\ Fault
  /\ wk[w].pc # "stopped"
  /\ wk' = [wk EXCEPT ![w] = [Idle EXCEPT !.pc = "stopped"]]
  /\ UNCHANGED <<tableAndQueue, req, rec, sweep>>

\* ... and is started again under the same INSTANCE_ID.
Restart(w) ==
  /\ wk[w].pc = "stopped"
  /\ wk' = [wk EXCEPT ![w] = Idle]
  /\ UNCHANGED tableAndQueue
  /\ LocalToWorker

-----------------------------------------------------------------------------
(* recovery.Service.Start: one tick is RecoverAbandonedJobs, then            *)
(* DispatchDelayedJobs.                                                      *)

SetRec(r, pc, cur, batch) ==
  rec' = [rec EXCEPT ![r] = [pc |-> pc, cur |-> cur, batch |-> batch]]

NextTick(r) == SetRec(r, "recover", NoJob, {})

TakeBackLeases(r) ==
  /\ rec[r].pc = "recover"
  /\ RecoverAbandonedJobs
  /\ SetRec(r, "select", NoJob, {})
  /\ UNCHANGED <<stream, req, wk, sweep, faults>>

DispatchableJobs == {j \in Job : Dispatchable(executions[j])}

\* SELECT ... LIMIT n without ORDER BY: any n of the rows that qualify.
SelectDelayed(r) ==
  /\ rec[r].pc = "select"
  /\ \E S \in SUBSET DispatchableJobs :
       /\ \/ Cardinality(S) = DispatchLimit
          \/ Cardinality(S) < DispatchLimit /\ S = DispatchableJobs
       /\ SetRec(r, IF S = {} THEN "recover" ELSE "dispatch", NoJob, S)
  /\ UNCHANGED <<tableAndQueue, req, wk, sweep, faults>>

DispatchOne(r) ==
  /\ rec[r].pc = "dispatch"
  /\ \E j \in rec[r].batch : EnqueueRun(j, sweep) /\ SetRec(r, "mark", j, rec[r].batch \ {j})
  /\ UNCHANGED <<executions, req, faults>>

AfterJob(r, B) == SetRec(r, IF B = {} THEN "recover" ELSE "dispatch", NoJob, B)

MarkOne(r) ==
  /\ rec[r].pc = "mark"
  /\ MarkDispatched(rec[r].cur)
  /\ AfterJob(r, rec[r].batch)
  /\ UNCHANGED <<stream, req, wk, sweep, faults>>

RecovererStep(r) == TakeBackLeases(r) \/ SelectDelayed(r) \/ DispatchOne(r) \/ MarkOne(r)

\* Every error is logged and the tick goes on.
RecovererCallFails(r) ==
  /\ Fault
  /\ \/ rec[r].pc = "recover" /\ SetRec(r, "select", NoJob, {})
     \/ rec[r].pc = "select" /\ NextTick(r)
     \/ rec[r].pc = "dispatch" /\ \E j \in rec[r].batch : AfterJob(r, rec[r].batch \ {j})
     \/ rec[r].pc = "mark" /\ AfterJob(r, rec[r].batch)
  /\ UNCHANGED <<tableAndQueue, req, wk, sweep>>

RecovererCrash(r) ==
  /\ Fault
  /\ rec[r].pc # "recover"
  /\ NextTick(r)
  /\ UNCHANGED <<tableAndQueue, req, wk, sweep>>

-----------------------------------------------------------------------------
(* PendingRecovery.runRecovery *)

Sweeping(s, pc, batch, seen) ==
  [sweep EXCEPT ![s] = [pc |-> pc, batch |-> batch, seen |-> seen]]

\* On to the next message of the batch.
NextMsgForgetsEnd(s) == Sweeping(s, "inspect", Tail(sweep[s].batch), "ABSENT")
NextMsg(s) ==
  LET rest == Tail(sweep[s].batch)
  IN  Sweeping(s, IF rest = <<>> THEN "idle" ELSE "inspect", rest, "ABSENT")

\* What XAUTOCLAIM may return: ids of pending messages, in order, up to its COUNT.
Batches == {ids \in UNION {[1..n -> PendingIds] : n \in 1..ClaimBatch} :
              \A i, k \in DOMAIN ids : i < k => ids[i] < ids[k]}

\* XAUTOCLAIM returns messages that have been idle long enough.
AutoClaim(s, ids) ==
  /\ sweep[s].pc = "idle"
  /\ sweep' = Sweeping(s, "inspect",
       [k \in DOMAIN ids |-> [id |-> ids[k], job |-> stream[ids[k]].job]], "ABSENT")
  /\ UNCHANGED <<tableAndQueue, req, wk, rec, faults>>

\* store.Get, and the branch on the status it saw; CLAIMED and DEAD_LETTERED
\* have none.
InspectSkipsCompleted(s) ==
  /\ sweep[s].pc = "inspect"
  /\ LET seen == executions[Head(sweep[s].batch).job].status
     IN  sweep' = IF seen \in {"ABSENT", "RUNNING", "QUEUED"}
                  THEN Sweeping(s, "ack", sweep[s].batch, seen)
                  ELSE NextMsg(s)
  /\ UNCHANGED <<tableAndQueue, req, wk, rec, faults>>
Inspect(s) ==
  /\ sweep[s].pc = "inspect"
  /\ LET seen == executions[Head(sweep[s].batch).job].status
     IN  sweep' = IF seen \in {"ABSENT", "COMPLETED", "RUNNING", "QUEUED"}
                  THEN Sweeping(s, "ack", sweep[s].batch, seen)
                  ELSE NextMsg(s)
  /\ UNCHANGED <<tableAndQueue, req, wk, rec, faults>>

AfterAck(s) ==
  IF sweep[s].seen = "QUEUED" THEN Sweeping(s, "requeue", sweep[s].batch, "QUEUED")
                              ELSE NextMsg(s)

SweepAck(s) ==
  /\ sweep[s].pc = "ack"
  /\ Ack(Head(sweep[s].batch).id)
  /\ sweep' = AfterAck(s)
  /\ UNCHANGED <<executions, req, wk, rec, faults>>

Requeue(s) ==
  /\ sweep[s].pc = "requeue"
  /\ EnqueueRun(Head(sweep[s].batch).job, NextMsg(s))
  /\ UNCHANGED <<executions, req, rec, faults>>

SweeperStep(s) == Inspect(s) \/ SweepAck(s) \/ Requeue(s)

\* A failed Get skips the message; failed XACKs and Enqueues are ignored.
SweeperCallFails(s) ==
  /\ Fault
  /\ \/ sweep[s].pc \in {"inspect", "requeue"} /\ sweep' = NextMsg(s)
     \/ sweep[s].pc = "ack" /\ sweep' = AfterAck(s)
  /\ UNCHANGED <<tableAndQueue, req, wk, rec>>

SweeperCrash(s) ==
  /\ Fault
  /\ sweep[s].pc # "idle"
  /\ sweep' = Sweeping(s, "idle", <<>>, "ABSENT")
  /\ UNCHANGED <<tableAndQueue, req, wk, rec>>

-----------------------------------------------------------------------------
(* The clock of the database *)

Tick(passes) == passes /\ UNCHANGED <<stream, req, wk, rec, sweep, faults>>

Faulty ==
  \/ \E j \in Job : RequestFails(j)
  \/ \E w \in Worker : \/ WorkerCallFails(w) \/ RenewalFails(w) \/ Panic(w)
                       \/ CancelPool(w) \/ Crash(w)
  \/ \E r \in Recoverer : RecovererCallFails(r) \/ RecovererCrash(r)
  \/ \E s \in Sweeper : SweeperCallFails(s) \/ SweeperCrash(s)

PipeNext ==
  \/ \E j \in Job : StoreRequest(j) \/ EnqueueRequest(j)
  \/ \E j \in Job : Tick(LeaseExpires(j)) \/ Tick(RetryComesDue(j)) \/ Tick(DispatchAges(j))
  \/ \E w \in Worker : WorkerStep(w) \/ Renewal(w) \/ Restart(w)
  \/ \E r \in Recoverer : RecovererStep(r)
  \/ \E s \in Sweeper : SweeperStep(s) \/ \E ids \in Batches : AutoClaim(s, ids)
  \/ Faulty

PipeSpec == PipeInit /\ [][PipeNext]_pipeVars

\* A lease is being kept alive by the goroutine of the worker that holds it.
KeptAlive(j) ==
  \E w \in Worker : Renewing(w) /\ wk[w].job = j /\ executions[j].worker = w

\* Processes that run keep running, tickers keep ticking and stopped workers
\* are started again; time passes, so timestamps are reached, a lease's only
\* if nobody keeps it alive.  XAUTOCLAIM walks all pending entries, so no
\* entry that has been idle long enough is passed over for ever.
PipeFairness ==
  /\ \A w \in Worker : WF_pipeVars(WorkerStep(w)) /\ WF_pipeVars(Restart(w))
  /\ \A r \in Recoverer : WF_pipeVars(RecovererStep(r))
  /\ \A s \in Sweeper : WF_pipeVars(SweeperStep(s))
  /\ \A s \in Sweeper, m \in 1..MaxLen :
       SF_pipeVars(\E ids \in Batches : (\E k \in DOMAIN ids : ids[k] = m) /\ AutoClaim(s, ids))
  /\ \A j \in Job : /\ WF_pipeVars(EnqueueRequest(j))
                     /\ WF_pipeVars(Tick(RetryComesDue(j)))
                     /\ WF_pipeVars(Tick(DispatchAges(j)))
                     /\ WF_pipeVars(Tick(LeaseExpires(j) /\ ~ KeptAlive(j)))

PipeFairSpec == PipeSpec /\ PipeFairness

-----------------------------------------------------------------------------
(* Properties *)

WorkerPC == {"idle", "stopped", "run", "clear"} \cup CtxCalls \cup OtherCalls

\* Types, and that every process is where its local variables say: a worker
\* has a job exactly while it processes a message, the recovery service a
\* batch exactly while it dispatches, the sweeper one while it walks it.
PipeTypeOK ==
  /\ StoreTypeOK
  /\ stream \in Seq(Entry) /\ Len(stream) <= MaxLen
  /\ req \in [Job -> {"new", "stored", "accepted", "rejected"}]
  /\ \A w \in Worker :
       /\ wk[w].pc \in WorkerPC /\ wk[w].msg \in MsgId /\ wk[w].att \in Nat
       /\ wk[w].outs \in Seq(Output) /\ wk[w].ctx \in {"live", "exec", "pool"}
       /\ wk[w].job \in IF wk[w].pc \in {"idle", "stopped"} THEN {NoJob} ELSE Job
  /\ \A r \in Recoverer :
       /\ rec[r].pc \in {"recover", "select", "dispatch", "mark"}
       /\ rec[r].batch \in SUBSET Job
       /\ rec[r].cur \in IF rec[r].pc = "mark" THEN Job ELSE {NoJob}
  /\ \A s \in Sweeper :
       /\ sweep[s].pc \in {"idle", "inspect", "ack", "requeue"}
       /\ sweep[s].batch \in Seq([id : MsgId, job : Job])
       /\ sweep[s].pc = "idle" <=> sweep[s].batch = <<>>
       /\ sweep[s].seen \in JobStatus \cup {"ABSENT"}
  /\ faults \in 0..MaxFaults

\* Past its claim, a worker works on one attempt of its job.
Attempting(w) == wk[w].pc \in {"mark", "fetch", "run"} \cup OtherCalls

\* However a lease is lost and a job re-dispatched, no attempt is worked on by
\* two workers: those that run the same job at once do so under different
\* attempt numbers (Claim in processRun, pool.go:137).
AttemptsAreExclusive ==
  \A v, w \in Worker :
    (v # w /\ Attempting(v) /\ Attempting(w) /\ wk[v].job = wk[w].job)
      => wk[v].att # wk[w].att

\* The results of a COMPLETED job are those of its latest attempt, although
\* workers that lost the job earlier may still reach Complete (pool.go:223).
AnswerOfLastAttempt ==
  \A j \in Job : executions[j].status = "COMPLETED" =>
    executions[j].results.attempt = executions[j].attempts

\* A COMPLETED job has one result for each of its inputs, in whatever state the
\* execution context was when the loop at pool.go:195 went round.
EveryInputAnswered ==
  \A j \in Job : executions[j].status = "COMPLETED" =>
    Len(executions[j].results.outs) = NumInputs[j]

\* A job whose lease has not run out is taken from its worker by nobody else:
\* not by a stale worker's FailJob or Complete, the recovery service, a late
\* message or a restarted process.
LiveLeaseProtects ==
  [][\A j \in Job, w \in Worker :
       (HeldBy(executions[j], w) /\ executions[j].lease = "live" /\ wk'[w] = wk[w])
         => HeldBy(executions'[j], w)]_pipeVars

\* "Ack acknowledges that the message has been durably handled" (queue.go:29):
\* a worker acknowledges its message only when the job has ended.
WorkerAckAfterEnd ==
  [][\A w \in Worker :
       LET m == wk[w].msg
       IN  (wk'[w].pc # wk[w].pc /\ m # 0 /\ stream[m].state # "acked" /\ stream'[m].state = "acked")
             => Terminal(executions[wk[w].job])]_pipeVars

\* Every stored run ends, COMPLETED or DEAD_LETTERED: also one whose message was
\* never enqueued, was trimmed, was consumed by a worker that crashed, or was
\* acknowledged by the sweeper just before it failed to enqueue it again.
EveryRunEnds ==
  \A j \in Job : (executions[j].status # "ABSENT") ~> Terminal(executions[j])

Unacked(j) == \E m \in DOMAIN stream : stream[m].job = j /\ stream[m].state # "acked"

\* Once a job is COMPLETED the queue gets rid of all its messages, duplicates
\* and those of crashed workers included.
CompletedMessagesCleared ==
  \A j \in Job : (executions[j].status = "COMPLETED") ~> ~ Unacked(j)

(* Stated by the repository, and not so: *)

\* pool.go:204-206: an execution that was cancelled locally is given up, so what
\* it had printed so far never becomes the answer.
CutExecutionNeverAnswers ==
  \A j \in Job : executions[j].status = "COMPLETED" =>
    \A i \in 1..NumInputs[j] : executions[j].results.outs[i] = "whole"
=============================================================================
