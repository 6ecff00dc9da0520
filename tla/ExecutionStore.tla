--------------------------- MODULE ExecutionStore ---------------------------
(***************************************************************************)
(* The executions table and the SQL statements that change it: the job     *)
(* store of internal/jobs/postgres_store.go and the two statements the     *)
(* recovery service issues on the same table (internal/recovery).          *)
(*                                                                         *)
(* Every statement is one UPDATE or INSERT on rows selected by its WHERE   *)
(* clause, so it is one action: the clause is the guard, SET the new row.  *)
(* A statement that selects no row changes nothing and makes the caller    *)
(* see ErrInvalidState; who reacts to that is in RunPipeline.  Here any    *)
(* worker may issue any statement about any job at any time, which is what *)
(* a table shared by stale, restarted and concurrent processes must bear.  *)
(*                                                                         *)
(* A timestamp is kept as what the statements learn by comparing it with   *)
(* NOW(); the passing of time is an action of its own for each of them.    *)
(***************************************************************************)
EXTENDS Naturals

CONSTANTS
  Job,          \* executions.id
  Worker,       \* worker names, "<instance>-worker-<i>"
  NoWorker,     \* worker_id IS NULL
  Result,       \* what a worker may pass to Complete
  NoResult,     \* results IS NULL
  MaxAttempts   \* the values max_attempts takes

ASSUME StoreConstants ==
  /\ MaxAttempts \subseteq Nat
  /\ NoWorker \notin Worker
  /\ NoResult \notin Result

VARIABLE executions

storeVars == <<executions>>

JobStatus == {"QUEUED", "CLAIMED", "RUNNING", "COMPLETED", "DEAD_LETTERED"}

\* "ABSENT" stands for an id the table has no row for.
Row ==
  [status     : JobStatus \cup {"ABSENT"},
   worker     : Worker \cup {NoWorker},
   attempts   : Nat,                            \* attempt_count
   max        : Nat,                            \* max_attempts
   retry      : {"null", "future", "due"},      \* next_retry_at
   lease      : {"null", "live", "expired"},    \* lease_expires_at
   dispatched : {"null", "recent", "old"},      \* last_dispatched_at, 5 s
   results    : Result \cup {NoResult},
   deadAt     : {"null", "set"}]                \* dead_lettered_at

\* A row nothing has happened to yet.
BlankRow(status, m) ==
  [status |-> status, worker |-> NoWorker, attempts |-> 0, max |-> m,
   retry |-> "null", lease |-> "null", dispatched |-> "null",
   results |-> NoResult, deadAt |-> "null"]

AbsentRow    == BlankRow("ABSENT", 0)
QueuedRow(m) == BlankRow("QUEUED", m)

-----------------------------------------------------------------------------
(* WHERE clauses *)

Held(r)     == r.status \in {"CLAIMED", "RUNNING"}
Terminal(r) == r.status \in {"COMPLETED", "DEAD_LETTERED"}

HeldByUnchecked(r, w) == Held(r)
HeldBy(r, w) == Held(r) /\ r.worker = w

Due(r) == r.retry \in {"null", "due"}

ClaimableAnyOpen(r) == ~ Terminal(r) /\ r.status # "ABSENT" /\ Due(r)
Claimable(r) == r.status = "QUEUED" /\ Due(r)

CompletableEvenIfQueued(r, w) == r.status \in {"QUEUED", "RUNNING"}
CompletableByAnyone(r, w) == r.status = "RUNNING"
Completable(r, w) == r.status = "RUNNING" /\ r.worker = w

Abandoned(r) == Held(r) /\ r.lease = "expired"

DispatchableOnce(r) == r.status = "QUEUED" /\ Due(r) /\ r.dispatched = "null"
Dispatchable(r) == /\ r.status = "QUEUED"
                   /\ Due(r)
                   /\ r.dispatched \in {"null", "old"}

-----------------------------------------------------------------------------
(* SET clauses *)

ClaimRowUncounted(r, w) ==
  [r EXCEPT !.status = "CLAIMED", !.worker = w, !.lease = "live"]
ClaimRowWrongColumn(r, w) ==
  [r EXCEPT !.status = "CLAIMED", !.worker = w, !.retry = "live",
            !.attempts = @ + 1]
ClaimRow(r, w) ==
  [r EXCEPT !.status = "CLAIMED", !.worker = w, !.lease = "live",
            !.attempts = @ + 1]

CompleteRowKeepsLease(r, res) == [r EXCEPT !.status = "COMPLETED", !.results = res]
CompleteRow(r, res) ==
  [r EXCEPT !.status = "COMPLETED", !.results = res, !.worker = NoWorker,
            !.lease = "null"]

\* The CASE expressions FailJob and RecoverAbandonedJobs share; `again` is the
\* value next_retry_at is given when an attempt is left.
FailRowOffByOne(r, again) ==
  IF r.attempts <= r.max
  THEN [r EXCEPT !.status = "QUEUED", !.worker = NoWorker, !.lease = "null",
                 !.retry = again, !.deadAt = "null"]
  ELSE [r EXCEPT !.status = "DEAD_LETTERED", !.worker = NoWorker,
                 !.lease = "null", !.retry = "null", !.deadAt = "set"]
FailRow(r, again) ==
  IF r.attempts < r.max
  THEN [r EXCEPT !.status = "QUEUED", !.worker = NoWorker, !.lease = "null",
                 !.retry = again, !.deadAt = "null"]
  ELSE [r EXCEPT !.status = "DEAD_LETTERED", !.worker = NoWorker,
                 !.lease = "null", !.retry = "null", !.deadAt = "set"]

-----------------------------------------------------------------------------
(* The table starts with whatever rows earlier releases left queued. *)
StoreInit ==
  executions \in [Job -> {AbsentRow} \cup {QueuedRow(m) : m \in MaxAttempts}]

SetRow(j, r) == executions' = [executions EXCEPT ![j] = r]

\* INSERT; a second row for the id would break the primary key.
Create(j, m) ==
  /\ executions[j].status = "ABSENT"
  /\ SetRow(j, QueuedRow(m))

Claim(j, w) ==
  /\ Claimable(executions[j])
  /\ SetRow(j, ClaimRow(executions[j], w))

MarkRunning(j, w) ==
  /\ executions[j].status = "CLAIMED"
  /\ executions[j].worker = w
  /\ SetRow(j, [executions[j] EXCEPT !.status = "RUNNING"])

Complete(j, w, res) ==
  /\ Completable(executions[j], w)
  /\ SetRow(j, CompleteRow(executions[j], res))

\* backoff is "future" for a positive duration and "due" for zero.
FailJob(j, w, backoff) ==
  /\ HeldBy(executions[j], w)
  /\ SetRow(j, FailRow(executions[j], backoff))

RenewLease(j, w) ==
  /\ HeldBy(executions[j], w)
  /\ SetRow(j, [executions[j] EXCEPT !.lease = "live"])

\* One UPDATE over every row whose lease has run out.
RecoverAbandonedJobs ==
  executions' = [j \in Job |-> IF Abandoned(executions[j])
                               THEN FailRow(executions[j], "due")
                               ELSE executions[j]]

\* The marker DispatchDelayedJobs leaves after it enqueued j: by id alone.
MarkDispatchedRequeues(j) ==
  /\ executions[j].status # "ABSENT"
  /\ SetRow(j, [executions[j] EXCEPT !.dispatched = "recent", !.retry = "null",
                                     !.status = "QUEUED"])
MarkDispatched(j) ==
  /\ executions[j].status # "ABSENT"
  /\ SetRow(j, [executions[j] EXCEPT !.dispatched = "recent"])

(* NOW() passes a timestamp. *)
LeaseExpires(j) ==
  /\ executions[j].lease = "live"
  /\ SetRow(j, [executions[j] EXCEPT !.lease = "expired"])

RetryComesDue(j) ==
  /\ executions[j].retry = "future"
  /\ SetRow(j, [executions[j] EXCEPT !.retry = "due"])

DispatchAges(j) ==
  /\ executions[j].dispatched = "recent"
  /\ SetRow(j, [executions[j] EXCEPT !.dispatched = "old"])

JobStep(j) ==
  \/ \E m \in MaxAttempts : Create(j, m)
  \/ \E w \in Worker : Claim(j, w)
  \/ \E w \in Worker : MarkRunning(j, w)
  \/ \E w \in Worker, res \in Result : Complete(j, w, res)
  \/ \E w \in Worker, b \in {"future", "due"} : FailJob(j, w, b)
  \/ \E w \in Worker : RenewLease(j, w)
  \/ MarkDispatched(j)
  \/ LeaseExpires(j)
  \/ RetryComesDue(j)
  \/ DispatchAges(j)

StoreNext == RecoverAbandonedJobs \/ \E j \in Job : JobStep(j)

StoreSpec == StoreInit /\ [][StoreNext]_storeVars

-----------------------------------------------------------------------------
(* Properties *)

\* Every row keeps the types the table's columns and CHECKs give it.
StoreTypeOK == executions \in [Job -> Row]

\* The number of times a job may be claimed: FailJob and RecoverAbandonedJobs
\* compare attempt_count with max_attempts only after a claim, so even a budget
\* of zero buys one attempt.
Tries(m) == IF m = 0 THEN 1 ELSE m

RowOwned(r) == /\ Held(r) <=> r.worker # NoWorker
               /\ Held(r) <=> r.lease # "null"

RowBudget(r) ==
  /\ r.attempts <= Tries(r.max)
  /\ r.status \in {"ABSENT", "QUEUED"} => r.attempts < Tries(r.max)
  /\ Held(r) => r.attempts > 0
  /\ r.status = "DEAD_LETTERED" => r.attempts = Tries(r.max)

RowAnswer(r) == /\ r.status = "COMPLETED" <=> r.results # NoResult
                /\ r.status = "DEAD_LETTERED" <=> r.deadAt = "set"
                /\ Terminal(r) => r.retry # "future"

\* A lease and a worker name are on a row exactly while it is claimed or
\* running: no statement leaves a lease RecoverAbandonedJobs would act on
\* after the job was given back, nor a held job with no lease to expire.
OwnershipMatchesLease == \A j \in Job : RowOwned(executions[j])

\* A job is claimed at most Tries(max_attempts) times over every mix of
\* failures and lease expiries, a queued job always has an attempt left, and
\* a dead-lettered one has used all of them.  For a budget of zero, what
\* CreateExecution leaves, this is what the statements do: one attempt, no
\* retry.  recovery_test.go expects a retry there (AbandonedIsRequeued).
AttemptBudget == \A j \in Job : RowBudget(executions[j])

\* Results are there exactly when the job is COMPLETED ("empty until Status ==
\* StatusCompleted", job.go:28) and dead_lettered_at exactly when it was given
\* up, and neither kind of row waits for a retry.
AnswerMatchesStatus == \A j \in Job : RowAnswer(executions[j])

\* No statement, however late, changes a COMPLETED or DEAD_LETTERED row, apart
\* from the dispatch marker, which DispatchDelayedJobs sets by id alone.
TerminalFrozen ==
  [][\A j \in Job : Terminal(executions[j]) =>
       executions'[j] = [executions[j] EXCEPT
                           !.dispatched = executions'[j].dispatched]]_storeVars

\* While a job stays claimed or running, neither its worker nor its attempt
\* number changes: it reaches another worker only through the queue, and no
\* step gives back a spent attempt.
HandoverThroughQueue ==
  [][\A j \in Job :
       /\ executions[j].attempts <= executions'[j].attempts
       /\ (Held(executions[j]) /\ Held(executions'[j])) =>
            /\ executions'[j].worker = executions[j].worker
            /\ executions'[j].attempts = executions[j].attempts]_storeVars

(* Stated by the repository, and not so: *)

\* recovery_test.go:54-62, of a job created without max_attempts and claimed
\* once: when its lease has run out, RecoverAbandonedJobs queues it again with
\* next_retry_at set.
AbandonedIsRequeued ==
  [][\A j \in Job :
       (Abandoned(executions[j]) /\ executions[j].max = 0 /\ RecoverAbandonedJobs) =>
         executions'[j].status = "QUEUED" /\ executions'[j].retry # "null"]_storeVars

-----------------------------------------------------------------------------
(* The store implements the contract of JobLifecycle. *)

PhaseOf(r) == CASE r.status = "ABSENT"        -> "none"
                [] r.status = "QUEUED"        -> "waiting"
                [] r.status = "COMPLETED"     -> "done"
                [] r.status = "DEAD_LETTERED" -> "dead"
                [] OTHER                      -> "held"

CreditsOf(r) == IF r.status = "ABSENT" THEN 0 ELSE Tries(r.max) - r.attempts

lifePhase   == [j \in Job |-> PhaseOf(executions[j])]
lifeHolder  == [j \in Job |-> executions[j].worker]
lifeCredits == [j \in Job |-> CreditsOf(executions[j])]

Lifecycle == INSTANCE JobLifecycle WITH
  Budget  <- {Tries(m) : m \in MaxAttempts},
  phase   <- lifePhase,
  holder  <- lifeHolder,
  credits <- lifeCredits

\* With columns, leases and timestamps forgotten, every statement of the store
\* is a step of the abstract life of a job, or none.
ImplementsLifecycle == Lifecycle!LifeSpec
=============================================================================
