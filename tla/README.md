# Codera: a TLA+ model of the code executor

Codera takes programs over HTTP, runs them in Docker containers and stores what
came out. Runs (ad hoc executions) and submissions (judged against a problem's
tests) travel through PostgreSQL and one Redis stream to worker processes. This
directory models the part that is hard to test: who may touch a row or a
message when, and what happens when a process, a call or a lease is lost.

File names below are relative to `src/backend/internal/` unless they say
otherwise.

## Inventory

| Component | Source | State | Operations | What makes it correct |
|---|---|---|---|---|
| Execution store | `jobs/postgres_store.go`, `recovery/service.go` (SQL) | table `executions` | Create, Claim, MarkRunning, Complete, FailJob, RenewLease, RecoverAbandonedJobs, dispatch marker | one holder at a time, attempts within budget, a finished row is final |
| Queue | `queue/redis_queue.go` | a Redis stream, one consumer group | Enqueue (XADD MAXLEN), Consume (XREADGROUP), Ack (XACK) | an entry is handed out once; what is trimmed must be made good elsewhere |
| Run requests | `jobs/service.go`, `server/run_handler.go` | none of its own | store the row, enqueue its id | every stored run ends |
| Worker pool | `worker/pool.go` | locals of each worker, a renewal goroutine per run | claim, mark, fetch, execute, complete or fail, acknowledge; stop | attempts exclusive, stale workers harmless, acknowledge only what is finished |
| Recovery service | `recovery/service.go` | tick position | take back expired leases, re-dispatch queued rows, mark stale workers | lost work comes back, nothing is taken from a live holder |
| Pending recovery | `jobs/pending_recovery.go` | the batch it walks | XAUTOCLAIM, inspect, acknowledge, enqueue again | no message pending for ever, no job lost |
| Sandbox | `execution/service.go`, `platform/process/*`, `sandbox/classifier`, `sandbox/docker` | one child, two bounded buffers, one container | start, compile, run, classify, destroy | no child survives, output to the byte, status is what happened |
| Judge | `judge/engine.go`, `server/submission_handler.go`, `repository/submission_repo.go`, `ai/analyzer.go` | table `submissions`, a copy of one row | insert, enqueue, judge, ask the AI service, write back, acknowledge | verdict agrees with tests, final, and there when COMPLETED |
| Comparators | `judge/comparator.go` | none | exact, whitespace, float comparison | what is accepted agrees with a definition that needs no algorithm; laxer modes accept more |
| Update sockets | `server/ws_handler.go`, `src/frontend/src/app/problems/[id]/page.tsx` | a subscription per socket, what the page waits for | get, subscribe, forward, close | a page is shown the end of its job, and the right one |
| Worker registry | `worker/heartbeat.go`, `recovery/service.go` | table `workers` | update status, beat, mark stale | a living worker is not marked, a dead one is |
| Language executors | `language/*` | files of a workspace | validate, write the source, compile, execute | only what was compiled is run |
| Problem authoring | `server/problem_handler.go`, `repository/problem_repo.go`, `testcase_repo.go` | tables `problems`, `test_cases` | create a problem, one with tests, a test | tests stay with their problem and in order; after the 201 they all count |
| Server lifecycle | `src/backend/cmd/api/main.go`, `server/server.go`, `worker/pool.go` (Start, Stop) | position of main, goroutines of the pool, requests under way | start, signal, shut down, drain, exit | a shutdown ends, a drained one leaves nothing, clients are told what was done |
| Configuration | `config/config.go` | none | read, default, narrow, validate | see the lifecycle: what an accepted environment leads to |
| Others | `db/`, `jobs/memory_store.go`, the rest of `src/frontend` | | | not or partly modelled, see the end |

**Interaction.** The API inserts a row, then enqueues its id. A worker is handed
the message and drives the row with conditional UPDATEs; a goroutine extends the
lease every 10 s. The recovery service, in every API process, turns expired
leases back into queued rows and enqueues rows that have been waiting. Pending
recovery, in every worker process, looks at messages nobody acknowledged. The
processes share only the tables and the stream; there is no lock but the WHERE
clause of each statement.

**What is hard.** Every call can be separated from the next by any step of
another process, can fail, or can succeed and have its answer lost. Workers
crash and come back under the same name, slow workers outlive their lease,
messages are duplicated by the two recovery loops and dropped by MAXLEN, the
execution context may be cancelled at any point. Inside one execution the timer,
the context, the output limit and the child's own exit race in a `select`. A
process that shuts down closes the queue under its own requests and recovery
loops, while its goroutines read a status without a lock.
`PROJECT.json` lists the hazards one by one with the line each bites at.

## Modules

| Module | Models |
|---|---|
| `JobLifecycle` | abstract: a job is handed to one worker at a time, each hand-over spends a credit, it ends once |
| `ExecutionStore` | the table; one action per SQL statement, issued by anybody at any time; implements `JobLifecycle` |
| `RedisStream` | the stream and its consumer group; used by the two pipelines |
| `RunPipeline` | `ExecutionStore` and `RedisStream` composed with requests, workers, recovery service and pending recovery |
| `SubmissionJudging` | `RedisStream` composed with `createSubmission`, `processSubmission`, `Judge` and pending recovery |
| `UpdateSockets` | `ExecutionStore` composed with what workers publish, the WebSocket handlers and the page that waits |
| `SandboxExecution` | one call of `Execute` with the executor of its language, down to the `select` of `RunProcess` |
| `Comparators` | the three comparators and the choice between them, as operators on sequences of characters |
| `Configuration` | what `Load` makes of an environment, as operators |
| `ServerLifecycle` | `Configuration` composed with `main`, `Pool.Start` and `Stop`, the worker loop, heartbeats, `MarkStaleWorkers` and the requests under way |
| `ProblemAuthoring` | the requests that write problems and tests, against submissions that are judged meanwhile |
| `ExecutionStoreProofs`, `RunPipelineProofs`, `SubmissionJudgingProofs`, `UpdateSocketsProofs`, `SandboxExecutionProofs`, `ServerLifecycleProofs`, `ProblemAuthoringProofs`, `ComparatorsProofs` | the theorems about the module of that name, see Proofs |
| `MC*` | values for constants, symmetry sets |

### ExecutionStore

`executions[j]` is a row. `Held`, `HeldBy`, `Due`, `Claimable`, `Completable`,
`Abandoned` and `Dispatchable` are the WHERE clauses, `ClaimRow`, `CompleteRow`
and `FailRow` the SET clauses. A timestamp is kept as the outcome of comparing
it with `NOW()` (`next_retry_at`: null, future, due; `lease_expires_at`: null,
live, expired; `last_dispatched_at`: null, recent, old) and `LeaseExpires`,
`RetryComesDue` and `DispatchAges` let time pass. `claimed_at`, `started_at`,
`completed_at` and `last_error` are written and never read back by a statement,
so they are left out. A table may start with queued rows of any budget: rows
that were there before the retry columns have the column default of 5, rows the
API makes have 0.

### RedisStream

Entries in order, each new, pending or acknowledged. XADD above MAXLEN drops
the oldest entry whatever its state. An id is the position of its entry, 0 once
trimmed; when XADD trims, the ids held by others shift along (`Shifted`), which
keeps the state space finite and changes nothing anybody can observe.

### RunPipeline

`wk[w].pc` is the call a worker is about to make: `claim`, `check` (the Get
after a refused claim), `clear` (the Ack if that Get found the job ended), `mark`, `fetch`, `run`, `fail`, `complete`, `ack`. Each
call is one action. `ctx` tells whether the execution context is live,
cancelled by a failed renewal (`exec`) or with the pool (`pool`); calls made
with the pool's context fail once it is cancelled, calls made with
`context.Background()` do not. `att` is the attempt number the claim produced, a
history variable used by the properties: it is part of what the worker passes to
`Complete` so that results can be told apart.

The recovery service's tick is `TakeBackLeases`, `SelectDelayed` (any rows up
to the LIMIT: the query has no ORDER BY), then `DispatchOne` and `MarkOne` per
row. Pending recovery is `AutoClaim` (a batch of pending entries, one of
`Batches`), then per message `Inspect`, `SweepAck` and `Requeue`.

Faults: a call is not executed, or executed with its answer lost; a panic
(`processJobSafely` calls `FailJob` without backoff); a pool that is cancelled;
a crash, and a restart under the same name. They are charged to `MaxFaults`. A
`Consume` whose answer is lost is a `Consume` followed by a failing call.

### SubmissionJudging

`jw[w].row` is the copy of the row `Judge` works on, `Finalize` its deferred
write-back. `Judge` has neither claim nor lease. A program that passed every
test goes through `Analyze`, a call to an external service that may take its
time, fail or panic while the verdict is only in memory. Compile and test steps are
nondeterministic choices over what `Judge` can tell apart. Pending recovery
looks submission ids up in `executions`, so all it does with one is
acknowledge: `SweepSubmission`. Faults come in kinds so that a run can say which
it allows.

### UpdateSockets

One page on one row, a run's (the statements of `ExecutionStore`, driven by
workers that publish where `processRun` does) or a submission's. `ann[w].copy` is
the payload a worker is about to publish, `inbox` the Go channel of the
subscription, `wire` the frames to the browser. `Subscribe` only asks for the
subscription, `SubscriptionStarts` is Redis taking it; what is published before
reaches nobody. When the page closes its end the reader goroutine closes the
subscription; the loop then receives a nil message and panics (caught by
`RecoverPanic`) unless a failing ping ends it first: both are `LoopEnds`. Pings
that succeed change nothing. `r.Context()` of a hijacked connection is not
cancelled while the handler runs, so its branch has no action.

### SandboxExecution

`proc` holds the locals of `RunProcess` with the child it watches. Bytes are
counted. `SelectTimer`, `SelectDone` and `SelectWait` are the branches of the
select, `Drain` the wait after a kill, `Written` the BoundedWriter, `Classify`
the classifier, an IF chain in the order of its tests: a killed child that also
filled its buffer fits several. The program does whatever it likes and is not assumed to stop.

`Registry` holds one record per language: what `Validate` refuses, which file
`Compile` writes, what a compiler that exits 0 leaves, which file the run step
needs. `workspace` is the set of those files. A container is `up` while
`Execute` knows its id; `docker run` killed by a cancelled context may leave an
`orphan`, and `docker rm` may fail and leave one too (`left`).

### Comparators

A text is a sequence of characters of `Char`, of any length. `UnifyLineEnds`,
`Split`, `TrimRight`, `Join` and `Fields` are the functions of package `strings`
as far as they are used, those that scan a text as recursive functions on it;
`Normalize` applies them in the order of the code. `OtherSpace` is the white space
that `strings.Fields` knows and `normalize` does not (form feed, no-break space
and others).

A float64 is a member of `Double`, a set of integers: all values are multiples of
one smallest unit. `Reads` says what a text denotes exactly, or that it is an
infinity, NaN or no number; `Round` takes an exact number to the nearest member of
`Double`, ties to the even one, and from `Infinity` on to an infinity.
`ParseFloat` rounds what it reads and refuses what is out of range, and
`FartherThan` rounds the difference before it is compared. So a token is compared
as the code does, not as its decimal text says: `FloatErrsByRounding` bounds how
far the two may come apart. Epsilon is a float64 of either sign, since neither
`createProblem` nor the column `float_epsilon` forbids a negative one: then
FLOAT_EPSILON refuses every number, itself included, and `ModesAreNested` leaves
it out. The behaviour is one comparison; the module is about what it computes.
`Shape` is the reference for the whitespace mode: which visible character stands
on which line at which column.

### Configuration and ServerLifecycle

The keys fall in three classes by what an unparsable text does: refused, the
default, or 0. `Int32` is the conversion of the three narrow fields, with the
width as a constant so that a value that wraps fits TLC's integers.

`pc[i]` is where `main` is: `down`, `connect`, `up` (its select), `http`
(`Server.Shutdown`), then `Pool.Stop` as `stop`, `register`, `close`, `wait`,
`grace`, `last`. `loop[i][g]` is where a goroutine of the pool is: it reads the
status without a lock (`CheckStatus` may see the old one), then `closed`, then
blocks in XREADGROUP, and a message it is handed after the close is processed.
`workers` is the table; ages are in seconds and `Tick` lets a heartbeat be
`Lateness` late. `beat[i]` is the phase of the ticker. `MarkStaleWorkers` is run
by the process itself if it is an API process, `PeerMarksStale` by one
elsewhere. A request is `gate`, `store`, `enqueue`; `POST /api/v1/executions` is
`gated` by `shuttingDown`, `POST /runs` is not.

### ProblemAuthoring

An id of a problem is the request that made it. `createFullProblem` is
`InsertProblem`, one `InsertTest` per test and `Created`, with nothing around
them; `createProblem` is the same without tests, `createTestCase` is `AddTest`.
`Submit` and `Judge` read in between. `Sorted` returns every order that the
ORDER BY allows. A statement fails with or without having been executed, that of
`createTestCase` too, and a process dies between two. `BodyRec` is what the decoder accepts.

## Runs

Bounds are small because every property is about one job or row and the
processes that meet on it; two workers are enough for a stale one and its
successor, a stream shorter than the number of messages for trimming, two attempts for a
retry, and one fault for each single point of failure with every interleaving.

| Run | Bounds | Shows |
|---|---|---|
| `store` | 2 jobs, 2 workers, budgets 0-2 | the store's invariants, that finished rows are frozen, and the refinement of `JobLifecycle` |
| `run_safety` | 1 job, 2 workers, stream of 2, 1 fault, symmetric workers | exclusive attempts; the answer is the last attempt's; a live lease protects; workers acknowledge only finished jobs |
| `run_liveness` | stream of 1, LIMIT 1, 1 worker, and either 1 job with 2 inputs, budget 0 or 2 and 1 fault (`Alone`), or 2 jobs of budget 0 (`Calm`) | every stored run ends, also when two jobs trim each other's messages and the dispatch query returns one row at a time; a completed one has a result for every input; its messages are cleared |
| `sandbox` | five languages and an unknown one, limit 2 bytes, up to 4 written in chunks of 1 or 2 | the properties of one execution, that only what was compiled is run, and that `Execute` returns |
| `submission` | 2 submissions for problems of 1 and 2 tests, 2 workers, stream of 1, 1 fault of any kind | verdicts agree with counts, come with COMPLETED, are final; a submission stays unjudged only if its message was trimmed before a worker had it, a call failed or a worker was stopped |
| `sockets` | a run (budgets 0 and 2) or a submission, 2 workers, 1 fault | the end a page shows is the end in the table; a subscribed page is told; a handler ends with its page |
| `comparators` | every pair of texts of up to 4 characters of letter, blank, CR, LF, and of up to 3 of two digits, minus, NaN, Inf, form feed; floats of 2 significant bits below 64; epsilon -1, 0 and 16 | each mode accepts what it promises, and the modes are nested |
| `lifecycle` | 1 process with one of 9 environments that load and 5 that are refused, a pool of 1 or 2, 1 request, a peer with a timeout of 25 s, heartbeats up to 5 s late, 1 fault | a drained exit leaves nothing; answers match effects; living workers are not marked while the timeouts fit, dead ones are; a shutdown ends |
| `authoring` | 3 authoring requests (symmetric) out of 9 bodies under two slugs, 1 submission, 1 fault | tests are not mixed, run in the author's order, and all count after the 201 |

`run_liveness` puts two scenarios into one specification, `ScenarioSpec`. In
`Calm` no call fails, no lease runs out and no execution ends in a platform error;
these are choices of the environment, so nothing that is fair is left out for ever. Two
jobs with faults as well are beyond five minutes; `run_safety` has the faults with
two workers. No run has new jobs without end, so that a row which `LIMIT` might
pass over for ever is not exercised.

`submission` has a stream of one entry for two submissions: whenever both are
queued one of them is trimmed. In the code the stream has 10000 entries that are
shared with the runs, acknowledged ones included; which message pushes another
one out makes no difference to the one that is lost. The floats of
`comparators` have two significant bits instead of 53, so that texts of three characters are
rounded in both directions, tie, and overflow.

In `lifecycle` the clock either advances by 5 s and there are no requests, or by
a whole `MaxAge` and there are: no guard of a request looks at an age and none of
a heartbeat at a request, so nothing is lost, and the state space is a sum
instead of a product. Several processes would meet only in the table `workers`,
where each has its own row; the peer that marks rows stands for all others. A
heartbeat is told apart from older ones up to `MaxAge`, 35 s, which is above
every timeout in use. `IntBits` is 16 so that `2^IntBits` is an integer of TLC;
that `DB_MAX_CONNS` wraps to 0 and is refused does not depend on the width.

Runs that end in a counterexample, each against a line of the repository (the
findings of `PROJECT.json`):

| Run | The repository says | TLC shows |
|---|---|---|
| `store_retry` | `integration/recovery_test.go:55` "Expected job to be QUEUED", of a job created without `MaxAttempts` | the job has budget 0 and is dead-lettered when its first lease runs out; so is every job of `CreateExecution`, where `worker/pool.go:210` says "FailJob for retry" |
| `run_cancelled` | `worker/pool.go:205` "Execution cancelled locally" | a cancelled execution completes the job with cut output |
| `submission_ack` | `queue/queue.go:29` "durably handled" | pending recovery acknowledges submissions that are not judged |

Other disagreements were met and have no run of their own:

- `worker/pool.go:215` leaves the message unacknowledged "so pending recovery or
  DLQ handles it"; for a dead-lettered run neither does, and it stays pending.
  `CompletedMessagesCleared` is about completed runs for that reason.
- A compile step that is killed by its timer has exit code 0 and no error, and
  passes the check whose branch is commented "Compilation timeout"
  (`judge/engine.go:144-145`). The model lets it pass; `VerdictMatchesTests`
  still holds.
- `ErrQueueFull` (`queue/queue.go:9`, mentioned at `jobs/service.go:62`, answered
  at `server/execution_handler.go:39`) is returned nowhere: a full stream drops
  its oldest entry without an error. For runs that is harmless (`EveryRunEnds`);
  a submission that no worker has been handed is lost, since nothing enqueues it
  again, and stays QUEUED (`Trimmed`, an exception of `EverySubmissionEnds`).
- A panic in `Judge` still runs its deferred function, which marks the row
  COMPLETED with the verdict PENDING, where `worker/pool.go:103` speaks of
  marking it failed; `CompletedHasVerdict` makes that one exception.
- The "instant streaming updates" of `src/frontend/src/app/page.tsx:48` have gaps
  that the premise and the exceptions of `SubscriberIsTold` name: a job that ends
  after the handler's initial fetch and before its subscription is in place, and
  a run that is dead-lettered, are announced to nobody, and the page waits on an
  open socket for ever.
- The float comparison ("with a given epsilon", `judge/comparator.go:74`) is made
  in float64: 1.1 is refused for 1.0 and 0.1, and 11111111111111111 accepted for
  11111111111111112 and 0. `FloatErrsByRounding` says how far it may be off. NaN
  is accepted for any number, since no comparison with NaN is true.
- The configuration reads keys that nothing uses: SHUTDOWN_TIMEOUT
  (`src/backend/.env.example` sets 10s, `main` waits 20 s), COMPILE_TIMEOUT,
  RUN_TIMEOUT, the output limits, the sandbox runtime, image and limits,
  QUEUE_CAPACITY, RECONCILIATION_*, JOB_LEASE_*, MAX_ATTEMPTS, RETRY_*. Some of
  them still refuse to start when they do not parse. A ROLE that is none of
  api, worker and all starts a process that waits for a signal and does nothing
  else (an environment of the run `lifecycle`). A negative interval is accepted
  and makes `time.NewTicker` panic after the worker has registered
  (`TickerPanics`).
- `src/docs/sandbox-threat-model.md:49` speaks of execution trees that are killed
  and of "no zombie processes". `NoChildLeftBehind` is about the child of
  `RunProcess`, the `docker exec` client; what runs in the container ends with
  `DestroyContainer`.

**Deadlock** is checked except in the submission, socket, comparator and
authoring runs, where the system is at rest once everything is judged (workers
block in XREADGROUP), the page has been told, the comparison is made or the
requests are answered.

**Fairness.** `PipeFairness`: workers, recovery service and pending recovery
keep taking steps (they are loops and tickers), stopped workers are restarted by
whoever runs the process, an accepted request goes on to its enqueue, and
timestamps are reached. A lease runs out only if nobody keeps it alive: a
renewing worker may hold it for ever as far as the clock is concerned, but
execution itself ends (`sandbox`, `ExecuteReturns`). For XAUTOCLAIM strong
fairness per entry: a sweep walks the pending list from the start to the end, so
an entry that is pending again and again is met. Nothing is assumed of faults.
`SandboxExecution` assumes that the code, the timer and the kernel's kill go on,
and nothing of the program. `JudgeFairSpec` is the same for submissions, and
assumes that the AI service answers or refuses: the call has no deadline of its
own. `UpdateSockets` adds the handler, the browser's delivery of frames, and
Redis taking a subscription. `LifeFairSpec` assumes that the clock advances, that
the timers of a shutdown fire and its calls return, that a ticker ticks and that
some API process keeps looking for stale rows; nothing is assumed of jobs and
requests, which may never end, nor of whoever starts and signals processes.

## Proofs

Eight modules hold theorems. Each proves, for every value of the constants, what
its component's run checks on one instance. The layout is the same in all of
them: an inductive invariant as a conjunction of named parts, lemmas about the
operators the steps share, a lemma for each group of actions, one that puts them
together (`...NextInv`), the theorem that the invariant holds, and one short
theorem for each property. The invariants were checked by TLC on the bounds of
the runs (naturals cut off where a quantifier ranges over them) before they were
proved. The assumptions are those of the modules
themselves, which TLC evaluates in every run: the null values are not values,
budgets, limits and bounds are naturals, and what is said below.

| Module | Theorem | States |
|---|---|---|
| `ExecutionStoreProofs` | `StoreTypes`, `LeaseSafety`, `BudgetSafety`, `AnswerSafety` | `StoreTypeOK`, `OwnershipMatchesLease`, `AttemptBudget`, `AnswerMatchesStatus` |
| | `TerminalIsFinal`, `HandoverSafety` | `TerminalFrozen`, `HandoverThroughQueue` |
| | `StoreImplementsLifecycle` | `StoreSpec => Lifecycle!LifeSpec` |
| `RunPipelineProofs` | `PipeTypes`, `ExclusiveAttempts`, `LastAttemptAnswers`, `AllInputsAnswered` | `PipeTypeOK`, `AttemptsAreExclusive`, `AnswerOfLastAttempt`, `EveryInputAnswered` |
| | `AckSafety`, `LeaseProtects` | `WorkerAckAfterEnd`, `LiveLeaseProtects` |
| | `PipeImplementsStore` | `PipeSpec => StoreSpec` |
| | `PipeImplementsLifecycle`, `PipeBudget`, `PipeTerminalIsFinal` | the store's theorems, of the pipeline |
| `SandboxExecutionProofs` | `BoxTypes`, `NoChildSurvives`, `OutputKept`, `SuccessSafety`, `LimitSafety`, `RunSafety` | `BoxTypeOK`, `NoChildLeftBehind`, `OutputKeptToTheByte`, `SuccessIsGenuine`, `LimitsAreReported`, `RunsWhatItCompiled` |
| `SubmissionJudgingProofs` | `VerdictSafety`, `CompletionSafety`, `VerdictsAreFinal` | `VerdictMatchesTests`, `CompletedHasVerdict`, `VerdictIsFinal` |
| `UpdateSocketsProofs` | `ShownIsTrue` | `ShownEndIsTheEnd` |
| | `SocketsImplementStore` | `Spec => StoreSpec` |
| `ServerLifecycleProofs` | `DrainSafety`, `HonestAnswers`, `LivingWorkerSafety` | `CleanExitLeavesNothing`, `AnswerMatchesEffect`, `LivingWorkerNotMarked` |
| `ProblemAuthoringProofs` | `SlugSafety`, `OrderSafety`, `FullSafety` | `SlugsAreNotMixed`, `JudgedInOrder`, `JudgedInFull` |
| `ComparatorsProofs` | `WhitespaceSafety`, `ModesSafety`, `FloatSafety` | `WhitespaceKeepsShape`, `ModesAreNested`, `FloatErrsByRounding` |

So every invariant and every action property of the passing runs is a theorem.

**The store** goes row by row. `RowInv` says what a single row may look like,
and `StoreInv` that every row does. The checked invariants are not inductive on
their own: that a dead-lettered or completed row never waits for a retry needs
that a held row is due (it was when it was claimed, and nothing changes
`next_retry_at` while it is held), and that `Create` may start from an absent
row needs that an absent row is blank. The action properties follow statement by
statement from the guards and `StoreInv`. For the refinement every statement is
shown to be one step of `JobLifecycle` or a stutter: `Claim` is `Acquire`, and
has a credit to spend because of `AttemptBudget`; `FailJob` and
`RecoverAbandonedJobs` are `Revoke` of a set of jobs.

**The run pipeline** touches the table only by statements of the store
(`PipeStepIsStoreStep`), so it implements the store and inherits its theorems.
`PipeInv` then ties what a worker remembers to the row it works on (`TiedTo`):
past its claim a worker knows an attempt number that was made, that is the
current one if the row is still held under its name, and a worker about to
acknowledge looks at an ended row. `AttemptsAreExclusive` is inductive only
together with this: a claim makes a number that is larger than every number
made before. That the holder's number is current in turn is what makes a
`Complete` that passes the WHERE clause an answer of the last attempt. A worker
that crashed and came back has the name of its former self and may find its own
lease on the row, but it is at rest and must claim again before it works.
`StatementRow`, `RowSeenBy` and `ClaimedRow` say what any statement does to
one row as seen by one worker; each action is then one of these and a move of a
worker. `LeaseProtects` needs for each actor what it may do to a row held by
somebody else (`MildKeepsHolder`, `EndsOwnOnly`).

**Submissions** have no claim. `JudgeInv` says that the right to judge one
exists once (`OnceInv`): in the request that has yet to enqueue it, in a message
that was not handed out, or in the worker it was handed to; and what the row and
the worker's copy of it are in each of these places (`BeforeInv`, `CopyInv`).
`VerdictIsFinal` follows because whoever is about to write holds that right and
found the row open. MAXLEN may drop the message, which loses the right but never
doubles it.

**The sockets** pass a state from the worker's copy to the inbox, the wire and
the page. `SockInv` says of every such place that a state on which the page would
stop is the row as it is now. It stays so because that row is never written
again: for runs by the store's `TerminalIsFinal`, for submissions by the one
judge of `SubInv`.

**The sandbox.** `BoxInv` says what each place of `RunProcess` knows
(`PlaceInv`): which of child, timer, context and `Wait` must have acted before it
is reached, and that an error that was drained away leaves the flag or the cause
for which it was dropped. That a full buffer has ended the context (`CauseInv`)
is what keeps SUCCESS from a program whose output was cut; that a context ended
by the caller forbids starting a process is what keeps the run step from a
program that was not compiled. The proof attempt showed a defect of an earlier
form of the model: `Classify` was a CASE whose guards overlapped, which lets TLA+
choose any of them, where the code takes the first.

**The server.** `LifeInv` has a part for each of three arguments. A pool is
only `drained` when every goroutine has left, and goroutines that left do not
come back. A request is under way only at a process that is up or in
`Server.Shutdown`, or one whose shutdown gave up on it (`late`); so a queue that
is closed under a request means a late one. The row of a living worker is as old
as the phase of its ticker, which is at most the interval plus `Lateness`, and
older by one interval if a heartbeat failed. `LivingWorkerSafety` has a
hypothesis on constants, `DefaultsFit`: every timeout in use is at least two
default intervals plus `Lateness`. The code's own defaults (10 s, 30 s) satisfy
it with heartbeats up to 10 s late; without it a process whose environment says nothing
about the interval may be marked. `MCServerLifecycle` assumes it of the instance,
so TLC evaluates it. `LifeConstants` further says that `MaxAge` is above the
timeouts in use, since older rows are not told apart.

**Authoring.** `createFullProblem` has no transaction. `AuthInv` says what stands
in for one: the rows of a request are at all times the first ones of its body
and under the problem it created, because it inserts them in order and does not
go on after a failure; a row beyond `next` is that of a statement whose answer
was lost, and then the request has ended. Hence the order in which a submission
reads them whenever it does, and that all are there after the 201.
`AuthoringConstants` types the bodies, and says that `createTestCase` has one
test.

**The comparators** have a short behaviour and a long computation. `CompInv` says
that a verdict is what `Compare` answers; the rest is about what `Compare`
computes, for texts of any length. The assumptions are that the characters the
code names are characters, that the outputs are texts, that `Double` is a set of
integers with 0 and with the negative of each, all below `Infinity`, and that epsilon is one of
them. How many bits a float has, and whether it has any spacing at all, is not
assumed.

- *Induction.* The provers cannot use an induction theorem that has a predicate
  as parameter, but a set serves as well: `SetOfAllSeq` says that a set that holds
  `<<>>` and, with a sequence, every sequence one element longer holds all
  sequences. It rests on `LeastNat`, which is the library's `WFMin`.
  `RecursionOnSeq` shows in the same way that a recursive function on sequences
  exists, the step of the recursion being given as a function. From these come
  the equations of `UnifyLineEnds`, `Split`, `Join` and `NonEmpty`
  (`...Step`), one for the empty text and one for a text that grows by a character.
- *`FloatSafety`.* What `Round` returns is no farther from its argument than any
  other value (`RoundNearest`). So a difference whose rounding is within epsilon
  is at most half way to the next value above epsilon (`RoundedWithin`), and one
  whose rounding is beyond epsilon, a value itself, was beyond it before
  (`RoundedBeyond`); the errors of reading come on top (`NumbersCompare`).
  `CHOOSE` needs that a nearest value exists, which holds in any set of integers
  that is not empty, by `LeastNat`.
- *`ModesSafety`.* `FieldsNormalize`: none of the three steps of `normalize`
  changes the fields of a text. A scan of the text knows the fields that are
  done and the one that is open (`Done`, `Open`); replacing `"\r\n"`, trimming
  and dropping empty lines only remove white space next to white space or at
  the end.
- *`WhitespaceSafety`.* The lines the code cuts a text into are compared with the
  definition by places: `Placed` says that a character is in column k of line r
  after `UnifyLineEnds` and `Split` exactly if it stands there in the text. It is
  inductive because it also says where the next character will go, and
  whether a `"\r"` that the next `"\n"` would swallow is the last one. Trimming
  and dropping then keep exactly the visible places (`RowsCells`), rows with the
  same places are the same (`CellsDetermine`), and different rows join to
  different texts, since no row has a line end in it and the last one is not
  empty (`JoinInjective`, by `SplitJoin`).

Two things were changed in `Comparators` for this. Folds became recursive
functions, whose equations can be stated. And the attempt to prove
`ModesAreNested` for every epsilon failed for a negative one, which the code
accepts; the constant, the run and the two properties now include it.

Only model-checked, and why:

- `EveryRunEnds`, `CompletedMessagesCleared`, `EverySubmissionEnds`,
  `SubscriberIsTold`, `HandlerEndsWithPage`, `ExecuteReturns`, `DeadWorkerIsMarked`, `ShutdownEnds`:
  liveness, whose proofs need fairness and ENABLED.
- The three runs that end in a counterexample refute, which takes no proof.

## Abstractions to know about

- One row holds one abstract result; output text, error messages and logging are
  left out. `PublishJobUpdate` is in `UpdateSockets` only: it changes nothing the
  pipelines look at.
- A renewal that was in flight when its execution ended may still extend the
  lease; the model ends renewals with the execution. The only effect would be a
  longer lease for the same holder.
- In `RunPipeline` a drained worker is one that stops between two messages; how a
  pool gets there is `ServerLifecycle`, where in turn a message is only in hand
  or not.
- A process that drains refuses the enqueues of its own recovery loops; in
  `RunPipeline` that is a failing call.
- `ServerLifecycle` counts messages without their content, and has all timers but
  the heartbeat's fire at any time.
- Recovery of a panic in an HTTP handler (`platform/http/middleware.go`) shows as a request that
  is answered 500; rows of `test_cases` are never changed or removed by the code,
  so `ProblemAuthoring` lets `Judge` read the problem and its tests at once.
- The Redis client may itself repeat an XADD after a network error. For runs
  this is one more duplicate among those the recovery loops make; for
  submissions it is outside the model.

## Not modelled

- Routing, decoding, request ids, logging and health checks
  (`server/server.go`, `platform/http`): they change no state anybody else reads.
- `getProblem`, `listProblems`, `getSubmission` and the other requests that only
  read.
- Connection pools and the migrations of `db/`: I/O against PostgreSQL and Redis,
  one boot step of `ServerLifecycle` that succeeds or ends the process. The
  constraints the migrations set up (the unique slug, the foreign keys) are guards
  of the statements.
- `jobs/memory_store.go`, a store that nothing constructs.
- The frontend, but for how the problem page waits for an answer.
- The limits Docker and the kernel enforce (memory, processes, network): external,
  seen only as ways a child ends.

## Plan

Done: inventory; `ExecutionStore` with its refinement; `RedisStream`;
`RunPipeline`; `SandboxExecution` with the language executors;
`SubmissionJudging`; `UpdateSockets`; `Comparators`; `Configuration` and
`ServerLifecycle`, which has the worker registry; `ProblemAuthoring`; the proofs of
every invariant and action property of these.

Left:

1. Bounds on what may pile up in the pipeline, as theorems: how many messages of
   one job a tick of the recovery service and a sweep can add.
2. A theorem that `Configuration` is total: every environment that `Load` accepts
   satisfies the typing the lifecycle relies on, for every width of `int32` (this
   needs the laws of `^`, which the provers do not know).
3. Keeping the proofs short: the lemmas about one worker's move are alike in
   `RunPipelineProofs` and `SubmissionJudgingProofs`.
