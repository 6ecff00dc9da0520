-------------------------- MODULE ServerLifecycle --------------------------
(***************************************************************************)
(* The life of a Codera process (cmd/api/main.go): load the configuration, *)
(* connect, start the worker pool and the HTTP server as the role says,    *)
(* and on a signal shut the server down, drain the pool and leave.         *)
(* Meanwhile the pool's goroutines take messages (worker/pool.go), a       *)
(* heartbeat keeps the row of the process in the table workers young       *)
(* (worker/heartbeat.go), the recovery service of every API process marks  *)
(* old rows STOPPED (recovery/service.go), and requests that create runs   *)
(* are under way (server/run_handler.go, execution_handler.go).            *)
(*                                                                         *)
(* What becomes of a message in a goroutine is the subject of RunPipeline  *)
(* and SubmissionJudging; here it is only in hand or not.  The clock is    *)
(* there for the age of heartbeats; all other timers fire at any time.     *)
(***************************************************************************)
EXTENDS Configuration, Sequences, FiniteSets

CONSTANTS
  Instance,    \* INSTANCE_ID of each process
  Environ,     \* Environ[i]: the environments i may be started with
  Request,     \* requests to create a run
  PeerTimeout, \* WORKER_HEARTBEAT_TIMEOUT of API processes elsewhere
  Lateness,    \* how late a heartbeat can be, in seconds
  Scale,       \* bound: for each, the seconds the clock advances at a time and
               \*   the requests there are
  MaxAge,      \* bound: heartbeats that are older are not told apart
  MaxWorkers,  \* bound: goroutines of a pool
  MaxFaults    \* bound: how many faults a behaviour has

ASSUME LifeConstants ==
  /\ \A i \in Instance : Environ[i] \subseteq Environment
  /\ \A i \in Instance : \A e \in Environ[i] : Loads(e) =>
       /\ Field(e, "EXECUTION_WORKERS") <= MaxWorkers
       /\ Field(e, "WORKER_HEARTBEAT_INTERVAL") + Lateness <= MaxAge
       /\ Field(e, "WORKER_HEARTBEAT_INTERVAL") \notin 1..Lateness
       /\ Field(e, "WORKER_HEARTBEAT_TIMEOUT") < MaxAge
  /\ \A t \in PeerTimeout : t \in Int /\ t < MaxAge
  /\ Scale \subseteq [step : Nat \ {0}, requests : SUBSET Request]
  /\ {Lateness, MaxAge, MaxWorkers, MaxFaults} \subseteq Nat

VARIABLES
  pc,       \* pc[i]: where main is
  env,      \* env[i]: the environment of the process
  how,      \* how[i]: how the pool was drained, or the process ended
  loop,     \* loop[i][g]: where goroutine g of the pool is
  beat,     \* beat[i]: seconds since the last tick of the heartbeat's ticker
  workers,  \* the table: status and age of last_heartbeat_at
  rq,       \* rq[r]: a request and what it has done so far
  backlog,  \* messages nobody has been handed
  scale,    \* the scale of this behaviour
  faults    \* the kinds of the faults so far

lifeVars == <<pc, env, how, loop, beat, workers, rq, backlog, scale, faults>>

Goroutine == 1..MaxWorkers

NoRow      == [status |-> "ABSENT", age |-> 0]
\* `late`: still under way when Server.Shutdown gave up waiting.
NoRequest  == [pc |-> "new", at |-> "none", gated |-> FALSE, late |-> FALSE, code |-> 0,
               stored |-> FALSE, queued |-> FALSE]

LifeInit ==
  /\ pc      = [i \in Instance |-> "down"]
  /\ env     = [i \in Instance |-> Blank]
  /\ how     = [i \in Instance |-> "never"]
  /\ loop    = [i \in Instance |-> [g \in Goroutine |-> "none"]]
  /\ beat    = [i \in Instance |-> 0]
  /\ workers = [i \in Instance |-> NoRow]
  /\ rq      = [r \in Request |-> NoRequest]
  /\ backlog \in 0..1
  /\ scale \in Scale
  /\ faults  = <<>>

Fault(kind) == Len(faults) < MaxFaults /\ faults' = Append(faults, kind)

Happened(kind) == \E n \in DOMAIN faults : faults[n] = kind

-----------------------------------------------------------------------------
(* What the position of main says about the process *)

Cfg(i, k) == Field(env[i], k)
HasPool(i) == env[i].role \in {"worker", "all"}
HasApi(i)  == env[i].role \in {"api", "all"}

Draining == {"register", "close", "wait", "grace"}
Started  == {"up", "http", "stop", "last"} \cup Draining

\* p.status
PoolStatus(i) == CASE pc[i] \in {"up", "http", "stop"} -> "ACTIVE"
                   [] pc[i] \in Draining               -> "DRAINING"
                   [] pc[i] = "last"                   -> "STOPPED"

ShuttingDown(i) == pc[i] \in Started \ {"up"}
Closed(i)       == pc[i] \in {"wait", "grace", "last"}

\* The pool's context is live, and so is the goroutine of the heartbeat.
Beating(i)  == HasPool(i) /\ pc[i] \in Started /\ how[i] # "timeout"

InFlight(i) == {r \in Request : rq[r].at = i /\ rq[r].pc \in {"gate", "store", "enqueue"}}

Goto(i, k) == pc' = [pc EXCEPT ![i] = k]

\* UpdateStatus: the row is inserted or overwritten, and young again.
UpdateStatus(i, s) == workers' = [workers EXCEPT ![i] = [status |-> s, age |-> 0]]

\* The process is gone: messages in hand stay pending, requests lose their
\* connection, the row stays.
Gone(i, k) ==
  /\ Goto(i, "down")
  /\ env'  = [env EXCEPT ![i] = Blank]
  /\ how'  = [how EXCEPT ![i] = k]
  /\ loop' = [loop EXCEPT ![i] = [g \in Goroutine |-> IF @[g] = "busy" THEN "lost" ELSE "none"]]
  /\ beat' = [beat EXCEPT ![i] = 0]
  /\ rq'   = [r \in Request |-> IF r \in InFlight(i) THEN [rq[r] EXCEPT !.pc = "cut"] ELSE rq[r]]
  /\ UNCHANGED backlog

-----------------------------------------------------------------------------
(* main up to its select *)

Load(i) ==
  /\ pc[i] = "down"
  /\ \E e \in Environ[i] :
       /\ Loads(e)
       /\ env' = [env EXCEPT ![i] = e]
  /\ Goto(i, "connect")
  /\ how'  = [how EXCEPT ![i] = "never"]
  /\ loop' = [loop EXCEPT ![i] = [g \in Goroutine |-> "none"]]
  /\ UNCHANGED <<beat, workers, rq, backlog, faults>>

\* os.Exit(1) before anything was touched.
LoadFails(i) ==
  /\ pc[i] = "down"
  /\ \E e \in Environ[i] : ~ Loads(e)
  /\ how' = [how EXCEPT ![i] = "error"]
  /\ UNCHANGED <<pc, env, loop, beat, workers, rq, backlog, faults>>

\* Connect, RunMigrations, ConnectRedis, EnsureGroupExists; then Pool.Start,
\* whose first UpdateStatus may fail, which is only logged.
StartPool(i, registered) ==
  /\ pc[i] = "connect"
  /\ IF HasPool(i)
     THEN /\ IF registered THEN UpdateStatus(i, "ACTIVE") ELSE UNCHANGED workers
          /\ loop' = [loop EXCEPT ![i] = [g \in Goroutine |->
               IF g <= Cfg(i, "EXECUTION_WORKERS") THEN "check" ELSE "none"]]
     ELSE UNCHANGED <<workers, loop>>
  /\ Goto(i, "up")
  /\ beat' = [beat EXCEPT ![i] = 0]
  /\ UNCHANGED <<env, how, rq, backlog>>

Start(i) == StartPool(i, TRUE) /\ UNCHANGED faults

RegisterFailsAtStart(i) == HasPool(i) /\ StartPool(i, FALSE) /\ Fault("register")

ConnectFails(i) ==
  /\ pc[i] = "connect"
  /\ Gone(i, "error")
  /\ Fault("call")
  /\ UNCHANGED workers

\* time.NewTicker panics for an interval that is not positive, in a goroutine
\* of its own, and takes the process with it.
TickerPanics(i) ==
  /\ pc[i] \in Started
  /\ \/ HasPool(i) /\ Cfg(i, "WORKER_HEARTBEAT_INTERVAL") <= 0
     \/ HasApi(i)  /\ Cfg(i, "RECOVERY_INTERVAL") <= 0
  /\ Gone(i, "panic")
  /\ UNCHANGED <<workers, faults>>

-----------------------------------------------------------------------------
(* main from its select on *)

\* ListenAndServe failed: os.Exit(1), nothing is drained.
ServerFails(i) ==
  /\ pc[i] = "up" /\ HasApi(i)
  /\ Gone(i, "error")
  /\ Fault("serve")
  /\ UNCHANGED workers

\* What follows srv.Shutdown.
AfterHttp(i) == Goto(i, IF HasPool(i) THEN "stop" ELSE "exit")

MainOnly == UNCHANGED <<env, loop, beat, rq, backlog, faults>>

\* A signal; Server.Shutdown sets shuttingDown and closes the listener.
Signal(i) ==
  /\ pc[i] = "up"
  /\ IF HasApi(i) THEN Goto(i, "http") ELSE AfterHttp(i)
  /\ UNCHANGED <<how, workers>>
  /\ MainOnly

\* Shutdown returns when no request is in progress, or after 20 seconds.
HttpDrainedAtOnce(i) ==
  /\ pc[i] = "http"
  /\ AfterHttp(i)
  /\ UNCHANGED <<how, workers>>
  /\ MainOnly
HttpDrained(i) ==
  /\ pc[i] = "http"
  /\ InFlight(i) = {}
  /\ AfterHttp(i)
  /\ UNCHANGED <<how, workers>>
  /\ MainOnly

HttpTimesOut(i) ==
  /\ pc[i] = "http"
  /\ AfterHttp(i)
  /\ rq' = [r \in Request |-> IF r \in InFlight(i) THEN [rq[r] EXCEPT !.late = TRUE] ELSE rq[r]]
  /\ UNCHANGED <<env, how, loop, beat, workers, backlog, faults>>

\* Pool.Stop: p.status = DRAINING, which the goroutines read without a lock.
StopBegins(i) ==
  /\ pc[i] = "stop"
  /\ Goto(i, "register")
  /\ UNCHANGED <<how, workers>>
  /\ MainOnly

RegisterDraining(i) ==
  /\ pc[i] = "register"
  /\ UpdateStatus(i, "DRAINING")
  /\ Goto(i, "close")
  /\ UNCHANGED how
  /\ MainOnly

RegisterDrainingFails(i) ==
  /\ pc[i] = "register"
  /\ Fault("register")
  /\ Goto(i, "close")
  /\ UNCHANGED <<env, how, loop, beat, workers, rq, backlog>>

CloseQueue(i) ==
  /\ pc[i] = "close"
  /\ Goto(i, "wait")
  /\ UNCHANGED <<how, workers>>
  /\ MainOnly

\* wg.Wait has returned.
AllIdle(i) ==
  /\ pc[i] = "wait"
  /\ \A g \in Goroutine : loop[i][g] # "busy"
  /\ Goto(i, "last")
  /\ how' = [how EXCEPT ![i] = "drained"]
  /\ UNCHANGED workers
  /\ MainOnly
AllLeft(i) ==
  /\ pc[i] = "wait"
  /\ \A g \in Goroutine : loop[i][g] \in {"none", "left"}
  /\ Goto(i, "last")
  /\ how' = [how EXCEPT ![i] = "drained"]
  /\ UNCHANGED workers
  /\ MainOnly

\* WORKER_SHUTDOWN_TIMEOUT is over: the pool's context is cancelled, which
\* ends the heartbeat and the executions, and main sleeps for a second.
WaitTimesOutIfIdle(i) ==
  /\ pc[i] = "wait"
  /\ \A g \in Goroutine : loop[i][g] # "busy"
  /\ Goto(i, "grace")
  /\ how' = [how EXCEPT ![i] = "timeout"]
  /\ UNCHANGED workers
  /\ MainOnly
WaitTimesOut(i) ==
  /\ pc[i] = "wait"
  /\ Goto(i, "grace")
  /\ how' = [how EXCEPT ![i] = "timeout"]
  /\ UNCHANGED workers
  /\ MainOnly

GraceEnds(i) ==
  /\ pc[i] = "grace"
  /\ Goto(i, "last")
  /\ UNCHANGED <<how, workers>>
  /\ MainOnly

\* p.status = STOPPED and its UpdateStatus, then main returns.
RegisterStopped(i) ==
  /\ pc[i] = "last"
  /\ UpdateStatus(i, "STOPPED")
  /\ Gone(i, how[i])
  /\ UNCHANGED faults

RegisterStoppedFails(i) ==
  /\ pc[i] = "last"
  /\ Fault("register")
  /\ Gone(i, how[i])
  /\ UNCHANGED workers

\* main returns without a pool to stop.
Exit(i) ==
  /\ pc[i] = "exit"
  /\ Gone(i, how[i])
  /\ UNCHANGED <<workers, faults>>

\* The process is killed.
Crash(i) ==
  /\ pc[i] # "down"
  /\ Gone(i, "crash")
  /\ Fault("crash")
  /\ UNCHANGED workers

MainStep(i) ==
  \/ HttpDrained(i)      \/ HttpTimesOut(i) \/ StopBegins(i)   \/ RegisterDraining(i)
  \/ CloseQueue(i)       \/ AllLeft(i)      \/ WaitTimesOut(i) \/ GraceEnds(i)
  \/ RegisterStopped(i)  \/ Exit(i)

-----------------------------------------------------------------------------
(* workerLoop *)

At(i, g, k)   == pc[i] \in Started /\ loop[i][g] = k
To(i, g, k)   == loop' = [loop EXCEPT ![i][g] = k]
LoopOnly      == UNCHANGED <<pc, env, how, beat, workers, rq>>

\* The read of p.status races with Stop: it may still see ACTIVE.
CheckStatus(i, g) ==
  /\ At(i, g, "check")
  /\ \/ To(i, g, "consume")
     \/ PoolStatus(i) # "ACTIVE" /\ To(i, g, "left")
  /\ LoopOnly /\ UNCHANGED <<backlog, faults>>

\* The head of Consume's loop; closed is atomic.
CheckClosed(i, g) ==
  /\ At(i, g, "consume")
  /\ To(i, g, IF Closed(i) THEN "left" ELSE "read")
  /\ LoopOnly /\ UNCHANGED <<backlog, faults>>

\* XREADGROUP answers, also after the queue was closed.
ReadMessage(i, g) ==
  /\ At(i, g, "read")
  /\ backlog > 0
  /\ backlog' = backlog - 1
  /\ To(i, g, "busy")
  /\ LoopOnly /\ UNCHANGED faults

\* Nothing came for two seconds, or the context has ended.
ReadEmpty(i, g) ==
  /\ At(i, g, "read")
  /\ \/ To(i, g, "consume")
     \/ how[i] = "timeout" /\ To(i, g, "left")
  /\ LoopOnly /\ UNCHANGED <<backlog, faults>>

\* An error of Redis: sleep a second, begin again.
ReadFails(i, g) ==
  /\ At(i, g, "read")
  /\ Fault("call")
  /\ To(i, g, "check")
  /\ LoopOnly /\ UNCHANGED backlog

\* processJobSafely has returned.
JobEnds(i, g) ==
  /\ At(i, g, "busy")
  /\ To(i, g, "check")
  /\ LoopOnly /\ UNCHANGED <<backlog, faults>>

LoopStep(i, g) ==
  \/ CheckStatus(i, g) \/ CheckClosed(i, g) \/ ReadMessage(i, g) \/ ReadEmpty(i, g)
  \/ ReadFails(i, g)   \/ JobEnds(i, g)

-----------------------------------------------------------------------------
(* Heartbeats *)

TableOnly == UNCHANGED <<pc, env, how, loop, rq, backlog>>

Due(i) == Beating(i) /\ Cfg(i, "WORKER_HEARTBEAT_INTERVAL") \in 1..beat[i]

\* A ticker keeps its phase, and drops ticks nobody was there for.
TickTaken(i) == beat' = [beat EXCEPT ![i] = @ % Cfg(i, "WORKER_HEARTBEAT_INTERVAL")]

\* Heartbeat.Run: the row is made young, its status is left alone.
Beat(i) ==
  /\ Due(i)
  /\ TickTaken(i)
  /\ workers' = [workers EXCEPT ![i].age = 0]
  /\ TableOnly /\ UNCHANGED faults

BeatFails(i) ==
  /\ Due(i)
  /\ TickTaken(i)
  /\ Fault("beat")
  /\ TableOnly /\ UNCHANGED workers

Older(age) == IF age + scale.step > MaxAge THEN MaxAge ELSE age + scale.step

\* Time goes by, as long as no heartbeat is later than it can be.
Tick ==
  /\ \A i \in Instance :
       Beating(i) => beat[i] + scale.step <= Cfg(i, "WORKER_HEARTBEAT_INTERVAL") + Lateness
  /\ workers' = [i \in Instance |-> IF workers[i].status = "ABSENT" THEN NoRow
                                    ELSE [workers[i] EXCEPT !.age = Older(@)]]
  /\ beat' = [i \in Instance |-> IF Beating(i) THEN Older(beat[i]) ELSE 0]
  /\ TableOnly /\ UNCHANGED faults

\* The WHERE clause of MarkStaleWorkers.
StaleAtTimeout(k, timeout) == /\ workers[k].status \notin {"ABSENT", "STOPPED"}
                              /\ workers[k].age >= timeout
StaleIfActive(k, timeout)  == workers[k].status = "ACTIVE" /\ workers[k].age > timeout
Stale(k, timeout) == /\ workers[k].status \notin {"ABSENT", "STOPPED"}
                     /\ workers[k].age > timeout

MarkStale(timeout) ==
  workers' = [k \in Instance |->
    IF Stale(k, timeout) THEN [workers[k] EXCEPT !.status = "STOPPED"] ELSE workers[k]]

\* The recovery service of process i, or of a process elsewhere.
MarkStaleWorkers(i) ==
  /\ HasApi(i) /\ pc[i] \in Started \cup {"exit"}
  /\ MarkStale(Cfg(i, "WORKER_HEARTBEAT_TIMEOUT"))
  /\ TableOnly /\ UNCHANGED <<beat, faults>>

PeerMarksStale ==
  /\ \E timeout \in PeerTimeout : MarkStale(timeout)
  /\ TableOnly /\ UNCHANGED <<beat, faults>>

-----------------------------------------------------------------------------
(* Requests: POST /runs, and POST /api/v1/executions, which looks at        *)
(* shuttingDown first (gated).                                              *)

Set(r, v)   == rq' = [rq EXCEPT ![r] = v]
Answer(r, v, c) == Set(r, [v EXCEPT !.pc = "done", !.code = c])
RequestOnly == UNCHANGED <<pc, env, how, loop, beat, workers>>

Arrive(r) ==
  /\ rq[r].pc = "new" /\ r \in scale.requests
  /\ \E i \in Instance, b \in BOOLEAN :
       /\ pc[i] = "up" /\ HasApi(i)
       /\ Set(r, [rq[r] EXCEPT !.pc = "gate", !.at = i, !.gated = b])
  /\ RequestOnly /\ UNCHANGED <<backlog, faults>>

\* The gate, the body and CreateExecution's validation, whose errors become 400
\* or 500 depending on the handler and on which it is.
Admit(r) ==
  /\ rq[r].pc = "gate"
  /\ IF rq[r].gated /\ ShuttingDown(rq[r].at) THEN Answer(r, rq[r], 503)
     ELSE \/ Set(r, [rq[r] EXCEPT !.pc = "store"])
          \/ \E c \in {400, 500} : Answer(r, rq[r], c)
  /\ RequestOnly /\ UNCHANGED <<backlog, faults>>

StoreRun(r) ==
  /\ rq[r].pc = "store"
  /\ Set(r, [rq[r] EXCEPT !.pc = "enqueue", !.stored = TRUE])
  /\ RequestOnly /\ UNCHANGED <<backlog, faults>>

EnqueueDropsClosed(r) ==
  /\ rq[r].pc = "enqueue"
  /\ IF Closed(rq[r].at)
     THEN Answer(r, rq[r], 202) /\ UNCHANGED backlog
     ELSE Answer(r, [rq[r] EXCEPT !.queued = TRUE], 202) /\ backlog' = backlog + 1
  /\ RequestOnly /\ UNCHANGED faults
EnqueueRun(r) ==
  /\ rq[r].pc = "enqueue"
  /\ IF Closed(rq[r].at)
     THEN Answer(r, rq[r], 500) /\ UNCHANGED backlog
     ELSE Answer(r, [rq[r] EXCEPT !.queued = TRUE], 202) /\ backlog' = backlog + 1
  /\ RequestOnly /\ UNCHANGED faults

\* The statement or the XADD fails, executed or not.
RequestFails(r) ==
  /\ rq[r].pc \in {"store", "enqueue"}
  /\ Fault("call")
  /\ \/ Answer(r, rq[r], 500) /\ UNCHANGED backlog
     \/ rq[r].pc = "store" /\ Answer(r, [rq[r] EXCEPT !.stored = TRUE], 500) /\ UNCHANGED backlog
     \/ rq[r].pc = "enqueue" /\ Answer(r, [rq[r] EXCEPT !.queued = TRUE], 500) /\ backlog' = backlog + 1
  /\ RequestOnly

RequestStep(r) == Arrive(r) \/ Admit(r) \/ StoreRun(r) \/ EnqueueRun(r) \/ RequestFails(r)

-----------------------------------------------------------------------------

LifeNext ==
  /\ \/ \E i \in Instance :
          \/ Load(i) \/ LoadFails(i) \/ Start(i) \/ RegisterFailsAtStart(i) \/ ConnectFails(i)
          \/ TickerPanics(i) \/ ServerFails(i) \/ Signal(i) \/ MainStep(i) \/ Crash(i)
          \/ RegisterDrainingFails(i) \/ RegisterStoppedFails(i)
          \/ Beat(i) \/ BeatFails(i) \/ MarkStaleWorkers(i)
          \/ \E g \in Goroutine : LoopStep(i, g)
     \/ Tick \/ PeerMarksStale
     \/ \E r \in Request : RequestStep(r)
  /\ UNCHANGED scale

LifeSpec == LifeInit /\ [][LifeNext]_lifeVars

\* Timers fire, calls return and tickers tick.  Nothing is assumed of jobs and
\* requests, which may hang, or of whoever starts and signals processes.
LifeFairSpec ==
  /\ LifeSpec
  /\ WF_lifeVars(Tick /\ UNCHANGED scale)
  /\ WF_lifeVars(PeerMarksStale /\ UNCHANGED scale)
  /\ \A i \in Instance : /\ WF_lifeVars(MainStep(i) /\ UNCHANGED scale)
                         /\ WF_lifeVars(Beat(i) /\ UNCHANGED scale)

-----------------------------------------------------------------------------
(* Properties *)

\* The environment of worker i leaves room for one heartbeat that is lost and
\* one that is late before `timeout` is over: nothing was said about the
\* interval, or what was said fits.
Says(raw) == raw.text = "number" /\ raw.n # 0
Fits(i, timeout) ==
  Says(env[i].vars["WORKER_HEARTBEAT_INTERVAL"]) =>
    /\ Cfg(i, "WORKER_HEARTBEAT_INTERVAL") > 0
    /\ 2 * Cfg(i, "WORKER_HEARTBEAT_INTERVAL") + Lateness <= timeout

\* Every timeout leaves that room for the default interval.
DefaultsFit ==
  LET room == 2 * Fallback["WORKER_HEARTBEAT_INTERVAL"] + Lateness
  IN  /\ \A timeout \in PeerTimeout : room <= timeout
      /\ \A i \in Instance : \A e \in Environ[i] :
           Loads(e) => room <= Field(e, "WORKER_HEARTBEAT_TIMEOUT")

\* A worker whose heartbeat runs is not marked STOPPED, although one heartbeat
\* fails, the next is late, and every API process looks for stale rows at any
\* moment.  It takes timeouts that do not fit, or a failed UpdateStatus, for
\* that; then the row stays wrong until the process is restarted, because
\* Heartbeat.Run never writes a status.
LivingWorkerNotMarked ==
  [][\A i \in Instance :
       (/\ Beating(i) /\ pc[i] # "last"
        /\ workers[i].status # "STOPPED" /\ workers'[i].status = "STOPPED")
       => \/ \E timeout \in PeerTimeout : ~ Fits(i, timeout)
          \/ \E k \in Instance : HasApi(k) /\ ~ Fits(i, Cfg(k, "WORKER_HEARTBEAT_TIMEOUT"))
          \/ Happened("register")
          \/ Cardinality({n \in DOMAIN faults : faults[n] = "beat"}) > 1]_lifeVars

\* "All workers gracefully drained" is true: a process that ended that way had
\* no message in hand, although its goroutines may have seen the old status
\* and one of them was handed a message after the queue was closed.
CleanExitLeavesNothing ==
  \A i \in Instance : (pc[i] = "down" /\ how[i] = "drained") =>
    \A g \in Goroutine : loop[i][g] # "lost"

\* What a client is told is what was done: 202 only with the row stored and
\* its id in the stream, 400 and 503 only with nothing stored, and no request
\* is refused with its row already stored because the process is shutting down:
\* the server is drained before the pool closes the queue.  That takes a failed
\* call, or a request of more than 20 seconds.
AnswerMatchesEffect ==
  \A r \in Request :
    /\ rq[r].code = 202 => rq[r].stored /\ rq[r].queued
    /\ rq[r].code \in {400, 503} => ~ rq[r].stored
    /\ (rq[r].code = 500 /\ rq[r].stored) => Happened("call") \/ rq[r].late

\* The row of a process that is gone does not stay ACTIVE or DRAINING, unless
\* it is started again.
DeadWorkerIsMarked ==
  \A i \in Instance :
    (pc[i] = "down" /\ workers[i].status \in {"ACTIVE", "DRAINING"})
      ~> (pc[i] # "down" \/ workers[i].status = "STOPPED")

\* A process that has been told to stop does, although a job or a request
\* never ends.
ShutdownEnds ==
  \A i \in Instance : (pc[i] \in Started \ {"up"}) ~> (pc[i] = "down")
=============================================================================
