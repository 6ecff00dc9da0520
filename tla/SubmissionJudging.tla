------------------------- MODULE SubmissionJudging -------------------------
(***************************************************************************)
(* How a submission is judged: the API inserts a row and enqueues its id   *)
(* (internal/server/submission_handler.go), a worker consumes the message  *)
(* and judge.Engine.Judge compiles the program, runs the tests and writes  *)
(* the row back when it leaves (internal/judge/engine.go), then the worker *)
(* acknowledges.  Unlike a run, a submission has no claim, lease or retry: *)
(* Judge works on a copy of the row and overwrites the row with it.        *)
(*                                                                         *)
(* The pending-message recovery shares the stream but only knows the       *)
(* executions table, where no submission is: it acknowledges a submission  *)
(* message that has been idle long enough as one of a missing job.         *)
(*                                                                         *)
(* An accepted program is sent to an AI service before the row is written; *)
(* what it answers only fills comment columns, which are left out, but the *)
(* verdict waits in memory meanwhile.  Left out too: broadcasting of       *)
(* updates, and a second XADD by a retrying Redis client.                  *)
(***************************************************************************)
EXTENDS RedisStream

CONSTANTS
  Sub,        \* submissions.id
  NoSub,      \* the submission of a worker that has none
  Worker,     \* worker names
  NumTests,   \* NumTests[s]: test cases of the problem s is for
  FaultKind,  \* the faults that may happen: "call", "panic", "cancel", "crash"
  MaxFaults   \* bound: how many faults a behaviour has

ASSUME JudgeConstants ==
  /\ Sub \subseteq Payload /\ NoSub \notin Sub
  /\ NumTests \in [Sub -> Nat]
  /\ FaultKind \subseteq {"call", "panic", "cancel", "crash"}
  /\ MaxFaults \in Nat

VARIABLES
  submissions,  \* the table
  req,          \* req[s]: progress of the request that creates s
  jw,           \* jw[w]: the local variables of Judge in worker w
  faults        \* the kinds of the faults so far, in their order

judgeVars == <<stream, submissions, req, jw, faults>>

Verdict == {"PENDING", "ACCEPTED", "WRONG_ANSWER", "TIME_LIMIT_EXCEEDED",
            "RUNTIME_ERROR", "COMPILATION_ERROR", "OUTPUT_LIMIT_EXCEEDED",
            "INTERNAL_ERROR"}

\* "ABSENT" stands for an id the table has no row for.
Submission(status, verdict) ==
  [status |-> status, verdict |-> verdict, passed |-> 0, total |-> 0,
   completedAt |-> "null"]
NoRow  == Submission("ABSENT", "PENDING")
NewRow == Submission("QUEUED", "PENDING")

\* What the compile step can do.  One that is killed by its timer or for its
\* output has exit code 0 and no error (process.go:76-107).
CompileOutcome == {"ok", "rejected", "timeout", "limit"}

\* What one test can do; the first two are told apart from what the program
\* wrote and its exit code, which only matter if neither holds.
TestOutcome == {"timeout", "limit", "failed", "differs", "matches"}

VerdictOf(o) == CASE o = "timeout" -> "TIME_LIMIT_EXCEEDED"
                  [] o = "limit"   -> "OUTPUT_LIMIT_EXCEEDED"
                  [] o = "failed"  -> "RUNTIME_ERROR"
                  [] o = "differs" -> "WRONG_ANSWER"

Idle == [pc |-> "idle", msg |-> 0, sub |-> NoSub, row |-> NoRow, tc |-> 0,
         ctx |-> "live"]

JudgeInit ==
  /\ StreamInit
  /\ submissions = [s \in Sub |-> NoRow]
  /\ req    = [s \in Sub |-> "new"]
  /\ jw     = [w \in Worker |-> Idle]
  /\ faults = <<>>

Fault(kind) == /\ kind \in FaultKind
               /\ Len(faults) < MaxFaults
               /\ faults' = Append(faults, kind)

-----------------------------------------------------------------------------
(* createSubmission *)

StoreSubmission(s) ==
  /\ req[s] = "new"
  /\ submissions' = [submissions EXCEPT ![s] = NewRow]
  /\ req' = [req EXCEPT ![s] = "stored"]
  /\ UNCHANGED <<stream, jw, faults>>

EnqueueSubmission(s) ==
  /\ req[s] = "stored"
  /\ Enqueue(s)
  /\ jw'  = [w \in Worker |-> [jw[w] EXCEPT !.msg = Shifted(@)]]
  /\ req' = [req EXCEPT ![s] = "accepted"]
  /\ UNCHANGED <<submissions, faults>>

\* The insert or the enqueue fails; the row, once there, stays.
SubmissionFails(s) ==
  /\ Fault("call")
  /\ \/ req[s] = "new" /\ submissions' \in {submissions, [submissions EXCEPT ![s] = NewRow]}
     \/ req[s] = "stored" /\ UNCHANGED submissions
  /\ req' = [req EXCEPT ![s] = "rejected"]
  /\ UNCHANGED <<stream, jw>>

-----------------------------------------------------------------------------
(* processSubmission and Judge *)

At(w, k) == jw[w].pc = k
Live(w)  == jw[w].ctx = "live"
Step(w, r) == jw' = [jw EXCEPT ![w] = r]
LocalToWorker == UNCHANGED <<req, faults>>

Return(w) == Step(w, IF Live(w) THEN Idle ELSE [Idle EXCEPT !.pc = "stopped"])

\* Judge returns with verdict v: on to its deferred function.
Leave(w, v) == Step(w, [jw[w] EXCEPT !.row.verdict = v, !.pc = "finalize"])

Consume(w) ==
  /\ At(w, "idle")
  /\ \E m \in DOMAIN stream :
       /\ IsNext(m)
       /\ HandOut(m)
       /\ Step(w, [Idle EXCEPT !.pc = "get", !.msg = m, !.sub = stream[m].job])
  /\ UNCHANGED submissions
  /\ LocalToWorker

\* GetByID; the copy is marked RUNNING.
GetSubmission(w) ==
  /\ At(w, "get") /\ Live(w)
  /\ Step(w, [jw[w] EXCEPT !.pc = "update",
                !.row = [submissions[jw[w].sub] EXCEPT !.status = "RUNNING"]])
  /\ UNCHANGED <<stream, submissions>>
  /\ LocalToWorker

\* Update; its error is ignored, also that of a cancelled context.
Overwritten(w) == [submissions EXCEPT ![jw[w].sub] = jw[w].row]

MarkSubmissionRunning(w) ==
  /\ At(w, "update")
  /\ submissions' = IF Live(w) THEN Overwritten(w) ELSE submissions
  /\ Step(w, [jw[w] EXCEPT !.pc = "load"])
  /\ UNCHANGED stream
  /\ LocalToWorker

\* The problem and its test cases, hidden ones included.
LoadProblem(w) ==
  /\ At(w, "load") /\ Live(w)
  /\ Step(w, [jw[w] EXCEPT !.pc = "compile", !.row.total = NumTests[jw[w].sub]])
  /\ UNCHANGED <<stream, submissions>>
  /\ LocalToWorker

\* No workspace, no container or no source file written.
PrepareFails(w) ==
  /\ At(w, "compile")
  /\ Leave(w, "INTERNAL_ERROR")
  /\ UNCHANGED <<stream, submissions>>
  /\ LocalToWorker

\* Validate refuses an empty program.
ProgramRefused(w) ==
  /\ At(w, "compile")
  /\ Leave(w, "COMPILATION_ERROR")
  /\ UNCHANGED <<stream, submissions>>
  /\ LocalToWorker

\* Where the loop over the test cases goes after `n` of them.
TestsStopEarly(w, r, n) ==
  IF n + 1 >= NumTests[jw[w].sub] THEN [r EXCEPT !.tc = n, !.row.verdict = "ACCEPTED", !.pc = "analyze"]
                                  ELSE [r EXCEPT !.tc = n, !.pc = "test"]
Tests(w, r, n) ==
  IF n = NumTests[jw[w].sub] THEN [r EXCEPT !.tc = n, !.row.verdict = "ACCEPTED", !.pc = "analyze"]
                             ELSE [r EXCEPT !.tc = n, !.pc = "test"]

\* Only the exit code and the error of the compile step are looked at.
CompileProgram(w) ==
  /\ At(w, "compile")
  /\ \E c \in CompileOutcome :
       IF c = "rejected" THEN Leave(w, "COMPILATION_ERROR")
                         ELSE Step(w, Tests(w, jw[w], 0))
  /\ UNCHANGED <<stream, submissions>>
  /\ LocalToWorker

\* One test case in a fresh container; the first that does not match decides.
RunTest(w) ==
  /\ At(w, "test")
  /\ \E o \in TestOutcome :
       IF o = "matches" THEN Step(w, Tests(w, [jw[w] EXCEPT !.row.passed = @ + 1], jw[w].tc + 1))
                        ELSE Leave(w, VerdictOf(o))
  /\ UNCHANGED <<stream, submissions>>
  /\ LocalToWorker

ContainerFails(w) ==
  /\ At(w, "test")
  /\ Leave(w, "INTERNAL_ERROR")
  /\ UNCHANGED <<stream, submissions>>
  /\ LocalToWorker

\* AnalyzeComplexity has answered or failed, for whatever reason, or there is no
\* analyzer: an error is only printed.  The call has no deadline of its own.
Analyze(w) ==
  /\ At(w, "analyze")
  /\ Step(w, [jw[w] EXCEPT !.pc = "finalize"])
  /\ UNCHANGED <<stream, submissions>>
  /\ LocalToWorker

\* What the deferred function writes back.
FinalizedAsIs(row) == [row EXCEPT !.completedAt = "set"]
Finalized(row) == [row EXCEPT !.completedAt = "set",
                              !.status = IF @ = "RUNNING" THEN "COMPLETED" ELSE @]

Finalize(w) ==
  /\ At(w, "finalize")
  /\ submissions' = [submissions EXCEPT ![jw[w].sub] = Finalized(jw[w].row)]
  /\ Step(w, [jw[w] EXCEPT !.pc = "ack"])
  /\ UNCHANGED stream
  /\ LocalToWorker

\* The message is acknowledged whatever Judge returned.
AckSubmission(w) ==
  /\ At(w, "ack")
  /\ Ack(jw[w].msg)
  /\ Return(w)
  /\ UNCHANGED submissions
  /\ LocalToWorker

\* A query that failed: GetByID makes Judge return before it touched anything,
\* the queries of LoadProblem end in a verdict.
QueryFailed(w) ==
  /\ \/ At(w, "get") /\ Step(w, [jw[w] EXCEPT !.pc = "ack"])
     \/ At(w, "load") /\ Leave(w, "INTERNAL_ERROR")
  /\ UNCHANGED <<stream, submissions>>

CancelledQueryFails(w) == ~ Live(w) /\ QueryFailed(w) /\ LocalToWorker

JudgeStep(w) ==
  \/ Consume(w)      \/ GetSubmission(w)  \/ MarkSubmissionRunning(w) \/ LoadProblem(w)
  \/ PrepareFails(w) \/ ProgramRefused(w) \/ CompileProgram(w)        \/ RunTest(w)
  \/ ContainerFails(w) \/ Analyze(w)      \/ Finalize(w)              \/ AckSubmission(w)
  \/ CancelledQueryFails(w)

(* Faults of a worker *)

\* A query fails, an update or XACK fails (applied or not) and is ignored.
JudgeCallFails(w) ==
  /\ Fault("call")
  /\ \/ QueryFailed(w)
     \/ /\ At(w, "update") /\ Step(w, [jw[w] EXCEPT !.pc = "load"])
        /\ UNCHANGED <<stream, submissions>>
     \/ /\ At(w, "finalize") /\ Step(w, [jw[w] EXCEPT !.pc = "ack"])
        /\ UNCHANGED <<stream, submissions>>
     \/ /\ At(w, "ack") /\ Return(w)
        /\ UNCHANGED <<stream, submissions>>
  /\ UNCHANGED req

\* A panic in Judge: its deferred function still runs, FailJob finds no
\* execution of that id, and nothing is acknowledged.
JudgePanics(w) ==
  /\ Fault("panic")
  /\ jw[w].pc \in {"load", "compile", "test", "analyze"}
  /\ submissions' = [submissions EXCEPT ![jw[w].sub] = Finalized(jw[w].row)]
  /\ Return(w)
  /\ UNCHANGED <<stream, req>>

\* Pool.Stop gives up waiting.
CancelPool(w) ==
  /\ Fault("cancel")
  /\ jw[w].pc \notin {"idle", "stopped"} /\ Live(w)
  /\ Step(w, [jw[w] EXCEPT !.ctx = "cancelled"])
  /\ UNCHANGED <<stream, submissions, req>>

Crash(w) ==
  /\ Fault("crash")
  /\ jw[w].pc # "stopped"
  /\ Step(w, [Idle EXCEPT !.pc = "stopped"])
  /\ UNCHANGED <<stream, submissions, req>>

Restart(w) ==
  /\ At(w, "stopped")
  /\ Step(w, Idle)
  /\ UNCHANGED <<stream, submissions>>
  /\ LocalToWorker

-----------------------------------------------------------------------------
(* runRecovery on a submission message: store.Get answers ErrJobNotFound. *)

SweepRequeues(m) ==
  /\ m \in PendingIds
  /\ Enqueue(stream[m].job)
  /\ jw' = [w \in Worker |-> [jw[w] EXCEPT !.msg = Shifted(@)]]
  /\ UNCHANGED <<submissions, req, faults>>
SweepSubmission(m) ==
  /\ m \in PendingIds
  /\ Ack(m)
  /\ UNCHANGED <<submissions, req, jw, faults>>

JudgeNext ==
  \/ \E s \in Sub : StoreSubmission(s) \/ EnqueueSubmission(s) \/ SubmissionFails(s)
  \/ \E w \in Worker : \/ JudgeStep(w) \/ Restart(w)
                       \/ JudgeCallFails(w) \/ JudgePanics(w) \/ CancelPool(w) \/ Crash(w)
  \/ \E m \in 1..MaxLen : SweepSubmission(m)

JudgeSpec == JudgeInit /\ [][JudgeNext]_judgeVars

\* Requests under way are finished and workers keep working.
JudgeFairSpec ==
  /\ JudgeSpec
  /\ \A s \in Sub : WF_judgeVars(EnqueueSubmission(s))
  /\ \A w \in Worker : WF_judgeVars(JudgeStep(w)) /\ WF_judgeVars(Restart(w))

-----------------------------------------------------------------------------
(* Properties *)

\* The counts in the row bear the verdict out: ACCEPTED only with every test
\* case passed, a verdict about a test only with one that did not, although
\* Judge counts on top of the count it read from the row (engine.go:215).
VerdictMatchesTests ==
  \A s \in Sub : LET r == submissions[s] IN
    /\ r.verdict = "ACCEPTED" => r.total = NumTests[s] /\ r.passed = r.total
    /\ r.verdict \in {"WRONG_ANSWER", "TIME_LIMIT_EXCEEDED", "OUTPUT_LIMIT_EXCEEDED",
                      "RUNTIME_ERROR"} => r.passed < r.total

Happened(kind) == \E i \in DOMAIN faults : faults[i] = kind

\* Whatever call fails and wherever the worker is stopped, a row is COMPLETED
\* exactly when it has a completion time and, short of a panic, a verdict: a
\* client that polls for COMPLETED finds the verdict with it.
CompletedHasVerdict ==
  \A s \in Sub : LET r == submissions[s] IN
    /\ r.verdict # "PENDING" => r.status = "COMPLETED"
    /\ r.status = "COMPLETED" => r.verdict # "PENDING" \/ Happened("panic")
    /\ r.status = "COMPLETED" <=> r.completedAt = "set"

\* A submission that has been judged is never written again, and none is
\* judged by two workers: Judge has no claim to protect it, only the fact that
\* its message is handed out once and the sweeper never puts it back.
VerdictIsFinal ==
  [][\A s \in Sub : submissions[s].status = "COMPLETED" =>
       submissions'[s] = submissions[s]]_judgeVars

\* A call failed, or a worker was stopped: one submission may be lost by that.
Excused == \E k \in {"call", "cancel", "crash"} : Happened(k)

HandedOut(s) == \E w \in Worker : jw[w].sub = s

\* Later messages have pushed that of s out of the full stream before a worker
\* was handed it (redis_queue.go:47-54): no error, and nothing puts it back.
Trimmed(s) ==
  /\ submissions[s].status = "QUEUED" /\ ~ HandedOut(s)
  /\ Len(stream) = MaxLen /\ \A m \in DOMAIN stream : stream[m].job # s

\* Every accepted submission is completed, unless its message was trimmed while
\* it waited; one that was handed out is completed in any case, also when its
\* message is trimmed or acknowledged by the sweeper in the middle of a long
\* judging and when Judge panics (its row is then COMPLETED with the verdict
\* PENDING).  A failed call, a cancelled pool or a crash may lose one too.
EverySubmissionEnds ==
  \A s \in Sub :
    /\ (req[s] = "accepted") ~> (submissions[s].status = "COMPLETED" \/ Trimmed(s) \/ Excused)
    /\ HandedOut(s) ~> (submissions[s].status = "COMPLETED" \/ Excused)

(* Stated by the repository, and not so: *)

\* queue.go:29 "Ack acknowledges that the message has been durably handled":
\* the message of a submission is acknowledged when the submission is judged.
AckedWhenJudged ==
  [][\A m \in DOMAIN stream :
       (stream[m].state = "pending" /\ stream' = [stream EXCEPT ![m].state = "acked"])
         => submissions[stream[m].job].status = "COMPLETED"]_judgeVars
=============================================================================
