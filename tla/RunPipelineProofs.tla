-------------------------- MODULE RunPipelineProofs --------------------------
(***************************************************************************)
(* Proofs about RunPipeline for any number of jobs, workers, recovery      *)
(* services, sweepers and faults, any stream length and any batch sizes.   *)
(*                                                                         *)
(* The table only changes by statements of ExecutionStore, so the          *)
(* pipeline implements the store and has its properties.  For the rest the *)
(* invariant ties what a worker remembers (its job, its attempt number,    *)
(* the outputs it has collected) to the row it works on; the lemmas say    *)
(* what a step can do to one row and to one worker.                        *)
(***************************************************************************)
EXTENDS RunPipeline, ExecutionStoreProofs, SequenceTheorems

AtRest == {"idle", "stopped"}

RunEntry == [job : Job, state : {"new", "pending", "acked"}]

WorkerLocal ==
  [pc : WorkerPC, msg : MsgId, job : Job \cup {NoJob}, att : Nat, outs : Seq(Output),
   ctx : {"live", "exec", "pool"}]

RecLocal == [pc : {"recover", "select", "dispatch", "mark"}, cur : Job \cup {NoJob},
             batch : SUBSET Job]

Claimed == [id : MsgId, job : Job]

SweepLocal == [pc : {"idle", "inspect", "ack", "requeue"}, batch : Seq(Claimed),
               seen : JobStatus \cup {"ABSENT"}]

\* The stream holds messages of jobs only.
StreamInv == stream \in Seq(RunEntry) /\ Len(stream) <= MaxLen

ReqInv == req \in [Job -> {"new", "stored", "accepted", "rejected"}]

\* The variables of one worker fit each other.
LocalInv(u) ==
  /\ u \in WorkerLocal
  /\ u.pc \in AtRest => u.job = NoJob /\ u.msg = 0
  /\ u.pc \notin AtRest => u.job \in Job
  /\ u.pc \in CtxCalls => u.outs = <<>>
  /\ u.pc = "complete" => Len(u.outs) = NumInputs[u.job]

\* A worker past its claim.
Trying(u) == u.pc \in {"mark", "fetch", "run"} \cup OtherCalls

\* What a worker w with the variables u knows about its job's row r: its attempt
\* has been made, it is the current one if the row is w's, and a job whose
\* message is about to be acknowledged has ended.
TiedTo(w, u, r) ==
  /\ Trying(u) =>
       /\ 1 <= u.att /\ u.att <= r.attempts
       /\ HeldBy(r, w) => u.att = r.attempts
  /\ u.pc \in {"ack", "clear"} => Terminal(r)

WorkersInv ==
  /\ wk \in [Worker -> WorkerLocal]
  /\ \A w \in Worker : LocalInv(wk[w])
  /\ \A w \in Worker : wk[w].pc \notin AtRest => TiedTo(w, wk[w], executions[wk[w].job])

\* A row has one of the budgets, and an answer of its last attempt to all inputs.
AnswerInv(j, r) ==
  /\ r.status # "ABSENT" => r.max \in MaxAttempts
  /\ r.status = "COMPLETED" => /\ r.results.attempt = r.attempts
                               /\ Len(r.results.outs) = NumInputs[j]

RowsInv == \A j \in Job : AnswerInv(j, executions[j])

RecInv ==
  /\ rec \in [Recoverer -> RecLocal]
  /\ \A r \in Recoverer : rec[r].cur \in IF rec[r].pc = "mark" THEN Job ELSE {NoJob}

SweepInv ==
  /\ sweep \in [Sweeper -> SweepLocal]
  /\ \A s \in Sweeper : sweep[s].pc = "idle" <=> sweep[s].batch = <<>>

\* The inductive invariant.
PipeInv == /\ StoreInv /\ RowsInv /\ StreamInv /\ ReqInv
           /\ WorkersInv /\ AttemptsAreExclusive /\ RecInv /\ SweepInv
           /\ faults \in 0..MaxFaults

-----------------------------------------------------------------------------
(* Statements, seen from one worker *)

\* The statements of the pipeline about job j that are no claim.  A worker that
\* completes a job passes the outputs of the attempt that is current.
Statement(j) ==
  \/ \E m \in MaxAttempts : Create(j, m)
  \/ \E w \in Worker : MarkRunning(j, w) \/ RenewLease(j, w)
  \/ \E w \in Worker, res \in Result :
       /\ Complete(j, w, res)
       /\ res.attempt = executions[j].attempts
       /\ Len(res.outs) = NumInputs[j]
  \/ \E w \in Worker, b \in {"future", "due"} : FailJob(j, w, b)
  \/ MarkDispatched(j) \/ LeaseExpires(j) \/ RetryComesDue(j) \/ DispatchAges(j)

\* No worker claims a job.
NoClaim == UNCHANGED executions \/ RecoverAbandonedJobs \/ \E j \in Job : Statement(j)

\* Nobody claims a job for v.
NoClaimBy(v) == NoClaim \/ \E j \in Job, w \in Worker \ {v} : Claim(j, w)

\* Each is a step of the store.
LEMMA TableSteps ==
  ASSUME NoClaim \/ \E j \in Job, w \in Worker : Claim(j, w)
  PROVE  [StoreNext]_storeVars
<1>1. ASSUME NEW j \in Job, Statement(j) PROVE JobStep(j)
  BY <1>1 DEF Statement, JobStep
<1>2. ASSUME NEW j \in Job, NEW w \in Worker, Claim(j, w) PROVE JobStep(j)
  BY <1>2 DEF JobStep
<1>3. QED
  BY <1>1, <1>2 DEF NoClaim, StoreNext, storeVars

\* A statement about another job leaves a row alone.
LEMMA OtherRows ==
  ASSUME StoreInv, NEW j \in Job, NEW k \in Job, k # j,
         Statement(j) \/ \E w \in Worker : Claim(j, w)
  PROVE  executions'[k] = executions[k]
BY DEF StoreInv, Statement, SetRow, Create, Claim, MarkRunning, Complete, FailJob, RenewLease,
       MarkDispatched, LeaseExpires, RetryComesDue, DispatchAges

\* What a statement that is no claim makes of its row.
LEMMA StatementRow ==
  ASSUME StoreInv, NEW j \in Job, Statement(j), NEW v \in Worker
  PROVE  HeldBy(executions'[j], v) => HeldBy(executions[j], v)
<1> DEFINE r == executions[j]
<1>0. RowInv(r) /\ r \in Row /\ executions \in [Job -> Row]
  BY DEF StoreInv, RowInv
<1>1. ASSUME NEW s, SetRow(j, s) PROVE executions'[j] = s
  BY <1>0, <1>1 DEF SetRow
<1>2. CASE \E m \in MaxAttempts : Create(j, m)
  BY <1>1, <1>2, QueuedRowInv DEF Create, HeldBy, Held
<1>3. CASE \E w \in Worker : MarkRunning(j, w)
  BY <1>0, <1>1, <1>3 DEF MarkRunning, HeldBy, Held, Row
<1>4. CASE \E w \in Worker : RenewLease(j, w)
  BY <1>0, <1>1, <1>4 DEF RenewLease, HeldBy, Held, Row
<1>5. CASE \E w \in Worker, res \in Result : Complete(j, w, res)
  BY <1>0, <1>1, <1>5, CompleteRowInv DEF Complete, HeldBy, Held
<1>6. CASE \E w \in Worker, b \in {"future", "due"} : FailJob(j, w, b)
  BY <1>0, <1>1, <1>6, FailRowInv DEF FailJob, HeldBy, Held
<1>7. CASE MarkDispatched(j) \/ LeaseExpires(j) \/ RetryComesDue(j) \/ DispatchAges(j)
  BY <1>0, <1>1, <1>7
     DEF MarkDispatched, LeaseExpires, RetryComesDue, DispatchAges, HeldBy, Held, Row
<1>8. QED
  BY <1>2, <1>3, <1>4, <1>5, <1>6, <1>7 DEF Statement

\* Whatever others do, a row keeps its attempts and its end, and v does not come
\* to hold it.
LEMMA RowSeenBy ==
  ASSUME StoreInv, NEW v \in Worker, NoClaimBy(v), NEW k \in Job
  PROVE  /\ executions[k].attempts \in Nat /\ executions'[k].attempts \in Nat
         /\ executions[k].attempts <= executions'[k].attempts
         /\ Terminal(executions[k]) => Terminal(executions'[k])
         /\ HeldBy(executions'[k], v) =>
              HeldBy(executions[k], v) /\ executions'[k].attempts = executions[k].attempts
<1> DEFINE r == executions[k]
           s == executions'[k]
<1>1. [StoreNext]_storeVars
  BY TableSteps DEF NoClaimBy
<1>2. RowInv(r) /\ RowStep(r, s) /\ StoreInv'
  BY <1>1, StepsAreRowSteps, NextInv DEF StoreInv
<1>3. r \in Row /\ s \in Row
  BY <1>2 DEF StoreInv, RowInv
<1>4. r.attempts <= s.attempts /\ (Held(r) /\ Held(s) => s.attempts = r.attempts)
  BY <1>2, HeldRowStep
<1>5. ASSUME Terminal(r) PROVE Terminal(s)
  <2>1. s = [r EXCEPT !.dispatched = s.dispatched]
    BY <1>2, <1>5, TerminalRowStep
  <2>2. s.status = r.status
    BY <1>3, <2>1 DEF Row
  <2>3. QED
    BY <1>5, <2>2 DEF Terminal
<1>6. ASSUME HeldBy(s, v) PROVE HeldBy(r, v)
  <2>1. CASE UNCHANGED executions
    BY <1>6, <2>1
  <2>2. CASE RecoverAbandonedJobs
    <3>1. s = r \/ (Held(r) /\ s = FailRow(r, "due"))
      BY <2>2 DEF RecoverAbandonedJobs, Abandoned
    <3>2. QED
      BY <1>2, <1>6, <3>1, FailRowInv DEF HeldBy, Held
  <2>3. ASSUME NEW j \in Job, Statement(j) PROVE HeldBy(r, v)
    BY <1>6, <2>3, OtherRows, StatementRow
  <2>4. ASSUME NEW j \in Job, NEW w \in Worker \ {v}, Claim(j, w) PROVE HeldBy(r, v)
    <3>1. CASE j = k
      <4>1. s = ClaimRow(r, w) /\ Claimable(r)
        BY <2>4, <3>1 DEF Claim, SetRow, StoreInv
      <4>2. s.worker = w
        BY <1>2, <4>1, ClaimRowInv
      <4>3. QED
        BY <1>6, <4>2 DEF HeldBy
    <3>2. CASE j # k
      BY <1>6, <2>4, <3>2, OtherRows
    <3>3. QED
      BY <3>1, <3>2
  <2>5. QED
    BY <2>1, <2>2, <2>3, <2>4 DEF NoClaimBy, NoClaim
<1>7. QED
  BY <1>3, <1>4, <1>5, <1>6 DEF Row, HeldBy

\* A claim makes one more attempt and hands the row to the claimer.
LEMMA ClaimedRow ==
  ASSUME StoreInv, NEW j \in Job, NEW w \in Worker, Claim(j, w)
  PROVE  /\ executions[j].attempts \in Nat
         /\ executions'[j].attempts = executions[j].attempts + 1
         /\ executions'[j].status = "CLAIMED" /\ executions'[j].worker = w
         /\ executions'[j].max = executions[j].max
BY ClaimRowInv DEF Claim, SetRow, StoreInv, RowInv, Row

\* Every statement leaves rows with one of the budgets, and answers of the last
\* attempt to all inputs.
LEMMA RowsKept ==
  ASSUME StoreInv, RowsInv, NoClaim \/ \E j \in Job, w \in Worker : Claim(j, w)
  PROVE  RowsInv'
<1> SUFFICES ASSUME NEW k \in Job PROVE AnswerInv(k, executions'[k])
  BY DEF RowsInv
<1> DEFINE r == executions[k]
           s == executions'[k]
<1>0. RowInv(r) /\ r \in Row /\ executions \in [Job -> Row] /\ AnswerInv(k, r)
  BY DEF StoreInv, RowInv, RowsInv
<1>1. ASSUME NEW t, SetRow(k, t) PROVE s = t
  BY <1>0, <1>1 DEF SetRow
<1>2. CASE UNCHANGED executions
  BY <1>0, <1>2
<1>3. ASSUME NEW b \in {"future", "due"}, Held(r), s = FailRow(r, b) PROVE AnswerInv(k, s)
  <2>1. s.status # "COMPLETED" /\ s.max = r.max /\ r.status # "ABSENT"
    BY <1>0, <1>3, FailRowInv DEF Held
  <2>2. QED
    BY <1>0, <2>1 DEF AnswerInv
<1>4. CASE RecoverAbandonedJobs
  BY <1>0, <1>3, <1>4 DEF RecoverAbandonedJobs, Abandoned
<1>5. ASSUME NEW w \in Worker, Claim(k, w) PROVE AnswerInv(k, s)
  BY <1>0, <1>5, ClaimedRow DEF AnswerInv, Claim, Claimable
<1>6. CASE Statement(k)
  <2>1. CASE \E m \in MaxAttempts : Create(k, m)
    BY <1>1, <2>1 DEF Create, QueuedRow, BlankRow, AnswerInv
  <2>2. CASE \E w \in Worker, res \in Result :
               /\ Complete(k, w, res)
               /\ res.attempt = r.attempts /\ Len(res.outs) = NumInputs[k]
    BY <1>0, <1>1, <2>2 DEF Complete, Completable, CompleteRow, Row, AnswerInv
  <2>3. CASE \E w \in Worker, b \in {"future", "due"} : FailJob(k, w, b)
    BY <1>1, <1>3, <2>3 DEF FailJob, HeldBy
  <2>4. CASE \E w \in Worker : MarkRunning(k, w) \/ RenewLease(k, w)
    BY <1>0, <1>1, <2>4 DEF MarkRunning, RenewLease, HeldBy, Held, Row, AnswerInv
  <2>5. CASE MarkDispatched(k) \/ LeaseExpires(k) \/ RetryComesDue(k) \/ DispatchAges(k)
    BY <1>0, <1>1, <2>5
       DEF MarkDispatched, LeaseExpires, RetryComesDue, DispatchAges, Row, AnswerInv
  <2>6. QED
    BY <1>6, <2>1, <2>2, <2>3, <2>4, <2>5 DEF Statement
<1>7. ASSUME NEW j \in Job, j # k, Statement(j) \/ \E w \in Worker : Claim(j, w)
      PROVE  AnswerInv(k, s)
  BY <1>0, <1>7, OtherRows
<1>8. QED
  BY <1>2, <1>4, <1>5, <1>6, <1>7 DEF NoClaim

-----------------------------------------------------------------------------
(* The workers *)

\* What the others do leaves a worker tied to its row.
LEMMA StaysTied ==
  ASSUME StoreInv, NEW v \in Worker, NoClaimBy(v), NEW u, u.job \in Job, u.att \in Nat,
         TiedTo(v, u, executions[u.job])
  PROVE  TiedTo(v, u, executions'[u.job])
<1> DEFINE r == executions[u.job]
           s == executions'[u.job]
<1>1. /\ r.attempts \in Nat /\ s.attempts \in Nat /\ r.attempts <= s.attempts
      /\ Terminal(r) => Terminal(s)
      /\ HeldBy(s, v) => HeldBy(r, v) /\ s.attempts = r.attempts
  BY RowSeenBy
<1>2. QED
  BY <1>1 DEF TiedTo

\* A step of worker w that leaves it with the variables u.  Either it goes on
\* with its attempt, or its attempt number is one nobody can have.
LEMMA WorkerMoves ==
  ASSUME StoreInv, WorkersInv, AttemptsAreExclusive,
         NEW w \in Worker, NEW u, LocalInv(u),
         wk' = [wk EXCEPT ![w] = u],
         \A v \in Worker \ {w} : NoClaimBy(v),
         u.pc \notin AtRest => TiedTo(w, u, executions'[u.job]),
         Trying(u) => \/ Trying(wk[w]) /\ u.job = wk[w].job /\ u.att = wk[w].att
                      \/ executions[u.job].attempts < u.att
  PROVE  WorkersInv' /\ AttemptsAreExclusive'
<1>1. /\ wk' \in [Worker -> WorkerLocal] /\ wk'[w] = u
      /\ \A v \in Worker \ {w} : wk'[v] = wk[v]
  BY DEF WorkersInv, LocalInv
<1>2. ASSUME NEW v \in Worker, v # w
      PROVE  /\ LocalInv(wk[v])
             /\ wk[v].pc \notin AtRest => TiedTo(v, wk[v], executions[wk[v].job])
             /\ wk[v].pc \notin AtRest => TiedTo(v, wk[v], executions'[wk[v].job])
  <2>1. LocalInv(wk[v]) /\ (wk[v].pc \notin AtRest => TiedTo(v, wk[v], executions[wk[v].job]))
    BY DEF WorkersInv
  <2>2. wk[v].att \in Nat /\ (wk[v].pc \notin AtRest => wk[v].job \in Job)
    BY <2>1 DEF LocalInv, WorkerLocal
  <2>3. NoClaimBy(v)
    BY <1>2
  <2>4. QED
    BY <2>1, <2>2, <2>3, StaysTied
<1>3. WorkersInv'
  <2>1. ASSUME NEW v \in Worker
        PROVE  /\ LocalInv(wk'[v])
               /\ wk'[v].pc \notin AtRest => TiedTo(v, wk'[v], executions'[wk'[v].job])
    BY <1>1, <1>2
  <2>2. QED
    BY <1>1, <2>1 DEF WorkersInv
<1>4. ASSUME NEW v \in Worker, v # w, Trying(u), Trying(wk[v]), wk[v].job = u.job
      PROVE  wk[v].att # u.att
  <2>1. CASE Trying(wk[w]) /\ u.job = wk[w].job /\ u.att = wk[w].att
    BY <1>4, <2>1 DEF AttemptsAreExclusive, Attempting, Trying
  <2>2. CASE executions[u.job].attempts < u.att
    <3>1. wk[v].pc \notin AtRest /\ wk[v].att \in Nat /\ u.att \in Nat
      BY <1>2, <1>4 DEF Trying, AtRest, OtherCalls, LocalInv, WorkerLocal
    <3>2. wk[v].att <= executions[u.job].attempts
      BY <1>2, <1>4, <3>1 DEF TiedTo
    <3>3. executions[u.job].attempts \in Nat
      <4>1. u.job \in Job
        BY <1>4 DEF LocalInv, Trying, AtRest, OtherCalls
      <4>2. QED
        BY <4>1 DEF StoreInv, Row
    <3>4. QED
      BY <2>2, <3>1, <3>2, <3>3
  <2>3. QED
    BY <2>1, <2>2, <1>4
<1>5. ASSUME NEW v \in Worker, NEW x \in Worker, v # x, Trying(wk'[v]), Trying(wk'[x]),
             wk'[v].job = wk'[x].job
      PROVE  wk'[v].att # wk'[x].att
  <2>1. CASE v = w
    BY <1>1, <1>4, <1>5, <2>1
  <2>2. CASE x = w
    BY <1>1, <1>4, <1>5, <2>2
  <2>3. CASE v # w /\ x # w
    BY <1>1, <1>5, <2>3 DEF AttemptsAreExclusive, Attempting, Trying
  <2>4. QED
    BY <2>1, <2>2, <2>3
<1>6. QED
  BY <1>3, <1>5 DEF AttemptsAreExclusive, Attempting, Trying
\* A step no worker takes part in: ids shift when the stream is trimmed, and
\* everything else stays.
LEMMA WorkersRest ==
  ASSUME StoreInv, WorkersInv, AttemptsAreExclusive, NoClaim,
         \/ UNCHANGED wk
         \/ wk' = [w \in Worker |-> [wk[w] EXCEPT !.msg = Shifted(@)]]
  PROVE  WorkersInv' /\ AttemptsAreExclusive'
<1>1. ASSUME NEW v \in Worker
      PROVE  /\ LocalInv(wk'[v])
             /\ wk'[v].pc = wk[v].pc /\ wk'[v].job = wk[v].job /\ wk'[v].att = wk[v].att
  <2>1. LocalInv(wk[v]) /\ wk[v] \in WorkerLocal
    BY DEF WorkersInv, LocalInv
  <2>2. CASE UNCHANGED wk
    BY <2>1, <2>2
  <2>3. CASE wk' = [w \in Worker |-> [wk[w] EXCEPT !.msg = Shifted(@)]]
    <3>1. wk'[v] = [wk[v] EXCEPT !.msg = Shifted(@)]
      BY <2>3
    <3>2. Shifted(wk[v].msg) \in MsgId /\ (wk[v].msg = 0 => Shifted(wk[v].msg) = 0)
      BY <2>1, StreamConstants DEF WorkerLocal, MsgId, Shifted
    <3>3. wk'[v] \in WorkerLocal
      BY <2>1, <3>1, <3>2 DEF WorkerLocal
    <3>4. /\ wk'[v].pc = wk[v].pc /\ wk'[v].job = wk[v].job /\ wk'[v].att = wk[v].att
          /\ wk'[v].outs = wk[v].outs /\ wk'[v].msg = Shifted(wk[v].msg)
      BY <2>1, <3>1 DEF WorkerLocal
    <3>5. QED
      BY <2>1, <3>2, <3>3, <3>4 DEF LocalInv
  <2>4. QED
    BY <2>2, <2>3
<1>2. wk' \in [Worker -> WorkerLocal]
  BY <1>1 DEF WorkersInv, LocalInv
<1>3. ASSUME NEW v \in Worker, wk'[v].pc \notin AtRest
      PROVE  TiedTo(v, wk'[v], executions'[wk'[v].job])
  <2>1. TiedTo(v, wk[v], executions[wk[v].job])
    BY <1>1, <1>3 DEF WorkersInv
  <2>2. wk[v].job \in Job /\ wk[v].att \in Nat /\ NoClaimBy(v)
    BY <1>1, <1>3 DEF WorkersInv, LocalInv, WorkerLocal, NoClaimBy
  <2>3. TiedTo(v, wk[v], executions'[wk[v].job])
    BY <2>1, <2>2, StaysTied
  <2>4. QED
    BY <1>1, <2>3 DEF TiedTo, Trying
<1>4. WorkersInv'
  BY <1>1, <1>2, <1>3 DEF WorkersInv
<1>5. AttemptsAreExclusive'
  BY <1>1 DEF AttemptsAreExclusive, Attempting
<1>6. QED
  BY <1>4, <1>5

-----------------------------------------------------------------------------
(* The stream *)

StreamStep ==
  \/ UNCHANGED stream
  \/ \E m \in DOMAIN stream : HandOut(m)
  \/ \E m \in Nat : Ack(m)
  \/ \E j \in Job : Enqueue(j)

\* Whatever is done to it, the stream keeps to its length and to messages of jobs.
LEMMA StreamKept ==
  ASSUME StreamInv, StreamStep
  PROVE  StreamInv'
<1>0. stream \in Seq(RunEntry) /\ Len(stream) <= MaxLen /\ MaxLen \in Nat \ {0}
      /\ Len(stream) \in Nat /\ DOMAIN stream = 1..Len(stream)
  BY StreamConstants DEF StreamInv
<1>1. ASSUME NEW m \in DOMAIN stream, HandOut(m) PROVE StreamInv'
  <2> DEFINE e == [stream[m] EXCEPT !.state = "pending"]
  <2>0. stream[m] \in RunEntry
    BY <1>0
  <2>1. e \in RunEntry
    BY <2>0 DEF RunEntry
  <2>2. stream' = [stream EXCEPT ![m] = e]
    BY <1>1 DEF HandOut
  <2>3. QED
    BY <1>0, <2>1, <2>2, ExceptSeq DEF StreamInv
<1>2. ASSUME NEW m \in Nat, Ack(m) PROVE StreamInv'
  <2>1. \A i \in 1..Len(stream) : stream[i] \in RunEntry
    BY <1>0
  <2>2. \A i \in 1..Len(stream) :
          (IF i = m THEN [stream[i] EXCEPT !.state = "acked"] ELSE stream[i]) \in RunEntry
    BY <2>1 DEF RunEntry
  <2>3. stream' = [i \in 1..Len(stream) |->
                     IF i = m THEN [stream[i] EXCEPT !.state = "acked"] ELSE stream[i]]
    BY <1>0, <1>2 DEF Ack
  <2>4. stream' \in Seq(RunEntry) /\ Len(stream') = Len(stream)
    BY <1>0, <2>2, <2>3
  <2>5. QED
    BY <1>0, <2>4 DEF StreamInv
<1>3. ASSUME NEW j \in Job, Enqueue(j) PROVE StreamInv'
  <2> DEFINE e == [job |-> j, state |-> "new"]
  <2>1. e \in RunEntry
    BY DEF RunEntry
  <2>2. CASE Len(stream) < MaxLen
    BY <1>0, <1>3, <2>1, <2>2 DEF Enqueue, StreamInv
  <2>3. CASE ~ (Len(stream) < MaxLen)
    <3>1. Tail(stream) \in Seq(RunEntry) /\ Len(Tail(stream)) = Len(stream) - 1
      BY <1>0, <2>3
    <3>2. QED
      BY <1>0, <1>3, <2>1, <2>3, <3>1 DEF Enqueue, StreamInv
  <2>4. QED
    BY <2>2, <2>3
<1>4. CASE UNCHANGED stream
  BY <1>4 DEF StreamInv
<1>5. QED
  BY <1>1, <1>2, <1>3, <1>4 DEF StreamStep

-----------------------------------------------------------------------------
(* The sweepers *)

SweepOK(b) == b \in SweepLocal /\ (b.pc = "idle" <=> b.batch = <<>>)

\* A sweeper goes on: over the same batch, or its rest.
LEMMA SweepOn ==
  ASSUME SweepInv, NEW s \in Sweeper, sweep[s].pc # "idle"
  PROVE  /\ sweep[s].batch \in Seq(Claimed) /\ sweep[s].batch # <<>>
         /\ Head(sweep[s].batch) \in Claimed
         /\ \E b : SweepOK(b) /\ NextMsg(s) = [sweep EXCEPT ![s] = b]
         /\ \E b : SweepOK(b) /\ AfterAck(s) = [sweep EXCEPT ![s] = b]
         /\ \E b : SweepOK(b) /\ Sweeping(s, "idle", <<>>, "ABSENT") = [sweep EXCEPT ![s] = b]
         /\ \A seen \in JobStatus \cup {"ABSENT"} :
              \E b : SweepOK(b) /\ Sweeping(s, "ack", sweep[s].batch, seen) = [sweep EXCEPT ![s] = b]
<1> DEFINE c == sweep[s].batch
           rest == Tail(c)
           n == [pc |-> IF rest = <<>> THEN "idle" ELSE "inspect", batch |-> rest, seen |-> "ABSENT"]
           q == [pc |-> "requeue", batch |-> c, seen |-> "QUEUED"]
           z == [pc |-> "idle", batch |-> <<>>, seen |-> "ABSENT"]
<1>1. c \in Seq(Claimed) /\ c # <<>>
  BY DEF SweepInv, SweepLocal
<1>2. Head(c) \in Claimed /\ rest \in Seq(Claimed)
  BY <1>1
<1>3. SweepOK(n)
  BY <1>2 DEF SweepOK, SweepLocal
<1>4. NextMsg(s) = [sweep EXCEPT ![s] = n]
  BY DEF NextMsg, Sweeping
<1>5. SweepOK(q)
  BY <1>1 DEF SweepOK, SweepLocal, JobStatus
<1>6. AfterAck(s) = [sweep EXCEPT ![s] = q] \/ AfterAck(s) = [sweep EXCEPT ![s] = n]
  BY <1>4 DEF AfterAck, Sweeping
<1>7. SweepOK(z) /\ Sweeping(s, "idle", <<>>, "ABSENT") = [sweep EXCEPT ![s] = z]
  BY DEF SweepOK, SweepLocal, Sweeping
<1>8. ASSUME NEW seen \in JobStatus \cup {"ABSENT"}
      PROVE  \E b : SweepOK(b) /\ Sweeping(s, "ack", sweep[s].batch, seen) = [sweep EXCEPT ![s] = b]
  <2> DEFINE a == [pc |-> "ack", batch |-> c, seen |-> seen]
  <2>1. SweepOK(a) /\ Sweeping(s, "ack", sweep[s].batch, seen) = [sweep EXCEPT ![s] = a]
    BY <1>1 DEF SweepOK, SweepLocal, Sweeping
  <2>2. QED
    BY <2>1
<1>9. QED
  BY <1>1, <1>2, <1>3, <1>4, <1>5, <1>6, <1>7, <1>8

\* Setting the variables of one sweeper keeps the others'.
LEMMA SweepSet ==
  ASSUME SweepInv, NEW s \in Sweeper, NEW b, SweepOK(b)
  PROVE  /\ [sweep EXCEPT ![s] = b] \in [Sweeper -> SweepLocal]
         /\ \A x \in Sweeper : SweepOK([sweep EXCEPT ![s] = b][x])
BY DEF SweepInv, SweepOK

\* Shifting the ids a batch holds keeps the sweepers' invariant.
LEMMA SweepShifted ==
  ASSUME NEW sw \in [Sweeper -> SweepLocal], \A x \in Sweeper : SweepOK(sw[x]),
         sweep' = [s \in Sweeper |-> [sw[s] EXCEPT !.batch = ShiftedBatch(@)]]
  PROVE  SweepInv'
<1>1. ASSUME NEW x \in Sweeper PROVE SweepOK(sweep'[x])
  <2> DEFINE b == sw[x].batch
             c == ShiftedBatch(b)
  <2>1. sw[x] \in SweepLocal /\ b \in Seq(Claimed) /\ (sw[x].pc = "idle" <=> b = <<>>)
    BY DEF SweepOK, SweepLocal
  <2>2. sweep'[x] = [sw[x] EXCEPT !.batch = c]
    OBVIOUS
  <2>3. ASSUME NEW k \in 1..Len(b) PROVE [id |-> Shifted(b[k].id), job |-> b[k].job] \in Claimed
    <3>1. b[k] \in Claimed
      BY <2>1
    <3>2. Shifted(b[k].id) \in MsgId
      BY <3>1, StreamConstants DEF Claimed, MsgId, Shifted
    <3>3. QED
      BY <3>1, <3>2 DEF Claimed
  <2>4. DOMAIN b = 1..Len(b) /\ Len(b) \in Nat
    BY <2>1
  <2>5. c \in Seq(Claimed) /\ Len(c) = Len(b)
    BY <2>3, <2>4 DEF ShiftedBatch
  <2>6. c = <<>> <=> b = <<>>
    BY <2>1, <2>5
  <2>7. sweep'[x].pc = sw[x].pc /\ sweep'[x].batch = c /\ sweep'[x] \in SweepLocal
    BY <2>1, <2>2, <2>5 DEF SweepLocal
  <2>8. QED
    BY <2>1, <2>6, <2>7 DEF SweepOK
<1>2. sweep' \in [Sweeper -> SweepLocal]
  BY <1>1 DEF SweepOK
<1>3. QED
  BY <1>1, <1>2 DEF SweepInv, SweepOK
-----------------------------------------------------------------------------
(* Steps of the workers *)

\* The invariant is kept when each part is.
LEMMA PipeKept ==
  ASSUME PipeInv, NoClaim \/ \E j \in Job, w \in Worker : Claim(j, w), StreamStep,
         ReqInv', WorkersInv', AttemptsAreExclusive', RecInv', SweepInv', (faults \in 0..MaxFaults)'
  PROVE  PipeInv'
<1>1. StoreInv'
  BY TableSteps, NextInv DEF PipeInv
<1>2. RowsInv' /\ StreamInv'
  BY RowsKept, StreamKept DEF PipeInv
<1>3. QED
  BY <1>1, <1>2 DEF PipeInv

\* What is left alone keeps its part of the invariant.
LEMMA RestKept ==
  ASSUME PipeInv
  PROVE  /\ UNCHANGED req => ReqInv'
         /\ UNCHANGED rec => RecInv'
         /\ UNCHANGED sweep => SweepInv'
         /\ UNCHANGED faults \/ Fault => (faults \in 0..MaxFaults)'
BY PipelineConstants DEF PipeInv, ReqInv, RecInv, SweepInv, Fault

\* A step of worker w that leaves it with the variables u.
LEMMA WorkerAction ==
  ASSUME PipeInv, NEW w \in Worker, NEW u, LocalInv(u), wk' = [wk EXCEPT ![w] = u],
         NoClaim \/ \E j \in Job : Claim(j, w),
         u.pc \notin AtRest => TiedTo(w, u, executions'[u.job]),
         Trying(u) => \/ Trying(wk[w]) /\ u.job = wk[w].job /\ u.att = wk[w].att
                      \/ executions[u.job].attempts < u.att,
         StreamStep, UNCHANGED <<req, rec, sweep>>, UNCHANGED faults \/ Fault
  PROVE  PipeInv'
<1>1. \A v \in Worker \ {w} : NoClaimBy(v)
  BY DEF NoClaimBy
<1>2. WorkersInv' /\ AttemptsAreExclusive'
  BY <1>1, WorkerMoves DEF PipeInv
<1>3. QED
  BY <1>2, PipeKept, RestKept

\* processRun returns, or the process stops.
LEMMA WorkerReturns ==
  ASSUME PipeInv, NEW w \in Worker,
         Return(w) \/ wk' = [wk EXCEPT ![w] = [Idle EXCEPT !.pc = "stopped"]]
                   \/ wk' = [wk EXCEPT ![w] = Idle],
         NoClaim \/ \E j \in Job : Claim(j, w),
         StreamStep, UNCHANGED <<req, rec, sweep>>, UNCHANGED faults \/ Fault
  PROVE  PipeInv'
<1> DEFINE stop == [Idle EXCEPT !.pc = "stopped"]
<1>1. \E u \in {Idle, stop} : wk' = [wk EXCEPT ![w] = u]
  BY DEF Return
<1>2. PICK u \in {Idle, stop} : wk' = [wk EXCEPT ![w] = u]
  BY <1>1
<1>3. stop = [pc |-> "stopped", msg |-> 0, job |-> NoJob, att |-> 0, outs |-> <<>>, ctx |-> "live"]
  BY DEF Idle
<1>4. /\ u \in WorkerLocal
      /\ u.pc \in AtRest /\ u.job = NoJob /\ u.msg = 0 /\ u.outs = <<>>
  <2>1. 0 \in MsgId /\ 0 \in Nat /\ <<>> \in Seq(Output)
    BY StreamConstants DEF MsgId
  <2>2. CASE u = Idle
    BY <2>1, <2>2 DEF Idle, WorkerLocal, WorkerPC, AtRest
  <2>3. CASE u = stop
    BY <1>3, <2>1, <2>3 DEF WorkerLocal, WorkerPC, AtRest
  <2>4. QED
    BY <2>2, <2>3
<1>5. LocalInv(u) /\ ~ Trying(u)
  BY <1>4 DEF LocalInv, Trying, OtherCalls, CtxCalls, AtRest
<1>6. QED
  BY <1>2, <1>4, <1>5, WorkerAction

\* A worker that is processing a message has a job, and what it knows of it.
LEMMA AtWork ==
  ASSUME PipeInv, NEW w \in Worker, wk[w].pc \notin AtRest
  PROVE  /\ wk[w].job \in Job /\ wk[w] \in WorkerLocal /\ LocalInv(wk[w])
         /\ TiedTo(w, wk[w], executions[wk[w].job])
         /\ wk[w].att \in Nat /\ wk[w].msg \in Nat
         /\ RowInv(executions[wk[w].job]) /\ executions[wk[w].job] \in Row
         /\ executions \in [Job -> Row]
<1>1. LocalInv(wk[w]) /\ wk[w] \in WorkerLocal /\ TiedTo(w, wk[w], executions[wk[w].job])
  BY DEF PipeInv, WorkersInv, LocalInv
<1>2. wk[w].job \in Job /\ wk[w].att \in Nat /\ wk[w].msg \in Nat
  BY <1>1, StreamConstants DEF LocalInv, WorkerLocal, MsgId
<1>3. QED
  BY <1>1, <1>2 DEF PipeInv, StoreInv, RowInv

\* A worker that may complete its job has an answer to pass, of the current attempt.
LEMMA AnswerIsResult ==
  ASSUME PipeInv, NEW w \in Worker, wk[w].pc = "complete", Complete(wk[w].job, w, Answer(w))
  PROVE  /\ Answer(w) \in Result
         /\ Answer(w).attempt = executions[wk[w].job].attempts
         /\ Len(Answer(w).outs) = NumInputs[wk[w].job]
<1> DEFINE u == wk[w]
           j == u.job
           r == executions[j]
<1>1. /\ j \in Job /\ u \in WorkerLocal /\ LocalInv(u) /\ TiedTo(w, u, r) /\ RowInv(r)
      /\ r \in Row
  BY AtWork DEF AtRest
<1>2. HeldBy(r, w) /\ r.status = "RUNNING"
  BY DEF Complete, Completable, HeldBy, Held
<1>3. u.att = r.attempts /\ 1 <= u.att
  BY <1>1, <1>2 DEF TiedTo, Trying, OtherCalls
<1>4. r.max \in MaxAttempts
  BY <1>1, <1>2 DEF PipeInv, RowsInv, AnswerInv
<1>5. u.att \in 1..Tries(r.max)
  BY <1>1, <1>3 DEF RowInv, RowBudget, Row, Tries
<1>6. u.outs \in [1..NumInputs[j] -> Output] /\ Len(u.outs) = NumInputs[j]
  BY <1>1, PipelineConstants DEF LocalInv, WorkerLocal
<1>7. Answer(w) \in Result
  BY <1>1, <1>4, <1>5, <1>6, PipelineConstants DEF Answer
<1>8. QED
  BY <1>3, <1>6, <1>7 DEF Answer

\* A worker that completes its job passes the outputs of the current attempt.
LEMMA CompletesOwn ==
  ASSUME PipeInv, NEW w \in Worker, wk[w].pc = "complete", Complete(wk[w].job, w, Answer(w))
  PROVE  Statement(wk[w].job) /\ Terminal(executions'[wk[w].job])
<1> DEFINE j == wk[w].job
<1>1. j \in Job /\ RowInv(executions[j]) /\ executions \in [Job -> Row]
  BY AtWork DEF AtRest
<1>2. Statement(j)
  BY AnswerIsResult DEF Statement
<1>3. executions'[j].status = "COMPLETED"
  BY <1>1, AnswerIsResult, CompleteRowInv DEF Complete, SetRow
<1>4. QED
  BY <1>2, <1>3 DEF Terminal

\* The worker goes on with its attempt; the table may be written by itself.
LEMMA GoesOn ==
  ASSUME PipeInv, NEW w \in Worker, wk[w].pc \notin AtRest, NEW u, LocalInv(u),
         wk' = [wk EXCEPT ![w] = u],
         u.job = wk[w].job, u.att = wk[w].att, Trying(u) => Trying(wk[w]),
         u.pc \notin AtRest,
         u.pc \in {"ack", "clear"} => u.pc = wk[w].pc \/ Terminal(executions'[u.job]),
         NoClaim, StreamStep, UNCHANGED <<req, rec, sweep>>, UNCHANGED faults \/ Fault
  PROVE  PipeInv'
<1>1. /\ wk[w].job \in Job /\ wk[w].att \in Nat /\ TiedTo(w, wk[w], executions[wk[w].job])
  BY AtWork
<1>2. NoClaimBy(w) /\ StoreInv
  BY DEF NoClaimBy, PipeInv
<1>3. TiedTo(w, wk[w], executions'[wk[w].job])
  BY <1>1, <1>2, StaysTied
<1>4. TiedTo(w, u, executions'[u.job])
  BY <1>1, <1>3 DEF TiedTo
<1>5. QED
  BY <1>4, WorkerAction
\* Going on with the attempt: where the worker may be next.
LEMMA NextLocal ==
  ASSUME NEW u, LocalInv(u), u.pc \notin AtRest
  PROVE  /\ \A k \in {"check", "fetch"} : u.pc \in CtxCalls => LocalInv([u EXCEPT !.pc = k])
         /\ \A k \in {"fail", "ack", "clear"} : LocalInv([u EXCEPT !.pc = k])
         /\ \A c \in {"exec", "pool"} : LocalInv([u EXCEPT !.ctx = c])
         /\ u.pc = "fetch" => LocalInv([u EXCEPT !.pc = Loop(u.job, <<>>)])
         /\ \A k : /\ [u EXCEPT !.pc = k].pc = k /\ [u EXCEPT !.pc = k].job = u.job
                   /\ [u EXCEPT !.pc = k].att = u.att
         /\ \A c : /\ [u EXCEPT !.ctx = c].pc = u.pc /\ [u EXCEPT !.ctx = c].job = u.job
                   /\ [u EXCEPT !.ctx = c].att = u.att
<1>1. u \in WorkerLocal /\ u.job \in Job
  BY DEF LocalInv
<1>2. ASSUME NEW k PROVE LET n == [u EXCEPT !.pc = k]
                         IN  n.pc = k /\ n.job = u.job /\ n.att = u.att /\ n.outs = u.outs
  BY <1>1 DEF WorkerLocal
<1>3. ASSUME NEW k \in WorkerPC PROVE [u EXCEPT !.pc = k] \in WorkerLocal
  BY <1>1 DEF WorkerLocal
<1>4. ASSUME NEW k \in {"check", "fetch"}, u.pc \in CtxCalls PROVE LocalInv([u EXCEPT !.pc = k])
  BY <1>1, <1>2, <1>3, <1>4 DEF LocalInv, AtRest, WorkerPC, CtxCalls
<1>5. ASSUME NEW k \in {"fail", "ack", "clear"} PROVE LocalInv([u EXCEPT !.pc = k])
  BY <1>1, <1>2, <1>3, <1>5 DEF LocalInv, AtRest, WorkerPC, CtxCalls, OtherCalls
<1>6. ASSUME NEW c \in {"exec", "pool"} PROVE LocalInv([u EXCEPT !.ctx = c])
  BY <1>1, <1>6 DEF LocalInv, AtRest, WorkerLocal
<1>7. ASSUME u.pc = "fetch" PROVE LocalInv([u EXCEPT !.pc = Loop(u.job, <<>>)])
  <2> DEFINE k == Loop(u.job, <<>>)
  <2>1. /\ k \in {"complete", "run"} /\ u.outs = <<>> /\ Len(u.outs) = 0
        /\ k = "complete" => 0 = NumInputs[u.job]
    BY <1>7 DEF Loop, LocalInv, CtxCalls
  <2>2. QED
    BY <1>1, <1>2, <1>3, <2>1 DEF LocalInv, AtRest, WorkerPC, CtxCalls, OtherCalls
<1>8. ASSUME NEW c PROVE LET n == [u EXCEPT !.ctx = c]
                         IN  n.pc = u.pc /\ n.job = u.job /\ n.att = u.att
  BY <1>1 DEF WorkerLocal
<1>9. QED
  BY <1>2, <1>4, <1>5, <1>6, <1>7, <1>8

\* What Consume puts into the variables of a worker.
LEMMA Consumed ==
  ASSUME NEW m, NEW j
  PROVE  [Idle EXCEPT !.pc = "claim", !.msg = m, !.job = j] =
           [pc |-> "claim", msg |-> m, job |-> j, att |-> 0, outs |-> <<>>, ctx |-> "live"]
<1> DEFINE a == [pc |-> "claim", msg |-> 0, job |-> NoJob, att |-> 0, outs |-> <<>>, ctx |-> "live"]
           b == [pc |-> "claim", msg |-> m, job |-> NoJob, att |-> 0, outs |-> <<>>, ctx |-> "live"]
<1>1. [Idle EXCEPT !.pc = "claim"] = a
  BY DEF Idle
<1>2. [a EXCEPT !.msg = m] = b
  OBVIOUS
<1>3. [b EXCEPT !.job = j] =
        [pc |-> "claim", msg |-> m, job |-> j, att |-> 0, outs |-> <<>>, ctx |-> "live"]
  OBVIOUS
<1>4. QED
  BY <1>1, <1>2, <1>3

\* The steps that take a worker from its message to the program.
LEMMA StartSteps ==
  ASSUME PipeInv, NEW w \in Worker,
         Consume(w) \/ ClaimJob(w) \/ ClaimRefused(w) \/ CheckRefused(w)
           \/ AckRefused(w) \/ MarkJobRunning(w) \/ FetchJob(w)
  PROVE  PipeInv'
<1> DEFINE u == wk[w]
           j == u.job
           r == executions[j]
           s == executions'[j]
<1>0. StoreInv /\ (UNCHANGED stream => StreamStep) /\ (UNCHANGED executions => NoClaim)
  BY DEF PipeInv, StreamStep, NoClaim
<1>1. CASE Consume(w)
  <2>1. PICK m \in DOMAIN stream :
          /\ HandOut(m)
          /\ wk' = [wk EXCEPT ![w] = [Idle EXCEPT !.pc = "claim", !.msg = m, !.job = stream[m].job]]
    BY <1>1 DEF Consume
  <2> DEFINE n == [Idle EXCEPT !.pc = "claim", !.msg = m, !.job = stream[m].job]
  <2>2. stream \in Seq(RunEntry) /\ Len(stream) <= MaxLen /\ m \in 1..Len(stream)
    BY <2>1 DEF PipeInv, StreamInv
  <2>3. stream[m].job \in Job /\ m \in MsgId
    <3>1. stream[m] \in RunEntry
      BY <2>2
    <3>2. QED
      BY <2>2, <3>1, StreamConstants DEF RunEntry, MsgId
  <2>4. n = [pc |-> "claim", msg |-> m, job |-> stream[m].job, att |-> 0, outs |-> <<>>,
             ctx |-> "live"]
    BY Consumed
  <2>5. LocalInv(n)
    <3>1. 0 \in Nat /\ <<>> \in Seq(Output)
      OBVIOUS
    <3>2. n \in WorkerLocal
      BY <2>3, <2>4, <3>1 DEF WorkerLocal, WorkerPC, CtxCalls
    <3>3. QED
      BY <2>3, <2>4, <3>2 DEF LocalInv, AtRest, CtxCalls
  <2>6. n.pc = "claim"
    BY <2>4
  <2>7. ~ Trying(n) /\ TiedTo(w, n, executions'[n.job])
    BY <2>6 DEF Trying, TiedTo, OtherCalls
  <2>8. NoClaim /\ StreamStep
    BY <1>0, <1>1, <2>1 DEF Consume, StreamStep
  <2>9. QED
    BY <1>1, <2>1, <2>5, <2>7, <2>8, WorkerAction DEF Consume, LocalToWorker
<1>2. CASE ClaimJob(w)
  <2> DEFINE n == [u EXCEPT !.pc = "mark", !.att = s.attempts]
  <2>1. u.pc = "claim" /\ u.pc \notin AtRest
    BY <1>2 DEF ClaimJob, At, AtRest
  <2>2. j \in Job /\ u \in WorkerLocal /\ LocalInv(u) /\ RowInv(r)
    BY <2>1, AtWork
  <2>3. Claim(j, w) /\ wk' = [wk EXCEPT ![w] = n]
    BY <1>2 DEF ClaimJob
  <2>4. r.attempts \in Nat /\ s.attempts = r.attempts + 1
    BY <1>0, <2>2, <2>3, ClaimedRow
  <2>5. /\ n \in WorkerLocal /\ n.pc = "mark" /\ n.att = s.attempts /\ n.job = j
        /\ n.outs = u.outs
    <3>1. s.attempts \in Nat /\ "mark" \in WorkerPC
      BY <2>4 DEF WorkerPC, CtxCalls
    <3>2. QED
      BY <2>2, <3>1 DEF WorkerLocal
  <2>6. LocalInv(n)
    BY <2>1, <2>2, <2>5 DEF LocalInv, AtRest, CtxCalls
  <2>7. TiedTo(w, n, executions'[n.job]) /\ executions[n.job].attempts < n.att
    BY <2>4, <2>5 DEF TiedTo
  <2>8. StreamStep
    BY <1>0, <1>2 DEF ClaimJob
  <2>9. QED
    BY <1>2, <2>2, <2>3, <2>6, <2>7, <2>8, WorkerAction DEF ClaimJob, LocalToWorker
<1>3. CASE ClaimRefused(w)
  <2> DEFINE n == [u EXCEPT !.pc = "check"]
  <2>1. u.pc = "claim" /\ u.pc \notin AtRest /\ u.pc \in CtxCalls
    BY <1>3 DEF ClaimRefused, At, AtRest, CtxCalls
  <2>2. LocalInv(n) /\ n.pc = "check" /\ n.job = j /\ n.att = u.att
    <3>1. LocalInv(u) /\ j \in Job
      BY <2>1, AtWork
    <3> HIDE DEF u
    <3>2. QED
      BY <2>1, <3>1, NextLocal
  <2>3. ~ Trying(n) /\ n.pc \notin AtRest
    BY <2>2 DEF Trying, AtRest, OtherCalls
  <2>4. QED
    BY <1>0, <1>3, <2>1, <2>2, <2>3, GoesOn
       DEF ClaimRefused, Goto, tableAndQueue, LocalToWorker
<1>4. CASE CheckRefused(w)
  <2> DEFINE n == [u EXCEPT !.pc = "clear"]
  <2>1. u.pc = "check" /\ u.pc \notin AtRest
    BY <1>4 DEF CheckRefused, At, AtRest
  <2>2. LocalInv(n) /\ n.pc = "clear" /\ n.job = j /\ n.att = u.att
    <3>1. LocalInv(u) /\ j \in Job
      BY <2>1, AtWork
    <3> HIDE DEF u
    <3>2. QED
      BY <2>1, <3>1, NextLocal
  <2>3. ~ Trying(n) /\ n.pc \notin AtRest
    BY <2>2 DEF Trying, AtRest, OtherCalls
  <2>4. CASE Terminal(r) /\ Goto(w, "clear")
    <3>1. Terminal(executions'[n.job]) /\ wk' = [wk EXCEPT ![w] = n]
      BY <1>4, <2>2, <2>4 DEF CheckRefused, Goto, tableAndQueue
    <3>2. QED
      BY <1>0, <1>4, <2>1, <2>2, <2>3, <3>1, GoesOn DEF CheckRefused, tableAndQueue, LocalToWorker
  <2>5. CASE Return(w)
    BY <1>0, <1>4, <2>5, WorkerReturns DEF CheckRefused, tableAndQueue, LocalToWorker
  <2>6. QED
    BY <1>4, <2>4, <2>5 DEF CheckRefused
<1>5. CASE AckRefused(w)
  <2>1. u.pc \notin AtRest
    BY <1>5 DEF AckRefused, At, AtRest
  <2>2. StreamStep
    BY <1>5, <2>1, AtWork DEF AckRefused, StreamStep
  <2>3. QED
    BY <1>0, <1>5, <2>2, WorkerReturns DEF AckRefused, LocalToWorker
<1>6. CASE MarkJobRunning(w)
  <2> DEFINE n == [u EXCEPT !.pc = "fetch"]
  <2>1. u.pc = "mark" /\ u.pc \notin AtRest /\ u.pc \in CtxCalls
    BY <1>6 DEF MarkJobRunning, At, AtRest, CtxCalls
  <2>2. LocalInv(n) /\ n.pc = "fetch" /\ n.job = j /\ n.att = u.att /\ j \in Job
    <3>1. LocalInv(u) /\ j \in Job
      BY <2>1, AtWork
    <3> HIDE DEF u
    <3>2. QED
      BY <2>1, <3>1, NextLocal
  <2>3. CASE MarkRunning(j, w) /\ Goto(w, "fetch")
    <3>1. NoClaim
      BY <2>2, <2>3 DEF NoClaim, Statement
    <3>2. Trying(u) /\ n.pc \notin AtRest
      BY <2>1, <2>2 DEF Trying, AtRest
    <3>3. QED
      BY <1>0, <1>6, <2>1, <2>2, <2>3, <3>1, <3>2, GoesOn DEF MarkJobRunning, Goto, LocalToWorker
  <2>4. CASE Return(w) /\ UNCHANGED executions
    BY <1>0, <1>6, <2>4, WorkerReturns DEF MarkJobRunning, LocalToWorker
  <2>5. QED
    BY <1>6, <2>3, <2>4 DEF MarkJobRunning
<1>7. CASE FetchJob(w)
  <2> DEFINE n == [u EXCEPT !.pc = Loop(j, <<>>)]
  <2>1. u.pc = "fetch" /\ u.pc \notin AtRest
    BY <1>7 DEF FetchJob, At, AtRest
  <2>2. LocalInv(n) /\ n.pc = Loop(j, <<>>) /\ n.job = j /\ n.att = u.att
    <3>1. LocalInv(u) /\ j \in Job
      BY <2>1, AtWork
    <3> HIDE DEF u
    <3>2. QED
      BY <2>1, <3>1, NextLocal
  <2>3. Trying(u) /\ n.pc \in {"complete", "run"}
    BY <2>1, <2>2 DEF Trying, Loop
  <2>4. n.pc \notin AtRest /\ n.pc \notin {"ack", "clear"}
    BY <2>3 DEF AtRest
  <2>5. QED
    BY <1>0, <1>7, <2>1, <2>2, <2>3, <2>4, GoesOn DEF FetchJob, Goto, tableAndQueue, LocalToWorker
<1>8. QED
  BY <1>1, <1>2, <1>3, <1>4, <1>5, <1>6, <1>7

\* The steps from the program to the acknowledgement, and the renewal goroutine.
LEMMA FinishSteps ==
  ASSUME PipeInv, NEW w \in Worker,
         ExecuteInput(w) \/ ExecuteError(w) \/ RecordFailure(w) \/ CompleteJob(w)
           \/ AckDone(w) \/ CancelledCallFails(w) \/ Renewal(w) \/ Restart(w)
  PROVE  PipeInv'
<1> DEFINE u == wk[w]
           j == u.job
<1>0. StoreInv /\ (UNCHANGED stream => StreamStep) /\ (UNCHANGED executions => NoClaim)
  BY DEF PipeInv, StreamStep, NoClaim
<1>1. CASE ExecuteInput(w)
  <2>1. PICK o \in Output :
          wk' = [wk EXCEPT ![w].outs = Append(wk[w].outs, o),
                           ![w].pc = Loop(wk[w].job, Append(wk[w].outs, o))]
    BY <1>1 DEF ExecuteInput, Output
  <2> DEFINE outs == Append(u.outs, o)
             k == Loop(j, outs)
             n == [u EXCEPT !.outs = outs, !.pc = k]
  <2>2. wk' = [wk EXCEPT ![w] = n]
    BY <2>1 DEF PipeInv, WorkersInv
  <2>3. u.pc = "run" /\ u.pc \notin AtRest
    BY <1>1 DEF ExecuteInput, At, AtRest
  <2>4. j \in Job /\ u \in WorkerLocal /\ LocalInv(u)
    BY <2>3, AtWork
  <2>5. outs \in Seq(Output) /\ k \in {"complete", "run"}
        /\ (k = "complete" => Len(outs) = NumInputs[j])
    BY <2>4 DEF WorkerLocal, Loop
  <2>6. k \in WorkerPC
    BY <2>5 DEF WorkerPC, OtherCalls
  <2>7. n \in WorkerLocal /\ n.pc = k /\ n.outs = outs /\ n.job = j /\ n.att = u.att
    BY <2>4, <2>5, <2>6 DEF WorkerLocal
  <2>8. LocalInv(n)
    BY <2>4, <2>5, <2>7 DEF LocalInv, AtRest, CtxCalls
  <2>9. Trying(u) /\ n.pc \notin AtRest /\ n.pc \notin {"ack", "clear"}
    BY <2>3, <2>5, <2>7 DEF Trying, AtRest
  <2>10. QED
    BY <1>0, <1>1, <2>2, <2>3, <2>7, <2>8, <2>9, GoesOn
       DEF ExecuteInput, tableAndQueue, LocalToWorker
<1>2. CASE ExecuteError(w)
  <2> DEFINE n == [u EXCEPT !.pc = "fail"]
  <2>1. u.pc = "run" /\ u.pc \notin AtRest
    BY <1>2 DEF ExecuteError, At, AtRest
  <2>2. LocalInv(n) /\ n.pc = "fail" /\ n.job = j /\ n.att = u.att
    <3>1. LocalInv(u) /\ j \in Job
      BY <2>1, AtWork
    <3> HIDE DEF u
    <3>2. QED
      BY <2>1, <3>1, NextLocal
  <2>3. Trying(u) /\ n.pc \notin AtRest
    BY <2>1, <2>2 DEF Trying, AtRest
  <2>4. CASE Goto(w, "fail")
    BY <1>0, <1>2, <2>1, <2>2, <2>3, <2>4, GoesOn
       DEF ExecuteError, Goto, tableAndQueue, LocalToWorker
  <2>5. CASE Return(w)
    BY <1>0, <1>2, <2>5, WorkerReturns DEF ExecuteError, tableAndQueue, LocalToWorker
  <2>6. QED
    BY <1>2, <2>4, <2>5 DEF ExecuteError
<1>3. CASE RecordFailure(w)
  <2>1. u.pc \notin AtRest
    BY <1>3 DEF RecordFailure, At, AtRest
  <2>2. NoClaim
    BY <1>0, <1>3, <2>1, AtWork DEF RecordFailure, NoClaim, Statement
  <2>3. QED
    BY <1>0, <1>3, <2>2, WorkerReturns DEF RecordFailure, LocalToWorker
<1>4. CASE CompleteJob(w)
  <2> DEFINE n == [u EXCEPT !.pc = "ack"]
  <2>1. u.pc = "complete" /\ u.pc \notin AtRest
    BY <1>4 DEF CompleteJob, At, AtRest
  <2>2. LocalInv(n) /\ n.pc = "ack" /\ n.job = j /\ n.att = u.att /\ j \in Job
    <3>1. LocalInv(u) /\ j \in Job
      BY <2>1, AtWork
    <3> HIDE DEF u
    <3>2. QED
      BY <2>1, <3>1, NextLocal
  <2>3. CASE Complete(j, w, Answer(w)) /\ Goto(w, "ack")
    <3>1. NoClaim /\ Terminal(executions'[j])
      BY <2>1, <2>2, <2>3, CompletesOwn DEF NoClaim
    <3>2. Trying(u) /\ n.pc \notin AtRest
      BY <2>1, <2>2 DEF Trying, AtRest, OtherCalls
    <3>3. QED
      BY <1>0, <1>4, <2>1, <2>2, <2>3, <3>1, <3>2, GoesOn DEF CompleteJob, Goto, LocalToWorker
  <2>4. CASE Return(w) /\ UNCHANGED executions
    BY <1>0, <1>4, <2>4, WorkerReturns DEF CompleteJob, LocalToWorker
  <2>5. QED
    BY <1>4, <2>3, <2>4 DEF CompleteJob
<1>5. CASE AckDone(w)
  <2>1. u.pc \notin AtRest
    BY <1>5 DEF AckDone, At, AtRest
  <2>2. StreamStep
    BY <1>5, <2>1, AtWork DEF AckDone, StreamStep
  <2>3. QED
    BY <1>0, <1>5, <2>2, WorkerReturns DEF AckDone, LocalToWorker
<1>6. CASE CancelledCallFails(w)
  BY <1>0, <1>6, WorkerReturns DEF CancelledCallFails, tableAndQueue, LocalToWorker
<1>7. CASE Renewal(w)
  <2> DEFINE n == [u EXCEPT !.ctx = "exec"]
  <2>1. u.pc \notin AtRest /\ u.pc \in {"run", "fail", "complete", "ack"}
    BY <1>7 DEF Renewal, Renewing, AtRest
  <2>2. j \in Job /\ LocalInv(u) /\ LocalInv(n) /\ n.pc = u.pc /\ n.job = j /\ n.att = u.att
    <3>1. LocalInv(u) /\ j \in Job
      BY <2>1, AtWork
    <3> HIDE DEF u
    <3>2. QED
      BY <2>1, <3>1, NextLocal
  <2>3. CASE RenewLease(j, w) /\ UNCHANGED wk
    <3>1. NoClaim
      BY <2>2, <2>3 DEF NoClaim, Statement
    <3>2. WorkersInv' /\ AttemptsAreExclusive'
      BY <2>3, <3>1, WorkersRest DEF PipeInv
    <3>3. QED
      BY <1>0, <1>7, <3>1, <3>2, PipeKept, RestKept DEF Renewal, LocalToWorker
  <2>4. CASE wk' = [wk EXCEPT ![w].ctx = "exec"] /\ UNCHANGED executions
    <3>1. wk' = [wk EXCEPT ![w] = n] /\ NoClaim /\ (Trying(n) => Trying(u))
      BY <1>0, <2>2, <2>4 DEF Trying
    <3>2. QED
      BY <1>0, <1>7, <2>1, <2>2, <3>1, GoesOn DEF Renewal, LocalToWorker
  <2>5. QED
    BY <1>7, <2>3, <2>4 DEF Renewal
<1>8. CASE Restart(w)
  BY <1>0, <1>8, WorkerReturns DEF Restart, tableAndQueue, LocalToWorker
<1>9. QED
  BY <1>1, <1>2, <1>3, <1>4, <1>5, <1>6, <1>7, <1>8

\* The faults of a worker.
LEMMA WorkerFaults ==
  ASSUME PipeInv, NEW w \in Worker,
         WorkerCallFails(w) \/ RenewalFails(w) \/ Panic(w) \/ CancelPool(w) \/ Crash(w)
  PROVE  PipeInv'
<1> DEFINE u == wk[w]
           j == u.job
<1>0. StoreInv /\ (UNCHANGED stream => StreamStep) /\ (UNCHANGED executions => NoClaim)
  BY DEF PipeInv, StreamStep, NoClaim
<1>1. CASE WorkerCallFails(w)
  <2>1. u.pc \notin AtRest
    BY <1>1 DEF WorkerCallFails, CtxCalls, OtherCalls, AtRest
  <2>2. j \in Job /\ u.msg \in Nat
    BY <2>1, AtWork
  <2>3. CASE UNCHANGED tableAndQueue
    BY <1>0, <1>1, <2>3, WorkerReturns DEF WorkerCallFails, tableAndQueue
  <2>4. CASE Claim(j, w) /\ UNCHANGED stream
    BY <1>0, <1>1, <2>2, <2>4, WorkerReturns DEF WorkerCallFails
  <2>5. CASE MarkRunning(j, w) /\ UNCHANGED stream
    <3>1. NoClaim
      BY <2>2, <2>5 DEF NoClaim, Statement
    <3>2. QED
      BY <1>0, <1>1, <2>5, <3>1, WorkerReturns DEF WorkerCallFails
  <2>6. CASE FailJob(j, w, "future") /\ UNCHANGED stream
    <3>1. NoClaim
      BY <2>2, <2>6 DEF NoClaim, Statement
    <3>2. QED
      BY <1>0, <1>1, <2>6, <3>1, WorkerReturns DEF WorkerCallFails
  <2>7. CASE At(w, "complete") /\ Complete(j, w, Answer(w)) /\ UNCHANGED stream
    <3>1. NoClaim
      BY <2>2, <2>7, CompletesOwn DEF NoClaim, At
    <3>2. QED
      BY <1>0, <1>1, <2>7, <3>1, WorkerReturns DEF WorkerCallFails
  <2>8. CASE Ack(u.msg) /\ UNCHANGED executions
    <3>1. StreamStep
      BY <2>2, <2>8 DEF StreamStep
    <3>2. QED
      BY <1>0, <1>1, <2>8, <3>1, WorkerReturns DEF WorkerCallFails
  <2>9. QED
    BY <1>1, <2>3, <2>4, <2>5, <2>6, <2>7, <2>8 DEF WorkerCallFails
<1>2. ASSUME NEW c \in {"exec", "pool"}, wk' = [wk EXCEPT ![w].ctx = c], u.pc \notin AtRest, Fault,
             UNCHANGED <<tableAndQueue, req, rec, sweep>>
      PROVE  PipeInv'
  <2> DEFINE n == [u EXCEPT !.ctx = c]
  <2>1. j \in Job /\ LocalInv(u) /\ LocalInv(n) /\ n.pc = u.pc /\ n.job = j /\ n.att = u.att
    <3>1. LocalInv(u) /\ j \in Job
      BY <1>2, AtWork
    <3> HIDE DEF u
    <3>2. QED
      BY <1>2, <3>1, NextLocal
  <2>2. wk' = [wk EXCEPT ![w] = n] /\ NoClaim /\ StreamStep /\ (Trying(n) => Trying(u))
    BY <1>0, <1>2, <2>1 DEF Trying, tableAndQueue
  <2>3. QED
    BY <1>2, <2>1, <2>2, GoesOn
<1>3. CASE RenewalFails(w)
  BY <1>2, <1>3 DEF RenewalFails, Renewing, AtRest
<1>4. CASE Panic(w)
  <2>1. u.pc \notin AtRest
    BY <1>4 DEF Panic, AtRest
  <2>2. NoClaim
    BY <1>0, <1>4, <2>1, AtWork DEF Panic, NoClaim, Statement
  <2>3. QED
    BY <1>0, <1>4, <2>2, WorkerReturns DEF Panic
<1>5. CASE CancelPool(w)
  BY <1>2, <1>5 DEF CancelPool, AtRest
<1>6. CASE Crash(w)
  BY <1>0, <1>6, WorkerReturns DEF Crash, tableAndQueue
<1>7. QED
  BY <1>1, <1>3, <1>4, <1>5, <1>6
-----------------------------------------------------------------------------
(* Steps of the others *)

\* A step that leaves the workers and the sweepers alone.
LEMMA QuietStep ==
  ASSUME PipeInv, NoClaim, UNCHANGED <<stream, wk, sweep>>, ReqInv', RecInv',
         UNCHANGED faults \/ Fault
  PROVE  PipeInv'
<1>1. WorkersInv' /\ AttemptsAreExclusive'
  BY WorkersRest DEF PipeInv
<1>2. StreamStep
  BY DEF StreamStep
<1>3. QED
  BY <1>1, <1>2, PipeKept, RestKept

\* A step that enqueues a message, whoever takes it.
LEMMA EnqueueStep ==
  ASSUME PipeInv, NEW j \in Job,
         NEW sw \in [Sweeper -> SweepLocal], \A x \in Sweeper : SweepOK(sw[x]),
         EnqueueRun(j, sw), UNCHANGED executions, ReqInv', RecInv', UNCHANGED faults
  PROVE  PipeInv'
<1>1. NoClaim /\ StreamStep
  BY DEF NoClaim, StreamStep, EnqueueRun
<1>2. WorkersInv' /\ AttemptsAreExclusive'
  BY <1>1, WorkersRest DEF PipeInv, EnqueueRun
<1>3. SweepInv'
  BY SweepShifted DEF EnqueueRun
<1>4. QED
  BY <1>1, <1>2, <1>3, PipeKept, RestKept

\* Sweepers have their types, in the form EnqueueStep asks for.
LEMMA SweepersOK ==
  ASSUME PipeInv
  PROVE  sweep \in [Sweeper -> SweepLocal] /\ \A x \in Sweeper : SweepOK(sweep[x])
BY DEF PipeInv, SweepInv, SweepOK

\* The API's requests, failed ones included, and the clock.
LEMMA RequestSteps ==
  ASSUME PipeInv, NEW j \in Job,
         \/ StoreRequest(j) \/ EnqueueRequest(j) \/ RequestFails(j)
         \/ Tick(LeaseExpires(j)) \/ Tick(RetryComesDue(j)) \/ Tick(DispatchAges(j))
  PROVE  PipeInv'
<1>0. /\ UNCHANGED executions \/ Create(j, APIMaxAttempts) => NoClaim
      /\ LeaseExpires(j) \/ RetryComesDue(j) \/ DispatchAges(j) => NoClaim
  BY PipelineConstants DEF NoClaim, Statement
<1>1. ASSUME NEW a \in {"stored", "accepted", "rejected"}, req' = [req EXCEPT ![j] = a]
      PROVE  ReqInv'
  BY <1>1 DEF PipeInv, ReqInv
<1>2. CASE StoreRequest(j)
  BY <1>0, <1>1, <1>2, RestKept, QuietStep DEF StoreRequest
<1>3. CASE EnqueueRequest(j)
  BY <1>1, <1>3, RestKept, SweepersOK, EnqueueStep DEF EnqueueRequest
<1>4. CASE RequestFails(j)
  BY <1>0, <1>1, <1>4, RestKept, QuietStep DEF RequestFails
<1>5. CASE Tick(LeaseExpires(j)) \/ Tick(RetryComesDue(j)) \/ Tick(DispatchAges(j))
  BY <1>0, <1>5, RestKept, QuietStep DEF Tick
<1>6. QED
  BY <1>2, <1>3, <1>4, <1>5

\* The recovery service, its failing calls and its restarts.
LEMMA RecovererSteps ==
  ASSUME PipeInv, NEW r \in Recoverer,
         RecovererStep(r) \/ RecovererCallFails(r) \/ RecovererCrash(r)
  PROVE  PipeInv'
<1>0. /\ rec \in [Recoverer -> RecLocal] /\ rec[r].batch \subseteq Job
      /\ rec[r].pc = "mark" => rec[r].cur \in Job
      /\ UNCHANGED executions \/ RecoverAbandonedJobs => NoClaim
  BY DEF PipeInv, RecInv, RecLocal, NoClaim
<1>1. ASSUME NEW pc \in {"recover", "select", "dispatch"}, NEW B \in SUBSET Job,
             SetRec(r, pc, NoJob, B)
      PROVE  RecInv'
  BY <1>1 DEF PipeInv, RecInv, RecLocal, SetRec
<1>2. ASSUME NEW B \in SUBSET Job, AfterJob(r, B) PROVE RecInv'
  BY <1>1, <1>2 DEF AfterJob
<1>3. CASE TakeBackLeases(r)
  BY <1>0, <1>1, <1>3, RestKept, QuietStep DEF TakeBackLeases
<1>4. CASE SelectDelayed(r)
  <2>1. PICK S \in SUBSET Job : SetRec(r, IF S = {} THEN "recover" ELSE "dispatch", NoJob, S)
    BY <1>4 DEF SelectDelayed, DispatchableJobs
  <2>2. RecInv'
    BY <1>1, <2>1
  <2>3. QED
    BY <1>0, <1>4, <2>2, RestKept, QuietStep DEF SelectDelayed, tableAndQueue
<1>5. CASE DispatchOne(r)
  <2>1. PICK j \in rec[r].batch : EnqueueRun(j, sweep) /\ SetRec(r, "mark", j, rec[r].batch \ {j})
    BY <1>5 DEF DispatchOne
  <2>2. j \in Job /\ rec[r].batch \ {j} \in SUBSET Job
    BY <1>0, <2>1
  <2>3. RecInv'
    BY <1>0, <2>1, <2>2 DEF PipeInv, RecInv, RecLocal, SetRec
  <2>4. QED
    BY <1>5, <2>1, <2>2, <2>3, RestKept, SweepersOK, EnqueueStep DEF DispatchOne
<1>6. CASE MarkOne(r)
  <2>1. NoClaim
    BY <1>0, <1>6 DEF MarkOne, NoClaim, Statement
  <2>2. RecInv'
    BY <1>0, <1>2, <1>6 DEF MarkOne
  <2>3. QED
    BY <1>6, <2>1, <2>2, RestKept, QuietStep DEF MarkOne
<1>7. CASE RecovererCallFails(r)
  <2>1. RecInv'
    <3>1. ASSUME NEW j \in rec[r].batch PROVE rec[r].batch \ {j} \in SUBSET Job
      BY <1>0
    <3>2. {} \in SUBSET Job
      OBVIOUS
    <3>3. QED
      BY <1>0, <1>1, <1>2, <1>7, <3>1, <3>2 DEF RecovererCallFails, NextTick
  <2>2. QED
    BY <1>0, <1>7, <2>1, RestKept, QuietStep DEF RecovererCallFails, tableAndQueue
<1>8. CASE RecovererCrash(r)
  <2>1. RecInv'
    BY <1>1, <1>8 DEF RecovererCrash, NextTick
  <2>2. QED
    BY <1>0, <1>8, <2>1, RestKept, QuietStep DEF RecovererCrash, tableAndQueue
<1>9. QED
  BY <1>3, <1>4, <1>5, <1>6, <1>7, <1>8 DEF RecovererStep

\* A sweeper's batch: the messages it claimed, in order.
LEMMA ClaimedBatch ==
  ASSUME StreamInv, NEW ids \in Batches
  PROVE  LET b == [k \in DOMAIN ids |-> [id |-> ids[k], job |-> stream[ids[k]].job]]
         IN  b \in Seq(Claimed) /\ b # <<>>
<1> DEFINE b == [k \in DOMAIN ids |-> [id |-> ids[k], job |-> stream[ids[k]].job]]
<1>1. PICK n \in 1..ClaimBatch : ids \in [1..n -> PendingIds]
  BY DEF Batches
<1>2. n \in Nat \ {0} /\ DOMAIN ids = 1..n
  BY <1>1, PipelineConstants
<1>3. ASSUME NEW k \in 1..n PROVE [id |-> ids[k], job |-> stream[ids[k]].job] \in Claimed
  <2>1. ids[k] \in DOMAIN stream /\ stream \in Seq(RunEntry) /\ Len(stream) <= MaxLen
    BY <1>1 DEF PendingIds, StreamInv
  <2>2. ids[k] \in 1..Len(stream) /\ stream[ids[k]] \in RunEntry
    BY <2>1
  <2>3. ids[k] \in MsgId /\ stream[ids[k]].job \in Job
    BY <2>1, <2>2, StreamConstants DEF MsgId, RunEntry
  <2>4. QED
    BY <2>3 DEF Claimed
<1>4. b \in Seq(Claimed) /\ Len(b) = n
  BY <1>2, <1>3
<1>5. b # <<>>
  BY <1>2, <1>4
<1>6. QED
  BY <1>4, <1>5

\* The sweeper, its failing calls and its restarts.
LEMMA SweeperSteps ==
  ASSUME PipeInv, NEW s \in Sweeper,
         \/ SweeperStep(s) \/ SweeperCallFails(s) \/ SweeperCrash(s)
         \/ \E ids \in Batches : AutoClaim(s, ids)
  PROVE  PipeInv'
<1>0. SweepInv /\ StreamInv /\ (UNCHANGED executions => NoClaim)
  BY DEF PipeInv, NoClaim
<1>1. ASSUME NEW b, SweepOK(b), sweep' = [sweep EXCEPT ![s] = b] PROVE SweepInv'
  BY <1>0, <1>1, SweepSet DEF SweepInv, SweepOK
<1>2. ASSUME SweepInv', StreamStep, UNCHANGED <<executions, req, wk, rec>>,
             UNCHANGED faults \/ Fault
      PROVE  PipeInv'
  BY <1>0, <1>2, WorkersRest, PipeKept, RestKept DEF PipeInv
<1>3. CASE \E ids \in Batches : AutoClaim(s, ids)
  <2>1. PICK ids \in Batches : AutoClaim(s, ids)
    BY <1>3
  <2> DEFINE c == [k \in DOMAIN ids |-> [id |-> ids[k], job |-> stream[ids[k]].job]]
             b == [pc |-> "inspect", batch |-> c, seen |-> "ABSENT"]
  <2>2. c \in Seq(Claimed) /\ c # <<>>
    BY <1>0, ClaimedBatch
  <2>3. SweepOK(b) /\ sweep' = [sweep EXCEPT ![s] = b]
    BY <2>1, <2>2 DEF SweepOK, SweepLocal, AutoClaim, Sweeping
  <2>4. SweepInv'
    BY <1>1, <2>3
  <2>5. QED
    BY <1>2, <2>1, <2>4 DEF AutoClaim, tableAndQueue, StreamStep
<1>4. CASE Inspect(s)
  <2> DEFINE seen == executions[Head(sweep[s].batch).job].status
  <2>1. sweep[s].pc # "idle"
    BY <1>4 DEF Inspect
  <2>2. seen \in JobStatus \cup {"ABSENT"}
    <3>1. Head(sweep[s].batch).job \in Job
      BY <1>0, <2>1, SweepOn DEF Claimed
    <3>2. QED
      BY <3>1 DEF PipeInv, StoreInv, Row
  <2>3. \E b : SweepOK(b) /\ sweep' = [sweep EXCEPT ![s] = b]
    <3>1. sweep' \in {Sweeping(s, "ack", sweep[s].batch, seen), NextMsg(s)}
      BY <1>4 DEF Inspect
    <3> HIDE DEF seen
    <3>2. CASE sweep' = NextMsg(s)
      BY <1>0, <2>1, <3>2, SweepOn
    <3>3. CASE sweep' = Sweeping(s, "ack", sweep[s].batch, seen)
      <4>1. \E b : /\ SweepOK(b)
                  /\ Sweeping(s, "ack", sweep[s].batch, seen) = [sweep EXCEPT ![s] = b]
        BY <1>0, <2>1, <2>2, SweepOn
      <4>2. QED
        BY <3>3, <4>1
    <3>4. QED
      BY <3>1, <3>2, <3>3
  <2>4. QED
    BY <1>1, <1>2, <1>4, <2>3 DEF Inspect, tableAndQueue, StreamStep
<1>5. CASE SweepAck(s)
  <2>1. sweep[s].pc # "idle"
    BY <1>5 DEF SweepAck
  <2>2. Head(sweep[s].batch).id \in Nat
    BY <1>0, <2>1, SweepOn, StreamConstants DEF Claimed, MsgId
  <2>3. \E b : SweepOK(b) /\ sweep' = [sweep EXCEPT ![s] = b]
    BY <1>0, <1>5, <2>1, SweepOn DEF SweepAck
  <2>4. StreamStep
    BY <1>5, <2>2 DEF SweepAck, StreamStep
  <2>5. QED
    BY <1>1, <1>2, <1>5, <2>3, <2>4 DEF SweepAck
<1>6. CASE Requeue(s)
  <2>1. sweep[s].pc # "idle"
    BY <1>6 DEF Requeue
  <2>2. PICK b : SweepOK(b) /\ NextMsg(s) = [sweep EXCEPT ![s] = b]
    BY <1>0, <2>1, SweepOn
  <2>3. NextMsg(s) \in [Sweeper -> SweepLocal] /\ \A x \in Sweeper : SweepOK(NextMsg(s)[x])
    BY <1>0, <2>2, SweepSet
  <2>4. Head(sweep[s].batch).job \in Job
    BY <1>0, <2>1, SweepOn DEF Claimed
  <2>5. QED
    BY <1>6, <2>3, <2>4, RestKept, EnqueueStep DEF Requeue
<1>7. CASE SweeperCallFails(s)
  <2>1. sweep[s].pc # "idle"
    BY <1>7 DEF SweeperCallFails
  <2>2. \E b : SweepOK(b) /\ sweep' = [sweep EXCEPT ![s] = b]
    BY <1>0, <1>7, <2>1, SweepOn DEF SweeperCallFails
  <2>3. QED
    BY <1>1, <1>2, <1>7, <2>2 DEF SweeperCallFails, tableAndQueue, StreamStep
<1>8. CASE SweeperCrash(s)
  <2>1. \E b : SweepOK(b) /\ sweep' = [sweep EXCEPT ![s] = b]
    BY <1>0, <1>8, SweepOn DEF SweeperCrash
  <2>2. QED
    BY <1>1, <1>2, <1>8, <2>1 DEF SweeperCrash, tableAndQueue, StreamStep
<1>9. QED
  BY <1>3, <1>4, <1>5, <1>6, <1>7, <1>8 DEF SweeperStep
-----------------------------------------------------------------------------
(* The invariant *)

\* The pipeline starts in the invariant, with or without rows left queued.
LEMMA PipeInitInv == PipeInit => PipeInv
<1> SUFFICES ASSUME PipeInit PROVE PipeInv
  OBVIOUS
<1>1. StoreInv /\ RowsInv
  <2>1. StoreInv
    BY InitInv DEF PipeInit
  <2>2. ASSUME NEW j \in Job PROVE AnswerInv(j, executions[j])
    BY DEF PipeInit, StoreInit, AbsentRow, QueuedRow, BlankRow, AnswerInv
  <2>3. QED
    BY <2>1, <2>2 DEF RowsInv
<1>2. StreamInv /\ ReqInv /\ faults \in 0..MaxFaults
  BY StreamConstants, PipelineConstants DEF PipeInit, StreamInit, StreamInv, ReqInv
<1>3. WorkersInv /\ AttemptsAreExclusive
  <2>1. Idle \in WorkerLocal /\ Idle.pc = "idle" /\ Idle.job = NoJob /\ Idle.msg = 0
    <3>1. 0 \in MsgId /\ 0 \in Nat /\ <<>> \in Seq(Output)
      BY StreamConstants DEF MsgId
    <3>2. QED
      BY <3>1 DEF Idle, WorkerLocal, WorkerPC
  <2>2. LocalInv(Idle) /\ Idle.pc \in AtRest /\ ~ Trying(Idle)
    BY <2>1 DEF LocalInv, AtRest, CtxCalls, Trying, OtherCalls
  <2>3. \A w \in Worker : wk[w] = Idle
    BY DEF PipeInit
  <2>4. wk \in [Worker -> WorkerLocal]
    BY <2>1 DEF PipeInit
  <2>5. QED
    BY <2>2, <2>3, <2>4 DEF WorkersInv, AttemptsAreExclusive, Attempting, Trying
<1>4. RecInv
  <2>1. [pc |-> "recover", cur |-> NoJob, batch |-> {}] \in RecLocal
    BY DEF RecLocal
  <2>2. QED
    BY <2>1 DEF PipeInit, RecInv
<1>5. SweepInv
  <2>1. [pc |-> "idle", batch |-> <<>>, seen |-> "ABSENT"] \in SweepLocal
    BY DEF SweepLocal
  <2>2. QED
    BY <2>1 DEF PipeInit, SweepInv
<1>6. QED
  BY <1>1, <1>2, <1>3, <1>4, <1>5 DEF PipeInv

\* Every step of the pipeline, faults included, keeps the invariant.
LEMMA PipeNextInv == PipeInv /\ [PipeNext]_pipeVars => PipeInv'
<1> SUFFICES ASSUME PipeInv, [PipeNext]_pipeVars PROVE PipeInv'
  OBVIOUS
<1>1. ASSUME NEW j \in Job,
             \/ StoreRequest(j) \/ EnqueueRequest(j) \/ RequestFails(j)
             \/ Tick(LeaseExpires(j)) \/ Tick(RetryComesDue(j)) \/ Tick(DispatchAges(j))
      PROVE  PipeInv'
  BY <1>1, RequestSteps
<1>2. ASSUME NEW w \in Worker, WorkerStep(w) \/ Renewal(w) \/ Restart(w) PROVE PipeInv'
  BY <1>2, StartSteps, FinishSteps DEF WorkerStep
<1>3. ASSUME NEW w \in Worker,
             WorkerCallFails(w) \/ RenewalFails(w) \/ Panic(w) \/ CancelPool(w) \/ Crash(w)
      PROVE  PipeInv'
  BY <1>3, WorkerFaults
<1>4. ASSUME NEW r \in Recoverer, RecovererStep(r) \/ RecovererCallFails(r) \/ RecovererCrash(r)
      PROVE  PipeInv'
  BY <1>4, RecovererSteps
<1>5. ASSUME NEW s \in Sweeper,
             \/ SweeperStep(s) \/ SweeperCallFails(s) \/ SweeperCrash(s)
             \/ \E ids \in Batches : AutoClaim(s, ids)
      PROVE  PipeInv'
  BY <1>5, SweeperSteps
<1>6. CASE UNCHANGED pipeVars
  <2>1. UNCHANGED <<executions, stream, req, wk, rec, sweep, faults>>
    BY <1>6 DEF pipeVars
  <2>2. NoClaim
    BY <2>1 DEF NoClaim
  <2>3. QED
    BY <2>1, <2>2, RestKept, QuietStep
<1>7. QED
  BY <1>1, <1>2, <1>3, <1>4, <1>5, <1>6 DEF PipeNext, Faulty

\* The inductive invariant holds in every reachable state of the pipeline.
THEOREM PipeInvariant == PipeSpec => []PipeInv
BY PipeInitInv, PipeNextInv, PTL DEF PipeSpec

\* Every process is where its local variables say (PipeTypeOK), however calls
\* fail and processes die.
THEOREM PipeTypes == PipeSpec => []PipeTypeOK
<1>1. PipeInv => PipeTypeOK
  <2> SUFFICES ASSUME PipeInv PROVE PipeTypeOK
    OBVIOUS
  <2>1. StoreTypeOK /\ ReqInv /\ faults \in 0..MaxFaults
    BY DEF PipeInv, StoreInv, StoreTypeOK
  <2>2. stream \in Seq(Entry) /\ Len(stream) <= MaxLen
    <3>1. \A i \in 1..Len(stream) : stream[i] \in Entry
      <4>1. ASSUME NEW i \in 1..Len(stream) PROVE stream[i] \in Entry
        <5>1. stream[i] \in RunEntry
          BY DEF PipeInv, StreamInv
        <5>2. QED
          BY <5>1, PipelineConstants DEF RunEntry, Entry
      <4>2. QED
        BY <4>1
    <3>2. QED
      BY <3>1 DEF PipeInv, StreamInv
  <2>3. ASSUME NEW w \in Worker
        PROVE  /\ wk[w].pc \in WorkerPC /\ wk[w].msg \in MsgId /\ wk[w].att \in Nat
               /\ wk[w].outs \in Seq(Output) /\ wk[w].ctx \in {"live", "exec", "pool"}
               /\ wk[w].job \in IF wk[w].pc \in {"idle", "stopped"} THEN {NoJob} ELSE Job
    BY DEF PipeInv, WorkersInv, LocalInv, WorkerLocal, AtRest
  <2>4. ASSUME NEW r \in Recoverer
        PROVE  /\ rec[r].pc \in {"recover", "select", "dispatch", "mark"}
               /\ rec[r].batch \in SUBSET Job
               /\ rec[r].cur \in IF rec[r].pc = "mark" THEN Job ELSE {NoJob}
    BY DEF PipeInv, RecInv, RecLocal
  <2>5. ASSUME NEW s \in Sweeper
        PROVE  /\ sweep[s].pc \in {"idle", "inspect", "ack", "requeue"}
               /\ sweep[s].batch \in Seq([id : MsgId, job : Job])
               /\ sweep[s].pc = "idle" <=> sweep[s].batch = <<>>
               /\ sweep[s].seen \in JobStatus \cup {"ABSENT"}
    BY DEF PipeInv, SweepInv, SweepLocal, Claimed
  <2>6. QED
    BY <2>1, <2>2, <2>3, <2>4, <2>5 DEF PipeTypeOK, ReqInv
<1>2. QED
  BY <1>1, PipeInvariant, PTL

\* No attempt of a job is ever worked on by two workers, for any number of
\* workers, lost leases, redeliveries and restarts.
THEOREM ExclusiveAttempts == PipeSpec => []AttemptsAreExclusive
<1>1. PipeInv => AttemptsAreExclusive
  BY DEF PipeInv
<1>2. QED
  BY <1>1, PipeInvariant, PTL

\* The results of a COMPLETED job are those of its latest attempt.
THEOREM LastAttemptAnswers == PipeSpec => []AnswerOfLastAttempt
<1>1. PipeInv => AnswerOfLastAttempt
  BY DEF PipeInv, RowsInv, AnswerInv, AnswerOfLastAttempt
<1>2. QED
  BY <1>1, PipeInvariant, PTL

\* A COMPLETED job has one result for each of its inputs.
THEOREM AllInputsAnswered == PipeSpec => []EveryInputAnswered
<1>1. PipeInv => EveryInputAnswered
  BY DEF PipeInv, RowsInv, AnswerInv, EveryInputAnswered
<1>2. QED
  BY <1>1, PipeInvariant, PTL
-----------------------------------------------------------------------------
(* What a step may never do *)

\* The statements that do not take a job from its worker, but for an expired lease.
Mild ==
  \/ UNCHANGED executions
  \/ RecoverAbandonedJobs
  \/ \E j \in Job : \/ \E m \in MaxAttempts : Create(j, m)
                    \/ \E w \in Worker : Claim(j, w) \/ MarkRunning(j, w) \/ RenewLease(j, w)
                    \/ MarkDispatched(j) \/ LeaseExpires(j) \/ RetryComesDue(j) \/ DispatchAges(j)

\* The statements with which worker w gives its job up.
Ends(w) ==
  \E j \in Job : \/ \E res \in Result : Complete(j, w, res)
                \/ \E b \in {"future", "due"} : FailJob(j, w, b)

\* Worker w acknowledges its message only after the end of its job.
AckedAfterEnd(w) ==
  LET m == wk[w].msg
  IN  (m # 0 /\ stream[m].state # "acked" /\ stream'[m].state = "acked")
        => Terminal(executions[wk[w].job])

WorkerActs(w) ==
  \/ WorkerStep(w) \/ Renewal(w) \/ Restart(w) \/ WorkerCallFails(w) \/ RenewalFails(w)
  \/ Panic(w) \/ CancelPool(w) \/ Crash(w)

OthersAct ==
  \/ \E j \in Job : \/ StoreRequest(j) \/ EnqueueRequest(j) \/ RequestFails(j)
                    \/ Tick(LeaseExpires(j)) \/ Tick(RetryComesDue(j)) \/ Tick(DispatchAges(j))
  \/ \E r \in Recoverer : RecovererStep(r) \/ RecovererCallFails(r) \/ RecovererCrash(r)
  \/ \E s \in Sweeper : \/ SweeperStep(s) \/ SweeperCallFails(s) \/ SweeperCrash(s)
                        \/ \E ids \in Batches : AutoClaim(s, ids)

\* A step is a worker's or somebody else's.
LEMMA Actors == PipeNext <=> OthersAct \/ \E w \in Worker : WorkerActs(w)
BY DEF PipeNext, Faulty, WorkerActs, OthersAct

\* A worker changes its own variables only, ends its own job only, and only with a
\* change of its own; and it acknowledges after the end.
LEMMA WorkerEffects ==
  ASSUME PipeInv, NEW w \in Worker, WorkerActs(w)
  PROVE  /\ \A v \in Worker \ {w} : wk'[v] = wk[v]
         /\ Mild \/ (Ends(w) /\ wk'[w].pc # wk[w].pc)
         /\ AckedAfterEnd(w)
<1> DEFINE u == wk[w]
           j == u.job
<1>0. wk \in [Worker -> WorkerLocal] /\ u \in WorkerLocal
  BY DEF PipeInv, WorkersInv
<1>1. UNCHANGED executions => Mild
  BY DEF Mild
<1>2. UNCHANGED stream => AckedAfterEnd(w)
  BY DEF AckedAfterEnd
<1>3. ASSUME Return(w) PROVE (\A v \in Worker \ {w} : wk'[v] = wk[v]) /\ wk'[w].pc \in AtRest
  BY <1>0, <1>3 DEF Return, Idle, AtRest
<1>4. ASSUME NEW k, Goto(w, k) PROVE (\A v \in Worker \ {w} : wk'[v] = wk[v]) /\ wk'[w].pc = k
  BY <1>0, <1>4 DEF Goto, WorkerLocal
<1>5. ASSUME UNCHANGED executions \/ RenewLease(j, w) \/ MarkRunning(j, w) \/ Claim(j, w),
             UNCHANGED executions \/ u.pc \notin AtRest,
             AckedAfterEnd(w),
             Return(w) \/ UNCHANGED wk \/ (\E n : wk' = [wk EXCEPT ![w] = n])
      PROVE  /\ \A v \in Worker \ {w} : wk'[v] = wk[v]
             /\ Mild /\ AckedAfterEnd(w)
  <2>1. u.pc \notin AtRest => j \in Job
    BY AtWork
  <2>2. Mild
    BY <1>5, <2>1 DEF Mild
  <2>3. QED
    BY <1>0, <1>3, <1>5, <2>2
<1>6. ASSUME u.pc \notin AtRest, wk'[w].pc # u.pc,
             \/ Complete(j, w, Answer(w)) /\ u.pc = "complete"
             \/ \E b \in {"future", "due"} : FailJob(j, w, b)
      PROVE  Ends(w) /\ wk'[w].pc # u.pc
  <2>1. j \in Job
    BY <1>6, AtWork
  <2>2. Complete(j, w, Answer(w)) /\ u.pc = "complete" => Answer(w) \in Result
    BY AnswerIsResult
  <2>3. QED
    BY <1>6, <2>1, <2>2 DEF Ends
<1>7. CASE Consume(w)
  <2>1. u.msg = 0
    BY <1>7 DEF Consume, PipeInv, WorkersInv, LocalInv, AtRest
  <2>2. AckedAfterEnd(w)
    BY <2>1 DEF AckedAfterEnd
  <2>3. QED
    BY <1>5, <1>7, <2>2 DEF Consume
<1>8. CASE ClaimJob(w) \/ ClaimRefused(w) \/ FetchJob(w) \/ ExecuteInput(w)
  <2>1. u.pc \notin AtRest
    BY <1>8 DEF ClaimJob, ClaimRefused, FetchJob, ExecuteInput, At, AtRest
  <2>2. \E n : wk' = [wk EXCEPT ![w] = n]
    BY <1>8 DEF ClaimJob, ClaimRefused, FetchJob, ExecuteInput, Goto
  <2>3. QED
    BY <1>2, <1>5, <1>8, <2>1, <2>2
       DEF ClaimJob, ClaimRefused, FetchJob, ExecuteInput, tableAndQueue
<1>9. CASE CheckRefused(w)
  <2>1. Return(w) \/ \E n : wk' = [wk EXCEPT ![w] = n]
    BY <1>9 DEF CheckRefused, Goto
  <2>2. QED
    BY <1>2, <1>5, <1>9, <2>1 DEF CheckRefused, tableAndQueue
<1>10. CASE MarkJobRunning(w)
  <2>1. u.pc \notin AtRest
    BY <1>10 DEF MarkJobRunning, At, AtRest
  <2>2. Return(w) \/ \E n : wk' = [wk EXCEPT ![w] = n]
    BY <1>10 DEF MarkJobRunning, Goto
  <2>3. QED
    BY <1>2, <1>5, <1>10, <2>1, <2>2 DEF MarkJobRunning
<1>11. CASE ExecuteError(w)
  <2>1. Return(w) \/ \E n : wk' = [wk EXCEPT ![w] = n]
    BY <1>11 DEF ExecuteError, Goto
  <2>2. QED
    BY <1>2, <1>5, <1>11, <2>1 DEF ExecuteError, tableAndQueue
<1>12. CASE RecordFailure(w) \/ Panic(w)
  <2>1. u.pc \notin AtRest /\ Return(w) /\ AckedAfterEnd(w)
    BY <1>2, <1>12 DEF RecordFailure, Panic, At, AtRest
  <2>2. QED
    BY <1>1, <1>3, <1>6, <1>12, <2>1 DEF RecordFailure, Panic
<1>13. CASE CompleteJob(w)
  <2>1. u.pc = "complete" /\ u.pc \notin AtRest /\ AckedAfterEnd(w)
    BY <1>2, <1>13 DEF CompleteJob, At, AtRest
  <2>2. QED
    BY <1>1, <1>3, <1>4, <1>6, <1>13, <2>1 DEF CompleteJob
<1>14. CASE AckDone(w) \/ AckRefused(w)
  <2>1. Terminal(executions[j])
    <3>1. u.pc \in {"ack", "clear"} /\ u.pc \notin AtRest
      BY <1>14 DEF AckDone, AckRefused, At, AtRest
    <3>2. QED
      BY <3>1, AtWork DEF TiedTo
  <2>2. AckedAfterEnd(w)
    BY <2>1 DEF AckedAfterEnd
  <2>3. QED
    BY <1>5, <1>14, <2>2 DEF AckDone, AckRefused
<1>15. CASE CancelledCallFails(w)
  BY <1>2, <1>5, <1>15 DEF CancelledCallFails, tableAndQueue
<1>16. CASE Renewal(w)
  <2>1. u.pc \notin AtRest
    BY <1>16 DEF Renewal, Renewing, AtRest
  <2>2. UNCHANGED wk \/ \E n : wk' = [wk EXCEPT ![w] = n]
    BY <1>16 DEF Renewal
  <2>3. QED
    BY <1>2, <1>5, <1>16, <2>1, <2>2 DEF Renewal
<1>17. CASE Restart(w) \/ RenewalFails(w) \/ CancelPool(w) \/ Crash(w)
  <2>1. \E n : wk' = [wk EXCEPT ![w] = n]
    BY <1>17 DEF Restart, RenewalFails, CancelPool, Crash
  <2>2. QED
    BY <1>2, <1>5, <1>17, <2>1 DEF Restart, RenewalFails, CancelPool, Crash, tableAndQueue
<1>18. CASE WorkerCallFails(w)
  <2>1. u.pc \notin AtRest /\ Return(w)
    BY <1>18 DEF WorkerCallFails, CtxCalls, OtherCalls, AtRest
  <2>2. CASE UNCHANGED tableAndQueue
    BY <1>2, <1>5, <2>1, <2>2 DEF tableAndQueue
  <2>3. CASE (Claim(j, w) \/ MarkRunning(j, w)) /\ UNCHANGED stream
    BY <1>2, <1>5, <2>1, <2>3
  <2>4. CASE FailJob(j, w, "future") /\ UNCHANGED stream
    BY <1>2, <1>3, <1>6, <2>1, <2>4
  <2>5. CASE At(w, "complete") /\ Complete(j, w, Answer(w)) /\ UNCHANGED stream
    BY <1>2, <1>3, <1>6, <2>1, <2>5 DEF At
  <2>6. CASE (At(w, "ack") \/ At(w, "clear")) /\ Ack(u.msg) /\ UNCHANGED executions
    <3>1. Terminal(executions[j])
      BY <2>1, <2>6, AtWork DEF At, TiedTo
    <3>2. AckedAfterEnd(w)
      BY <3>1 DEF AckedAfterEnd
    <3>3. QED
      BY <1>5, <2>1, <2>6, <3>2
  <2>7. QED
    BY <1>18, <2>2, <2>3, <2>4, <2>5, <2>6 DEF WorkerCallFails
<1>19. QED
  BY <1>7, <1>8, <1>9, <1>10, <1>11, <1>12, <1>13, <1>14, <1>15, <1>16, <1>17, <1>18
     DEF WorkerActs, WorkerStep

\* The others leave the workers where they are and end no job that has a live lease.
LEMMA OtherEffects ==
  ASSUME PipeInv, OthersAct
  PROVE  Mild /\ \A w \in Worker : wk'[w].pc = wk[w].pc
<1>0. wk \in [Worker -> WorkerLocal]
  BY DEF PipeInv, WorkersInv
<1>1. ASSUME NEW j, NEW sw, EnqueueRun(j, sw) PROVE \A w \in Worker : wk'[w].pc = wk[w].pc
  BY <1>0, <1>1 DEF EnqueueRun, WorkerLocal
<1>2. ASSUME NEW j \in Job,
             \/ StoreRequest(j) \/ EnqueueRequest(j) \/ RequestFails(j)
             \/ Tick(LeaseExpires(j)) \/ Tick(RetryComesDue(j)) \/ Tick(DispatchAges(j))
      PROVE  Mild /\ \A w \in Worker : wk'[w].pc = wk[w].pc
  BY <1>1, <1>2, PipelineConstants DEF StoreRequest, EnqueueRequest, RequestFails, Tick, Mild
<1>3. ASSUME NEW r \in Recoverer, RecovererStep(r) \/ RecovererCallFails(r) \/ RecovererCrash(r)
      PROVE  Mild /\ \A w \in Worker : wk'[w].pc = wk[w].pc
  <2>1. CASE MarkOne(r)
    <3>1. rec[r].cur \in Job
      BY <2>1 DEF MarkOne, PipeInv, RecInv
    <3>2. QED
      BY <2>1, <3>1 DEF MarkOne, Mild
  <2>2. QED
    BY <1>1, <1>3, <2>1
       DEF RecovererStep, TakeBackLeases, SelectDelayed, DispatchOne, RecovererCallFails,
           RecovererCrash, tableAndQueue, Mild
<1>4. ASSUME NEW s \in Sweeper,
             \/ SweeperStep(s) \/ SweeperCallFails(s) \/ SweeperCrash(s)
             \/ \E ids \in Batches : AutoClaim(s, ids)
      PROVE  Mild /\ \A w \in Worker : wk'[w].pc = wk[w].pc
  BY <1>1, <1>4
     DEF SweeperStep, Inspect, SweepAck, Requeue, SweeperCallFails, SweeperCrash, AutoClaim,
         tableAndQueue, Mild
<1>5. QED
  BY <1>2, <1>3, <1>4 DEF OthersAct

\* A worker's message is acknowledged by the worker only when the job has ended.
THEOREM AckSafety == PipeSpec => WorkerAckAfterEnd
<1> DEFINE A == \A w \in Worker :
                  LET m == wk[w].msg
                  IN  (wk'[w].pc # wk[w].pc /\ m # 0 /\ stream[m].state # "acked" /\
                         stream'[m].state = "acked")
                        => Terminal(executions[wk[w].job])
<1>1. PipeInv /\ [PipeNext]_pipeVars => [A]_pipeVars
  <2> SUFFICES ASSUME PipeInv, PipeNext PROVE A
    OBVIOUS
  <2>1. CASE OthersAct
    BY <2>1, OtherEffects
  <2>2. ASSUME NEW w \in Worker, WorkerActs(w) PROVE A
    BY <2>2, WorkerEffects DEF AckedAfterEnd
  <2>3. QED
    BY <2>1, <2>2, Actors
<1>2. QED
  BY <1>1, PipeInvariant, PTL DEF PipeSpec, WorkerAckAfterEnd
\* Mild statements leave a job with a live lease to its worker.
LEMMA MildKeepsHolder ==
  ASSUME StoreInv, Mild, NEW k \in Job, NEW v \in Worker,
         HeldBy(executions[k], v), executions[k].lease = "live"
  PROVE  HeldBy(executions'[k], v)
<1> DEFINE r == executions[k]
           s == executions'[k]
<1>0. r \in Row /\ executions \in [Job -> Row] /\ r.status \in {"CLAIMED", "RUNNING"} /\ r.worker = v
  BY DEF StoreInv, HeldBy, Held
<1>1. CASE UNCHANGED executions
  BY <1>1
<1>2. CASE RecoverAbandonedJobs
  BY <1>2 DEF RecoverAbandonedJobs, Abandoned
<1>3. ASSUME NEW j \in Job, NEW t, SetRow(j, t), j # k \/ (t.status \in {"CLAIMED", "RUNNING"} /\ t.worker = v)
      PROVE  HeldBy(s, v)
  BY <1>0, <1>3 DEF SetRow, HeldBy, Held
<1>4. ASSUME NEW j \in Job, \E m \in MaxAttempts : Create(j, m) PROVE HeldBy(s, v)
  BY <1>0, <1>3, <1>4 DEF Create
<1>5. ASSUME NEW j \in Job, \E w \in Worker : Claim(j, w) PROVE HeldBy(s, v)
  BY <1>0, <1>3, <1>5 DEF Claim, Claimable
<1>6. ASSUME NEW j \in Job,
             \/ \E w \in Worker : MarkRunning(j, w) \/ RenewLease(j, w)
             \/ MarkDispatched(j) \/ LeaseExpires(j) \/ RetryComesDue(j) \/ DispatchAges(j)
      PROVE  HeldBy(s, v)
  <2>1. CASE j # k
    BY <1>3, <1>6, <2>1
       DEF MarkRunning, RenewLease, MarkDispatched, LeaseExpires, RetryComesDue, DispatchAges
  <2>2. CASE j = k
    <3>1. \/ SetRow(k, [r EXCEPT !.status = "RUNNING"])
          \/ \E x : \/ SetRow(k, [r EXCEPT !.lease = x]) \/ SetRow(k, [r EXCEPT !.retry = x])
                    \/ SetRow(k, [r EXCEPT !.dispatched = x])
      BY <1>6, <2>2
         DEF MarkRunning, RenewLease, MarkDispatched, LeaseExpires, RetryComesDue, DispatchAges
    <3>2. [r EXCEPT !.status = "RUNNING"].status = "RUNNING" /\ [r EXCEPT !.status = "RUNNING"].worker = v
      BY <1>0 DEF Row
    <3>3. ASSUME NEW x
          PROVE  /\ [r EXCEPT !.lease = x].status = r.status /\ [r EXCEPT !.lease = x].worker = v
                 /\ [r EXCEPT !.retry = x].status = r.status /\ [r EXCEPT !.retry = x].worker = v
                 /\ [r EXCEPT !.dispatched = x].status = r.status
                 /\ [r EXCEPT !.dispatched = x].worker = v
      BY <1>0 DEF Row
    <3>4. CASE SetRow(k, [r EXCEPT !.status = "RUNNING"])
      BY <1>3, <3>2, <3>4
    <3>5. ASSUME NEW x, SetRow(k, [r EXCEPT !.lease = x]) PROVE HeldBy(s, v)
      BY <1>0, <1>3, <3>3, <3>5
    <3>6. ASSUME NEW x, SetRow(k, [r EXCEPT !.retry = x]) PROVE HeldBy(s, v)
      BY <1>0, <1>3, <3>3, <3>6
    <3>7. ASSUME NEW x, SetRow(k, [r EXCEPT !.dispatched = x]) PROVE HeldBy(s, v)
      BY <1>0, <1>3, <3>3, <3>7
    <3>8. QED
      BY <3>1, <3>4, <3>5, <3>6, <3>7
  <2>3. QED
    BY <2>1, <2>2
<1>7. QED
  BY <1>1, <1>2, <1>4, <1>5, <1>6 DEF Mild

\* A worker that gives its job up takes nothing from another one.
LEMMA EndsOwnOnly ==
  ASSUME StoreInv, NEW w \in Worker, Ends(w), NEW k \in Job, NEW v \in Worker, v # w,
         HeldBy(executions[k], v)
  PROVE  HeldBy(executions'[k], v)
<1>1. PICK j \in Job : \/ \E res \in Result : Complete(j, w, res)
                      \/ \E b \in {"future", "due"} : FailJob(j, w, b)
  BY DEF Ends
<1>2. executions[j].worker = w
  BY <1>1 DEF Complete, Completable, FailJob, HeldBy
<1>3. j # k
  BY <1>2 DEF HeldBy
<1>4. executions'[k] = executions[k]
  BY <1>1, <1>3 DEF Complete, FailJob, SetRow, StoreInv
<1>5. QED
  BY <1>4

\* A job whose lease has not run out is taken from its worker by nobody else.
THEOREM LeaseProtects == PipeSpec => LiveLeaseProtects
<1> DEFINE A == \A j \in Job, w \in Worker :
                  (HeldBy(executions[j], w) /\ executions[j].lease = "live" /\ wk'[w] = wk[w])
                    => HeldBy(executions'[j], w)
<1>1. PipeInv /\ [PipeNext]_pipeVars => [A]_pipeVars
  <2> SUFFICES ASSUME PipeInv, PipeNext PROVE A
    OBVIOUS
  <2>0. StoreInv
    BY DEF PipeInv
  <2>1. CASE Mild
    BY <2>0, <2>1, MildKeepsHolder
  <2>2. ASSUME NEW w \in Worker, Ends(w), wk'[w].pc # wk[w].pc PROVE A
    <3>1. wk'[w] # wk[w]
      BY <2>2
    <3>2. QED
      BY <2>0, <2>2, <3>1, EndsOwnOnly
  <2>3. QED
    BY <2>1, <2>2, Actors, WorkerEffects, OtherEffects
<1>2. QED
  BY <1>1, PipeInvariant, PTL DEF PipeSpec, LiveLeaseProtects

-----------------------------------------------------------------------------
(* The pipeline implements the store, and with it the life of a job *)

\* Every step of the pipeline is a statement of the store, or none.
LEMMA PipeStepIsStoreStep == PipeInv /\ [PipeNext]_pipeVars => [StoreNext]_storeVars
<1> SUFFICES ASSUME PipeInv, [PipeNext]_pipeVars PROVE [StoreNext]_storeVars
  OBVIOUS
<1>1. CASE UNCHANGED pipeVars
  BY <1>1 DEF pipeVars, storeVars
<1>2. CASE Mild
  BY <1>2 DEF Mild, StoreNext, JobStep, storeVars
<1>3. ASSUME NEW w \in Worker, Ends(w) PROVE StoreNext
  BY <1>3 DEF Ends, StoreNext, JobStep
<1>4. QED
  BY <1>1, <1>2, <1>3, Actors, WorkerEffects, OtherEffects

\* Requests, workers, recovery and faults together use the table only through the
\* statements of ExecutionStore, so every theorem about the store holds of them.
THEOREM PipeImplementsStore == PipeSpec => StoreSpec
<1>1. PipeInit => StoreInit
  BY DEF PipeInit
<1>2. QED
  BY <1>1, PipeStepIsStoreStep, PipeInvariant, PTL DEF PipeSpec, StoreSpec

\* The pipeline implements the abstract life of a job: one holder at a time, one
\* credit per hand-over, one end.
THEOREM PipeImplementsLifecycle == PipeSpec => ImplementsLifecycle
BY PipeImplementsStore, StoreImplementsLifecycle, PTL

\* No mix of retries, redeliveries, crashes and recoveries claims a job more often
\* than its budget allows, or gives it up before the budget is spent.
THEOREM PipeBudget == PipeSpec => []AttemptBudget
BY PipeImplementsStore, BudgetSafety, PTL

\* A finished run stays as it is, whatever late workers and messages do.
THEOREM PipeTerminalIsFinal == PipeSpec => TerminalFrozen
BY PipeImplementsStore, TerminalIsFinal, PTL
=============================================================================
