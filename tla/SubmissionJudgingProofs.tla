---------------------- MODULE SubmissionJudgingProofs ----------------------
(***************************************************************************)
(* Proofs about SubmissionJudging for any number of submissions, workers,  *)
(* test cases and faults, and any length of the stream.                    *)
(*                                                                         *)
(* Judge has no claim.  What protects a row is that the right to judge it  *)
(* exists once: in the request that will enqueue it, in the one message    *)
(* not handed out yet, or in the one worker that consumed it.  The         *)
(* invariant says so, and what the row and the worker's copy of it are in  *)
(* each of these places.                                                   *)
(***************************************************************************)
EXTENDS SubmissionJudging, SequenceTheorems, TLAPS

AtRest == {"idle", "stopped"}

\* A copy of a row while Judge works on it, and a row it has written back.
Copy(v, n, t) == [status |-> "RUNNING", verdict |-> v, passed |-> n, total |-> t,
                  completedAt |-> "null"]
Judged(v, n, t) == [status |-> "COMPLETED", verdict |-> v, passed |-> n, total |-> t,
                    completedAt |-> "set"]

\* n of t tests passed is what the verdict v on s says.
Bears(s, v, n, t) ==
  /\ v = "ACCEPTED" => t = NumTests[s] /\ n = t
  /\ v \in {"WRONG_ANSWER", "TIME_LIMIT_EXCEEDED", "OUTPUT_LIMIT_EXCEEDED", "RUNTIME_ERROR"}
       => n < t

Open(r) == r \in {NewRow, Copy("PENDING", 0, 0)}

\* Written back by Judge; only a panic (p) leaves it without a verdict.
IsJudged(s, r, p) ==
  \E v \in Verdict, n \in Nat, t \in Nat :
    r = Judged(v, n, t) /\ Bears(s, v, n, t) /\ (v # "PENDING" \/ p)

RowInv(s, r, p) == r = NoRow \/ Open(r) \/ IsJudged(s, r, p)

SubRow == [status : {"ABSENT", "QUEUED", "RUNNING", "COMPLETED"}, verdict : Verdict,
           passed : Nat, total : Nat, completedAt : {"null", "set"}]

RowsInv == /\ submissions \in [Sub -> SubRow]
           /\ \A s \in Sub : RowInv(s, submissions[s], Happened("panic"))

\* What a worker with the variables u has made of the row r so far.
CopyInv(u, r) ==
  /\ u.pc = "get"     => r = NewRow
  /\ u.pc = "update"  => r = NewRow /\ u.row = Copy("PENDING", 0, 0)
  /\ u.pc \in {"load", "compile", "test", "analyze", "finalize"} => Open(r)
  /\ u.pc = "load"    => u.row = Copy("PENDING", 0, 0)
  /\ u.pc = "compile" => u.row = Copy("PENDING", 0, NumTests[u.sub])
  /\ u.pc = "test"    => /\ u.row = Copy("PENDING", u.tc, NumTests[u.sub])
                         /\ u.tc < NumTests[u.sub]
  /\ u.pc = "analyze" => u.row = Copy("ACCEPTED", NumTests[u.sub], NumTests[u.sub])
  /\ u.pc = "finalize" => \E v \in Verdict \ {"PENDING"}, n \in Nat, t \in Nat :
                            u.row = Copy(v, n, t) /\ Bears(u.sub, v, n, t)

JudgePC == {"get", "update", "load", "compile", "test", "analyze", "finalize", "ack"}

JudgeLocal == [pc : AtRest \cup JudgePC, msg : Nat, sub : Sub \cup {NoSub}, row : SubRow,
               tc : Nat, ctx : {"live", "cancelled"}]

LocalInv(u) == u \in JudgeLocal /\ (u.pc \notin AtRest => u.sub \in Sub)

WorkersInv ==
  /\ jw \in [Worker -> JudgeLocal]
  /\ \A w \in Worker : LocalInv(jw[w])
  /\ \A w \in Worker : jw[w].pc \notin AtRest => CopyInv(jw[w], submissions[jw[w].sub])

SubEntry == [job : Sub, state : {"new", "pending", "acked"}]

StreamInv == stream \in Seq(SubEntry)

\* Message i is one for s that nobody has been given; worker w has been given one.
Waiting(i, s) == i \in DOMAIN stream /\ stream[i].job = s /\ stream[i].state = "new"
Has(w, s)     == jw[w].pc \notin AtRest /\ jw[w].sub = s

\* The right to judge s exists once.
OnceInv(s) ==
  /\ req[s] \in {"new", "stored"} =>
       (\A i \in DOMAIN stream : ~ Waiting(i, s)) /\ (\A w \in Worker : ~ Has(w, s))
  /\ \A i, k \in DOMAIN stream : Waiting(i, s) /\ Waiting(k, s) => i = k
  /\ \A i \in DOMAIN stream, w \in Worker : ~ (Waiting(i, s) /\ Has(w, s))
  /\ \A v, w \in Worker : Has(v, s) /\ Has(w, s) => v = w

\* Before its message is handed out nobody has judged a row.
BeforeInv(s) ==
  /\ req[s] = "new" => submissions[s] = NoRow
  /\ req[s] = "stored" => submissions[s] = NewRow
  /\ \A i \in DOMAIN stream : Waiting(i, s) => submissions[s] = NewRow

ReqInv == req \in [Sub -> {"new", "stored", "accepted", "rejected"}]

\* The inductive invariant.
JudgeInv == /\ RowsInv /\ WorkersInv /\ StreamInv /\ ReqInv
            /\ \A s \in Sub : OnceInv(s) /\ BeforeInv(s)
            /\ faults \in Seq(FaultKind)

-----------------------------------------------------------------------------
(* What the steps have in common *)

\* A fault that happened has happened ever since.
LEMMA FaultsRemembered ==
  ASSUME faults \in Seq(FaultKind), UNCHANGED faults \/ \E k \in FaultKind : Fault(k)
  PROVE  /\ faults' \in Seq(FaultKind)
         /\ Happened("panic") => Happened("panic")'
<1>1. CASE UNCHANGED faults
  BY <1>1 DEF Happened
<1>2. ASSUME NEW k \in FaultKind, Fault(k)
      PROVE  /\ faults' \in Seq(FaultKind)
             /\ Happened("panic") => Happened("panic")'
  <2>1. faults' = Append(faults, k)
    BY <1>2 DEF Fault
  <2>2. DOMAIN faults \subseteq DOMAIN faults' /\ \A i \in DOMAIN faults : faults'[i] = faults[i]
    BY <2>1
  <2>3. QED
    BY <2>1, <2>2 DEF Happened
<1>3. QED
  BY <1>1, <1>2

\* A panic has happened once it is one of the faults.
LEMMA PanicHappens ==
  ASSUME faults \in Seq(FaultKind), Fault("panic")
  PROVE  Happened("panic")'
<1>1. /\ faults' = Append(faults, "panic") /\ "panic" \in FaultKind
  BY DEF Fault
<1>2. Len(faults) + 1 \in DOMAIN faults' /\ faults'[Len(faults) + 1] = "panic"
  BY <1>1
<1>3. QED
  BY <1>2 DEF Happened

\* A panic later on takes nothing from a row.
LEMMA RowStays ==
  ASSUME NEW s \in Sub, NEW r, NEW p \in BOOLEAN, NEW q \in BOOLEAN, p => q, RowInv(s, r, p)
  PROVE  RowInv(s, r, q)
BY DEF RowInv, IsJudged

\* The stream has lost nothing but rights to judge.
Fewer ==
  /\ stream' \in Seq(SubEntry)
  /\ \A i \in DOMAIN stream' : /\ i \in DOMAIN stream
                               /\ stream'[i].job = stream[i].job
                               /\ stream'[i].state = "new" => stream[i].state = "new"

\* XACK hands out no message again.
LEMMA AckIsFewer ==
  ASSUME StreamInv, NEW m, UNCHANGED stream \/ Ack(m)
  PROVE  Fewer
<1>1. CASE UNCHANGED stream
  BY <1>1 DEF StreamInv, Fewer
<1>2. CASE Ack(m)
  <2>1. ASSUME NEW i \in DOMAIN stream
        PROVE  /\ stream'[i] \in SubEntry
               /\ stream'[i].job = stream[i].job
               /\ stream'[i].state = "new" => stream[i].state = "new"
    <3>1. stream[i] \in SubEntry
      BY DEF StreamInv
    <3>2. stream'[i] = IF i = m THEN [stream[i] EXCEPT !.state = "acked"] ELSE stream[i]
      BY <1>2 DEF Ack
    <3>3. QED
      BY <3>1, <3>2 DEF SubEntry
  <2>2. DOMAIN stream' = DOMAIN stream
    BY <1>2 DEF Ack
  <2>3. stream' \in Seq(SubEntry)
    BY <1>2, <2>1, <2>2 DEF StreamInv, Ack
  <2>4. QED
    BY <2>1, <2>2, <2>3 DEF Fewer
<1>3. QED
  BY <1>1, <1>2

\* Judge in worker w goes on to u, and may write its row: the others, who judge
\* other submissions, do not notice.
LEMMA JudgeGoesOn ==
  ASSUME JudgeInv, NEW w \in Worker, NEW u, jw' = [jw EXCEPT ![w] = u], LocalInv(u),
         u.pc \in AtRest \/ (jw[w].pc \notin AtRest /\ u.sub = jw[w].sub),
         UNCHANGED req, Fewer,
         UNCHANGED faults \/ \E k \in FaultKind : Fault(k),
         submissions' \in [Sub -> SubRow],
         \A s \in Sub : submissions'[s] = submissions[s]
                        \/ (Has(w, s) /\ RowInv(s, submissions'[s], Happened("panic")')),
         u.pc \notin AtRest => CopyInv(u, submissions'[u.sub])
  PROVE  JudgeInv'
<1>0. faults' \in Seq(FaultKind) /\ (Happened("panic") => Happened("panic")')
  BY FaultsRemembered DEF JudgeInv
<1>1. RowsInv'
  <2>1. Happened("panic") \in BOOLEAN /\ Happened("panic")' \in BOOLEAN
    BY DEF Happened
  <2>2. QED
    BY <1>0, <2>1, RowStays DEF JudgeInv, RowsInv
<1>2. /\ jw' \in [Worker -> JudgeLocal] /\ jw'[w] = u
      /\ \A v \in Worker : v # w => jw'[v] = jw[v]
      /\ \A v \in Worker : LocalInv(jw'[v])
  BY DEF JudgeInv, WorkersInv, LocalInv
<1>3. \A s \in Sub, v \in Worker : Has(v, s)' => Has(v, s)
  BY <1>2 DEF Has
<1>4. \A s \in Sub : \A i : Waiting(i, s)' => Waiting(i, s)
  BY DEF Fewer, Waiting
<1>5. ASSUME NEW s \in Sub PROVE OnceInv(s)' /\ BeforeInv(s)'
  <2>1. OnceInv(s) /\ BeforeInv(s)
    BY DEF JudgeInv
  <2>2. OnceInv(s)'
    BY <2>1, <1>3, <1>4 DEF OnceInv, Fewer
  <2>3. CASE submissions'[s] = submissions[s]
    BY <2>1, <2>2, <2>3, <1>4 DEF BeforeInv, Fewer
  <2>4. CASE Has(w, s)
    BY <2>1, <2>2, <2>4, <1>4 DEF BeforeInv, OnceInv, Fewer
  <2>5. QED
    BY <2>3, <2>4, <2>2
<1>6. ASSUME NEW v \in Worker, jw'[v].pc \notin AtRest PROVE CopyInv(jw'[v], submissions'[jw'[v].sub])
  <2>1. CASE v = w
    BY <1>2, <1>6, <2>1
  <2>2. CASE v # w
    <3> DEFINE s == jw[v].sub
    <3>1. jw'[v] = jw[v] /\ s \in Sub /\ Has(v, s)
      BY <1>2, <1>6, <2>2 DEF JudgeInv, WorkersInv, LocalInv, Has
    <3>2. ~ Has(w, s)
      BY <3>1, <2>2 DEF JudgeInv, OnceInv
    <3>3. QED
      BY <3>1, <3>2, <1>6 DEF JudgeInv, WorkersInv
  <2>3. QED
    BY <2>1, <2>2
<1>7. QED
  BY <1>0, <1>1, <1>2, <1>5, <1>6 DEF JudgeInv, WorkersInv, StreamInv, ReqInv, Fewer

\* The same when the row is left alone.
LEMMA JudgeMoves ==
  ASSUME JudgeInv, NEW w \in Worker, NEW u, Step(w, u), LocalInv(u),
         u.pc \in AtRest \/ (jw[w].pc \notin AtRest /\ u.sub = jw[w].sub),
         UNCHANGED <<req, submissions>>, UNCHANGED stream \/ \E m \in Nat : Ack(m),
         UNCHANGED faults \/ \E k \in FaultKind : Fault(k),
         u.pc \notin AtRest => CopyInv(u, submissions[u.sub])
  PROVE  JudgeInv'
<1>1. Fewer
  BY AckIsFewer DEF JudgeInv
<1>2. submissions' \in [Sub -> SubRow] /\ submissions' = submissions
  BY DEF JudgeInv, RowsInv
<1>3. QED
  BY <1>1, <1>2, JudgeGoesOn DEF Step

\* What a worker that judges knows.
LEMMA AtWork ==
  ASSUME JudgeInv, NEW w \in Worker
  PROVE  /\ LocalInv(jw[w]) /\ jw[w] \in JudgeLocal
         /\ jw[w].pc \notin AtRest =>
              /\ jw[w].sub \in Sub /\ Has(w, jw[w].sub)
              /\ CopyInv(jw[w], submissions[jw[w].sub])
              /\ submissions \in [Sub -> SubRow] /\ submissions[jw[w].sub] \in SubRow
BY DEF JudgeInv, WorkersInv, LocalInv, RowsInv, Has

\* The rows of the table are rows.
LEMMA RowTypes ==
  /\ NoRow \in SubRow /\ NewRow \in SubRow
  /\ \A v \in Verdict, n \in Nat, t \in Nat : Copy(v, n, t) \in SubRow /\ Judged(v, n, t) \in SubRow
BY DEF NoRow, NewRow, Submission, SubRow, Copy, Judged, Verdict

\* A worker at rest holds nothing.
LEMMA RestTypes ==
  /\ LocalInv(Idle) /\ Idle.pc = "idle"
  /\ LocalInv([Idle EXCEPT !.pc = "stopped"]) /\ [Idle EXCEPT !.pc = "stopped"].pc = "stopped"
BY RowTypes DEF LocalInv, Idle, JudgeLocal, AtRest

\* Back for the next message.
LEMMA ReturnStep ==
  ASSUME JudgeInv, NEW w \in Worker, Return(w),
         UNCHANGED <<req, submissions>>, UNCHANGED stream \/ \E m \in Nat : Ack(m),
         UNCHANGED faults \/ \E k \in FaultKind : Fault(k)
  PROVE  JudgeInv'
<1>1. CASE Step(w, Idle)
  BY <1>1, RestTypes, JudgeMoves DEF AtRest
<1>2. CASE Step(w, [Idle EXCEPT !.pc = "stopped"])
  BY <1>2, RestTypes, JudgeMoves DEF AtRest
<1>3. QED
  BY <1>1, <1>2 DEF Return

\* Judge leaves with a verdict that the tests bear out.
LEMMA LeaveStep ==
  ASSUME JudgeInv, NEW w \in Worker, NEW v \in Verdict \ {"PENDING"},
         jw[w].pc \in {"load", "compile", "test"}, Leave(w, v),
         Bears(jw[w].sub, v, jw[w].row.passed, jw[w].row.total),
         UNCHANGED <<req, submissions, stream>>,
         UNCHANGED faults \/ \E k \in FaultKind : Fault(k)
  PROVE  JudgeInv'
<1> DEFINE u == [jw[w] EXCEPT !.row.verdict = v, !.pc = "finalize"]
           n == jw[w].row.passed
           t == jw[w].row.total
<1>1. /\ jw[w] \in JudgeLocal /\ jw[w].pc \notin AtRest /\ jw[w].sub \in Sub
      /\ CopyInv(jw[w], submissions[jw[w].sub])
  BY AtWork DEF AtRest
<1>2. jw[w].row \in SubRow /\ n \in Nat /\ t \in Nat
  BY <1>1 DEF JudgeLocal, SubRow
<1>3. jw[w].row = Copy("PENDING", n, t) /\ Open(submissions[jw[w].sub])
  BY <1>1, <1>2 DEF CopyInv, Copy
<1>4. u.row = Copy(v, n, t) /\ u.pc = "finalize" /\ u.sub = jw[w].sub
  BY <1>1, <1>2, <1>3 DEF JudgeLocal, Copy
<1>5. LocalInv(u)
  <2>1. [jw[w].row EXCEPT !.verdict = v] \in SubRow
    BY <1>2 DEF SubRow
  <2>2. QED
    BY <1>1, <1>4, <2>1 DEF LocalInv, JudgeLocal, JudgePC
<1>6. CopyInv(u, submissions[u.sub])
  BY <1>2, <1>3, <1>4 DEF CopyInv
<1>7. QED
  BY <1>1, <1>4, <1>5, <1>6, JudgeMoves DEF Leave

\* Judge turns to test n, or accepts after the last.
LEMMA TestsStep ==
  ASSUME JudgeInv, NEW w \in Worker, NEW r \in JudgeLocal, NEW n \in Nat,
         jw[w].pc \in {"compile", "test"}, r.sub = jw[w].sub,
         n <= NumTests[jw[w].sub], r.row = Copy("PENDING", n, NumTests[jw[w].sub]),
         Step(w, Tests(w, r, n)), UNCHANGED <<req, submissions, stream, faults>>
  PROVE  JudgeInv'
<1> DEFINE s == jw[w].sub
           N == NumTests[s]
           u == Tests(w, r, n)
<1>1. /\ jw[w].pc \notin AtRest /\ s \in Sub /\ Open(submissions[s])
  BY AtWork DEF AtRest, CopyInv
<1>2. N \in Nat
  BY <1>1, JudgeConstants
<1>3. r.row \in SubRow
  BY DEF JudgeLocal
<1>4. CASE n = N
  <2>1. u = [r EXCEPT !.tc = n, !.row.verdict = "ACCEPTED", !.pc = "analyze"]
    BY <1>4 DEF Tests
  <2>2. /\ u.row = Copy("ACCEPTED", N, N) /\ u.pc = "analyze" /\ u.sub = s /\ u.tc = n
    BY <1>3, <1>4, <2>1 DEF JudgeLocal, Copy
  <2>3. LocalInv(u)
    <3>1. [r.row EXCEPT !.verdict = "ACCEPTED"] \in SubRow
      BY <1>3 DEF SubRow, Verdict
    <3>2. QED
      BY <1>1, <2>1, <2>2, <3>1 DEF LocalInv, JudgeLocal, JudgePC
  <2>4. CopyInv(u, submissions[u.sub])
    BY <1>1, <2>2 DEF CopyInv
  <2>5. QED
    BY <1>1, <2>2, <2>3, <2>4, JudgeMoves
<1>5. CASE n # N
  <2>1. u = [r EXCEPT !.tc = n, !.pc = "test"]
    BY <1>5 DEF Tests
  <2>2. /\ u.row = r.row /\ u.pc = "test" /\ u.sub = s /\ u.tc = n
    BY <2>1 DEF JudgeLocal
  <2>3. LocalInv(u)
    BY <1>1, <2>1, <2>2 DEF LocalInv, JudgeLocal, JudgePC
  <2>4. CopyInv(u, submissions[u.sub])
    BY <1>1, <1>2, <1>5, <2>2 DEF CopyInv
  <2>5. QED
    BY <1>1, <2>2, <2>3, <2>4, JudgeMoves
<1>6. QED
  BY <1>4, <1>5

\* What the deferred function of Judge writes back.
LEMMA FinalizedCopy ==
  ASSUME NEW v \in Verdict, NEW n \in Nat, NEW t \in Nat
  PROVE  Finalized(Copy(v, n, t)) = Judged(v, n, t)
<1> DEFINE c == Copy(v, n, t)
<1>1. c \in SubRow /\ c.status = "RUNNING" /\ c.verdict = v /\ c.passed = n /\ c.total = t
  BY RowTypes DEF Copy
<1> HIDE DEF c
<1>2. /\ Finalized(c) \in SubRow
      /\ Finalized(c).status = "COMPLETED" /\ Finalized(c).verdict = v
      /\ Finalized(c).passed = n /\ Finalized(c).total = t /\ Finalized(c).completedAt = "set"
  BY <1>1 DEF Finalized, SubRow
<1>3. Finalized(c) = Judged(v, n, t)
  BY <1>2 DEF Judged, SubRow
<1>4. QED
  BY <1>3 DEF c

\* The deferred function writes the row of w back, and w goes on to u.
LEMMA FinalizeStep ==
  ASSUME JudgeInv, NEW w \in Worker, NEW u, NEW v \in Verdict, NEW n \in Nat, NEW t \in Nat,
         jw[w].pc \notin AtRest, jw[w].row = Copy(v, n, t), Bears(jw[w].sub, v, n, t),
         v # "PENDING" \/ Happened("panic")',
         submissions' = [submissions EXCEPT ![jw[w].sub] = Finalized(jw[w].row)],
         Step(w, u), LocalInv(u), u.pc \in AtRest \/ (u.pc = "ack" /\ u.sub = jw[w].sub),
         UNCHANGED <<req, stream>>, UNCHANGED faults \/ \E k \in FaultKind : Fault(k)
  PROVE  JudgeInv'
<1> DEFINE s == jw[w].sub
<1>1. s \in Sub /\ Has(w, s) /\ submissions \in [Sub -> SubRow]
  BY AtWork
<1>2. Finalized(jw[w].row) = Judged(v, n, t)
  BY FinalizedCopy
<1>3. /\ submissions' \in [Sub -> SubRow] /\ submissions'[s] = Judged(v, n, t)
      /\ \A k \in Sub : k # s => submissions'[k] = submissions[k]
  BY <1>1, <1>2, RowTypes
<1>4. RowInv(s, Judged(v, n, t), Happened("panic")')
  BY DEF RowInv, IsJudged
<1>5. \A k \in Sub : submissions'[k] = submissions[k]
                     \/ (Has(w, k) /\ RowInv(k, submissions'[k], Happened("panic")'))
  BY <1>1, <1>3, <1>4
<1>6. Fewer
  BY AckIsFewer DEF JudgeInv
<1>7. u.pc \notin AtRest => CopyInv(u, submissions'[u.sub])
  BY DEF CopyInv
<1>8. QED
  BY <1>1, <1>3, <1>5, <1>6, <1>7, JudgeGoesOn DEF Step

-----------------------------------------------------------------------------
(* The steps of Judge *)

LEMMA StartSteps ==
  ASSUME JudgeInv, NEW w \in Worker,
         GetSubmission(w) \/ MarkSubmissionRunning(w) \/ LoadProblem(w)
  PROVE  JudgeInv'
<1> DEFINE s == jw[w].sub
           c == Copy("PENDING", 0, 0)
<1>0. /\ jw[w] \in JudgeLocal
      /\ jw[w].pc \notin AtRest => /\ s \in Sub /\ Has(w, s) /\ CopyInv(jw[w], submissions[s])
                                   /\ submissions \in [Sub -> SubRow]
  BY AtWork
<1>1. c \in SubRow
  BY RowTypes DEF Verdict
<1>2. CASE GetSubmission(w)
  <2> DEFINE u == [jw[w] EXCEPT !.pc = "update", !.row = [submissions[s] EXCEPT !.status = "RUNNING"]]
  <2>1. jw[w].pc \notin AtRest /\ submissions[s] = NewRow
    BY <1>0, <1>2 DEF GetSubmission, At, AtRest, CopyInv
  <2>2. [NewRow EXCEPT !.status = "RUNNING"] = c
    BY DEF NewRow, Submission, Copy
  <2>3. u \in JudgeLocal /\ u.pc = "update" /\ u.row = c /\ u.sub = s
    BY <1>0, <1>1, <2>1, <2>2 DEF JudgeLocal, JudgePC
  <2>4. LocalInv(u) /\ CopyInv(u, submissions[u.sub])
    BY <1>0, <2>1, <2>3 DEF LocalInv, CopyInv
  <2>5. QED
    BY <1>2, <2>1, <2>3, <2>4, JudgeMoves DEF GetSubmission, LocalToWorker
<1>3. CASE MarkSubmissionRunning(w)
  <2> DEFINE u == [jw[w] EXCEPT !.pc = "load"]
  <2>1. jw[w].pc \notin AtRest /\ submissions[s] = NewRow /\ jw[w].row = c
    BY <1>0, <1>3 DEF MarkSubmissionRunning, At, AtRest, CopyInv
  <2>2. u \in JudgeLocal /\ u.pc = "load" /\ u.row = c /\ u.sub = s
    BY <1>0, <2>1 DEF JudgeLocal, JudgePC
  <2>3. /\ submissions' \in [Sub -> SubRow]
        /\ \A k \in Sub : k # s => submissions'[k] = submissions[k]
        /\ submissions'[s] = submissions[s] \/ submissions'[s] = c
    BY <1>0, <1>1, <1>3, <2>1 DEF MarkSubmissionRunning, Overwritten
  <2>4. Open(submissions'[s])
    BY <2>1, <2>3 DEF Open
  <2>5. /\ LocalInv(u) /\ CopyInv(u, submissions'[u.sub])
    BY <1>0, <2>1, <2>2, <2>4 DEF LocalInv, CopyInv
  <2>6. \A k \in Sub : submissions'[k] = submissions[k]
                       \/ (Has(w, k) /\ RowInv(k, submissions'[k], Happened("panic")'))
    BY <1>0, <2>1, <2>3, <2>4 DEF RowInv
  <2>7. Fewer
    BY <1>3, AckIsFewer DEF MarkSubmissionRunning, JudgeInv
  <2>8. QED
    BY <1>3, <2>1, <2>2, <2>3, <2>5, <2>6, <2>7, JudgeGoesOn
    DEF MarkSubmissionRunning, LocalToWorker, Step
<1>4. CASE LoadProblem(w)
  <2> DEFINE u == [jw[w] EXCEPT !.pc = "compile", !.row.total = NumTests[s]]
  <2>1. jw[w].pc \notin AtRest /\ Open(submissions[s]) /\ jw[w].row = c
    BY <1>0, <1>4 DEF LoadProblem, At, AtRest, CopyInv
  <2>2. NumTests[s] \in Nat
    BY <1>0, <2>1, JudgeConstants
  <2>3. [c EXCEPT !.total = NumTests[s]] = Copy("PENDING", 0, NumTests[s])
    BY DEF Copy
  <2>4. Copy("PENDING", 0, NumTests[s]) \in SubRow
    BY <2>2, RowTypes DEF Verdict
  <2>5. u \in JudgeLocal /\ u.pc = "compile" /\ u.row = Copy("PENDING", 0, NumTests[s]) /\ u.sub = s
    BY <1>0, <2>1, <2>3, <2>4 DEF JudgeLocal, JudgePC
  <2>6. LocalInv(u) /\ CopyInv(u, submissions[u.sub])
    BY <1>0, <2>1, <2>5 DEF LocalInv, CopyInv
  <2>7. QED
    BY <1>4, <2>1, <2>5, <2>6, JudgeMoves DEF LoadProblem, LocalToWorker
<1>5. QED
  BY <1>2, <1>3, <1>4

\* The steps of Judge between its two statements keep the invariant.
LEMMA TestSteps ==
  ASSUME JudgeInv, NEW w \in Worker,
         \/ PrepareFails(w) \/ ProgramRefused(w) \/ CompileProgram(w)
         \/ RunTest(w) \/ ContainerFails(w) \/ Analyze(w)
  PROVE  JudgeInv'
<1> DEFINE s == jw[w].sub
           N == NumTests[s]
<1>0. /\ jw[w] \in JudgeLocal
      /\ jw[w].pc \notin AtRest => s \in Sub /\ CopyInv(jw[w], submissions[s]) /\ N \in Nat
  BY AtWork, JudgeConstants
<1>1. \A v \in {"INTERNAL_ERROR", "COMPILATION_ERROR"} :
        v \in Verdict \ {"PENDING"} /\ Bears(s, v, jw[w].row.passed, jw[w].row.total)
  BY DEF Verdict, Bears
<1>2. CASE PrepareFails(w) \/ ProgramRefused(w) \/ ContainerFails(w)
  BY <1>1, <1>2, LeaveStep DEF PrepareFails, ProgramRefused, ContainerFails, At, LocalToWorker
<1>3. CASE CompileProgram(w)
  <2>1. jw[w].pc = "compile"
    BY <1>3 DEF CompileProgram, At
  <2>2. jw[w].row = Copy("PENDING", 0, N) /\ 0 <= N
    BY <1>0, <2>1 DEF CopyInv, AtRest
  <2>3. CASE Leave(w, "COMPILATION_ERROR")
    BY <1>1, <1>3, <2>1, <2>3, LeaveStep DEF CompileProgram, LocalToWorker
  <2>4. CASE Step(w, Tests(w, jw[w], 0))
    BY <1>0, <1>3, <2>1, <2>2, <2>4, TestsStep DEF CompileProgram, LocalToWorker
  <2>5. QED
    BY <1>3, <2>3, <2>4 DEF CompileProgram
<1>4. CASE RunTest(w)
  <2> DEFINE n == jw[w].tc
  <2>1. jw[w].pc = "test" /\ UNCHANGED <<req, submissions, stream, faults>>
    BY <1>4 DEF RunTest, At, LocalToWorker
  <2>2. /\ jw[w].row = Copy("PENDING", n, N) /\ n < N /\ n \in Nat
        /\ jw[w].row.passed = n /\ jw[w].row.total = N
    BY <1>0, <2>1 DEF CopyInv, AtRest, JudgeLocal, Copy
  <2>3. ASSUME NEW o \in TestOutcome \ {"matches"}, Leave(w, VerdictOf(o)) PROVE JudgeInv'
    <3>1. VerdictOf(o) \in Verdict \ {"PENDING"} /\ VerdictOf(o) # "ACCEPTED"
      BY DEF TestOutcome, VerdictOf, Verdict
    <3>2. Bears(s, VerdictOf(o), jw[w].row.passed, jw[w].row.total)
      BY <2>2, <3>1 DEF Bears
    <3>3. QED
      BY <2>1, <2>3, <3>1, <3>2, LeaveStep
  <2>4. CASE Step(w, Tests(w, [jw[w] EXCEPT !.row.passed = @ + 1], n + 1))
    <3> DEFINE r == [jw[w] EXCEPT !.row.passed = @ + 1]
    <3>1. jw[w].row \in SubRow
      BY <1>0 DEF JudgeLocal
    <3>2. [jw[w].row EXCEPT !.passed = jw[w].row.passed + 1] \in SubRow
      BY <2>2, <3>1 DEF SubRow
    <3>3. r \in JudgeLocal /\ r.sub = s
      BY <1>0, <3>2 DEF JudgeLocal
    <3>4. r.row = [jw[w].row EXCEPT !.passed = jw[w].row.passed + 1]
      BY <1>0 DEF JudgeLocal
    <3>5. [Copy("PENDING", n, N) EXCEPT !.passed = n + 1] = Copy("PENDING", n + 1, N)
      BY DEF Copy
    <3>6. r.row = Copy("PENDING", n + 1, N)
      BY <2>2, <3>4, <3>5
    <3>7. n + 1 \in Nat /\ n + 1 <= N
      BY <1>0, <2>1, <2>2 DEF AtRest
    <3>8. QED
      BY <2>1, <2>4, <3>3, <3>6, <3>7, TestsStep
  <2>5. QED
    BY <1>4, <2>3, <2>4 DEF RunTest
<1>5. CASE Analyze(w)
  <2> DEFINE u == [jw[w] EXCEPT !.pc = "finalize"]
  <2>1. jw[w].pc = "analyze" /\ jw[w].pc \notin AtRest
    BY <1>5 DEF Analyze, At, AtRest
  <2>2. /\ u \in JudgeLocal /\ u.pc = "finalize" /\ u.sub = s /\ u.row = Copy("ACCEPTED", N, N)
        /\ Open(submissions[s])
    BY <1>0, <2>1 DEF JudgeLocal, JudgePC, CopyInv
  <2>3. "ACCEPTED" \in Verdict \ {"PENDING"} /\ Bears(s, "ACCEPTED", N, N)
    BY DEF Verdict, Bears
  <2>4. LocalInv(u) /\ CopyInv(u, submissions[u.sub])
    BY <1>0, <2>1, <2>2, <2>3 DEF LocalInv, CopyInv
  <2>5. QED
    BY <1>5, <2>1, <2>2, <2>4, JudgeMoves DEF Analyze, LocalToWorker
<1>6. QED
  BY <1>2, <1>3, <1>4, <1>5

\* On to the acknowledgement, whatever came before.
LEMMA ToAck ==
  ASSUME JudgeInv, NEW w \in Worker, jw[w].pc \notin AtRest
  PROVE  LET u == [jw[w] EXCEPT !.pc = "ack"] IN
           LocalInv(u) /\ u.pc = "ack" /\ u.sub = jw[w].sub /\ CopyInv(u, submissions[u.sub])
BY AtWork DEF LocalInv, JudgeLocal, JudgePC, CopyInv

\* The write-back, the acknowledgement and a restart keep the invariant.
LEMMA EndSteps ==
  ASSUME JudgeInv, NEW w \in Worker, Finalize(w) \/ AckSubmission(w) \/ Restart(w)
  PROVE  JudgeInv'
<1> DEFINE u == [jw[w] EXCEPT !.pc = "ack"]
<1>1. CASE Finalize(w)
  <2>1. jw[w].pc = "finalize" /\ jw[w].pc \notin AtRest
    BY <1>1 DEF Finalize, At, AtRest
  <2>2. PICK v \in Verdict \ {"PENDING"}, n \in Nat, t \in Nat :
          jw[w].row = Copy(v, n, t) /\ Bears(jw[w].sub, v, n, t)
    BY <2>1, AtWork DEF CopyInv
  <2>3. LocalInv(u) /\ u.pc = "ack" /\ u.sub = jw[w].sub
    BY <2>1, ToAck
  <2>4. QED
    BY <1>1, <2>1, <2>2, <2>3, FinalizeStep DEF Finalize, LocalToWorker
<1>2. CASE AckSubmission(w)
  <2>1. jw[w].msg \in Nat
    BY AtWork DEF JudgeLocal
  <2>2. QED
    BY <1>2, <2>1, ReturnStep DEF AckSubmission, LocalToWorker
<1>3. CASE Restart(w)
  BY <1>3, RestTypes, JudgeMoves DEF Restart, LocalToWorker, AtRest
<1>4. QED
  BY <1>1, <1>2, <1>3

\* A query that fails before the program is prepared keeps the invariant.
LEMMA QueryStep ==
  ASSUME JudgeInv, NEW w \in Worker, QueryFailed(w), UNCHANGED req,
         UNCHANGED faults \/ \E k \in FaultKind : Fault(k)
  PROVE  JudgeInv'
<1>1. CASE At(w, "get") /\ Step(w, [jw[w] EXCEPT !.pc = "ack"])
  <2>1. jw[w].pc \notin AtRest
    BY <1>1 DEF At, AtRest
  <2>2. QED
    BY <1>1, <2>1, ToAck, JudgeMoves DEF QueryFailed
<1>2. CASE At(w, "load") /\ Leave(w, "INTERNAL_ERROR")
  <2>1. /\ "INTERNAL_ERROR" \in Verdict \ {"PENDING"}
        /\ Bears(jw[w].sub, "INTERNAL_ERROR", jw[w].row.passed, jw[w].row.total)
    BY DEF Verdict, Bears
  <2>2. QED
    BY <1>2, <2>1, LeaveStep DEF QueryFailed, At
<1>3. QED
  BY <1>1, <1>2 DEF QueryFailed

\* The faults keep the invariant.
LEMMA FaultSteps ==
  ASSUME JudgeInv, NEW w \in Worker,
         JudgeCallFails(w) \/ JudgePanics(w) \/ CancelPool(w) \/ Crash(w)
  PROVE  JudgeInv'
<1> DEFINE s == jw[w].sub
<1>0. \E k \in FaultKind : Fault(k)
  BY DEF JudgeCallFails, JudgePanics, CancelPool, Crash, Fault
<1>1. CASE JudgeCallFails(w)
  <2>1. CASE QueryFailed(w)
    BY <1>0, <1>1, <2>1, QueryStep DEF JudgeCallFails
  <2>2. CASE /\ At(w, "update") /\ Step(w, [jw[w] EXCEPT !.pc = "load"])
             /\ UNCHANGED <<stream, submissions>>
    <3> DEFINE u == [jw[w] EXCEPT !.pc = "load"]
    <3>1. jw[w].pc \notin AtRest /\ jw[w].pc = "update"
      BY <2>2 DEF At, AtRest
    <3>2. /\ LocalInv(jw[w]) /\ jw[w] \in JudgeLocal /\ s \in Sub
          /\ jw[w].row = Copy("PENDING", 0, 0) /\ Open(submissions[s])
      BY <3>1, AtWork DEF CopyInv, Open
    <3>3. u \in JudgeLocal /\ u.pc = "load" /\ u.sub = s /\ u.row = jw[w].row
      BY <3>2 DEF JudgeLocal, JudgePC
    <3>4. LocalInv(u) /\ CopyInv(u, submissions[u.sub])
      BY <3>2, <3>3 DEF LocalInv, CopyInv
    <3>5. QED
      BY <1>0, <1>1, <2>2, <3>1, <3>3, <3>4, JudgeMoves DEF JudgeCallFails
  <2>3. CASE /\ At(w, "finalize") /\ Step(w, [jw[w] EXCEPT !.pc = "ack"])
             /\ UNCHANGED <<stream, submissions>>
    <3>1. jw[w].pc \notin AtRest
      BY <2>3 DEF At, AtRest
    <3>2. QED
      BY <1>0, <1>1, <2>3, <3>1, ToAck, JudgeMoves DEF JudgeCallFails
  <2>4. CASE At(w, "ack") /\ Return(w) /\ UNCHANGED <<stream, submissions>>
    BY <1>0, <1>1, <2>4, ReturnStep DEF JudgeCallFails
  <2>5. QED
    BY <1>1, <2>1, <2>2, <2>3, <2>4 DEF JudgeCallFails
<1>2. CASE JudgePanics(w)
  <2>1. Happened("panic")'
    BY <1>2, PanicHappens DEF JudgePanics, JudgeInv
  <2>2. jw[w].pc \notin AtRest /\ jw[w].pc \in {"load", "compile", "test", "analyze"}
    BY <1>2 DEF JudgePanics, AtRest
  <2>3. /\ s \in Sub /\ jw[w] \in JudgeLocal /\ CopyInv(jw[w], submissions[s])
        /\ NumTests[s] \in Nat
    BY <2>2, AtWork, JudgeConstants
  <2>4. \E v \in Verdict, n \in Nat, t \in Nat : jw[w].row = Copy(v, n, t) /\ Bears(s, v, n, t)
    <3>1. CASE jw[w].pc = "load"
      BY <2>3, <3>1 DEF CopyInv, Verdict, Bears
    <3>2. CASE jw[w].pc = "compile"
      BY <2>3, <3>2 DEF CopyInv, Verdict, Bears
    <3>3. CASE jw[w].pc = "test"
      BY <2>3, <3>3 DEF CopyInv, Verdict, Bears, JudgeLocal
    <3>4. CASE jw[w].pc = "analyze"
      BY <2>3, <3>4 DEF CopyInv, Verdict, Bears
    <3>5. QED
      BY <2>2, <3>1, <3>2, <3>3, <3>4
  <2>5. PICK v \in Verdict, n \in Nat, t \in Nat : jw[w].row = Copy(v, n, t) /\ Bears(s, v, n, t)
    BY <2>4
  <2>6. PICK u : Step(w, u) /\ LocalInv(u) /\ u.pc \in AtRest
    BY <1>2, RestTypes DEF JudgePanics, Return, AtRest
  <2>7. QED
    BY <1>0, <1>2, <2>1, <2>2, <2>5, <2>6, FinalizeStep DEF JudgePanics
<1>3. CASE CancelPool(w)
  <2> DEFINE u == [jw[w] EXCEPT !.ctx = "cancelled"]
  <2>1. jw[w].pc \notin AtRest
    BY <1>3 DEF CancelPool, AtRest
  <2>2. /\ LocalInv(jw[w]) /\ jw[w] \in JudgeLocal /\ s \in Sub /\ CopyInv(jw[w], submissions[s])
    BY <2>1, AtWork
  <2>3. /\ u \in JudgeLocal /\ u.pc = jw[w].pc /\ u.sub = s /\ u.row = jw[w].row
        /\ u.tc = jw[w].tc
    BY <2>2 DEF JudgeLocal
  <2>4. LocalInv(u) /\ CopyInv(u, submissions[u.sub])
    BY <2>2, <2>3 DEF LocalInv, CopyInv
  <2>5. QED
    BY <1>0, <1>3, <2>1, <2>3, <2>4, JudgeMoves DEF CancelPool
<1>4. CASE Crash(w)
  BY <1>0, <1>4, RestTypes, JudgeMoves DEF Crash, AtRest
<1>5. QED
  BY <1>1, <1>2, <1>3, <1>4

\* The right to judge passes from the message to the worker that consumes it.
LEMMA ConsumeStep ==
  ASSUME JudgeInv, NEW w \in Worker, Consume(w)
  PROVE  JudgeInv'
<1>0. UNCHANGED <<req, faults, submissions>> /\ jw[w].pc = "idle"
  BY DEF Consume, LocalToWorker, At
<1>1. PICK m \in DOMAIN stream :
        /\ IsNext(m) /\ HandOut(m)
        /\ Step(w, [Idle EXCEPT !.pc = "get", !.msg = m, !.sub = stream[m].job])
  BY DEF Consume
<1> DEFINE s == stream[m].job
           a == [Idle EXCEPT !.pc = "get"]
           b == [a EXCEPT !.msg = m]
           u == [b EXCEPT !.sub = s]
<1>2. /\ stream[m] \in SubEntry /\ m \in Nat /\ stream \in Seq(SubEntry)
      /\ stream[m].state = "new"
  BY <1>1 DEF JudgeInv, StreamInv, IsNext
<1>3. s \in Sub /\ Waiting(m, s)
  BY <1>1, <1>2 DEF SubEntry, Waiting
<1>4. /\ u = [Idle EXCEPT !.pc = "get", !.msg = m, !.sub = s]
  BY DEF Idle
<1>5. LocalInv(u) /\ u.pc = "get" /\ u.sub = s
  <2>1. Idle \in JudgeLocal
    BY RestTypes DEF LocalInv
  <2>2. a \in JudgeLocal /\ a.pc = "get"
    BY <2>1 DEF JudgeLocal, JudgePC
  <2>3. b \in JudgeLocal /\ b.pc = "get"
    BY <2>2, <1>2 DEF JudgeLocal
  <2>4. QED
    BY <2>3, <1>3 DEF JudgeLocal, LocalInv
<1> HIDE DEF u
<1>6. /\ jw' = [jw EXCEPT ![w] = u] /\ jw' \in [Worker -> JudgeLocal] /\ jw'[w] = u
      /\ \A v \in Worker : v # w => jw'[v] = jw[v]
      /\ \A v \in Worker : LocalInv(jw'[v])
  BY <1>1, <1>4, <1>5 DEF Step, JudgeInv, WorkersInv, LocalInv
<1>7. /\ stream' \in Seq(SubEntry) /\ DOMAIN stream' = DOMAIN stream
      /\ stream'[m].state = "pending"
      /\ \A i \in DOMAIN stream : i # m => stream'[i] = stream[i]
  <2>1. stream' = [stream EXCEPT ![m] = [stream[m] EXCEPT !.state = "pending"]]
    BY <1>1 DEF HandOut
  <2>2. [stream[m] EXCEPT !.state = "pending"] \in SubEntry
    BY <1>2 DEF SubEntry
  <2>3. [stream[m] EXCEPT !.state = "pending"].state = "pending"
    BY <1>2 DEF SubEntry
  <2>4. m \in 1..Len(stream) /\ DOMAIN stream = 1..Len(stream)
    BY <1>2
  <2>5. /\ stream' \in Seq(SubEntry) /\ Len(stream') = Len(stream)
        /\ \A i \in 1..Len(stream) :
             stream'[i] = IF i = m THEN [stream[m] EXCEPT !.state = "pending"] ELSE stream[i]
    BY <1>2, <2>1, <2>2, <2>4, ExceptSeq
  <2>6. DOMAIN stream' = DOMAIN stream
    BY <2>4, <2>5
  <2>7. stream'[m].state = "pending"
    BY <2>3, <2>4, <2>5
  <2>8. \A i \in DOMAIN stream : i # m => stream'[i] = stream[i]
    BY <2>4, <2>5
  <2>9. QED
    BY <2>5, <2>6, <2>7, <2>8
<1>8. \A i, k : Waiting(i, k)' => Waiting(i, k) /\ i # m
  BY <1>7 DEF Waiting
<1>9. \A v \in Worker, k \in Sub : Has(v, k)' => Has(v, k) \/ (v = w /\ k = s)
  BY <1>5, <1>6 DEF Has
<1>10. ~ Has(w, s) /\ submissions[s] = NewRow /\ \A v \in Worker : ~ Has(v, s)
  BY <1>1, <1>3 DEF JudgeInv, OnceInv, BeforeInv
<1>11. ASSUME NEW k \in Sub PROVE OnceInv(k)' /\ BeforeInv(k)'
  <2>1. OnceInv(k) /\ BeforeInv(k)
    BY DEF JudgeInv
  <2>2. CASE k = s
    BY <1>0, <1>1, <1>3, <1>7, <1>8, <1>9, <1>10, <2>1, <2>2 DEF OnceInv, BeforeInv
  <2>3. CASE k # s
    BY <1>0, <1>7, <1>8, <1>9, <2>1, <2>3 DEF OnceInv, BeforeInv
  <2>4. QED
    BY <2>2, <2>3
<1>12. ASSUME NEW v \in Worker, jw'[v].pc \notin AtRest
       PROVE  CopyInv(jw'[v], submissions'[jw'[v].sub])
  <2>1. CASE v = w
    BY <1>0, <1>5, <1>6, <1>10, <2>1 DEF CopyInv
  <2>2. CASE v # w
    BY <1>0, <1>6, <1>12, <2>2 DEF JudgeInv, WorkersInv
  <2>3. QED
    BY <2>1, <2>2
<1>13. RowsInv' /\ ReqInv' /\ faults' \in Seq(FaultKind)
  BY <1>0 DEF JudgeInv, RowsInv, ReqInv, Happened
<1>14. QED
  BY <1>6, <1>7, <1>11, <1>12, <1>13 DEF JudgeInv, WorkersInv, StreamInv

-----------------------------------------------------------------------------
(* Requests and the sweeper *)

\* XADD appends the one new message; what is retained has moved by the same d.
LEMMA Appended ==
  ASSUME StreamInv, NEW s \in Sub, Enqueue(s)
  PROVE  /\ stream' \in Seq(SubEntry)
         /\ \E d \in {0, 1} : \A i \in DOMAIN stream' :
              \/ i = Len(stream') /\ stream'[i].job = s
              \/ i # Len(stream') /\ i + d \in DOMAIN stream /\ stream'[i] = stream[i + d]
<1> DEFINE e == [job |-> s, state |-> "new"]
<1>1. e \in SubEntry /\ e.job = s
  BY DEF SubEntry
<1> HIDE DEF e
<1>2. CASE Len(stream) < MaxLen
  <2>1. stream' = Append(stream, e)
    BY <1>2 DEF Enqueue, e
  <2>2. stream' \in Seq(SubEntry) /\ Len(stream') = Len(stream) + 1
    BY <1>1, <2>1 DEF StreamInv
  <2>3. ASSUME NEW i \in DOMAIN stream'
        PROVE  \/ i = Len(stream') /\ stream'[i].job = s
               \/ i # Len(stream') /\ i + 0 \in DOMAIN stream /\ stream'[i] = stream[i + 0]
    BY <1>1, <2>1, <2>2 DEF StreamInv
  <2>4. QED
    BY <2>2, <2>3
<1>3. CASE ~ (Len(stream) < MaxLen)
  <2>1. stream' = Append(Tail(stream), e) /\ stream # <<>>
    BY <1>3, StreamConstants DEF Enqueue, e, StreamInv
  <2>2. /\ Tail(stream) \in Seq(SubEntry) /\ Len(Tail(stream)) = Len(stream) - 1
        /\ \A i \in 1..(Len(stream) - 1) : Tail(stream)[i] = stream[i + 1]
    BY <2>1 DEF StreamInv
  <2>3. stream' \in Seq(SubEntry) /\ Len(stream') = Len(stream)
    BY <1>1, <2>1, <2>2 DEF StreamInv
  <2>4. ASSUME NEW i \in DOMAIN stream'
        PROVE  \/ i = Len(stream') /\ stream'[i].job = s
               \/ i # Len(stream') /\ i + 1 \in DOMAIN stream /\ stream'[i] = stream[i + 1]
    BY <1>1, <2>1, <2>2, <2>3 DEF StreamInv
  <2>5. QED
    BY <2>3, <2>4
<1>4. QED
  BY <1>2, <1>3

\* Enqueueing hands the right to judge from the request to the message.
LEMMA EnqueueStep ==
  ASSUME JudgeInv, NEW s \in Sub, EnqueueSubmission(s)
  PROVE  JudgeInv'
<1>0. /\ UNCHANGED <<submissions, faults>> /\ req[s] = "stored"
      /\ req \in [Sub -> {"new", "stored", "accepted", "rejected"}]
      /\ req' = [req EXCEPT ![s] = "accepted"]
  BY DEF EnqueueSubmission, JudgeInv, ReqInv
<1>1. stream' \in Seq(SubEntry) /\ stream \in Seq(SubEntry)
  BY Appended DEF EnqueueSubmission, JudgeInv, StreamInv
<1>2. PICK d \in {0, 1} : \A i \in DOMAIN stream' :
         \/ i = Len(stream') /\ stream'[i].job = s
         \/ i # Len(stream') /\ i + d \in DOMAIN stream /\ stream'[i] = stream[i + d]
  BY Appended DEF EnqueueSubmission, JudgeInv
<1>3. ASSUME NEW w \in Worker
      PROVE  /\ jw'[w] \in JudgeLocal /\ jw'[w].pc = jw[w].pc /\ jw'[w].sub = jw[w].sub
             /\ jw'[w].row = jw[w].row /\ jw'[w].tc = jw[w].tc
  <2>1. jw[w] \in JudgeLocal /\ jw[w].msg \in Nat
    BY AtWork DEF JudgeLocal
  <2>2. Shifted(jw[w].msg) \in Nat
    BY <2>1 DEF Shifted
  <2>3. jw'[w] = [jw[w] EXCEPT !.msg = Shifted(jw[w].msg)]
    BY DEF EnqueueSubmission
  <2>4. QED
    BY <2>1, <2>2, <2>3 DEF JudgeLocal
<1>4. WorkersInv'
  <2>1. jw' \in [Worker -> JudgeLocal]
    BY <1>3 DEF EnqueueSubmission
  <2>2. ASSUME NEW w \in Worker PROVE LocalInv(jw'[w])
    BY <1>3, AtWork DEF LocalInv
  <2>3. ASSUME NEW w \in Worker, jw'[w].pc \notin AtRest
        PROVE  CopyInv(jw'[w], submissions'[jw'[w].sub])
    BY <1>0, <1>3, <2>3, AtWork DEF CopyInv
  <2>4. QED
    BY <2>1, <2>2, <2>3 DEF WorkersInv
<1>5. \A w \in Worker, k \in Sub : Has(w, k)' <=> Has(w, k)
  BY <1>3 DEF Has
<1>6. ASSUME NEW k \in Sub PROVE OnceInv(k)' /\ BeforeInv(k)'
  <2>1. OnceInv(k) /\ BeforeInv(k)
    BY DEF JudgeInv
  <2>2. ASSUME NEW i, Waiting(i, k)'
        PROVE  \/ i = Len(stream') /\ k = s
               \/ i # Len(stream') /\ Waiting(i + d, k) /\ i + d \in DOMAIN stream /\ i \in Nat
    BY <1>1, <1>2, <2>2 DEF Waiting
  <2>3. CASE k = s
    <3>1. /\ \A i \in DOMAIN stream : ~ Waiting(i, s)
          /\ \A w \in Worker : ~ Has(w, s)
          /\ submissions[s] = NewRow
      BY <1>0, <2>1, <2>3 DEF OnceInv, BeforeInv
    <3>2. \A i : Waiting(i, s)' => i = Len(stream')
      BY <2>2, <2>3, <3>1
    <3>3. QED
      BY <1>0, <1>5, <2>3, <3>1, <3>2 DEF OnceInv, BeforeInv
  <2>4. CASE k # s
    <3>1. req'[k] = req[k]
      BY <1>0, <2>4
    <3>2. \A i : Waiting(i, k)' => Waiting(i + d, k) /\ i + d \in DOMAIN stream /\ i \in Nat
      BY <2>2, <2>4
    <3>3. \A i, n : Waiting(i, k)' /\ Waiting(n, k)' => i = n
      <4>1. SUFFICES ASSUME NEW i, NEW n, Waiting(i, k)', Waiting(n, k)' PROVE i = n
        OBVIOUS
      <4>2. i + d = n + d /\ i \in Nat /\ n \in Nat
        BY <2>1, <3>2, <4>1 DEF OnceInv
      <4>3. QED
        BY <4>2
    <3>4. QED
      BY <1>0, <1>5, <2>1, <3>1, <3>2, <3>3 DEF OnceInv, BeforeInv
  <2>5. QED
    BY <2>3, <2>4
<1>7. RowsInv' /\ ReqInv' /\ faults' \in Seq(FaultKind)
  BY <1>0 DEF JudgeInv, RowsInv, ReqInv, Happened
<1>8. QED
  BY <1>1, <1>4, <1>6, <1>7 DEF JudgeInv, StreamInv

\* The row of a new request is written, or not; the request goes on to q.
LEMMA StoreStep ==
  ASSUME JudgeInv, NEW s \in Sub, StoreSubmission(s) \/ SubmissionFails(s)
  PROVE  JudgeInv'
<1>0. /\ UNCHANGED <<stream, jw>>
      /\ UNCHANGED faults \/ \E k \in FaultKind : Fault(k)
  BY DEF StoreSubmission, SubmissionFails, Fault
<1>1. faults' \in Seq(FaultKind) /\ (Happened("panic") => Happened("panic")')
  BY <1>0, FaultsRemembered DEF JudgeInv
<1>2. /\ submissions \in [Sub -> SubRow] /\ NewRow \in SubRow
      /\ req \in [Sub -> {"new", "stored", "accepted", "rejected"}]
  BY RowTypes DEF JudgeInv, RowsInv, ReqInv
<1>3. /\ req[s] \in {"new", "stored"} /\ ReqInv'
      /\ \A k \in Sub : k # s => req'[k] = req[k]
      /\ req'[s] \in {"stored", "rejected"}
  BY <1>2 DEF StoreSubmission, SubmissionFails, ReqInv
<1>4. /\ submissions' \in [Sub -> SubRow]
      /\ \A k \in Sub : k # s => submissions'[k] = submissions[k]
      /\ submissions'[s] = NewRow \/ (submissions'[s] = submissions[s] /\ req'[s] = "rejected")
  BY <1>2 DEF StoreSubmission, SubmissionFails
<1>5. RowsInv'
  <2>1. Happened("panic") \in BOOLEAN /\ Happened("panic")' \in BOOLEAN
    BY DEF Happened
  <2>2. \A k \in Sub : RowInv(k, NewRow, Happened("panic")')
    BY DEF RowInv, Open
  <2>3. QED
    BY <1>1, <1>4, <2>1, <2>2, RowStays DEF JudgeInv, RowsInv
<1>6. \A k \in Sub : (\A i : Waiting(i, k)' <=> Waiting(i, k)) /\ (\A w \in Worker : Has(w, k)' <=> Has(w, k))
  BY <1>0 DEF Waiting, Has
<1>7. (\A i \in DOMAIN stream : ~ Waiting(i, s)) /\ (\A w \in Worker : ~ Has(w, s))
  BY <1>3 DEF JudgeInv, OnceInv
<1>8. ASSUME NEW k \in Sub PROVE OnceInv(k)' /\ BeforeInv(k)'
  <2>1. OnceInv(k) /\ BeforeInv(k)
    BY DEF JudgeInv
  <2>2. CASE k = s
    BY <1>0, <1>3, <1>4, <1>6, <1>7, <2>1, <2>2 DEF OnceInv, BeforeInv
  <2>3. CASE k # s
    BY <1>0, <1>3, <1>4, <1>6, <2>1, <2>3 DEF OnceInv, BeforeInv
  <2>4. QED
    BY <2>2, <2>3
<1>9. WorkersInv'
  <2>1. ASSUME NEW w \in Worker, jw[w].pc \notin AtRest PROVE CopyInv(jw[w], submissions'[jw[w].sub])
    <3>1. jw[w].sub \in Sub /\ Has(w, jw[w].sub) /\ CopyInv(jw[w], submissions[jw[w].sub])
      BY <2>1, AtWork
    <3>2. jw[w].sub # s
      BY <1>7, <3>1
    <3>3. QED
      BY <1>4, <3>1, <3>2
  <2>2. QED
    BY <1>0, <2>1 DEF JudgeInv, WorkersInv
<1>10. QED
  BY <1>0, <1>1, <1>3, <1>5, <1>8, <1>9 DEF JudgeInv, StreamInv

\* The sweeper acknowledges a message that was handed out.
LEMMA SweepStep ==
  ASSUME JudgeInv, NEW m, SweepSubmission(m)
  PROVE  JudgeInv'
<1>0. UNCHANGED <<submissions, req, jw, faults>>
  BY DEF SweepSubmission
<1>1. Fewer
  BY AckIsFewer DEF SweepSubmission, JudgeInv
<1>2. \A k \in Sub : (\A i : Waiting(i, k)' => Waiting(i, k)) /\ (\A w \in Worker : Has(w, k)' <=> Has(w, k))
  BY <1>0, <1>1 DEF Fewer, Waiting, Has
<1>3. ASSUME NEW k \in Sub PROVE OnceInv(k)' /\ BeforeInv(k)'
  BY <1>0, <1>1, <1>2 DEF JudgeInv, OnceInv, BeforeInv, Fewer
<1>4. QED
  BY <1>0, <1>1, <1>3 DEF JudgeInv, RowsInv, WorkersInv, StreamInv, ReqInv, Fewer, Happened

-----------------------------------------------------------------------------
(* Theorems *)

LEMMA JudgeInitInv == JudgeInit => JudgeInv
<1> SUFFICES ASSUME JudgeInit PROVE JudgeInv
  OBVIOUS
<1>1. RowsInv
  BY RowTypes DEF JudgeInit, RowsInv, RowInv
<1>2. WorkersInv
  BY RestTypes DEF JudgeInit, WorkersInv, LocalInv, AtRest
<1>3. StreamInv /\ ReqInv /\ faults \in Seq(FaultKind) /\ DOMAIN stream = {}
  BY DEF JudgeInit, StreamInit, StreamInv, ReqInv
<1>4. ASSUME NEW s \in Sub PROVE OnceInv(s) /\ BeforeInv(s)
  BY <1>3, RestTypes DEF JudgeInit, OnceInv, BeforeInv, Has, AtRest
<1>5. QED
  BY <1>1, <1>2, <1>3, <1>4 DEF JudgeInv

\* The invariant is inductive.
LEMMA JudgeNextInv == JudgeInv /\ [JudgeNext]_judgeVars => JudgeInv'
<1> SUFFICES ASSUME JudgeInv, [JudgeNext]_judgeVars PROVE JudgeInv'
  OBVIOUS
<1>1. ASSUME NEW s \in Sub, StoreSubmission(s) \/ EnqueueSubmission(s) \/ SubmissionFails(s)
      PROVE  JudgeInv'
  BY <1>1, StoreStep, EnqueueStep
<1>2. ASSUME NEW w \in Worker, JudgeStep(w) PROVE JudgeInv'
  <2>1. CASE CancelledQueryFails(w)
    BY <2>1, QueryStep DEF CancelledQueryFails, LocalToWorker
  <2>2. QED
    BY <1>2, <2>1, ConsumeStep, StartSteps, TestSteps, EndSteps DEF JudgeStep
<1>3. ASSUME NEW w \in Worker,
             Restart(w) \/ JudgeCallFails(w) \/ JudgePanics(w) \/ CancelPool(w) \/ Crash(w)
      PROVE  JudgeInv'
  BY <1>3, EndSteps, FaultSteps
<1>4. ASSUME NEW m \in 1..MaxLen, SweepSubmission(m) PROVE JudgeInv'
  BY <1>4, SweepStep
<1>5. CASE UNCHANGED judgeVars
  <2>1. /\ stream' = stream /\ submissions' = submissions
        /\ req' = req /\ jw' = jw /\ faults' = faults
    BY <1>5 DEF judgeVars
  <2>2. RowsInv' /\ ReqInv'
    BY <2>1 DEF JudgeInv, RowsInv, ReqInv, Happened
  <2>3. WorkersInv' /\ StreamInv'
    BY <2>1 DEF JudgeInv, WorkersInv, StreamInv
  <2>4. ASSUME NEW s \in Sub PROVE OnceInv(s)'
    BY <2>1 DEF JudgeInv, OnceInv, Waiting, Has
  <2>5. ASSUME NEW s \in Sub PROVE BeforeInv(s)'
    BY <2>1 DEF JudgeInv, BeforeInv, Waiting
  <2>6. QED
    BY <2>1, <2>2, <2>3, <2>4, <2>5 DEF JudgeInv
<1>6. QED
  BY <1>1, <1>2, <1>3, <1>4, <1>5 DEF JudgeNext

\* However requests, workers, faults and the sweeper interleave, the right to
\* judge a submission exists at most once.
THEOREM JudgeInvariant == JudgeSpec => []JudgeInv
<1>1. QED
  BY JudgeInitInv, JudgeNextInv, PTL DEF JudgeSpec

\* The counts of every row bear its verdict out, although nothing claims a
\* submission and Judge counts on top of the count it read.
THEOREM VerdictSafety == JudgeSpec => []VerdictMatchesTests
<1>1. JudgeInv => VerdictMatchesTests
  <2>1. ASSUME NEW s \in Sub, NEW p \in BOOLEAN, NEW r, RowInv(s, r, p)
        PROVE  /\ r.verdict = "ACCEPTED" => r.total = NumTests[s] /\ r.passed = r.total
               /\ r.verdict \in {"WRONG_ANSWER", "TIME_LIMIT_EXCEEDED", "OUTPUT_LIMIT_EXCEEDED",
                                 "RUNTIME_ERROR"} => r.passed < r.total
    <3>1. CASE r \in {NoRow, NewRow, Copy("PENDING", 0, 0)}
      BY <3>1 DEF NoRow, NewRow, Submission, Copy
    <3>2. CASE IsJudged(s, r, p)
      BY <3>2 DEF IsJudged, Judged, Bears
    <3>3. QED
      BY <2>1, <3>1, <3>2 DEF RowInv, Open
  <2>2. QED
    BY <2>1 DEF JudgeInv, RowsInv, VerdictMatchesTests, Happened
<1>2. QED
  BY <1>1, JudgeInvariant, PTL

\* A row is COMPLETED exactly when it has its completion time and, short of a
\* panic, a verdict.
THEOREM CompletionSafety == JudgeSpec => []CompletedHasVerdict
<1>1. JudgeInv => CompletedHasVerdict
  <2>1. ASSUME NEW s \in Sub, NEW p \in BOOLEAN, NEW r, RowInv(s, r, p)
        PROVE  /\ r.verdict # "PENDING" => r.status = "COMPLETED"
               /\ r.status = "COMPLETED" => r.verdict # "PENDING" \/ p
               /\ r.status = "COMPLETED" <=> r.completedAt = "set"
    <3>1. CASE r \in {NoRow, NewRow, Copy("PENDING", 0, 0)}
      BY <3>1 DEF NoRow, NewRow, Submission, Copy
    <3>2. CASE IsJudged(s, r, p)
      BY <3>2 DEF IsJudged, Judged
    <3>3. QED
      BY <2>1, <3>1, <3>2 DEF RowInv, Open
  <2>2. Happened("panic") \in BOOLEAN
    BY DEF Happened
  <2>3. QED
    BY <2>1, <2>2 DEF JudgeInv, RowsInv, CompletedHasVerdict
<1>2. QED
  BY <1>1, JudgeInvariant, PTL

-----------------------------------------------------------------------------
(* A judged row is not written again *)

\* Only a worker that has the right to judge, and a request that has not stored
\* its row yet, write.
LEMMA Writers ==
  ASSUME JudgeInv, JudgeNext, NEW s \in Sub, submissions'[s] # submissions[s]
  PROVE  \/ req[s] = "new"
         \/ \E w \in Worker : Has(w, s) /\ jw[w].pc \in JudgePC \ {"get", "ack"}
<1>0. submissions \in [Sub -> SubRow]
  BY DEF JudgeInv, RowsInv
<1>1. ASSUME NEW k \in Sub, StoreSubmission(k) \/ EnqueueSubmission(k) \/ SubmissionFails(k)
      PROVE  req[s] = "new"
  BY <1>0, <1>1 DEF StoreSubmission, EnqueueSubmission, SubmissionFails
<1>2. ASSUME NEW w \in Worker,
             JudgeStep(w) \/ Restart(w) \/ JudgeCallFails(w) \/ JudgePanics(w)
               \/ CancelPool(w) \/ Crash(w)
      PROVE  Has(w, s) /\ jw[w].pc \in JudgePC \ {"get", "ack"}
  <2>1. MarkSubmissionRunning(w) \/ Finalize(w) \/ JudgePanics(w)
    BY <1>2 DEF JudgeStep, Consume, GetSubmission, LoadProblem, PrepareFails, ProgramRefused,
                CompileProgram, RunTest, ContainerFails, Analyze, AckSubmission,
                CancelledQueryFails, QueryFailed, JudgeCallFails, CancelPool, Crash, Restart
  <2>2. jw[w].pc \in {"update", "finalize", "load", "compile", "test", "analyze"}
    BY <2>1 DEF MarkSubmissionRunning, Finalize, JudgePanics, At
  <2>3. jw[w].sub \in Sub /\ jw[w].pc \notin AtRest
    BY <2>2, AtWork DEF AtRest
  <2>4. s = jw[w].sub
    BY <1>0, <2>1, <2>3 DEF MarkSubmissionRunning, Finalize, JudgePanics, Overwritten
  <2>5. QED
    BY <2>2, <2>3, <2>4 DEF Has, JudgePC
<1>3. ASSUME NEW m \in 1..MaxLen, SweepSubmission(m) PROVE FALSE
  BY <1>3 DEF SweepSubmission
<1>4. QED
  BY <1>1, <1>2, <1>3 DEF JudgeNext

\* No step writes a submission that has been judged: neither a second worker,
\* nor a late one, nor the sweeper.
THEOREM VerdictsAreFinal == JudgeSpec => VerdictIsFinal
<1> DEFINE A == \A s \in Sub : submissions[s].status = "COMPLETED" =>
                  submissions'[s] = submissions[s]
<1>1. JudgeInv /\ [JudgeNext]_judgeVars => [A]_judgeVars
  <2> SUFFICES ASSUME JudgeInv, JudgeNext, NEW s \in Sub, submissions[s].status = "COMPLETED",
                      submissions'[s] # submissions[s]
               PROVE  FALSE
    OBVIOUS
  <2>1. ~ (submissions[s] = NoRow \/ Open(submissions[s]))
    BY DEF NoRow, NewRow, Submission, Copy, Open
  <2>2. req[s] # "new"
    BY <2>1 DEF JudgeInv, BeforeInv
  <2>3. PICK w \in Worker : Has(w, s) /\ jw[w].pc \in JudgePC \ {"get", "ack"}
    BY <2>2, Writers
  <2>4. CopyInv(jw[w], submissions[s])
    BY <2>3, AtWork DEF Has
  <2>5. QED
    BY <2>1, <2>3, <2>4 DEF CopyInv, JudgePC, Open
<1>2. QED
  BY <1>1, JudgeInvariant, PTL DEF JudgeSpec, VerdictIsFinal
=============================================================================
