------------------------ MODULE ExecutionStoreProofs ------------------------
(***************************************************************************)
(* Proofs about ExecutionStore for every set of jobs, workers and results  *)
(* and every choice of budgets.                                            *)
(*                                                                         *)
(* All of the store's invariants are about single rows, and every action   *)
(* rewrites rows with one of the row operators, so the work is done in     *)
(* lemmas about rows: each statement's WHERE clause and the invariant of   *)
(* the old row give the invariant of the new one.                          *)
(***************************************************************************)
EXTENDS ExecutionStore, TLAPS

\* The inductive invariant of one row.  On top of the checked properties it
\* says that a held row is not waiting for its retry time (Claim tested it and
\* nothing sets it while the row is held) and that an absent row is blank.
RowInv(r) ==
  /\ r \in Row
  /\ RowOwned(r)
  /\ RowBudget(r)
  /\ RowAnswer(r)
  /\ Held(r) => Due(r)
  /\ r.status = "ABSENT" => r = AbsentRow

StoreInv == /\ executions \in [Job -> Row]
            /\ \A j \in Job : RowInv(executions[j])

-----------------------------------------------------------------------------
(* Rows *)

\* A blank row is a row and satisfies the row invariant.
LEMMA AbsentRowInv == RowInv(AbsentRow)
BY StoreConstants
   DEF RowInv, AbsentRow, BlankRow, Row, JobStatus, RowOwned, RowBudget, RowAnswer, Held,
       Terminal, Due, Tries

\* Create inserts a row that satisfies the invariant.
LEMMA QueuedRowInv ==
  ASSUME NEW m \in MaxAttempts
  PROVE  RowInv(QueuedRow(m)) /\ QueuedRow(m).status = "QUEUED"
BY StoreConstants
   DEF RowInv, QueuedRow, AbsentRow, BlankRow, Row, JobStatus, RowOwned,
       RowBudget, RowAnswer, Held, Terminal, Due, Tries

\* Claim keeps the row invariant and spends one attempt.
LEMMA ClaimRowInv ==
  ASSUME NEW r, RowInv(r), NEW w \in Worker, Claimable(r)
  PROVE  /\ RowInv(ClaimRow(r, w))
         /\ ClaimRow(r, w).status = "CLAIMED"
         /\ ClaimRow(r, w).worker = w
         /\ ClaimRow(r, w).max = r.max
         /\ ClaimRow(r, w).attempts = r.attempts + 1
<1> DEFINE c == ClaimRow(r, w)
<1>1. c \in Row
  <2>1. r.attempts + 1 \in Nat
    BY DEF RowInv, Row
  <2>2. QED
    BY <2>1 DEF RowInv, Row, JobStatus, ClaimRow
<1>2. /\ c.status = "CLAIMED" /\ c.worker = w /\ c.lease = "live"
      /\ c.attempts = r.attempts + 1 /\ c.max = r.max /\ c.retry = r.retry
      /\ c.results = r.results /\ c.deadAt = r.deadAt
  BY DEF RowInv, Row, ClaimRow
<1>3. r.attempts \in Nat /\ r.max \in Nat
  BY DEF RowInv, Row
<1>4. RowOwned(c)
  BY <1>2, StoreConstants DEF RowOwned, Held
<1>5. RowBudget(c)
  BY <1>2, <1>3 DEF RowInv, RowBudget, Claimable, Held, Tries
<1>6. RowAnswer(c) /\ Due(c)
  BY <1>2 DEF RowInv, RowAnswer, Claimable, Terminal, Due
<1>7. QED
  BY <1>1, <1>2, <1>4, <1>5, <1>6 DEF RowInv

\* MarkRunning keeps the row invariant.
LEMMA RunningRowInv ==
  ASSUME NEW r, RowInv(r), r.status = "CLAIMED"
  PROVE  RowInv([r EXCEPT !.status = "RUNNING"])
BY StoreConstants
   DEF RowInv, AbsentRow, BlankRow, Row, JobStatus, RowOwned, RowBudget, RowAnswer, Held,
       Terminal, Due, Tries

\* Complete keeps the row invariant.
LEMMA CompleteRowInv ==
  ASSUME NEW r, RowInv(r), NEW w, NEW res \in Result, Completable(r, w)
  PROVE  /\ RowInv(CompleteRow(r, res))
         /\ CompleteRow(r, res).status = "COMPLETED"
         /\ CompleteRow(r, res).worker = NoWorker
         /\ CompleteRow(r, res).max = r.max
         /\ CompleteRow(r, res).attempts = r.attempts
BY StoreConstants
   DEF RowInv, CompleteRow, Completable, AbsentRow, BlankRow, Row, JobStatus, RowOwned,
       RowBudget, RowAnswer, Held, Terminal, Due, Tries

\* FailJob and RecoverAbandonedJobs keep the row invariant, free the row and
\* leave its counters alone; the row waits again exactly if it has a try left.
LEMMA FailRowInv ==
  ASSUME NEW r, RowInv(r), Held(r), NEW again \in {"future", "due"}
  PROVE  /\ RowInv(FailRow(r, again))
         /\ FailRow(r, again).status =
              IF r.attempts < Tries(r.max) THEN "QUEUED" ELSE "DEAD_LETTERED"
         /\ FailRow(r, again).worker = NoWorker
         /\ FailRow(r, again).max = r.max
         /\ FailRow(r, again).attempts = r.attempts
<1> DEFINE f == FailRow(r, again)
           left == r.attempts < r.max
<1>1. r.attempts \in Nat /\ r.max \in Nat
  BY DEF RowInv, Row
<1>2. f \in Row
  BY DEF RowInv, Row, JobStatus, FailRow
<1>3. /\ f.status = IF left THEN "QUEUED" ELSE "DEAD_LETTERED"
      /\ f.worker = NoWorker /\ f.lease = "null"
      /\ f.attempts = r.attempts /\ f.max = r.max /\ f.results = r.results
      /\ f.retry = IF left THEN again ELSE "null"
      /\ f.deadAt = IF left THEN "null" ELSE "set"
  BY DEF RowInv, Row, FailRow
<1>4. /\ 0 < r.attempts /\ r.attempts <= Tries(r.max)
      /\ left <=> r.attempts < Tries(r.max)
  BY <1>1 DEF RowInv, RowBudget, Tries
<1>5. RowOwned(f)
  BY <1>3 DEF RowOwned, Held
<1>6. RowBudget(f)
  BY <1>1, <1>3, <1>4 DEF RowBudget, Held, Tries
<1>7. RowAnswer(f)
  BY <1>3 DEF RowInv, RowAnswer, Held, Terminal
<1>8. QED
  BY <1>2, <1>3, <1>4, <1>5, <1>6, <1>7 DEF RowInv, Held

\* The passing of time, lease renewal and the dispatch marker change one
\* timestamp and keep the row invariant.
LEMMA TimestampRowInv ==
  ASSUME NEW r, RowInv(r)
  PROVE  /\ Held(r) => RowInv([r EXCEPT !.lease = "live"])
         /\ r.lease = "live" => RowInv([r EXCEPT !.lease = "expired"])
         /\ r.retry = "future" => RowInv([r EXCEPT !.retry = "due"])
         /\ r.status # "ABSENT" => RowInv([r EXCEPT !.dispatched = "recent"])
         /\ r.dispatched = "recent" => RowInv([r EXCEPT !.dispatched = "old"])
BY StoreConstants
   DEF RowInv, AbsentRow, BlankRow, Row, JobStatus, RowOwned, RowBudget, RowAnswer, Held,
       Terminal, Due, Tries
-----------------------------------------------------------------------------
(* Steps *)

\* SetRow replaces one row of the table.
LEMMA SetRowInv ==
  ASSUME StoreInv, NEW j \in Job, NEW r, RowInv(r), SetRow(j, r)
  PROVE  StoreInv'
BY DEF StoreInv, SetRow, RowInv

\* The initial table satisfies the invariant.
LEMMA InitInv == StoreInit => StoreInv
<1> SUFFICES ASSUME StoreInit PROVE StoreInv
  OBVIOUS
<1>1. ASSUME NEW j \in Job PROVE RowInv(executions[j])
  BY AbsentRowInv, QueuedRowInv DEF StoreInit
<1>2. executions \in [Job -> Row]
  BY <1>1 DEF StoreInit, RowInv
<1>3. QED
  BY <1>1, <1>2 DEF StoreInv

\* Every statement of the store keeps the invariant.
LEMMA NextInv == StoreInv /\ [StoreNext]_storeVars => StoreInv'
<1> SUFFICES ASSUME StoreInv, [StoreNext]_storeVars PROVE StoreInv'
  OBVIOUS
<1>1. CASE RecoverAbandonedJobs
  <2>1. ASSUME NEW j \in Job PROVE RowInv(executions'[j])
    <3>1. CASE Abandoned(executions[j])
      BY <1>1, <3>1, FailRowInv DEF RecoverAbandonedJobs, Abandoned, StoreInv
    <3>2. CASE ~ Abandoned(executions[j])
      BY <1>1, <3>2 DEF RecoverAbandonedJobs, StoreInv
    <3>3. QED
      BY <3>1, <3>2
  <2>2. QED
    BY <1>1, <2>1 DEF RecoverAbandonedJobs, StoreInv, RowInv
<1>2. ASSUME NEW j \in Job, JobStep(j) PROVE StoreInv'
  <2> DEFINE r == executions[j]
  <2>0. RowInv(r)
    BY DEF StoreInv
  <2>1. CASE \E m \in MaxAttempts : Create(j, m)
    BY <2>1, QueuedRowInv, SetRowInv DEF Create
  <2>2. CASE \E w \in Worker : Claim(j, w)
    BY <2>0, <2>2, ClaimRowInv, SetRowInv DEF Claim
  <2>3. CASE \E w \in Worker : MarkRunning(j, w)
    BY <2>0, <2>3, RunningRowInv, SetRowInv DEF MarkRunning
  <2>4. CASE \E w \in Worker, res \in Result : Complete(j, w, res)
    BY <2>0, <2>4, CompleteRowInv, SetRowInv DEF Complete
  <2>5. CASE \E w \in Worker, b \in {"future", "due"} : FailJob(j, w, b)
    BY <2>0, <2>5, FailRowInv, SetRowInv DEF FailJob, HeldBy
  <2>6. CASE \E w \in Worker : RenewLease(j, w)
    BY <2>0, <2>6, TimestampRowInv, SetRowInv DEF RenewLease, HeldBy
  <2>7. CASE MarkDispatched(j)
    BY <2>0, <2>7, TimestampRowInv, SetRowInv DEF MarkDispatched
  <2>8. CASE LeaseExpires(j)
    BY <2>0, <2>8, TimestampRowInv, SetRowInv DEF LeaseExpires
  <2>9. CASE RetryComesDue(j)
    BY <2>0, <2>9, TimestampRowInv, SetRowInv DEF RetryComesDue
  <2>10. CASE DispatchAges(j)
    BY <2>0, <2>10, TimestampRowInv, SetRowInv DEF DispatchAges
  <2>11. QED
    BY <1>2, <2>1, <2>2, <2>3, <2>4, <2>5, <2>6, <2>7, <2>8, <2>9, <2>10
       DEF JobStep
<1>3. CASE UNCHANGED storeVars
  BY <1>3 DEF StoreInv, storeVars
<1>4. QED
  BY <1>1, <1>2, <1>3 DEF StoreNext

-----------------------------------------------------------------------------
(* Theorems *)

\* The inductive invariant holds in every reachable table.
THEOREM StoreInvariant == StoreSpec => []StoreInv
BY InitInv, NextInv, PTL DEF StoreSpec

\* Every row keeps its column types (StoreTypeOK), for every instance.
THEOREM StoreTypes == StoreSpec => []StoreTypeOK
<1>1. StoreInv => StoreTypeOK
  BY DEF StoreInv, StoreTypeOK
<1>2. QED
  BY <1>1, StoreInvariant, PTL

\* A row has a worker and a lease exactly while it is claimed or running.
THEOREM LeaseSafety == StoreSpec => []OwnershipMatchesLease
<1>1. StoreInv => OwnershipMatchesLease
  BY DEF StoreInv, RowInv, OwnershipMatchesLease
<1>2. QED
  BY <1>1, StoreInvariant, PTL

\* No job is claimed more often than its budget allows, and none is given up
\* before the budget is spent.
THEOREM BudgetSafety == StoreSpec => []AttemptBudget
<1>1. StoreInv => AttemptBudget
  BY DEF StoreInv, RowInv, AttemptBudget
<1>2. QED
  BY <1>1, StoreInvariant, PTL

\* Results and the dead-letter mark are on a row exactly in the states they
\* belong to.
THEOREM AnswerSafety == StoreSpec => []AnswerMatchesStatus
<1>1. StoreInv => AnswerMatchesStatus
  BY DEF StoreInv, RowInv, AnswerMatchesStatus
<1>2. QED
  BY <1>1, StoreInvariant, PTL

-----------------------------------------------------------------------------
(* What a step may do to one row *)

RowStep(r, s) ==
  \/ s = r
  \/ r.status = "ABSENT" /\ \E m \in MaxAttempts : s = QueuedRow(m)
  \/ Claimable(r) /\ \E w \in Worker : s = ClaimRow(r, w)
  \/ r.status = "CLAIMED" /\ s = [r EXCEPT !.status = "RUNNING"]
  \/ \E w \in Worker, res \in Result : Completable(r, w) /\ s = CompleteRow(r, res)
  \/ Held(r) /\ \E b \in {"future", "due"} : s = FailRow(r, b)
  \/ Held(r) /\ \E l \in {"live", "expired"} : s = [r EXCEPT !.lease = l]
  \/ r.retry = "future" /\ s = [r EXCEPT !.retry = "due"]
  \/ r.status # "ABSENT" /\ \E d \in {"recent", "old"} : s = [r EXCEPT !.dispatched = d]

\* Every step of the store is, on every row, one of these.
LEMMA StepsAreRowSteps ==
  ASSUME StoreInv, [StoreNext]_storeVars, NEW k \in Job
  PROVE  RowStep(executions[k], executions'[k])
<1> DEFINE r == executions[k]
<1>0. RowInv(r) /\ executions \in [Job -> Row]
  BY DEF StoreInv
<1>1. CASE RecoverAbandonedJobs
  BY <1>1 DEF RecoverAbandonedJobs, Abandoned, RowStep
<1>2. ASSUME NEW j \in Job, JobStep(j), j # k PROVE executions'[k] = r
  BY <1>0, <1>2 DEF JobStep, SetRow, Create, Claim, MarkRunning, Complete, FailJob,
     RenewLease, MarkDispatched, LeaseExpires, RetryComesDue, DispatchAges
<1>3. ASSUME JobStep(k) PROVE RowStep(r, executions'[k])
  <2>0. ASSUME NEW s, SetRow(k, s) PROVE executions'[k] = s
    BY <1>0, <2>0 DEF SetRow
  <2>1. CASE \E m \in MaxAttempts : Create(k, m)
    BY <2>0, <2>1 DEF Create, RowStep
  <2>2. CASE \E w \in Worker : Claim(k, w)
    BY <2>0, <2>2 DEF Claim, RowStep
  <2>3. CASE \E w \in Worker : MarkRunning(k, w)
    BY <2>0, <2>3 DEF MarkRunning, RowStep
  <2>4. CASE \E w \in Worker, res \in Result : Complete(k, w, res)
    BY <2>0, <2>4 DEF Complete, RowStep
  <2>5. CASE \E w \in Worker, b \in {"future", "due"} : FailJob(k, w, b)
    BY <2>0, <2>5 DEF FailJob, HeldBy, RowStep
  <2>6. CASE \E w \in Worker : RenewLease(k, w)
    BY <2>0, <2>6 DEF RenewLease, HeldBy, RowStep
  <2>7. CASE MarkDispatched(k)
    BY <2>0, <2>7 DEF MarkDispatched, RowStep
  <2>8. CASE LeaseExpires(k)
    <3>1. Held(r)
      BY <1>0, <2>8 DEF LeaseExpires, RowInv, RowOwned
    <3>2. QED
      BY <2>0, <2>8, <3>1 DEF LeaseExpires, RowStep
  <2>9. CASE RetryComesDue(k)
    BY <2>0, <2>9 DEF RetryComesDue, RowStep
  <2>10. CASE DispatchAges(k)
    <3>1. r.status # "ABSENT"
      BY <1>0, <2>10 DEF DispatchAges, RowInv, AbsentRow, BlankRow
    <3>2. QED
      BY <2>0, <2>10, <3>1 DEF DispatchAges, RowStep
  <2>11. QED
    BY <1>3, <2>1, <2>2, <2>3, <2>4, <2>5, <2>6, <2>7, <2>8, <2>9, <2>10
       DEF JobStep
<1>4. CASE UNCHANGED storeVars
  BY <1>4 DEF storeVars, RowStep
<1>5. QED
  BY <1>1, <1>2, <1>3, <1>4 DEF StoreNext, RowStep

\* On a finished row only the dispatch marker can change.
LEMMA TerminalRowStep ==
  ASSUME NEW r, RowInv(r), NEW s, RowStep(r, s), Terminal(r)
  PROVE  s = [r EXCEPT !.dispatched = s.dispatched]
<1>1. r \in Row /\ ~ Held(r) /\ ~ Claimable(r) /\ r.status # "ABSENT" /\ r.retry # "future"
  BY DEF RowInv, RowAnswer, Terminal, Held, Claimable
<1>2. ~ \E w \in Worker : Completable(r, w)
  BY DEF Completable, Terminal
<1>3. r.status # "CLAIMED"
  BY DEF Terminal
<1>4. s = r \/ \E d \in {"recent", "old"} : s = [r EXCEPT !.dispatched = d]
  BY <1>1, <1>2, <1>3 DEF RowStep
<1>5. QED
  BY <1>1, <1>4 DEF Row

\* A step never lowers the attempt number, and a row that stays held keeps
\* its worker and its attempt number.
LEMMA HeldRowStep ==
  ASSUME NEW r, RowInv(r), NEW s, RowStep(r, s)
  PROVE  /\ r.attempts <= s.attempts
         /\ Held(r) /\ Held(s) => s.worker = r.worker /\ s.attempts = r.attempts
<1>0. r \in Row /\ r.attempts \in Nat
  BY DEF RowInv, Row
<1>1. CASE s = r
  BY <1>0, <1>1
<1>2. CASE r.status = "ABSENT" /\ \E m \in MaxAttempts : s = QueuedRow(m)
  BY <1>0, <1>2 DEF RowInv, QueuedRow, AbsentRow, BlankRow, Held
<1>3. CASE Claimable(r) /\ \E w \in Worker : s = ClaimRow(r, w)
  BY <1>0, <1>3, ClaimRowInv DEF Claimable, Held
<1>4. CASE r.status = "CLAIMED" /\ s = [r EXCEPT !.status = "RUNNING"]
  BY <1>0, <1>4 DEF Row
<1>5. CASE \E w \in Worker, res \in Result : Completable(r, w) /\ s = CompleteRow(r, res)
  BY <1>0, <1>5, CompleteRowInv DEF Held
<1>6. CASE Held(r) /\ \E b \in {"future", "due"} : s = FailRow(r, b)
  BY <1>0, <1>6, FailRowInv DEF Held
<1>7. CASE Held(r) /\ \E l \in {"live", "expired"} : s = [r EXCEPT !.lease = l]
  BY <1>0, <1>7 DEF Row
<1>8. CASE r.retry = "future" /\ s = [r EXCEPT !.retry = "due"]
  BY <1>0, <1>8 DEF Row
<1>9. CASE r.status # "ABSENT" /\ \E d \in {"recent", "old"} : s = [r EXCEPT !.dispatched = d]
  BY <1>0, <1>9 DEF Row
<1>10. QED
  BY <1>1, <1>2, <1>3, <1>4, <1>5, <1>6, <1>7, <1>8, <1>9 DEF RowStep

\* COMPLETED and DEAD_LETTERED rows are final, whatever late statements arrive.
THEOREM TerminalIsFinal == StoreSpec => TerminalFrozen
<1> DEFINE A == \A j \in Job : Terminal(executions[j]) =>
                  executions'[j] = [executions[j] EXCEPT
                                      !.dispatched = executions'[j].dispatched]
<1>1. StoreInv /\ [StoreNext]_storeVars => [A]_storeVars
  BY StepsAreRowSteps, TerminalRowStep DEF StoreInv
<1>2. QED
  BY <1>1, StoreInvariant, PTL DEF StoreSpec, TerminalFrozen

\* A job changes hands only through the queue, and attempts are never refunded.
THEOREM HandoverSafety == StoreSpec => HandoverThroughQueue
<1> DEFINE A == \A j \in Job :
                  /\ executions[j].attempts <= executions'[j].attempts
                  /\ (Held(executions[j]) /\ Held(executions'[j])) =>
                       /\ executions'[j].worker = executions[j].worker
                       /\ executions'[j].attempts = executions[j].attempts
<1>1. StoreInv /\ [StoreNext]_storeVars => [A]_storeVars
  BY StepsAreRowSteps, HeldRowStep DEF StoreInv
<1>2. QED
  BY <1>1, StoreInvariant, PTL DEF StoreSpec, HandoverThroughQueue

-----------------------------------------------------------------------------
(* The store implements the contract *)

\* Replacing a row replaces the job's phase, holder and credits.
LEMMA SetRowMapped ==
  ASSUME StoreInv, NEW j \in Job, NEW r, SetRow(j, r)
  PROVE  /\ lifePhase'   = [lifePhase EXCEPT ![j] = PhaseOf(r)]
         /\ lifeHolder'  = [lifeHolder EXCEPT ![j] = r.worker]
         /\ lifeCredits' = [lifeCredits EXCEPT ![j] = CreditsOf(r)]
<1>1. executions' = [executions EXCEPT ![j] = r] /\ executions \in [Job -> Row]
  BY DEF SetRow, StoreInv
<1>2. QED
  BY <1>1 DEF lifePhase, lifeHolder, lifeCredits

\* The three mapped variables are functions on the jobs.
LEMMA MapsAreFunctions ==
  /\ lifePhase   = [j \in Job |-> lifePhase[j]]
  /\ lifeHolder  = [j \in Job |-> lifeHolder[j]]
  /\ lifeCredits = [j \in Job |-> lifeCredits[j]]
BY DEF lifePhase, lifeHolder, lifeCredits

\* A row that keeps its status, worker and counters keeps its place in the
\* abstract life.
LEMMA SetRowStutters ==
  ASSUME StoreInv, NEW j \in Job, NEW r, SetRow(j, r),
         PhaseOf(r) = PhaseOf(executions[j]),
         r.worker = executions[j].worker,
         CreditsOf(r) = CreditsOf(executions[j])
  PROVE  UNCHANGED Lifecycle!lifeVars
<1>1. /\ lifePhase[j] = PhaseOf(r)
      /\ lifeHolder[j] = r.worker
      /\ lifeCredits[j] = CreditsOf(r)
  BY DEF lifePhase, lifeHolder, lifeCredits
<1>2. /\ lifePhase   = [lifePhase EXCEPT ![j] = lifePhase[j]]
      /\ lifeHolder  = [lifeHolder EXCEPT ![j] = lifeHolder[j]]
      /\ lifeCredits = [lifeCredits EXCEPT ![j] = lifeCredits[j]]
  BY DEF lifePhase, lifeHolder, lifeCredits
<1>3. lifePhase' = lifePhase /\ lifeHolder' = lifeHolder /\ lifeCredits' = lifeCredits
  BY <1>1, <1>2, SetRowMapped
<1>4. QED
  BY <1>3 DEF Lifecycle!lifeVars

\* The initial table is an initial state of the contract.
LEMMA InitImplements == StoreInit => Lifecycle!LifeInit
<1> SUFFICES ASSUME StoreInit PROVE Lifecycle!LifeInit
  OBVIOUS
<1> DEFINE B == {Tries(m) : m \in MaxAttempts}
<1>1. ASSUME NEW j \in Job
      PROVE  /\ executions[j].worker = NoWorker
             /\ \/ lifePhase[j] = "none" /\ lifeCredits[j] = 0
                \/ lifePhase[j] = "waiting" /\ lifeCredits[j] \in B /\ lifeCredits[j] # 0
  <2>1. CASE executions[j] = AbsentRow
    BY <2>1 DEF AbsentRow, BlankRow, lifePhase, lifeCredits, PhaseOf, CreditsOf
  <2>2. ASSUME NEW m \in MaxAttempts, executions[j] = QueuedRow(m)
        PROVE  <1>1!2
    <3>1. Tries(m) \in Nat /\ Tries(m) # 0 /\ Tries(m) - 0 = Tries(m)
      BY StoreConstants DEF Tries
    <3>2. QED
      BY <2>2, <3>1 DEF QueuedRow, BlankRow, lifePhase, lifeCredits, PhaseOf, CreditsOf
  <2>3. QED
    BY <2>1, <2>2 DEF StoreInit
<1>2. lifePhase \in [Job -> {"none", "waiting"}]
  BY <1>1 DEF lifePhase
<1>3. lifeHolder = [j \in Job |-> NoWorker]
  BY <1>1 DEF lifeHolder
<1>4. lifeCredits \in [Job -> B \cup {0}]
  BY <1>1 DEF lifeCredits
<1>5. QED
  BY <1>1, <1>2, <1>3, <1>4 DEF Lifecycle!LifeInit

\* Every statement is a step of the contract or changes nothing it can see.
LEMMA StepImplements ==
  StoreInv /\ [StoreNext]_storeVars => [Lifecycle!LifeNext]_(Lifecycle!lifeVars)
<1> SUFFICES ASSUME StoreInv, [StoreNext]_storeVars
             PROVE  Lifecycle!LifeNext \/ UNCHANGED Lifecycle!lifeVars
  OBVIOUS
<1>0. /\ executions \in [Job -> Row]
      /\ \A j \in Job : RowInv(executions[j])
  BY DEF StoreInv
<1>1. CASE RecoverAbandonedJobs
  <2> DEFINE S == {j \in Job : Abandoned(executions[j])}
  <2>1. CASE S = {}
    <3>1. executions' = executions
      BY <1>0, <1>1, <2>1 DEF RecoverAbandonedJobs
    <3>2. QED
      BY <3>1 DEF Lifecycle!lifeVars, lifePhase, lifeHolder, lifeCredits
  <2>2. CASE S # {}
    <3>1. ASSUME NEW j \in S
          PROVE  /\ lifePhase[j] = "held"
                 /\ lifePhase'[j] = IF lifeCredits[j] > 0 THEN "waiting" ELSE "dead"
                 /\ lifeHolder'[j] = NoWorker
                 /\ lifeCredits'[j] = lifeCredits[j]
      <4> DEFINE r == executions[j]
                 f == FailRow(r, "due")
      <4>1. RowInv(r) /\ Held(r) /\ executions'[j] = f
        BY <1>0, <1>1 DEF RecoverAbandonedJobs, Abandoned
      <4>2. /\ f.status = IF r.attempts < Tries(r.max) THEN "QUEUED" ELSE "DEAD_LETTERED"
            /\ f.worker = NoWorker /\ f.max = r.max /\ f.attempts = r.attempts
        BY <4>1, FailRowInv
      <4>3. CreditsOf(r) = Tries(r.max) - r.attempts /\ CreditsOf(f) = CreditsOf(r)
        BY <4>1, <4>2 DEF CreditsOf, Held
      <4>4. CreditsOf(r) > 0 <=> r.attempts < Tries(r.max)
        BY <4>1, <4>3 DEF RowInv, RowBudget, Row, Tries
      <4>5. /\ PhaseOf(r) = "held"
            /\ PhaseOf(f) = IF CreditsOf(r) > 0 THEN "waiting" ELSE "dead"
        BY <4>1, <4>2, <4>4 DEF PhaseOf, Held
      <4>6. QED
        BY <4>1, <4>2, <4>3, <4>5 DEF lifePhase, lifeHolder, lifeCredits
    <3>2. ASSUME NEW j \in Job, j \notin S
          PROVE  /\ lifePhase'[j] = lifePhase[j]
                 /\ lifeHolder'[j] = lifeHolder[j]
                 /\ lifeCredits'[j] = lifeCredits[j]
      BY <1>1, <3>2 DEF RecoverAbandonedJobs, lifePhase, lifeHolder, lifeCredits
    <3>3. lifePhase' = [j \in Job |-> IF j \notin S THEN lifePhase[j]
                                      ELSE IF lifeCredits[j] > 0 THEN "waiting" ELSE "dead"]
      BY <3>1, <3>2 DEF lifePhase
    <3>4. lifeHolder' = [j \in Job |-> IF j \in S THEN NoWorker ELSE lifeHolder[j]]
      BY <3>1, <3>2 DEF lifeHolder
    <3>5. lifeCredits' = lifeCredits
      BY <3>1, <3>2 DEF lifeCredits
    <3>6. Lifecycle!Revoke(S)
      BY <2>2, <3>1, <3>3, <3>4, <3>5 DEF Lifecycle!Revoke
    <3>7. QED
      BY <3>6 DEF Lifecycle!LifeNext
  <2>3. QED
    BY <2>1, <2>2
<1>2. ASSUME NEW j \in Job, JobStep(j)
      PROVE  Lifecycle!LifeNext \/ UNCHANGED Lifecycle!lifeVars
  <2> DEFINE r == executions[j]
  <2>0. /\ RowInv(r) /\ r \in Row /\ r.attempts \in Nat /\ r.max \in Nat /\ Tries(r.max) \in Nat
        /\ lifePhase[j] = PhaseOf(r) /\ lifeHolder[j] = r.worker
        /\ lifeCredits[j] = CreditsOf(r)
    BY <1>0 DEF RowInv, Row, Tries, lifePhase, lifeHolder, lifeCredits
  <2>1. ASSUME NEW m \in MaxAttempts, Create(j, m) PROVE Lifecycle!LifeNext
    <3> DEFINE q == QueuedRow(m)
    <3>1. PhaseOf(q) = "waiting" /\ q.worker = NoWorker /\ CreditsOf(q) = Tries(m)
      BY StoreConstants DEF QueuedRow, BlankRow, PhaseOf, CreditsOf, Tries
    <3>2. PhaseOf(r) = "none" /\ r.worker = NoWorker
      BY <2>0, <2>1 DEF Create, PhaseOf, RowInv, AbsentRow, BlankRow
    <3>3. lifeHolder' = lifeHolder
      <4>1. lifeHolder' = [lifeHolder EXCEPT ![j] = lifeHolder[j]]
        BY <2>0, <2>1, <3>1, <3>2, SetRowMapped DEF Create
      <4>2. QED
        BY <4>1, MapsAreFunctions
    <3>4. Lifecycle!Submit(j, Tries(m))
      BY <2>0, <2>1, <3>1, <3>2, <3>3, SetRowMapped DEF Create, Lifecycle!Submit
    <3>5. QED
      BY <3>4 DEF Lifecycle!LifeNext
  <2>2. ASSUME NEW w \in Worker, Claim(j, w) PROVE Lifecycle!LifeNext
    <3> DEFINE c == ClaimRow(r, w)
    <3>1. /\ c.status = "CLAIMED" /\ c.worker = w /\ c.max = r.max
          /\ c.attempts = r.attempts + 1
      BY <2>0, <2>2, ClaimRowInv DEF Claim
    <3>2. r.status = "QUEUED" /\ r.attempts < Tries(r.max)
      BY <2>0, <2>2 DEF Claim, Claimable, RowInv, RowBudget
    <3>3. PhaseOf(r) = "waiting" /\ PhaseOf(c) = "held"
      BY <3>1, <3>2 DEF PhaseOf
    <3>4. CreditsOf(r) > 0 /\ CreditsOf(c) = CreditsOf(r) - 1
      BY <2>0, <3>1, <3>2 DEF CreditsOf
    <3>5. Lifecycle!Acquire(j, w)
      BY <2>0, <2>2, <3>1, <3>3, <3>4, SetRowMapped DEF Claim, Lifecycle!Acquire
    <3>6. QED
      BY <3>5 DEF Lifecycle!LifeNext
  <2>3. ASSUME NEW w \in Worker, MarkRunning(j, w) PROVE UNCHANGED Lifecycle!lifeVars
    <3> DEFINE s == [r EXCEPT !.status = "RUNNING"]
    <3>1. s.status = "RUNNING" /\ s.worker = r.worker /\ s.max = r.max /\ s.attempts = r.attempts
      BY <2>0 DEF Row
    <3>2. r.status = "CLAIMED" /\ SetRow(j, s)
      BY <2>3 DEF MarkRunning
    <3>3. PhaseOf(s) = PhaseOf(r) /\ CreditsOf(s) = CreditsOf(r)
      BY <3>1, <3>2 DEF PhaseOf, CreditsOf
    <3>4. QED
      BY <3>1, <3>2, <3>3, SetRowStutters
  <2>4. ASSUME NEW w \in Worker, NEW res \in Result, Complete(j, w, res)
        PROVE  Lifecycle!LifeNext
    <3> DEFINE c == CompleteRow(r, res)
    <3>1. /\ c.status = "COMPLETED" /\ c.worker = NoWorker /\ c.max = r.max
          /\ c.attempts = r.attempts
      BY <2>0, <2>4, CompleteRowInv DEF Complete
    <3>2. r.status = "RUNNING"
      BY <2>4 DEF Complete, Completable
    <3>3. PhaseOf(r) = "held" /\ PhaseOf(c) = "done" /\ CreditsOf(c) = CreditsOf(r)
      BY <3>1, <3>2 DEF PhaseOf, CreditsOf
    <3>4. lifeCredits' = lifeCredits
      <4>1. lifeCredits' = [lifeCredits EXCEPT ![j] = lifeCredits[j]]
        BY <2>0, <2>4, <3>3, SetRowMapped DEF Complete
      <4>2. QED
        BY <4>1, MapsAreFunctions
    <3>5. Lifecycle!Finish(j)
      BY <2>0, <2>4, <3>1, <3>3, <3>4, SetRowMapped DEF Complete, Lifecycle!Finish
    <3>6. QED
      BY <3>5 DEF Lifecycle!LifeNext
  <2>5. ASSUME NEW w \in Worker, NEW b \in {"future", "due"}, FailJob(j, w, b)
        PROVE  Lifecycle!LifeNext
    <3> DEFINE f == FailRow(r, b)
    <3>0. Held(r) /\ SetRow(j, f)
      BY <2>5 DEF FailJob, HeldBy
    <3>1. /\ f.status = IF r.attempts < Tries(r.max) THEN "QUEUED" ELSE "DEAD_LETTERED"
          /\ f.worker = NoWorker /\ f.max = r.max /\ f.attempts = r.attempts
      BY <2>0, <3>0, FailRowInv
    <3>2. CreditsOf(r) = Tries(r.max) - r.attempts /\ CreditsOf(f) = CreditsOf(r)
      BY <3>0, <3>1 DEF CreditsOf, Held
    <3>3. CreditsOf(r) > 0 <=> r.attempts < Tries(r.max)
      BY <2>0, <3>2 DEF RowInv, RowBudget
    <3>4. /\ PhaseOf(r) = "held"
          /\ PhaseOf(f) = IF CreditsOf(r) > 0 THEN "waiting" ELSE "dead"
      BY <3>0, <3>1, <3>3 DEF PhaseOf, Held
    <3>5. lifeCredits' = lifeCredits
      <4>1. lifeCredits' = [lifeCredits EXCEPT ![j] = lifeCredits[j]]
        BY <2>0, <3>0, <3>2, SetRowMapped
      <4>2. QED
        BY <4>1, MapsAreFunctions
    <3>6. lifePhase' = [k \in Job |-> IF k \notin {j} THEN lifePhase[k]
                                      ELSE IF lifeCredits[k] > 0 THEN "waiting" ELSE "dead"]
      <4>1. lifePhase' = [lifePhase EXCEPT ![j] =
                            IF lifeCredits[j] > 0 THEN "waiting" ELSE "dead"]
        BY <2>0, <3>0, <3>4, SetRowMapped
      <4>2. QED
        BY <4>1, MapsAreFunctions
    <3>7. lifeHolder' = [k \in Job |-> IF k \in {j} THEN NoWorker ELSE lifeHolder[k]]
      <4>1. lifeHolder' = [lifeHolder EXCEPT ![j] = NoWorker]
        BY <3>0, <3>1, SetRowMapped
      <4>2. QED
        BY <4>1, MapsAreFunctions
    <3>8. Lifecycle!Revoke({j})
      BY <2>0, <3>4, <3>5, <3>6, <3>7 DEF Lifecycle!Revoke
    <3>9. QED
      BY <3>8 DEF Lifecycle!LifeNext
  <2>6. ASSUME NEW s, SetRow(j, s), s.status = r.status, s.worker = r.worker,
               s.max = r.max, s.attempts = r.attempts
        PROVE  UNCHANGED Lifecycle!lifeVars
    BY <2>6, SetRowStutters DEF PhaseOf, CreditsOf
  <2>7. CASE \/ \E w \in Worker : RenewLease(j, w)
             \/ MarkDispatched(j) \/ LeaseExpires(j) \/ RetryComesDue(j) \/ DispatchAges(j)
    <3>1. ASSUME NEW l PROVE LET s == [r EXCEPT !.lease = l]
                             IN  /\ s.status = r.status /\ s.worker = r.worker
                                 /\ s.max = r.max /\ s.attempts = r.attempts
      BY <2>0 DEF Row
    <3>2. ASSUME NEW l PROVE LET s == [r EXCEPT !.retry = l]
                             IN  /\ s.status = r.status /\ s.worker = r.worker
                                 /\ s.max = r.max /\ s.attempts = r.attempts
      BY <2>0 DEF Row
    <3>3. ASSUME NEW l PROVE LET s == [r EXCEPT !.dispatched = l]
                             IN  /\ s.status = r.status /\ s.worker = r.worker
                                 /\ s.max = r.max /\ s.attempts = r.attempts
      BY <2>0 DEF Row
    <3>4. QED
      BY <2>6, <2>7, <3>1, <3>2, <3>3
         DEF RenewLease, MarkDispatched, LeaseExpires, RetryComesDue, DispatchAges
  <2>8. QED
    BY <1>2, <2>1, <2>2, <2>3, <2>4, <2>5, <2>7 DEF JobStep
<1>3. CASE UNCHANGED storeVars
  BY <1>3 DEF storeVars, Lifecycle!lifeVars, lifePhase, lifeHolder, lifeCredits
<1>4. QED
  BY <1>1, <1>2, <1>3 DEF StoreNext

\* The job store implements the abstract life of a job: one holder at a time,
\* one credit per hand-over, one end.
THEOREM StoreImplementsLifecycle == StoreSpec => ImplementsLifecycle
BY InitImplements, StepImplements, StoreInvariant, PTL
   DEF StoreSpec, ImplementsLifecycle, Lifecycle!LifeSpec
=============================================================================
