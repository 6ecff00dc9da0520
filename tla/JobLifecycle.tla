---------------------------- MODULE JobLifecycle ----------------------------
(***************************************************************************)
(* What a job store promises, with every column, lease and timestamp left  *)
(* out: a job that has been submitted is handed to one worker at a time,   *)
(* every hand-over spends one credit of a budget fixed at submission, and  *)
(* the job ends exactly once, either answered ("done") or given up         *)
(* ("dead").  It is the contract written in the comments of the JobStore   *)
(* interface (internal/jobs/store.go:16-40); ExecutionStore is shown to    *)
(* implement it.                                                           *)
(***************************************************************************)
EXTENDS Naturals

CONSTANTS
  Job,        \* job identifiers
  Worker,     \* worker names
  NoWorker,   \* the holder of a job nobody holds
  Budget      \* the budgets (numbers of hand-overs) a job may be given

VARIABLES
  phase,      \* phase[j]: where job j is in its life
  holder,     \* holder[j]: the worker job j has been handed to
  credits     \* credits[j]: how many more times j may be handed out

lifeVars == <<phase, holder, credits>>

Phase == {"none", "waiting", "held", "done", "dead"}

LifeInit ==
  /\ phase   \in [Job -> {"none", "waiting"}]
  /\ holder  = [j \in Job |-> NoWorker]
  /\ credits \in [Job -> Budget \cup {0}]
  /\ \A j \in Job : (phase[j] = "none") <=> (credits[j] = 0)

\* Create: the job enters the store.
Submit(j, n) ==
  /\ phase[j] = "none"
  /\ phase'   = [phase EXCEPT ![j] = "waiting"]
  /\ credits' = [credits EXCEPT ![j] = n]
  /\ UNCHANGED holder

\* Claim: a waiting job is handed to one worker, at the price of a credit.
Acquire(j, w) ==
  /\ phase[j] = "waiting"
  /\ credits[j] > 0
  /\ phase'   = [phase EXCEPT ![j] = "held"]
  /\ holder'  = [holder EXCEPT ![j] = w]
  /\ credits' = [credits EXCEPT ![j] = @ - 1]

\* Complete: the job is answered, for good.
Finish(j) ==
  /\ phase[j] = "held"
  /\ phase'  = [phase EXCEPT ![j] = "done"]
  /\ holder' = [holder EXCEPT ![j] = NoWorker]
  /\ UNCHANGED credits

\* FailJob, RecoverAbandonedJobs: some held jobs are taken from their workers;
\* each waits again if it has credit left and is given up otherwise.
Revoke(S) ==
  /\ S # {}
  /\ \A j \in S : phase[j] = "held"
  /\ phase'  = [j \in Job |-> IF j \notin S THEN phase[j]
                              ELSE IF credits[j] > 0 THEN "waiting" ELSE "dead"]
  /\ holder' = [j \in Job |-> IF j \in S THEN NoWorker ELSE holder[j]]
  /\ UNCHANGED credits

LifeNext ==
  \/ \E j \in Job, n \in Budget : Submit(j, n)
  \/ \E j \in Job, w \in Worker : Acquire(j, w)
  \/ \E j \in Job : Finish(j)
  \/ \E S \in SUBSET Job : Revoke(S)

LifeSpec == LifeInit /\ [][LifeNext]_lifeVars
=============================================================================
