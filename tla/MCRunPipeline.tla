---------------------------- MODULE MCRunPipeline ----------------------------
(***************************************************************************)
(* Values for the constants of RunPipeline that a configuration file       *)
(* cannot write down.                                                      *)
(***************************************************************************)
EXTENDS RunPipeline, TLC

First == CHOOSE j \in Job : TRUE

\* How many inputs the jobs have.
OneInput  == [j \in Job |-> 1]
TwoForOne == [j \in Job |-> IF j = First THEN 2 ELSE 1]

\* Everything a worker may pass to Complete with up to two inputs and attempts.
Answers == [attempt : 1..2, outs : UNION {[1..n -> Output] : n \in 0..2}]

\* The two scenarios of the liveness run, in one specification: whatever can
\* happen to one job that is alone, and two jobs with the budget the API gives
\* them that crowd each other out of the stream while no call fails, no lease
\* runs out and no execution ends in a platform error.
Alone  == \A j \in Job \ {First} : executions[j] = AbsentRow
Calm   == /\ faults = 0
          /\ \A j \in Job : executions[j].max = APIMaxAttempts /\ executions[j].lease # "expired"
          /\ \A w \in Worker : wk[w].pc # "fail"
Scenario == Alone \/ Calm

ScenarioInit == PipeInit /\ Scenario

\* Nothing that is fair is left out for ever: a worker goes on until its lease
\* is given back, and may end an execution well.
ScenarioSpec ==
  /\ ScenarioInit
  /\ [][PipeNext /\ Scenario']_pipeVars
  /\ PipeFairness

\* Workers are interchangeable (used by the runs without liveness).
WorkerSymmetry == Permutations(Worker)
=============================================================================
