------------------------ MODULE MCSubmissionJudging ------------------------
(***************************************************************************)
(* Values for the constants of SubmissionJudging that a configuration file *)
(* cannot write down.                                                      *)
(***************************************************************************)
EXTENDS SubmissionJudging

\* A problem with two test cases for one submission, with one for the others.
OneOrTwoTests ==
  LET one == CHOOSE s \in Sub : TRUE IN [s \in Sub |-> IF s = one THEN 2 ELSE 1]
=============================================================================
