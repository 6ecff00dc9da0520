-------------------------- MODULE ProblemAuthoring --------------------------
(***************************************************************************)
(* Problems and their test cases: the requests that write them             *)
(* (server/problem_handler.go, repository/problem_repo.go and              *)
(* testcase_repo.go), and the submissions that are judged against them     *)
(* meanwhile (judge/engine.go).  createFullProblem inserts the problem and *)
(* then one test after the other, each in a statement of its own and       *)
(* without a transaction, so Judge comes in between, and a failed          *)
(* statement or a dead process leaves a part.                              *)
(*                                                                         *)
(* Rows are never changed or removed: Judge, which reads the problem and   *)
(* then its tests, is modelled as reading both with the second query.      *)
(***************************************************************************)
EXTENDS Integers, Sequences, FiniteSets, SequencesExt

CONSTANTS
  Author,      \* requests that write; a problem's id is that of its request
  NoProblem,   \* the id of no problem
  Body,        \* what a request may ask for
  Submission,  \* submissions
  MaxFaults    \* bound: how many faults a behaviour has

Visibility == {"PUBLIC", "HIDDEN"}
Status     == {"DRAFT", "PUBLISHED", "ARCHIVED"}

\* The body of a request; createTestCase has one test case in its.
BodyRec == [kind : {"full", "test"}, slug : STRING, status : Status,
            cases : Seq([visibility : Visibility, sort_order : Int])]

ASSUME AuthoringConstants ==
  /\ NoProblem \notin Author /\ MaxFaults \in Nat
  /\ \A b \in Body : b \in BodyRec /\ (b.kind = "test" => Len(b.cases) = 1)

VARIABLES
  problems,    \* problems[a]: the row that request a inserted
  test_cases,  \* the table
  au,          \* au[a]: an authoring request and its progress
  sub,         \* sub[s]: a submission
  faults       \* how many faults there were

authVars == <<problems, test_cases, au, sub, faults>>

\* A row: the n-th test case of request `by`, for the problem of that id.
TestCase(p, a, n, tc) == [problem |-> p, by |-> a, n |-> n,
                          visibility |-> tc.visibility, sort_order |-> tc.sort_order]

AuthInit ==
  /\ problems   = [a \in Author |-> [status |-> "none", slug |-> ""]]
  /\ test_cases = {}
  /\ au \in [Author -> [body : Body, pc : {"problem"}, problem : {NoProblem}, next : {1}, code : {0}]]
  /\ sub    = [s \in Submission |-> [pc |-> "new", problem |-> NoProblem, tests |-> <<>>]]
  /\ faults = 0

Fault == faults < MaxFaults /\ faults' = faults + 1

-----------------------------------------------------------------------------
(* Statements *)

\* ListAll, whatever the status: the ids a client can know of.
ListAll == {a \in Author : problems[a].status # "none"}

SlugTaken(slug) == \E a \in ListAll : problems[a].slug = slug

\* The problem that request a goes on with after Create: slug is UNIQUE.
CreateProblemUpserts(a) ==
  LET b == au[a].body
      p == IF SlugTaken(b.slug) THEN CHOOSE q \in ListAll : problems[q].slug = b.slug ELSE a
  IN  /\ problems' = [problems EXCEPT ![p] = [status |-> b.status, slug |-> b.slug]]
      /\ au' = [au EXCEPT ![a].problem = p, ![a].pc = "tests"]
CreateProblem(a) ==
  LET b == au[a].body
  IN  /\ ~ SlugTaken(b.slug)
      /\ problems' = [problems EXCEPT ![a] = [status |-> b.status, slug |-> b.slug]]
      /\ au' = [au EXCEPT ![a].problem = a, ![a].pc = "tests"]

\* GetByProblemID: ORDER BY sort_order, equal ones in any order.
Selected(p, includeHidden) ==
  {t \in test_cases : t.problem = p /\ (includeHidden \/ t.visibility = "PUBLIC")}

Sorted(T) == {q \in SetToSeqs(T) : \A i, j \in DOMAIN q : i < j => q[i].sort_order <= q[j].sort_order}

Answer(a, c) == au' = [au EXCEPT ![a].pc = "done", ![a].code = c]

-----------------------------------------------------------------------------
(* createProblem and createFullProblem *)

\* Create, which createProblem ends with (its body has no test cases).
InsertProblem(a) ==
  /\ au[a].pc = "problem" /\ au[a].body.kind = "full"
  /\ CreateProblem(a)
  /\ UNCHANGED <<test_cases, faults, sub>>

SlugRefused(a) ==
  /\ au[a].pc = "problem" /\ au[a].body.kind = "full"
  /\ SlugTaken(au[a].body.slug)
  /\ Answer(a, 500)
  /\ UNCHANGED <<problems, test_cases, faults, sub>>

\* The order given, or the position in the request if that is 0.
OrderAsGiven(tc, n) == tc
WithOrder(tc, n) == IF tc.sort_order = 0 THEN [tc EXCEPT !.sort_order = n] ELSE tc

RowOf(a, n) == TestCase(au[a].problem, a, n, WithOrder(au[a].body.cases[n], n))

Inserting(a) == /\ au[a].pc = "tests" /\ au[a].body.kind = "full"
                /\ au[a].next <= Len(au[a].body.cases)

InsertTest(a) ==
  /\ Inserting(a)
  /\ test_cases' = test_cases \cup {RowOf(a, au[a].next)}
  /\ au' = [au EXCEPT ![a].next = @ + 1]
  /\ UNCHANGED <<problems, faults, sub>>

Created(a) ==
  /\ au[a].pc = "tests" /\ au[a].body.kind = "full"
  /\ au[a].next > Len(au[a].body.cases)
  /\ Answer(a, 201)
  /\ UNCHANGED <<problems, test_cases, faults, sub>>

-----------------------------------------------------------------------------
(* createTestCase: the order is taken as it is, and the problem has to be   *)
(* there.  Its 500 is also that of an insert which failed unexecuted.       *)

AddTest(a) ==
  /\ au[a].pc = "problem" /\ au[a].body.kind = "test"
  /\ \/ \E p \in ListAll :
          /\ test_cases' = test_cases \cup {TestCase(p, a, 1, au[a].body.cases[1])}
          /\ au' = [au EXCEPT ![a].pc = "done", ![a].code = 201, ![a].problem = p]
     \/ Answer(a, 500) /\ UNCHANGED test_cases
  /\ UNCHANGED <<problems, faults, sub>>

-----------------------------------------------------------------------------
(* Submissions *)

\* createSubmission up to its insert; any other status than PUBLISHED is refused.
Submit(s) ==
  /\ sub[s].pc = "new"
  /\ \E p \in ListAll : /\ problems[p].status = "PUBLISHED"
                        /\ sub' = [sub EXCEPT ![s].pc = "queued", ![s].problem = p]
  /\ UNCHANGED <<problems, test_cases, au, faults>>

\* Judge reads the problem and all its tests, and runs them in that order; with
\* none at all the verdict is ACCEPTED.
Judge(s) ==
  /\ sub[s].pc = "queued"
  /\ \E q \in Sorted(Selected(sub[s].problem, TRUE)) :
       sub' = [sub EXCEPT ![s].pc = "judged", ![s].tests = q]
  /\ UNCHANGED <<problems, test_cases, au, faults>>

-----------------------------------------------------------------------------
(* Faults: a statement fails, executed or not (the client is gone and its   *)
(* context cancelled, the connection breaks), or the process dies.          *)

StatementFailsUnnoticed(a) ==
  /\ Fault
  /\ Inserting(a)
  /\ Answer(a, 201)
  /\ UNCHANGED <<problems, test_cases, sub>>
StatementFails(a) ==
  /\ Fault
  /\ Answer(a, 500)
  /\ \/ /\ au[a].pc = "problem" /\ au[a].body.kind = "full" /\ ~ SlugTaken(au[a].body.slug)
        /\ problems' \in {problems, [problems EXCEPT ![a] =
             [status |-> au[a].body.status, slug |-> au[a].body.slug]]}
        /\ UNCHANGED test_cases
     \/ /\ Inserting(a)
        /\ test_cases' \in {test_cases, test_cases \cup {RowOf(a, au[a].next)}}
        /\ UNCHANGED problems
     \/ /\ au[a].pc = "problem" /\ au[a].body.kind = "test"
        /\ \E p \in ListAll : test_cases' = test_cases \cup {TestCase(p, a, 1, au[a].body.cases[1])}
        /\ UNCHANGED problems
  /\ UNCHANGED sub

ProcessDies(a) ==
  /\ Fault
  /\ au[a].pc = "tests"
  /\ au' = [au EXCEPT ![a].pc = "cut"]
  /\ UNCHANGED <<problems, test_cases, sub>>

AuthNext ==
  \/ \E a \in Author : \/ InsertProblem(a) \/ SlugRefused(a) \/ InsertTest(a) \/ Created(a)
                       \/ AddTest(a) \/ StatementFails(a) \/ ProcessDies(a)
  \/ \E s \in Submission : Submit(s) \/ Judge(s)

AuthSpec == AuthInit /\ [][AuthNext]_authVars

-----------------------------------------------------------------------------
(* Properties *)

\* Two requests for one slug, at the same time or one as a retry of the other:
\* one of them has the problem, and no test of the other is ever mixed in.
SlugsAreNotMixed ==
  /\ \A a, b \in ListAll : problems[a].slug = problems[b].slug => a = b
  /\ \A t \in test_cases : au[t.by].body.kind = "full" => t.problem = t.by

\* Once a request has been answered with 201, whoever is judged is judged
\* against every test it had: nobody is accepted for lack of tests.
JudgedInFull ==
  [][\A s \in Submission : \A a \in Author :
       (sub[s].pc = "queued" /\ sub'[s].pc = "judged" /\ au[a].code = 201
          /\ au[a].problem = sub[s].problem)
         => \A n \in DOMAIN au[a].body.cases :
              \E i \in DOMAIN sub'[s].tests : sub'[s].tests[i].by = a /\ sub'[s].tests[i].n = n]_authVars

OrdersLeftOut(a) == \A n \in DOMAIN au[a].body.cases : au[a].body.cases[n].sort_order = 0

\* Whenever somebody is judged, while tests are still inserted, after a failure
\* in the middle, with tests added by others: the tests of a request that left
\* their order out are run in the order of the request, each once and without a
\* gap, so the first that fails is the first the author wrote.
JudgedInOrder ==
  \A s \in Submission : \A a \in Author :
    LET tests == sub[s].tests
        mine  == {i \in DOMAIN tests : tests[i].by = a}
    IN  (au[a].body.kind = "full" /\ OrdersLeftOut(a)) =>
          \A i \in mine :
            /\ \A n \in 1..(tests[i].n - 1) : \E j \in mine : j < i /\ tests[j].n = n
            /\ \A j \in mine : tests[j].n = tests[i].n => j = i
=============================================================================
