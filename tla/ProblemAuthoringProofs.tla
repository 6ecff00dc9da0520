----------------------- MODULE ProblemAuthoringProofs -----------------------
(***************************************************************************)
(* Proofs about ProblemAuthoring for any requests, bodies, submissions and *)
(* faults.                                                                 *)
(*                                                                         *)
(* createFullProblem has no transaction; what stands in for one is that a  *)
(* request inserts its tests one after the other and never goes on after a *)
(* failure.  So its rows are at all times the first ones of its body and   *)
(* all under the problem it created itself.                                *)
(***************************************************************************)
EXTENDS ProblemAuthoring, FiniteSetTheorems, TLAPS

AuthorPC == {"problem", "tests", "done", "cut"}

AuthorRec == [body : Body, pc : AuthorPC, problem : Author \cup {NoProblem},
              next : Nat \ {0}, code : {0, 201, 500}]

ProblemRow == [status : Status \cup {"none"}, slug : {b.slug : b \in Body} \cup {""}]

TestRow == [problem : Author, by : Author, n : Nat \ {0}, visibility : Visibility, sort_order : Int]

SubmissionRec == [pc : {"new", "queued", "judged"}, problem : Author \cup {NoProblem},
                  tests : Seq(TestRow)]

AuthTypes ==
  /\ problems \in [Author -> ProblemRow]
  /\ test_cases \subseteq TestRow /\ IsFiniteSet(test_cases)
  /\ au \in [Author -> AuthorRec]
  /\ sub \in [Submission -> SubmissionRec]
  /\ faults \in Nat

IsFull(a) == au[a].body.kind = "full"

\* slug is UNIQUE.
SlugInv == \A a, b \in ListAll : problems[a].slug = problems[b].slug => a = b

\* Where a request for a full problem is, its rows before `next` are there,
\* under the problem it created, and it is answered with 201 after the last.
AuthorInv(a) ==
  /\ IsFull(a) =>
       /\ au[a].pc \in {"tests", "cut"} \/ au[a].next > 1 \/ au[a].code = 201 => au[a].problem = a
       /\ \A n \in 1..(au[a].next - 1) : n \in DOMAIN au[a].body.cases /\ RowOf(a, n) \in test_cases
       /\ au[a].code = 201 => au[a].next > Len(au[a].body.cases)
       /\ au[a].pc = "problem" => au[a].next = 1
  /\ ~ IsFull(a) => /\ au[a].pc \in {"problem", "done"}
                    /\ au[a].code = 201 =>
                         TestCase(au[a].problem, a, 1, au[a].body.cases[1]) \in test_cases
  /\ au[a].pc # "done" => au[a].code = 0

\* A row is one of those, or that of a statement that was said to have failed.
RowInv(t) == IsFull(t.by) =>
  /\ au[t.by].problem = t.by /\ t.n \in DOMAIN au[t.by].body.cases /\ t = RowOf(t.by, t.n)
  /\ t.n < au[t.by].next \/ (t.n = au[t.by].next /\ au[t.by].pc = "done")

\* The inductive invariant.
AuthInv == /\ AuthTypes /\ SlugInv /\ JudgedInOrder
           /\ \A a \in Author : AuthorInv(a)
           /\ \A t \in test_cases : RowInv(t)

-----------------------------------------------------------------------------
(* Rows *)

\* The fields of a row.
LEMMA TestCaseFields ==
  ASSUME NEW p \in Author, NEW a \in Author, NEW n \in Nat \ {0},
         NEW tc \in [visibility : Visibility, sort_order : Int]
  PROVE  /\ TestCase(p, a, n, tc) \in TestRow
         /\ TestCase(p, a, n, tc).problem = p /\ TestCase(p, a, n, tc).by = a
         /\ TestCase(p, a, n, tc).n = n /\ TestCase(p, a, n, tc).sort_order = tc.sort_order
BY DEF TestCase, TestRow

\* The test cases of a body.
LEMMA BodyFacts ==
  ASSUME AuthTypes, NEW a \in Author
  PROVE  /\ au[a] \in AuthorRec /\ au[a].body \in BodyRec
         /\ Len(au[a].body.cases) \in Nat
         /\ DOMAIN au[a].body.cases = 1..Len(au[a].body.cases)
         /\ \A n \in DOMAIN au[a].body.cases :
              au[a].body.cases[n] \in [visibility : Visibility, sort_order : Int]
         /\ ~ IsFull(a) => Len(au[a].body.cases) = 1
<1>1. au[a] \in AuthorRec
  BY DEF AuthTypes
<1>2. au[a].body \in Body
  BY <1>1 DEF AuthorRec
<1>3. au[a].body \in BodyRec /\ (au[a].body.kind = "test" => Len(au[a].body.cases) = 1)
  BY <1>2, AuthoringConstants
<1>4. au[a].body.cases \in Seq([visibility : Visibility, sort_order : Int])
  BY <1>3 DEF BodyRec
<1>5. au[a].body.kind \in {"full", "test"}
  BY <1>3 DEF BodyRec
<1>6. ASSUME NEW S, NEW q \in Seq(S)
      PROVE  Len(q) \in Nat /\ DOMAIN q = 1..Len(q) /\ \A n \in DOMAIN q : q[n] \in S
  OBVIOUS
<1>7. ~ IsFull(a) => Len(au[a].body.cases) = 1
  BY <1>3, <1>5 DEF IsFull
<1>8. QED
  BY <1>1, <1>3, <1>4, <1>6, <1>7

\* The row of the n-th test; an order that was left out is the position.
LEMMA RowFacts ==
  ASSUME AuthTypes, NEW a \in Author, NEW n \in DOMAIN au[a].body.cases, au[a].problem \in Author
  PROVE  /\ RowOf(a, n) \in TestRow
         /\ RowOf(a, n).problem = au[a].problem /\ RowOf(a, n).by = a /\ RowOf(a, n).n = n
         /\ au[a].body.cases[n].sort_order = 0 => RowOf(a, n).sort_order = n
<1> DEFINE tc == au[a].body.cases[n]
           w  == WithOrder(tc, n)
<1>1. n \in Nat \ {0} /\ tc \in [visibility : Visibility, sort_order : Int]
  BY BodyFacts
<1>2. w \in [visibility : Visibility, sort_order : Int] /\ (tc.sort_order = 0 => w.sort_order = n)
  BY <1>1 DEF WithOrder
<1>3. RowOf(a, n) = TestCase(au[a].problem, a, n, w)
  BY DEF RowOf
<1> HIDE DEF w, tc
<1>4. QED
  BY <1>1, <1>2, <1>3, TestCaseFields DEF tc

-----------------------------------------------------------------------------
(* Requests *)

\* Request a moves: its own part is left to show.
LEMMA AuthorMoves ==
  ASSUME AuthInv, NEW a \in Author, au' \in [Author -> AuthorRec],
         au'[a].body = au[a].body, \A b \in Author : b # a => au'[b] = au[b],
         UNCHANGED sub, faults' \in Nat,
         problems' \in [Author -> ProblemRow], SlugInv',
         test_cases \subseteq test_cases',
         UNCHANGED test_cases \/ \E t \in TestRow : t.by = a /\ test_cases' = test_cases \cup {t},
         AuthorInv(a)',
         \A t \in test_cases' : t.by = a => RowInv(t)'
  PROVE  AuthInv'
<1>0. AuthTypes
  BY DEF AuthInv
<1>1. test_cases' \subseteq TestRow /\ \A t \in test_cases' : t.by # a => t \in test_cases
  BY <1>0 DEF AuthTypes
<1>2. IsFiniteSet(test_cases')
  BY <1>0, FS_AddElement DEF AuthTypes
<1>3. AuthTypes'
  BY <1>0, <1>1, <1>2 DEF AuthTypes
<1>4. ASSUME NEW b \in Author PROVE au'[b].body = au[b].body
  BY <1>4
<1>5. JudgedInOrder'
  <2>1. JudgedInOrder
    BY DEF AuthInv
  <2>2. \A b \in Author : OrdersLeftOut(b)' <=> OrdersLeftOut(b)
    BY <1>4 DEF OrdersLeftOut
  <2>3. QED
    BY <1>4, <2>1, <2>2 DEF JudgedInOrder
<1>6. ASSUME NEW b \in Author, b # a PROVE AuthorInv(b)'
  <2>1. AuthorInv(b) /\ au'[b] = au[b]
    BY <1>6 DEF AuthInv
  <2>2. \A n : RowOf(b, n)' = RowOf(b, n)
    BY <2>1 DEF RowOf
  <2>3. QED
    BY <2>1, <2>2 DEF AuthorInv, IsFull
<1>7. ASSUME NEW t \in test_cases' PROVE RowInv(t)'
  <2>1. CASE t.by = a
    BY <2>1
  <2>2. CASE t.by # a
    <3>1. t \in test_cases /\ t \in TestRow /\ t.by \in Author
      BY <1>1, <2>2 DEF TestRow
    <3>2. RowInv(t) /\ au'[t.by] = au[t.by]
      BY <2>2, <3>1 DEF AuthInv
    <3>3. RowOf(t.by, t.n)' = RowOf(t.by, t.n)
      BY <3>2 DEF RowOf
    <3>4. QED
      BY <3>2, <3>3 DEF RowInv, IsFull
  <2>3. QED
    BY <2>1, <2>2
<1>8. QED
  BY <1>3, <1>5, <1>6, <1>7 DEF AuthInv

\* A slug that nobody has is taken by one.
LEMMA SlugInserted ==
  ASSUME AuthInv, NEW a \in Author, ~ SlugTaken(au[a].body.slug),
         problems' = [problems EXCEPT ![a] = [status |-> au[a].body.status, slug |-> au[a].body.slug]]
  PROVE  problems' \in [Author -> ProblemRow] /\ SlugInv'
<1>0. AuthTypes /\ SlugInv
  BY DEF AuthInv
<1> DEFINE row == [status |-> au[a].body.status, slug |-> au[a].body.slug]
<1>1. au[a].body \in BodyRec /\ au[a].body \in Body
  BY <1>0, BodyFacts DEF AuthorRec
<1>2. row \in ProblemRow /\ row.slug = au[a].body.slug
  BY <1>1 DEF BodyRec, ProblemRow
<1> HIDE DEF row
<1>3. problems' = [problems EXCEPT ![a] = row]
  BY DEF row
<1>4. problems' \in [Author -> ProblemRow] /\ problems'[a] = row /\ \A b \in Author : b # a => problems'[b] = problems[b]
  BY <1>0, <1>2, <1>3 DEF AuthTypes
<1>5. \A b \in ListAll : problems[b].slug # au[a].body.slug
  BY DEF SlugTaken
<1>6. \A b \in Author : b \in ListAll' /\ b # a => b \in ListAll
  BY <1>4 DEF ListAll
<1>7. \A b \in ListAll' : b \in Author
  BY DEF ListAll
<1>8. SlugInv'
  BY <1>0, <1>2, <1>4, <1>5, <1>6, <1>7 DEF SlugInv
<1>9. QED
  BY <1>4, <1>8

\* A step that leaves the table problems alone keeps what is said of it.
LEMMA SlugsRest ==
  ASSUME AuthInv, UNCHANGED problems
  PROVE  problems' \in [Author -> ProblemRow] /\ SlugInv'
BY DEF AuthInv, AuthTypes, SlugInv, ListAll

\* A request that changes only its position and its answer, to 500 or to
\* nothing, keeps its part of the invariant.
LEMMA StopsShort ==
  ASSUME AuthInv, NEW a \in Author, au' \in [Author -> AuthorRec],
         au'[a].body = au[a].body, \A b \in Author : b # a => au'[b] = au[b],
         au'[a].next = au[a].next, au'[a].problem = au[a].problem,
         \/ au'[a].pc = "done" /\ au'[a].code = 500
         \/ au'[a].pc = "cut" /\ au[a].pc = "tests" /\ au'[a].code = au[a].code,
         UNCHANGED sub, faults' \in Nat,
         problems' \in [Author -> ProblemRow], SlugInv',
         \/ UNCHANGED test_cases
         \/ Inserting(a) /\ au'[a].pc = "done" /\ test_cases' = test_cases \cup {RowOf(a, au[a].next)}
  PROVE  AuthInv'
<1>0. AuthTypes /\ AuthorInv(a)
  BY DEF AuthInv
<1>1. \A n : RowOf(a, n)' = RowOf(a, n)
  BY DEF RowOf
<1>2. Inserting(a) => au[a].next \in DOMAIN au[a].body.cases /\ au[a].problem = a /\ IsFull(a)
  BY <1>0, BodyFacts DEF Inserting, AuthorInv, IsFull, AuthorRec
<1>3. AuthorInv(a)'
  <2>1. IsFull(a)' <=> IsFull(a)
    BY DEF IsFull
  <2>2. test_cases \subseteq test_cases'
    OBVIOUS
  <2>3. QED
    BY <1>0, <1>1, <2>1, <2>2 DEF AuthorInv
<1>4. ASSUME NEW t \in test_cases', t.by = a PROVE RowInv(t)'
  <2>1. CASE t \in test_cases
    <3>1. RowInv(t)
      BY <2>1 DEF AuthInv
    <3>2. au[a].pc = "done" => au'[a].pc = "done"
      OBVIOUS
    <3>3. QED
      BY <1>1, <1>4, <3>1, <3>2 DEF RowInv, IsFull
  <2>2. CASE t \notin test_cases
    <3>1. t = RowOf(a, au[a].next) /\ Inserting(a) /\ au'[a].pc = "done"
      BY <2>2
    <3>2. t.n = au[a].next
      BY <1>0, <1>2, <3>1, RowFacts
    <3>3. QED
      BY <1>1, <1>2, <1>4, <3>1, <3>2 DEF RowInv, IsFull
  <2>3. QED
    BY <2>1, <2>2
<1>5. UNCHANGED test_cases \/ \E t \in TestRow : t.by = a /\ test_cases' = test_cases \cup {t}
  BY <1>0, <1>2, RowFacts
<1>6. QED
  BY <1>3, <1>4, <1>5, AuthorMoves

\* What Answer leaves of a request.
LEMMA AnswerFields ==
  ASSUME AuthTypes, NEW a \in Author, NEW c \in {201, 500}, Answer(a, c)
  PROVE  /\ au' \in [Author -> AuthorRec] /\ au'[a].body = au[a].body
         /\ \A b \in Author : b # a => au'[b] = au[b]
         /\ au'[a].next = au[a].next /\ au'[a].problem = au[a].problem
         /\ au'[a].pc = "done" /\ au'[a].code = c
<1>1. au \in [Author -> AuthorRec] /\ au[a] \in AuthorRec
  BY DEF AuthTypes
<1> DEFINE u == [au[a] EXCEPT !.pc = "done"]
           v == [u EXCEPT !.code = c]
<1>2. u \in AuthorRec
  BY <1>1 DEF AuthorRec, AuthorPC
<1>3. u.body = au[a].body /\ u.next = au[a].next /\ u.problem = au[a].problem /\ u.pc = "done"
  BY <1>1 DEF AuthorRec
<1>4. au' = [au EXCEPT ![a] = v]
  <2> DEFINE m == [au EXCEPT ![a].pc = "done"]
  <2>1. m \in [Author -> AuthorRec] /\ m[a] = u /\ \A b \in Author : b # a => m[b] = au[b]
    BY <1>1, <1>2
  <2>2. au' = [m EXCEPT ![a].code = c]
    BY DEF Answer
  <2> HIDE DEF m, u
  <2>3. au' = [m EXCEPT ![a] = v]
    BY <2>1, <2>2
  <2> HIDE DEF v
  <2>4. [m EXCEPT ![a] = v] = [b \in Author |-> IF b = a THEN v ELSE m[b]]
    BY <2>1
  <2>5. [au EXCEPT ![a] = v] = [b \in Author |-> IF b = a THEN v ELSE au[b]]
    BY <1>1
  <2>6. QED
    BY <2>1, <2>3, <2>4, <2>5
<1> HIDE DEF u
<1>5. v \in AuthorRec
  BY <1>2 DEF AuthorRec
<1>6. v.body = u.body /\ v.next = u.next /\ v.problem = u.problem /\ v.pc = u.pc /\ v.code = c
  BY <1>2 DEF AuthorRec
<1> HIDE DEF v
<1>7. QED
  BY <1>1, <1>3, <1>4, <1>5, <1>6

\* Answer(a, 500) and the death of the process.
LEMMA StopFields ==
  ASSUME AuthTypes, NEW a \in Author,
         \/ Answer(a, 500)
         \/ au[a].pc = "tests" /\ au' = [au EXCEPT ![a].pc = "cut"]
  PROVE  /\ au' \in [Author -> AuthorRec] /\ au'[a].body = au[a].body
         /\ \A b \in Author : b # a => au'[b] = au[b]
         /\ au'[a].next = au[a].next /\ au'[a].problem = au[a].problem
         /\ \/ au'[a].pc = "done" /\ au'[a].code = 500 /\ Answer(a, 500)
            \/ au'[a].pc = "cut" /\ au[a].pc = "tests" /\ au'[a].code = au[a].code
<1>0. au \in [Author -> AuthorRec] /\ au[a] \in AuthorRec
  BY DEF AuthTypes
<1>1. CASE Answer(a, 500)
  BY <1>1, AnswerFields
<1>2. CASE au[a].pc = "tests" /\ au' = [au EXCEPT ![a].pc = "cut"]
  <2> DEFINE v == [au[a] EXCEPT !.pc = "cut"]
  <2>1. v \in AuthorRec
    BY <1>0 DEF AuthorRec, AuthorPC
  <2>2. /\ v.body = au[a].body /\ v.next = au[a].next /\ v.problem = au[a].problem
        /\ v.pc = "cut" /\ v.code = au[a].code
    BY <1>0 DEF AuthorRec
  <2>3. au' = [au EXCEPT ![a] = v]
    BY <1>0, <1>2
  <2> HIDE DEF v
  <2>4. QED
    BY <1>0, <1>2, <2>1, <2>2, <2>3
<1>3. QED
  BY <1>1, <1>2

\* The row of a createTestCase.
LEMMA AddedRow ==
  ASSUME AuthTypes, NEW a \in Author, ~ IsFull(a), NEW p \in ListAll
  PROVE  /\ TestCase(p, a, 1, au[a].body.cases[1]) \in TestRow
         /\ TestCase(p, a, 1, au[a].body.cases[1]).by = a
<1>1. au[a].body.cases[1] \in [visibility : Visibility, sort_order : Int]
  BY BodyFacts
<1>2. p \in Author /\ 1 \in Nat \ {0}
  BY DEF ListAll
<1>3. QED
  BY <1>1, <1>2, TestCaseFields

\* The row of a createTestCase is there although it was answered with 500.
LEMMA AddedUnnoticed ==
  ASSUME AuthInv, NEW a \in Author, au[a].pc = "problem", ~ IsFull(a), Answer(a, 500),
         UNCHANGED <<problems, sub>>, faults' \in Nat,
         NEW p \in ListAll, test_cases' = test_cases \cup {TestCase(p, a, 1, au[a].body.cases[1])}
  PROVE  AuthInv'
<1>0. AuthTypes
  BY DEF AuthInv
<1> DEFINE t == TestCase(p, a, 1, au[a].body.cases[1])
<1>1. t \in TestRow /\ t.by = a
  BY <1>0, AddedRow
<1>2. test_cases' = test_cases \cup {t}
  OBVIOUS
<1> HIDE DEF t
<1>3. /\ au' \in [Author -> AuthorRec] /\ au'[a].body = au[a].body
      /\ \A b \in Author : b # a => au'[b] = au[b]
      /\ au'[a].pc = "done" /\ au'[a].code = 500
  BY <1>0, AnswerFields
<1>4. ~ IsFull(a)'
  BY <1>3 DEF IsFull
<1>5. AuthorInv(a)' /\ \A u \in test_cases' : u.by = a => RowInv(u)'
  BY <1>3, <1>4 DEF AuthorInv, RowInv
<1>6. QED
  BY <1>1, <1>2, <1>3, <1>5, SlugsRest, AuthorMoves

\* Refusals, failed statements and deaths.
LEMMA FailingSteps ==
  ASSUME AuthInv, NEW a \in Author, SlugRefused(a) \/ StatementFails(a) \/ ProcessDies(a)
  PROVE  AuthInv'
<1>0. AuthTypes /\ faults \in Nat
  BY DEF AuthInv, AuthTypes
<1>1. CASE SlugRefused(a)
  BY <1>0, <1>1, StopFields, SlugsRest, StopsShort DEF SlugRefused
<1>2. CASE StatementFails(a)
  <2>1. faults' \in Nat /\ UNCHANGED sub /\ Answer(a, 500)
    BY <1>0, <1>2 DEF StatementFails, Fault
  <2>2. problems' \in [Author -> ProblemRow] /\ SlugInv'
    BY <1>2, SlugInserted, SlugsRest DEF StatementFails
  <2>3. au'[a].pc = "done" /\ au'[a].code = 500
    BY <1>0, <2>1, AnswerFields
  <2>4. CASE UNCHANGED test_cases \/ (Inserting(a) /\ test_cases' = test_cases \cup {RowOf(a, au[a].next)})
    BY <1>0, <2>1, <2>2, <2>3, <2>4, StopFields, StopsShort
  <2>5. ASSUME au[a].pc = "problem", au[a].body.kind = "test", UNCHANGED problems,
               NEW p \in ListAll, test_cases' = test_cases \cup {TestCase(p, a, 1, au[a].body.cases[1])}
        PROVE  AuthInv'
    BY <2>1, <2>5, AddedUnnoticed DEF IsFull
  <2>6. QED
    BY <1>2, <2>4, <2>5 DEF StatementFails
<1>3. CASE ProcessDies(a)
  <2>1. /\ faults' \in Nat /\ UNCHANGED <<sub, problems, test_cases>>
        /\ au[a].pc = "tests" /\ au' = [au EXCEPT ![a].pc = "cut"]
    BY <1>0, <1>3 DEF ProcessDies, Fault
  <2>2. QED
    BY <1>0, <2>1, StopFields, SlugsRest, StopsShort
<1>4. QED
  BY <1>1, <1>2, <1>3

\* The statement that makes the problem keeps the invariant.
LEMMA InsertProblemStep ==
  ASSUME AuthInv, NEW a \in Author, InsertProblem(a)
  PROVE  AuthInv'
<1>0. AuthTypes /\ AuthorInv(a) /\ au \in [Author -> AuthorRec] /\ au[a] \in AuthorRec
  BY DEF AuthInv, AuthTypes
<1>1. /\ au[a].pc = "problem" /\ IsFull(a) /\ ~ SlugTaken(au[a].body.slug)
      /\ problems' = [problems EXCEPT ![a] = [status |-> au[a].body.status, slug |-> au[a].body.slug]]
      /\ au' = [au EXCEPT ![a].problem = a, ![a].pc = "tests"]
      /\ UNCHANGED <<test_cases, faults, sub>>
  BY DEF InsertProblem, CreateProblem, IsFull
<1> DEFINE v == [au[a] EXCEPT !.problem = a, !.pc = "tests"]
<1>2. v \in AuthorRec
  <2> DEFINE u == [au[a] EXCEPT !.problem = a]
  <2>1. u \in AuthorRec
    BY <1>0 DEF AuthorRec
  <2> HIDE DEF u
  <2>2. [u EXCEPT !.pc = "tests"] \in AuthorRec
    BY <2>1 DEF AuthorRec, AuthorPC
  <2>3. QED
    BY <2>2 DEF u
<1>3. /\ v.body = au[a].body /\ v.next = au[a].next /\ v.problem = a
      /\ v.pc = "tests" /\ v.code = au[a].code
  BY <1>0 DEF AuthorRec
<1>4. au' = [au EXCEPT ![a] = v]
  BY <1>0, <1>1
<1> HIDE DEF v
<1>5. au' \in [Author -> AuthorRec] /\ au'[a] = v /\ \A b \in Author : b # a => au'[b] = au[b]
  BY <1>0, <1>2, <1>4
<1>6. AuthorInv(a)'
  <2>1. au[a].next = 1 /\ au[a].code = 0
    BY <1>0, <1>1 DEF AuthorInv
  <2>2. IsFull(a)'
    BY <1>1, <1>3, <1>5 DEF IsFull
  <2>3. QED
    BY <1>3, <1>5, <2>1, <2>2 DEF AuthorInv
<1>7. ASSUME NEW t \in test_cases', t.by = a PROVE RowInv(t)'
  <2>1. t \in test_cases /\ RowInv(t) /\ t.n \in Nat \ {0}
    BY <1>0, <1>1, <1>7 DEF AuthInv, AuthTypes, TestRow
  <2>2. au[a].next = 1
    BY <1>0, <1>1 DEF AuthorInv
  <2>3. QED
    BY <1>1, <1>7, <2>1, <2>2 DEF RowInv
<1>8. faults' \in Nat
  BY <1>0, <1>1 DEF AuthTypes
<1>9. QED
  BY <1>1, <1>3, <1>5, <1>6, <1>7, <1>8, SlugInserted, AuthorMoves

\* So does the one that inserts the next test of the request.
LEMMA InsertTestStep ==
  ASSUME AuthInv, NEW a \in Author, InsertTest(a)
  PROVE  AuthInv'
<1>0. AuthTypes /\ AuthorInv(a) /\ au \in [Author -> AuthorRec] /\ au[a] \in AuthorRec
  BY DEF AuthInv, AuthTypes
<1> DEFINE n == au[a].next
<1>1. /\ Inserting(a) /\ test_cases' = test_cases \cup {RowOf(a, n)}
      /\ au' = [au EXCEPT ![a].next = n + 1] /\ UNCHANGED <<problems, faults, sub>>
  BY DEF InsertTest
<1>2. n \in DOMAIN au[a].body.cases /\ au[a].problem = a /\ IsFull(a) /\ n \in Nat \ {0}
      /\ au[a].pc = "tests" /\ au[a].code = 0
  BY <1>0, <1>1, BodyFacts DEF Inserting, AuthorInv, IsFull, AuthorRec
<1> DEFINE v == [au[a] EXCEPT !.next = n + 1]
<1>3. v \in AuthorRec
  BY <1>0, <1>2 DEF AuthorRec
<1>4. /\ v.body = au[a].body /\ v.next = n + 1 /\ v.problem = au[a].problem
      /\ v.pc = au[a].pc /\ v.code = au[a].code
  BY <1>0 DEF AuthorRec
<1>5. au' = [au EXCEPT ![a] = v]
  BY <1>0, <1>1
<1> HIDE DEF v
<1>6. au' \in [Author -> AuthorRec] /\ au'[a] = v /\ \A b \in Author : b # a => au'[b] = au[b]
  BY <1>0, <1>3, <1>5
<1>7. \A m : RowOf(a, m)' = RowOf(a, m)
  BY <1>4, <1>6 DEF RowOf
<1>8. /\ RowOf(a, n) \in TestRow /\ RowOf(a, n).by = a /\ RowOf(a, n).n = n
  BY <1>0, <1>2, RowFacts
<1>9. AuthorInv(a)'
  <2>1. IsFull(a)' /\ au'[a].problem = a /\ au'[a].pc = "tests" /\ au'[a].code = 0 /\ au'[a].next = n + 1
    BY <1>2, <1>4, <1>6 DEF IsFull
  <2>2. ASSUME NEW m \in 1..n
        PROVE  m \in DOMAIN au'[a].body.cases /\ RowOf(a, m)' \in test_cases'
    <3>1. CASE m = n
      BY <1>1, <1>2, <1>4, <1>6, <1>7, <3>1
    <3>2. CASE m # n
      <4>1. m \in 1..(n - 1)
        BY <1>2, <3>2
      <4>2. m \in DOMAIN au[a].body.cases /\ RowOf(a, m) \in test_cases
        BY <1>0, <1>2, <4>1 DEF AuthorInv
      <4>3. QED
        BY <1>1, <1>4, <1>6, <1>7, <4>2
    <3>3. QED
      BY <3>1, <3>2
  <2>3. (n + 1) - 1 = n
    BY <1>2
  <2>4. QED
    BY <2>1, <2>2, <2>3 DEF AuthorInv
<1>10. ASSUME NEW t \in test_cases', t.by = a PROVE RowInv(t)'
  <2>1. CASE t \in test_cases
    <3>1. RowInv(t) /\ t.n \in Nat
      BY <1>0, <2>1 DEF AuthInv, AuthTypes, TestRow
    <3>2. t.n < n
      BY <1>2, <1>10, <3>1 DEF RowInv
    <3>3. t.n < n + 1
      BY <1>2, <3>1, <3>2
    <3>4. QED
      BY <1>2, <1>4, <1>6, <1>7, <1>10, <3>1, <3>3 DEF RowInv
  <2>2. CASE t = RowOf(a, n)
    <3>1. n < n + 1
      BY <1>2
    <3>2. QED
      BY <1>2, <1>4, <1>6, <1>7, <1>8, <2>2, <3>1 DEF RowInv
  <2>3. QED
    BY <1>1, <2>1, <2>2
<1>11. faults' \in Nat
  BY <1>0, <1>1 DEF AuthTypes
<1>12. QED
  BY <1>1, <1>4, <1>6, <1>8, <1>9, <1>10, <1>11, SlugsRest, AuthorMoves

\* So does the answer 201.
LEMMA CreatedStep ==
  ASSUME AuthInv, NEW a \in Author, Created(a)
  PROVE  AuthInv'
<1>0. AuthTypes /\ AuthorInv(a) /\ au \in [Author -> AuthorRec] /\ au[a] \in AuthorRec
  BY DEF AuthInv, AuthTypes
<1>1. /\ au[a].pc = "tests" /\ IsFull(a) /\ au[a].next > Len(au[a].body.cases)
      /\ Answer(a, 201) /\ UNCHANGED <<problems, test_cases, faults, sub>>
  BY DEF Created, IsFull
<1>2. /\ au' \in [Author -> AuthorRec] /\ au'[a].body = au[a].body
      /\ \A b \in Author : b # a => au'[b] = au[b]
      /\ au'[a].next = au[a].next /\ au'[a].problem = au[a].problem
      /\ au'[a].pc = "done" /\ au'[a].code = 201
  BY <1>0, <1>1, AnswerFields
<1>3. \A m : RowOf(a, m)' = RowOf(a, m)
  BY <1>2 DEF RowOf
<1>4. AuthorInv(a)'
  <2>1. IsFull(a)'
    BY <1>1, <1>2 DEF IsFull
  <2>2. QED
    BY <1>0, <1>1, <1>2, <1>3, <2>1 DEF AuthorInv
<1>5. ASSUME NEW t \in test_cases', t.by = a PROVE RowInv(t)'
  <2>1. RowInv(t)
    BY <1>1 DEF AuthInv
  <2>2. QED
    BY <1>1, <1>2, <1>3, <1>5, <2>1 DEF RowInv
<1>6. faults' \in Nat
  BY <1>0, <1>1 DEF AuthTypes
<1>7. QED
  BY <1>1, <1>2, <1>4, <1>5, <1>6, SlugsRest, AuthorMoves

\* So does the single statement of createTestCase.
LEMMA AddTestStep ==
  ASSUME AuthInv, NEW a \in Author, AddTest(a)
  PROVE  AuthInv'
<1>0. AuthTypes /\ AuthorInv(a) /\ au \in [Author -> AuthorRec] /\ au[a] \in AuthorRec
  BY DEF AuthInv, AuthTypes
<1>1. au[a].pc = "problem" /\ ~ IsFull(a) /\ UNCHANGED <<problems, faults, sub>> /\ faults \in Nat
  BY <1>0 DEF AddTest, IsFull, AuthTypes
<1>2. CASE Answer(a, 500) /\ UNCHANGED test_cases
  <2>1. au'[a].pc = "done" /\ au'[a].code = 500
    BY <1>0, <1>2 DEF Answer, AuthorRec
  <2>2. QED
    BY <1>0, <1>1, <1>2, <2>1, StopFields, SlugsRest, StopsShort
<1>3. ASSUME NEW p \in ListAll,
             test_cases' = test_cases \cup {TestCase(p, a, 1, au[a].body.cases[1])},
             au' = [au EXCEPT ![a].pc = "done", ![a].code = 201, ![a].problem = p]
      PROVE  AuthInv'
  <2>0. p \in Author
    BY DEF ListAll
  <2> DEFINE v == [au[a] EXCEPT !.pc = "done", !.code = 201, !.problem = p]
             t == TestCase(p, a, 1, au[a].body.cases[1])
  <2>1. v \in AuthorRec
    <3> DEFINE x == [au[a] EXCEPT !.pc = "done"]
               y == [x EXCEPT !.code = 201]
    <3>1. x \in AuthorRec
      BY <1>0 DEF AuthorRec, AuthorPC
    <3> HIDE DEF x
    <3>2. y \in AuthorRec
      BY <3>1 DEF AuthorRec
    <3> HIDE DEF y
    <3>3. [y EXCEPT !.problem = p] \in AuthorRec
      BY <2>0, <3>2 DEF AuthorRec
    <3>4. QED
      BY <3>3 DEF x, y
  <2>2. v.body = au[a].body /\ v.problem = p /\ v.pc = "done" /\ v.code = 201
    BY <1>0 DEF AuthorRec
  <2>3. au' = [au EXCEPT ![a] = v]
    BY <1>0, <1>3
  <2> HIDE DEF v
  <2>4. au' \in [Author -> AuthorRec] /\ au'[a] = v /\ \A b \in Author : b # a => au'[b] = au[b]
    BY <1>0, <2>1, <2>3
  <2>5. t \in TestRow /\ t.by = a
    BY <1>0, <1>1, AddedRow
  <2> HIDE DEF t
  <2>6. ~ IsFull(a)'
    BY <1>1, <2>2, <2>4 DEF IsFull
  <2>7. AuthorInv(a)'
    BY <1>3, <2>2, <2>4, <2>6 DEF AuthorInv, t
  <2>8. \A u \in test_cases' : u.by = a => RowInv(u)'
    BY <2>6 DEF RowInv
  <2>9. test_cases' = test_cases \cup {t}
    BY <1>3 DEF t
  <2>10. QED
    BY <1>1, <2>2, <2>4, <2>5, <2>7, <2>8, <2>9, SlugsRest, AuthorMoves
<1>4. QED
  BY <1>2, <1>3 DEF AddTest

-----------------------------------------------------------------------------
(* Submissions *)

\* GetByProblemID returns every row it selects, once, by its sort_order.
LEMMA SortedFacts ==
  ASSUME NEW T, IsFiniteSet(T), NEW q \in Sorted(T)
  PROVE  /\ q \in Seq(T)
         /\ \A t \in T : \E i \in DOMAIN q : q[i] = t
         /\ \A i, j \in DOMAIN q : q[i] = q[j] => i = j
         /\ \A i, j \in DOMAIN q : i < j => q[i].sort_order <= q[j].sort_order
<1> DEFINE D == 1..Cardinality(T)
<1>1. Cardinality(T) \in Nat
  BY FS_CardinalityType
<1>2. q \in SetToSeqs(T) /\ \A i, j \in DOMAIN q : i < j => q[i].sort_order <= q[j].sort_order
  BY DEF Sorted
<1>3. q \in [D -> T] /\ \A i, j \in D : i # j => q[i] # q[j]
  BY <1>2 DEF SetToSeqs
<1>4. q \in Injection(D, T)
  BY <1>3 DEF Injection, IsInjective
<1>5. IsFiniteSet(D) /\ Cardinality(D) = Cardinality(T)
  BY <1>1, FS_Interval
<1> HIDE DEF D
<1>6. q \in Surjection(D, T)
  BY <1>4, <1>5, FS_Injection
<1>7. DOMAIN q = D /\ \A t \in T : \E i \in D : q[i] = t
  BY <1>3, <1>6 DEF Surjection
<1>8. q \in Seq(T)
  BY <1>1, <1>3 DEF D
<1>9. QED
  BY <1>2, <1>3, <1>7, <1>8

\* What Judge reads is in the order of each request that left its orders out.
LEMMA ReadInOrder ==
  ASSUME AuthInv, NEW p, NEW q \in Sorted(Selected(p, TRUE)), NEW a \in Author,
         IsFull(a), OrdersLeftOut(a),
         NEW i \in DOMAIN q, q[i].by = a
  PROVE  /\ \A n \in 1..(q[i].n - 1) : \E j \in DOMAIN q : q[j].by = a /\ j < i /\ q[j].n = n
         /\ \A j \in DOMAIN q : q[j].by = a /\ q[j].n = q[i].n => j = i
<1> DEFINE T == Selected(p, TRUE)
<1>0. AuthTypes /\ AuthorInv(a) /\ test_cases \subseteq TestRow
  BY DEF AuthInv, AuthTypes
<1>1. IsFiniteSet(T) /\ T \subseteq test_cases /\ \A t \in test_cases : t \in T <=> t.problem = p
  BY <1>0, FS_Subset DEF AuthTypes, Selected
<1> HIDE DEF T
<1>2. /\ q \in Seq(T) /\ \A t \in T : \E j \in DOMAIN q : q[j] = t
      /\ \A j, k \in DOMAIN q : q[j] = q[k] => j = k
      /\ \A j, k \in DOMAIN q : j < k => q[j].sort_order <= q[k].sort_order
  BY <1>1, SortedFacts DEF T
<1>3. ASSUME NEW j \in DOMAIN q, q[j].by = a
      PROVE  /\ q[j] \in test_cases /\ q[j].problem = p /\ p = a /\ q[j] = RowOf(a, q[j].n)
             /\ q[j].n \in DOMAIN au[a].body.cases /\ q[j].n <= au[a].next /\ q[j].n \in Nat
             /\ q[j].sort_order = q[j].n /\ au[a].problem = a
  <2>1. q[j] \in T
    BY <1>2
  <2>2. q[j] \in test_cases /\ q[j].problem = p /\ q[j] \in TestRow
    BY <1>0, <1>1, <2>1
  <2>3. RowInv(q[j])
    BY <2>2 DEF AuthInv
  <2>4. /\ au[a].problem = a /\ q[j].n \in DOMAIN au[a].body.cases /\ q[j] = RowOf(a, q[j].n)
        /\ q[j].n < au[a].next \/ q[j].n = au[a].next
    BY <1>3, <2>3 DEF RowInv
  <2>5. RowOf(a, q[j].n).problem = a /\ RowOf(a, q[j].n).sort_order = q[j].n
    BY <1>0, <2>4, RowFacts DEF OrdersLeftOut
  <2>6. q[j].n \in Nat /\ au[a].next \in Nat
    BY <1>0, <2>2 DEF TestRow, AuthTypes, AuthorRec
  <2>7. QED
    BY <2>2, <2>4, <2>5, <2>6
<1>4. ASSUME NEW n \in 1..(q[i].n - 1)
      PROVE  \E j \in DOMAIN q : q[j].by = a /\ j < i /\ q[j].n = n
  <2>1. n \in 1..(au[a].next - 1)
    BY <1>0, <1>3 DEF AuthTypes, AuthorRec
  <2>2. n \in DOMAIN au[a].body.cases /\ RowOf(a, n) \in test_cases
    BY <1>0, <2>1 DEF AuthorInv
  <2>3. /\ RowOf(a, n).problem = a /\ RowOf(a, n).by = a /\ RowOf(a, n).n = n
    BY <1>0, <1>3, <2>2, RowFacts
  <2>4. RowOf(a, n) \in T
    BY <1>1, <1>3, <2>2, <2>3
  <2>5. PICK j \in DOMAIN q : q[j] = RowOf(a, n)
    BY <1>2, <2>4
  <2>6. q[j].by = a /\ q[j].n = n /\ q[j].sort_order = n
    BY <1>3, <2>3, <2>5
  <2>7. q[i].sort_order = q[i].n /\ q[i].n \in Nat /\ n \in Nat /\ n < q[i].n
    BY <1>3
  <2>8. i \in Int /\ j \in Int
    BY <1>2
  <2>9. j < i
    BY <1>2, <2>6, <2>7, <2>8
  <2>10. QED
    BY <2>6, <2>9
<1>5. ASSUME NEW j \in DOMAIN q, q[j].by = a, q[j].n = q[i].n PROVE j = i
  BY <1>2, <1>3, <1>5
<1>6. QED
  BY <1>4, <1>5

\* A step of a submission: what it has read is in order.
LEMMA SubmissionMoves ==
  ASSUME AuthInv, UNCHANGED <<problems, test_cases, au, faults>>,
         sub' \in [Submission -> SubmissionRec], JudgedInOrder'
  PROVE  AuthInv'
<1>1. AuthTypes' /\ SlugInv'
  BY DEF AuthInv, AuthTypes, SlugInv, ListAll
<1>2. \A a \in Author : AuthorInv(a)'
  BY DEF AuthInv, AuthorInv, IsFull, RowOf
<1>3. \A t \in test_cases' : RowInv(t)'
  BY DEF AuthInv, RowInv, IsFull, RowOf
<1>4. QED
  BY <1>1, <1>2, <1>3 DEF AuthInv

\* So does a submission that is made for a problem that is there.
LEMMA SubmitStep ==
  ASSUME AuthInv, NEW s \in Submission, Submit(s)
  PROVE  AuthInv'
<1>0. AuthTypes /\ sub \in [Submission -> SubmissionRec] /\ sub[s] \in SubmissionRec /\ JudgedInOrder
  BY DEF AuthInv, AuthTypes
<1>1. PICK p \in ListAll : sub' = [sub EXCEPT ![s].pc = "queued", ![s].problem = p]
  BY DEF Submit
<1>2. UNCHANGED <<problems, test_cases, au, faults>> /\ p \in Author
  BY DEF Submit, ListAll
<1> DEFINE u == [sub[s] EXCEPT !.pc = "queued"]
           v == [u EXCEPT !.problem = p]
           m == [sub EXCEPT ![s].pc = "queued"]
<1>3. u \in SubmissionRec /\ u.tests = sub[s].tests
  BY <1>0 DEF SubmissionRec
<1>4. m \in [Submission -> SubmissionRec] /\ m[s] = u /\ \A x \in Submission : x # s => m[x] = sub[x]
  BY <1>0, <1>3
<1>5. sub' = [m EXCEPT ![s].problem = p]
  BY <1>1
<1> HIDE DEF m, u
<1>6. v \in SubmissionRec /\ v.tests = u.tests
  BY <1>2, <1>3 DEF SubmissionRec
<1>7. sub' = [m EXCEPT ![s] = v]
  BY <1>4, <1>5
<1> HIDE DEF v
<1>8. sub' \in [Submission -> SubmissionRec] /\ \A x \in Submission : sub'[x].tests = sub[x].tests
  BY <1>3, <1>4, <1>6, <1>7
<1>9. JudgedInOrder'
  BY <1>0, <1>2, <1>8 DEF JudgedInOrder, OrdersLeftOut
<1>10. QED
  BY <1>2, <1>8, <1>9, SubmissionMoves

\* The step of Judge: what it read, and nothing else.
LEMMA JudgeReads ==
  ASSUME AuthTypes, NEW s \in Submission, Judge(s)
  PROVE  /\ UNCHANGED <<problems, test_cases, au, faults>>
         /\ sub' \in [Submission -> SubmissionRec]
         /\ sub'[s].tests \in Sorted(Selected(sub[s].problem, TRUE))
         /\ \A x \in Submission : x # s => sub'[x] = sub[x]
<1>0. /\ sub \in [Submission -> SubmissionRec] /\ sub[s] \in SubmissionRec
      /\ test_cases \subseteq TestRow /\ IsFiniteSet(test_cases)
  BY DEF AuthTypes
<1> DEFINE T == Selected(sub[s].problem, TRUE)
<1>1. PICK q \in Sorted(T) : sub' = [sub EXCEPT ![s].pc = "judged", ![s].tests = q]
  BY DEF Judge
<1>2. IsFiniteSet(T) /\ T \subseteq TestRow
  BY <1>0, FS_Subset DEF Selected
<1> HIDE DEF T
<1>3. q \in Seq(TestRow)
  <2>1. q \in Seq(T)
    BY <1>2, SortedFacts
  <2>2. QED
    BY <1>2, <2>1
<1> DEFINE u == [sub[s] EXCEPT !.pc = "judged"]
           v == [u EXCEPT !.tests = q]
           m == [sub EXCEPT ![s].pc = "judged"]
<1>4. u \in SubmissionRec
  BY <1>0 DEF SubmissionRec
<1>5. m \in [Submission -> SubmissionRec] /\ m[s] = u /\ \A x \in Submission : x # s => m[x] = sub[x]
  BY <1>0, <1>4
<1>6. sub' = [m EXCEPT ![s].tests = q]
  BY <1>1
<1> HIDE DEF m, u
<1>7. v \in SubmissionRec /\ v.tests = q
  BY <1>3, <1>4 DEF SubmissionRec
<1>8. sub' = [m EXCEPT ![s] = v]
  BY <1>5, <1>6
<1> HIDE DEF v
<1>9. QED
  BY <1>5, <1>7, <1>8 DEF Judge, T

\* So does reading the tests, in any order that ORDER BY allows.
LEMMA JudgeStep ==
  ASSUME AuthInv, NEW s \in Submission, Judge(s)
  PROVE  AuthInv'
<1>0. AuthTypes /\ JudgedInOrder
  BY DEF AuthInv
<1>1. /\ UNCHANGED <<problems, test_cases, au, faults>>
      /\ sub' \in [Submission -> SubmissionRec]
      /\ sub'[s].tests \in Sorted(Selected(sub[s].problem, TRUE))
      /\ \A x \in Submission : x # s => sub'[x] = sub[x]
  BY <1>0, JudgeReads
<1>2. JudgedInOrder'
  <2>1. SUFFICES ASSUME NEW x \in Submission, NEW a \in Author, IsFull(a), OrdersLeftOut(a),
                        NEW i \in DOMAIN sub'[x].tests, sub'[x].tests[i].by = a
                 PROVE  LET q == sub'[x].tests
                        IN  /\ \A n \in 1..(q[i].n - 1) :
                                 \E j \in DOMAIN q : q[j].by = a /\ j < i /\ q[j].n = n
                            /\ \A j \in DOMAIN q : q[j].by = a /\ q[j].n = q[i].n => j = i
    BY <1>1 DEF JudgedInOrder, OrdersLeftOut, IsFull
  <2>2. CASE x = s
    <3> DEFINE q == sub'[s].tests
    <3>1. q \in Sorted(Selected(sub[s].problem, TRUE)) /\ i \in DOMAIN q /\ q[i].by = a
      BY <1>1, <2>1, <2>2
    <3> HIDE DEF q
    <3>2. /\ \A n \in 1..(q[i].n - 1) : \E j \in DOMAIN q : q[j].by = a /\ j < i /\ q[j].n = n
          /\ \A j \in DOMAIN q : q[j].by = a /\ q[j].n = q[i].n => j = i
      BY <2>1, <3>1, ReadInOrder
    <3>3. QED
      BY <2>2, <3>2 DEF q
  <2>3. CASE x # s
    BY <1>0, <1>1, <2>1, <2>3 DEF JudgedInOrder, IsFull
  <2>4. QED
    BY <2>2, <2>3
<1>3. QED
  BY <1>1, <1>2, SubmissionMoves

-----------------------------------------------------------------------------
(* The invariant and what follows from it *)

LEMMA AuthInitInv == AuthInit => AuthInv
<1> SUFFICES ASSUME AuthInit PROVE AuthInv
  OBVIOUS
<1>1. AuthTypes
  <2>1. [status |-> "none", slug |-> ""] \in ProblemRow
    BY DEF ProblemRow
  <2>2. problems \in [Author -> ProblemRow]
    BY <2>1 DEF AuthInit
  <2>3. test_cases \subseteq TestRow /\ IsFiniteSet(test_cases)
    BY FS_EmptySet DEF AuthInit
  <2>4. au \in [Author -> AuthorRec]
    <3>1. [body : Body, pc : {"problem"}, problem : {NoProblem}, next : {1}, code : {0}]
            \subseteq AuthorRec
      BY DEF AuthorRec, AuthorPC
    <3>2. QED
      BY <3>1 DEF AuthInit
  <2>5. [pc |-> "new", problem |-> NoProblem, tests |-> <<>>] \in SubmissionRec
    BY DEF SubmissionRec
  <2>6. sub \in [Submission -> SubmissionRec]
    BY <2>5 DEF AuthInit
  <2>7. QED
    BY <2>2, <2>3, <2>4, <2>6 DEF AuthInit, AuthTypes
<1>2. SlugInv
  BY DEF AuthInit, SlugInv, ListAll
<1>3. JudgedInOrder
  <2>1. \A s \in Submission : sub[s].tests = <<>>
    BY DEF AuthInit
  <2>2. QED
    BY <2>1 DEF JudgedInOrder
<1>4. ASSUME NEW a \in Author PROVE AuthorInv(a)
  <2>1. au[a].pc = "problem" /\ au[a].next = 1 /\ au[a].code = 0
    BY DEF AuthInit
  <2>2. QED
    BY <2>1 DEF AuthorInv
<1>5. QED
  BY <1>1, <1>2, <1>3, <1>4 DEF AuthInv, AuthInit

\* The invariant is inductive.
LEMMA AuthNextInv == AuthInv /\ [AuthNext]_authVars => AuthInv'
<1> SUFFICES ASSUME AuthInv, [AuthNext]_authVars PROVE AuthInv'
  OBVIOUS
<1>1. CASE UNCHANGED authVars
  <2>1. UNCHANGED <<problems, test_cases, au, faults, sub>>
    BY <1>1 DEF authVars
  <2>2. sub' \in [Submission -> SubmissionRec] /\ JudgedInOrder'
    BY <2>1 DEF AuthInv, AuthTypes, JudgedInOrder, OrdersLeftOut
  <2>3. QED
    BY <2>1, <2>2, SubmissionMoves
<1>2. CASE AuthNext
  BY <1>2, InsertProblemStep, InsertTestStep, CreatedStep, AddTestStep, FailingSteps,
     SubmitStep, JudgeStep DEF AuthNext
<1>3. QED
  BY <1>1, <1>2

\* The invariant of authoring: slugs are unique, the rows of a request are the
\* first ones of its body under its own problem, and all of them once it was
\* answered with 201.
THEOREM AuthInvariant == AuthSpec => []AuthInv
BY AuthInitInv, AuthNextInv, PTL DEF AuthSpec

\* However requests for one slug race (createFullProblem, whose only guard is
\* the UNIQUE constraint), no test of one gets under the problem of another.
THEOREM SlugSafety == AuthSpec => []SlugsAreNotMixed
<1>1. AuthInv => SlugsAreNotMixed
  <2> SUFFICES ASSUME AuthInv PROVE SlugsAreNotMixed
    OBVIOUS
  <2>1. ASSUME NEW t \in test_cases, IsFull(t.by) PROVE t.problem = t.by
    <3>1. t \in TestRow /\ t.by \in Author /\ AuthTypes
      BY DEF AuthInv, AuthTypes, TestRow
    <3>2. au[t.by].problem = t.by /\ t.n \in DOMAIN au[t.by].body.cases /\ t = RowOf(t.by, t.n)
      BY <2>1 DEF AuthInv, RowInv
    <3>3. RowOf(t.by, t.n).problem = t.by
      BY <3>1, <3>2, RowFacts
    <3>4. QED
      BY <3>2, <3>3
  <2>2. QED
    BY <2>1 DEF AuthInv, SlugInv, SlugsAreNotMixed, IsFull
<1>2. QED
  BY <1>1, AuthInvariant, PTL

\* Judge runs the tests of a request that left their orders out in the order
\* of the request and without a gap, whenever it reads them.
THEOREM OrderSafety == AuthSpec => []JudgedInOrder
<1>1. AuthInv => JudgedInOrder
  BY DEF AuthInv
<1>2. QED
  BY <1>1, AuthInvariant, PTL

\* After createFullProblem or createTestCase answered 201, Judge reads every
\* test of that request.
THEOREM FullSafety == AuthSpec => JudgedInFull
<1> DEFINE A ==
      \A s \in Submission : \A a \in Author :
        (sub[s].pc = "queued" /\ sub'[s].pc = "judged" /\ au[a].code = 201
           /\ au[a].problem = sub[s].problem)
          => \A n \in DOMAIN au[a].body.cases :
               \E i \in DOMAIN sub'[s].tests : sub'[s].tests[i].by = a /\ sub'[s].tests[i].n = n
<1>1. AuthInv /\ [AuthNext]_authVars => [A]_authVars
  <2> SUFFICES ASSUME AuthInv, AuthNext, NEW s \in Submission, NEW a \in Author,
                      sub[s].pc = "queued", sub'[s].pc = "judged", au[a].code = 201,
                      au[a].problem = sub[s].problem, NEW n \in DOMAIN au[a].body.cases
               PROVE  \E i \in DOMAIN sub'[s].tests :
                        sub'[s].tests[i].by = a /\ sub'[s].tests[i].n = n
    OBVIOUS
  <2>0. /\ AuthTypes /\ AuthorInv(a) /\ sub \in [Submission -> SubmissionRec]
        /\ sub[s] \in SubmissionRec
    BY DEF AuthInv, AuthTypes
  <2>1. Judge(s)
    <3>1. \A x \in Author :
            ~ (\/ InsertProblem(x) \/ SlugRefused(x) \/ InsertTest(x) \/ Created(x)
               \/ AddTest(x) \/ StatementFails(x) \/ ProcessDies(x))
      BY DEF InsertProblem, SlugRefused, InsertTest, Created, AddTest, StatementFails, ProcessDies
    <3>2. ASSUME NEW x \in Submission, Submit(x) PROVE FALSE
      <4>1. PICK p \in ListAll : sub' = [sub EXCEPT ![x].pc = "queued", ![x].problem = p]
        BY <3>2 DEF Submit
      <4>2. sub'[s].pc \in {"queued", sub[s].pc}
        BY <2>0, <4>1 DEF SubmissionRec
      <4>3. QED
        BY <4>2
    <3>3. ASSUME NEW x \in Submission, x # s, Judge(x) PROVE FALSE
      <4> HIDE DEF A
      <4>1. AuthTypes /\ Judge(x)
        BY <2>0, <3>3
      <4>2. \A y \in Submission : y # x => sub'[y] = sub[y]
        BY <4>1, JudgeReads
      <4>3. QED
        BY <3>3, <4>2
    <3>4. QED
      BY <3>1, <3>2, <3>3 DEF AuthNext
  <2> DEFINE q == sub'[s].tests
             T == Selected(sub[s].problem, TRUE)
  <2>2. q \in Sorted(T)
    BY <2>0, <2>1, JudgeReads
  <2>3. IsFiniteSet(T) /\ \A t \in test_cases : t.problem = sub[s].problem => t \in T
    BY <2>0, FS_Subset DEF Selected, AuthTypes
  <2> HIDE DEF q, T
  <2>4. \A t \in T : \E i \in DOMAIN q : q[i] = t
    BY <2>2, <2>3, SortedFacts
  <2>5. \E t \in test_cases : t.problem = sub[s].problem /\ t.by = a /\ t.n = n
    <3>0. n \in 1..Len(au[a].body.cases) /\ Len(au[a].body.cases) \in Nat /\ au[a].next \in Nat
      BY <2>0, BodyFacts DEF AuthorRec
    <3>1. CASE IsFull(a)
      <4>1. au[a].problem = a /\ n \in 1..(au[a].next - 1)
        BY <2>0, <3>0, <3>1 DEF AuthorInv
      <4>2. RowOf(a, n) \in test_cases
        BY <2>0, <3>1, <4>1 DEF AuthorInv
      <4>3. RowOf(a, n).problem = au[a].problem /\ RowOf(a, n).by = a /\ RowOf(a, n).n = n
        BY <2>0, <4>1, RowFacts
      <4>4. QED
        BY <4>2, <4>3
    <3>2. CASE ~ IsFull(a)
      <4> DEFINE t == TestCase(au[a].problem, a, 1, au[a].body.cases[1])
      <4>1. t \in test_cases
        BY <2>0, <3>2 DEF AuthorInv
      <4>2. t.problem = au[a].problem /\ t.by = a /\ t.n = 1
        BY DEF TestCase
      <4>3. n = 1
        BY <2>0, <3>0, <3>2, BodyFacts
      <4>4. QED
        BY <4>1, <4>2, <4>3
    <3>3. QED
      BY <3>1, <3>2
  <2>6. \E i \in DOMAIN q : q[i].by = a /\ q[i].n = n
    BY <2>3, <2>4, <2>5
  <2>7. QED
    BY <2>6 DEF q
<1>2. QED
  BY <1>1, AuthInvariant, PTL DEF AuthSpec, JudgedInFull
=============================================================================
