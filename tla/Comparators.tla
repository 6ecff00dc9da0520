---------------------------- MODULE Comparators ----------------------------
(***************************************************************************)
(* How Judge decides that what a program printed is what a test case       *)
(* expects (internal/judge/comparator.go, and engine.go:154-157 for the    *)
(* choice of the comparator).  The comparators are functions on strings; a *)
(* string is the sequence of its characters.  Numbers are counted in units *)
(* that every float64 and every numeral in use is a whole multiple of.     *)
(***************************************************************************)
EXTENDS Integers, Sequences, SequencesExt

CONSTANTS
  Char,        \* the characters of texts
  OtherSpace,  \* those of them that are white space, but no blank, tab or line end
  Family,      \* sets of texts; expected and actual output are of the same one
  Reads,       \* what strconv.ParseFloat reads a text as, before it rounds
  Double,      \* the finite float64 values
  Infinity,    \* 2^1024, from where on a result is infinite
  Even,        \* the values of Double and Infinity whose last bit is 0
  Epsilon      \* problems.float_epsilon, which nothing keeps from being negative

CR    == "\r"
LF    == "\n"
Blank == {" ", "\t"}
Text  == Seq(Char)

ASSUME CharAssumption    == {CR, LF} \cup Blank \cup OtherSpace \subseteq Char
ASSUME SpaceAssumption   == OtherSpace \cap ({CR, LF} \cup Blank) = {}
ASSUME FamilyAssumption  == \A F \in Family : F \subseteq Text
ASSUME ReadsAssumption   == \A w \in DOMAIN Reads :
                              Reads[w] \in [kind : {"number", "Inf", "NaN"}, val : Int]
ASSUME DoubleAssumption  == /\ Double \subseteq Int /\ 0 \in Double /\ Infinity \in Int
                            /\ \A d \in Double : -d \in Double /\ d < Infinity
ASSUME EpsilonAssumption == Epsilon \subseteq Double

Mode == {"EXACT", "NORMALIZED_WHITESPACE", "FLOAT_EPSILON", "unknown"}

VARIABLES
  problem,   \* the comparison mode and the float epsilon of the problem
  expected,  \* test_cases.expected_output
  stdout,    \* what the program printed
  verdict    \* what Judge makes of it

compVars == <<problem, expected, stdout, verdict>>

-----------------------------------------------------------------------------
(* Package strings, as far as the comparators use it. *)

\* ReplaceAll(s, "\r\n", "\n")
UnifyLineEnds(s) ==
  LET u[t \in Text] ==
        IF t = <<>> THEN <<>>
        ELSE LET done == u[Front(t)]
             IN  IF Last(t) = LF /\ done # <<>> /\ Last(done) = CR
                 THEN Append(Front(done), LF) ELSE Append(done, Last(t))
  IN  u[s]

\* Split at every character of seps: one piece more than there are such.
Split(s, seps) ==
  LET pieces[t \in Text] ==
        IF t = <<>> THEN << <<>> >>
        ELSE LET ps == pieces[Front(t)]
             IN  IF Last(t) \in seps THEN Append(ps, <<>>)
                 ELSE Append(Front(ps), Append(Last(ps), Last(t)))
  IN  pieces[s]

\* TrimRight(line, " \t")
TrimRight(line) == SubSeq(line, 1, SelectLastInSeq(line, LAMBDA c : c \notin Blank))

Join(lines) ==
  LET joined[ls \in Seq(Text)] ==
        IF ls = <<>> THEN <<>>
        ELSE IF Len(ls) = 1 THEN Last(ls) ELSE joined[Front(ls)] \o <<LF>> \o Last(ls)
  IN  joined[lines]

\* Fields: what is between white space, all of Unicode's, empty pieces left out.
NonEmpty(pieces) ==
  LET kept[ps \in Seq(Text)] ==
        IF ps = <<>> THEN <<>>
        ELSE IF Last(ps) = <<>> THEN kept[Front(ps)] ELSE Append(kept[Front(ps)], Last(ps))
  IN  kept[pieces]
FieldsKeepingCR(s) == NonEmpty(Split(s, Blank \cup {LF} \cup OtherSpace))
Fields(s) == NonEmpty(Split(s, Blank \cup {LF, CR} \cup OtherSpace))

-----------------------------------------------------------------------------
(* The comparators *)

ExactCompare(e, a) == e = a

WithoutTrailing(lines) ==
  SubSeq(lines, 1, SelectLastInSeq(lines, LAMBDA l : l # <<>>))

\* A normalize that forgets the empty lines a trimmed line leaves.
NormalizeTrimsLast(s) ==
  LET lines == WithoutTrailing(Split(UnifyLineEnds(s), {LF}))
  IN  Join([i \in DOMAIN lines |-> TrimRight(lines[i])])
Normalize(s) ==
  LET lines == Split(UnifyLineEnds(s), {LF})
  IN  Join(WithoutTrailing([i \in DOMAIN lines |-> TrimRight(lines[i])]))

WhitespaceCompare(e, a) == Normalize(e) = Normalize(a)

Abs(x) == IF x < 0 THEN -x ELSE x

\* Rounding to float64: to the nearest value, of two equally near ones to that
\* whose last bit is 0, and to an infinity where 2^1024 would be the nearest.
Grid == Double \cup {Infinity, -Infinity}
Round(x) ==
  LET near == {r \in Grid : \A d \in Grid : Abs(r - x) <= Abs(d - x)}
  IN  CHOOSE r \in near : r \in Even \/ near \cap Even = {}

\* strconv.ParseFloat: a number is rounded, and one out of range is an error
\* (ErrRange), as is a text that is no number, infinity or NaN.
Parsed ==
  [w \in DOMAIN Reads |->
     IF Reads[w].kind # "number" THEN Reads[w]
     ELSE LET r == Round(Reads[w].val)
          IN  [kind |-> IF r \in Double THEN "number" ELSE "error", val |-> r]]
ParseFloat(w) == IF w \in DOMAIN Reads THEN Parsed[w] ELSE [kind |-> "error", val |-> 0]

\* math.Abs(expVal-actVal) > c.Epsilon.  A difference that overflows or has one
\* infinite side is farther; NaN, and so Inf - Inf, is never farther.
FartherThan(x, y, eps) ==
  IF x.kind = "number" /\ y.kind = "number"
  THEN Abs(Round(x.val - y.val)) > eps
  ELSE x # y /\ "NaN" \notin {x.kind, y.kind}

TokensCompareStrict(v, w, eps) ==
  LET x == ParseFloat(v)  y == ParseFloat(w)
  IN  IF "error" \in {x.kind, y.kind} THEN v = w
      ELSE ~ FartherThan(x, y, eps - 1)
TokensCompare(v, w, eps) ==
  LET x == ParseFloat(v)  y == ParseFloat(w)
  IN  IF "error" \in {x.kind, y.kind} THEN v = w
      ELSE ~ FartherThan(x, y, eps)

FloatCompare(e, a, eps) ==
  LET v == Fields(e)  w == Fields(a)
  IN  Len(v) = Len(w) /\ \A i \in DOMAIN v : TokensCompare(v[i], w[i], eps)

\* The registry holds two comparators and answers with the exact one for any
\* other mode; the engine puts a FloatComparator in place for FLOAT_EPSILON.
Compare(m, eps, e, a) ==
  CASE m = "FLOAT_EPSILON"         -> FloatCompare(e, a, eps)
    [] m = "NORMALIZED_WHITESPACE" -> WhitespaceCompare(e, a)
    [] OTHER                       -> ExactCompare(e, a)

-----------------------------------------------------------------------------

CompInit ==
  /\ problem \in [mode : Mode, eps : Epsilon]
  /\ \E F \in Family : expected \in F /\ stdout \in F
  /\ verdict = "none"

\* The comparison at the end of a test case.
CompareOutput ==
  /\ verdict = "none"
  /\ verdict' = IF Compare(problem.mode, problem.eps, expected, stdout)
                THEN "passed" ELSE "WRONG_ANSWER"
  /\ UNCHANGED <<problem, expected, stdout>>

CompSpec == CompInit /\ [][CompareOutput]_compVars

-----------------------------------------------------------------------------
(* Properties *)

\* What the comment of WhitespaceComparator promises, said without an
\* algorithm: a text is what stands where in it.  Line ends ("\r\n" or "\n")
\* only count lines, and a character stands on its line at its column if it,
\* or something after it on that line, is neither blank nor a line end.
IsEnd(s, i)   == s[i] = LF \/ (s[i] = CR /\ i < Len(s) /\ s[i + 1] = LF)
Ends(s, i)    == {j \in 1..(i - 1) : s[j] = LF}
LineStart(s, i) == IF Ends(s, i) = {} THEN 0 ELSE Max(Ends(s, i))
Counts(s, i)  == \E j \in i..Len(s) : /\ LineStart(s, j) = LineStart(s, i)
                                      /\ ~ IsEnd(s, j) /\ s[j] \notin Blank
Shape(s) == {<<Cardinality(Ends(s, i)), i - LineStart(s, i), s[i]>> :
               i \in {k \in DOMAIN s : ~ IsEnd(s, k) /\ Counts(s, k)}}

\* NORMALIZED_WHITESPACE accepts exactly the outputs of the same shape: the
\* three steps of normalize, in the order they are in, neither drop anything
\* visible nor let anything invisible decide, for stray "\r"s too.
WhitespaceKeepsShape ==
  (verdict # "none" /\ problem.mode = "NORMALIZED_WHITESPACE") =>
    (verdict = "passed" <=> Shape(expected) = Shape(stdout))

\* A stricter mode accepts nothing a laxer one refuses: what is equal byte for
\* byte is equal up to white space, and that is equal token by token, although
\* the two comparators cut their texts up with different functions.  (Under a
\* negative epsilon no two numbers are equal.)
ModesAreNested ==
  LET Accepts(m) == Compare(m, problem.eps, expected, stdout)
  IN  verdict = "passed" =>
        /\ Accepts("EXACT") => Accepts("NORMALIZED_WHITESPACE")
        /\ Accepts("NORMALIZED_WHITESPACE") /\ problem.eps >= 0 => Accepts("FLOAT_EPSILON")

\* The exact distance of two numbers, and what reading them has changed them by.
Apart(v, w)  == Abs(Reads[v].val - Reads[w].val)
Errors(v, w) == Abs(ParseFloat(v).val - Reads[v].val) + Abs(ParseFloat(w).val - Reads[w].val)
Number(w)    == ParseFloat(w).kind = "number"

\* FLOAT_EPSILON, computed in float64, against the exact numbers in the texts.
\* An accepted number is at most epsilon, the two reading errors, and half a
\* step to the next float64 above epsilon away from the expected one; and where
\* all tokens are numbers, an output with as many of them is refused only for
\* one that is farther away than epsilon less its reading errors.  (So 1.1 may
\* be refused for 1.0 and 0.1, and 11111111111111111 passes for ...112 and 0.)
FloatErrsByRounding ==
  (verdict # "none" /\ problem.mode = "FLOAT_EPSILON") =>
    LET v == Fields(expected)  w == Fields(stdout)  eps == problem.eps
    IN  /\ verdict = "passed" =>
             /\ Len(v) = Len(w)
             /\ \A i \in DOMAIN v : Number(v[i]) /\ Number(w[i]) =>
                  \A d \in Double \cup {Infinity} :
                    d > eps => 2 * (Apart(v[i], w[i]) - Errors(v[i], w[i])) <= eps + d
        /\ (/\ verdict # "passed" /\ Len(v) = Len(w)
            /\ \A i \in DOMAIN v : Number(v[i]) /\ Number(w[i])) =>
             \E i \in DOMAIN v : Apart(v[i], w[i]) + Errors(v[i], w[i]) > eps
=============================================================================
