--------------------------- MODULE MCComparators ---------------------------
(***************************************************************************)
(* The texts Comparators is checked on: every text of up to four           *)
(* characters for the handling of lines, every text of up to three for the *)
(* handling of tokens.  Floats have two significant bits instead of 53,    *)
(* and are infinite from 64 on, so that short numerals are rounded, up,    *)
(* down and at ties, and overflow.  The examples of comparator_test.go,    *)
(* with a letter for each word, are evaluated as assumptions.              *)
(***************************************************************************)
EXTENDS Comparators

Characters == {"a", "h", "w", ":", "1", "3", "-", "N", "I", " ", "\t", "\r", "\n", "\f"}
FormFeed   == {"\f"}
LineTexts  == BoundedSeq({"a", " ", "\r", "\n"}, 4)
TokenTexts == BoundedSeq({"1", "3", "-", "N", "I", "\f"}, 3)
Texts      == {LineTexts, TokenTexts}

Digits   == [c \in {"1", "3"} |-> IF c = "1" THEN 1 ELSE 3]
Numerals == BoundedSeq(DOMAIN Digits, 3) \ {<<>>}
Natural(w) == FoldLeft(LAMBDA n, c : 10 * n + Digits[c], 0, w)

\* ParseFloat takes numerals with or without a sign, "N" for NaN, "I" for Inf.
NumberReads(val) == [kind |-> "number", val |-> val]
TextReads ==
     [w \in Numerals |-> NumberReads(Natural(w))]
  @@ [w \in {<<"-">> \o n : n \in Numerals} |-> NumberReads(-Natural(Tail(w)))]
  @@ <<"N">> :> [kind |-> "NaN", val |-> 0]
  @@ <<"I">> :> [kind |-> "Inf", val |-> 1]
  @@ <<"-", "I">> :> [kind |-> "Inf", val |-> -1]

PowersOfTwo == {2, 4, 8, 16, 32}
Plus    == {0, 1} \cup PowersOfTwo \cup {3, 6, 12, 24, 48}
Doubles == Plus \cup {-d : d \in Plus}
EvenDoubles == {0} \cup PowersOfTwo \cup {-d : d \in PowersOfTwo} \cup {64, -64}
Tolerances  == {-1, 0, 16}

ASSUME ExactExamples ==
  /\ ExactCompare(<<"h", LF>>, <<"h", LF>>)
  /\ ~ ExactCompare(<<"h", LF>>, <<"h", CR, LF>>)

ASSUME WhitespaceExamples ==
  /\ WhitespaceCompare(<<"h", LF, "w">>, <<"h", CR, LF, "w">>)
  /\ WhitespaceCompare(<<"h", " ", " ", LF, "w">>, <<"h", LF, "w">>)
  /\ WhitespaceCompare(<<"h", LF, "w", LF>>, <<"h", LF, "w">>)
  /\ WhitespaceCompare(<<"h", LF, "w", LF, LF, LF>>, <<"h", LF, "w", LF>>)
  /\ ~ WhitespaceCompare(<<"h", " ", LF, " ", "w">>, <<"h", LF, "w">>)

ASSUME FloatExamples ==
  /\ FloatCompare(<<"1", "1">>, <<"1", "3">>, 2)
  /\ ~ FloatCompare(<<"1", "1">>, <<"3", "1">>, 2)
  /\ FloatCompare(<<"a", ":", " ", "1">>, <<"a", ":", " ", "3">>, 16)
  /\ ~ FloatCompare(<<"w", ":", " ", "1">>, <<"a", ":", " ", "1">>, 2)
=============================================================================
