------------------------- MODULE ComparatorsProofs -------------------------
(***************************************************************************)
(* Proofs about Comparators.  The functions of package strings are         *)
(* recursive on the text; the induction they need is proved here as facts  *)
(* about sets of texts: a set that holds the empty text and, with a text,  *)
(* every text one character longer is the set of all texts.                *)
(***************************************************************************)
EXTENDS Comparators, SequenceTheorems, FiniteSetTheorems, WellFoundedInduction, TLAPS

-----------------------------------------------------------------------------
(* Induction and recursion *)

\* A non-empty set of naturals has a least element.
LEMMA LeastNat ==
  ASSUME NEW S \in SUBSET Nat, S # {}
  PROVE  \E n \in S : \A m \in S : n <= m
<1>1. PICK n \in S : \A m \in S : ~ (<<m, n>> \in OpToRel(<, Nat))
  BY NatLessThanWellFounded, WFMin
<1>2. ASSUME NEW m \in S PROVE n <= m
  <2>1. m < n => <<m, n>> \in OpToRel(<, Nat)
    BY DEF OpToRel
  <2>2. ~ (m < n)
    BY <1>1, <2>1, Zenon
  <2>3. QED
    BY <2>2
<1>3. QED
  BY <1>2

\* Induction on the naturals, for a set.
LEMMA SetOfAllNat ==
  ASSUME NEW S, 0 \in S, \A n \in S \cap Nat : n + 1 \in S
  PROVE  Nat \subseteq S
<1> SUFFICES ASSUME Nat \ S # {} PROVE FALSE
  OBVIOUS
<1>1. PICK n \in Nat \ S : \A m \in Nat \ S : n <= m
  BY LeastNat
<1>2. n # 0 /\ n - 1 \in Nat /\ n - 1 \notin Nat \ S
  BY <1>1
<1>3. QED
  BY <1>1, <1>2

\* Induction on sequences, for a set.
LEMMA SetOfAllSeq ==
  ASSUME NEW A, NEW S, <<>> \in S, \A s \in S \cap Seq(A), a \in A : Append(s, a) \in S
  PROVE  Seq(A) \subseteq S
<1> DEFINE N == {n \in Nat : \A s \in Seq(A) : Len(s) = n => s \in S}
<1>1. 0 \in N
  BY EmptySeq
<1>2. ASSUME NEW n \in N PROVE n + 1 \in N
  <2>1. SUFFICES ASSUME NEW s \in Seq(A), Len(s) = n + 1 PROVE s \in S
    OBVIOUS
  <2>2. PICK t \in Seq(A), a \in A : s = Append(t, a)
    BY <2>1, SequenceEmptyOrAppend, EmptySeq
  <2>3. Len(t) = n
    BY <2>1, <2>2, AppendProperties, LenProperties
  <2>4. QED
    BY <2>2, <2>3, <1>2
<1>3. Nat \subseteq N
  <2> HIDE DEF N
  <2>1. QED
    BY <1>1, <1>2, SetOfAllNat
<1>4. QED
  BY <1>3, LenProperties

\* A sequence with one element put behind it.
LEMMA FrontLast ==
  ASSUME NEW A, NEW s \in Seq(A), NEW a \in A
  PROVE  /\ Front(Append(s, a)) = s
         /\ Last(Append(s, a)) = a
         /\ Append(s, a) \in Seq(A) /\ Append(s, a) # <<>>
         /\ Len(Append(s, a)) = Len(s) + 1
  BY AppendProperties, LenProperties DEF Front, Last

\* A non-empty sequence is its front with its last element behind it.
LEMMA FrontAppend ==
  ASSUME NEW A, NEW s \in Seq(A), s # <<>>
  PROVE  /\ Front(s) \in Seq(A) /\ Last(s) \in A
         /\ s = Append(Front(s), Last(s))
         /\ Len(Front(s)) = Len(s) - 1
<1>1. PICK t \in Seq(A), a \in A : s = Append(t, a)
  BY SequenceEmptyOrAppend
<1>2. QED
  BY <1>1, FrontLast, LenProperties

\* The step g makes the value for a sequence from the value for its front.
Recursion(f, base, g) ==
  \A s \in DOMAIN f : f[s] = IF s = <<>> THEN base ELSE g[<<f[Front(s)], s>>]

\* Recursion on sequences defines a function.
LEMMA RecursionOnSeq ==
  ASSUME NEW A, NEW X, NEW base \in X, NEW g \in [X \X Seq(A) -> X]
  PROVE  \E f \in [Seq(A) -> X] : Recursion(f, base, g)
<1> DEFINE Upto(n) == {s \in Seq(A) : Len(s) <= n}
           Good(n, f) == /\ f \in [Upto(n) -> X]
                         /\ \A s \in Upto(n) : f[s] = IF s = <<>> THEN base
                                                     ELSE g[<<f[Front(s)], s>>]
           N == {n \in Nat : \E f : Good(n, f)}
<1>1. 0 \in N
  <2> DEFINE f == [s \in Upto(0) |-> base]
  <2>1. \A s \in Upto(0) : s = <<>>
    BY EmptySeq, LenProperties
  <2>2. Good(0, f)
    BY <2>1
  <2>3. QED
    BY <2>2
<1>2. ASSUME NEW n \in N PROVE n + 1 \in N
  <2>1. PICK f : Good(n, f)
    OBVIOUS
  <2> DEFINE h == [s \in Upto(n + 1) |-> IF s = <<>> THEN base ELSE g[<<f[Front(s)], s>>]]
  <2>2. ASSUME NEW s \in Upto(n + 1), s # <<>> PROVE Front(s) \in Upto(n)
    BY <2>2, FrontAppend, LenProperties
  <2>3. ASSUME NEW s \in Upto(n + 1), s # <<>> PROVE f[Front(s)] \in X
    BY <2>3, <2>2, <2>1
  <2>4. h \in [Upto(n + 1) -> X]
    BY <2>3
  <2>5. ASSUME NEW s \in Upto(n) PROVE s \in Upto(n + 1) /\ h[s] = f[s]
    BY <2>1, LenProperties
  <2>6. ASSUME NEW s \in Upto(n + 1), s # <<>> PROVE h[s] = g[<<h[Front(s)], s>>]
    <3>1. h[Front(s)] = f[Front(s)]
      BY <2>6, <2>2, <2>5
    <3>2. h[s] = g[<<f[Front(s)], s>>]
      BY <2>6
    <3> HIDE DEF h
    <3>3. QED
      BY <3>1, <3>2
  <2>7. Good(n + 1, h)
    <3>1. ASSUME NEW s \in Upto(n + 1), s = <<>> PROVE h[s] = base
      BY <3>1
    <3> HIDE DEF h
    <3>2. QED
      BY <3>1, <2>4, <2>6
  <2>8. QED
    <3> HIDE DEF Good, h
    <3>1. QED
      BY <2>7
<1>3. Nat \subseteq N
  <2> HIDE DEF N
  <2>1. QED
    BY <1>1, <1>2, SetOfAllNat
<1> DEFINE u == [n \in Nat |-> CHOOSE f : Good(n, f)]
<1>4. ASSUME NEW n \in Nat PROVE Good(n, u[n])
  <2>1. \E f : Good(n, f)
    BY <1>3
  <2> HIDE DEF Good
  <2>2. QED
    BY <2>1
<1> DEFINE S == {s \in Seq(A) : \A m, n \in Nat : s \in Upto(m) /\ s \in Upto(n) => u[m][s] = u[n][s]}
<1>5. <<>> \in S
  <2> HIDE DEF u
  <2>1. QED
    BY <1>4, EmptySeq
<1>6. ASSUME NEW s \in S \cap Seq(A), NEW a \in A PROVE Append(s, a) \in S
  <2> DEFINE t == Append(s, a)
  <2>1. t \in Seq(A) /\ t # <<>> /\ Front(t) = s /\ Len(t) = Len(s) + 1 /\ Len(s) \in Nat
    BY FrontLast, LenProperties
  <2> HIDE DEF t, u
  <2>2. ASSUME NEW n \in Nat, t \in Upto(n) PROVE s \in Upto(n) /\ u[n][t] = g[<<u[n][s], t>>]
    <3>1. s \in Upto(n)
      BY <2>1, <2>2
    <3>2. u[n][t] = IF t = <<>> THEN base ELSE g[<<u[n][Front(t)], t>>]
      <4>1. Good(n, u[n])
        BY <1>4
      <4>2. QED
        BY <2>2, <4>1
    <3>3. QED
      BY <2>1, <3>1, <3>2
  <2>3. QED
    BY <2>1, <2>2 DEF t
<1>7. Seq(A) \subseteq S
  <2> HIDE DEF S
  <2>1. QED
    BY <1>5, <1>6, SetOfAllSeq
<1> DEFINE F == [s \in Seq(A) |-> u[Len(s)][s]]
<1>8. ASSUME NEW s \in Seq(A)
      PROVE  F[s] \in X /\ F[s] = IF s = <<>> THEN base ELSE g[<<F[Front(s)], s>>]
  <2>1. Len(s) \in Nat /\ s \in Upto(Len(s))
    BY LenProperties
  <2>2. /\ u[Len(s)][s] \in X
        /\ u[Len(s)][s] = IF s = <<>> THEN base ELSE g[<<u[Len(s)][Front(s)], s>>]
    <3> HIDE DEF u
    <3>1. QED
      BY <2>1, <1>4
  <2>3. ASSUME s # <<>> PROVE Front(s) \in Seq(A) /\ F[Front(s)] = u[Len(s)][Front(s)]
    <3>1. /\ Front(s) \in Seq(A) /\ Len(Front(s)) \in Nat
          /\ Front(s) \in Upto(Len(s)) /\ Front(s) \in Upto(Len(Front(s)))
      <4>1. Front(s) \in Seq(A) /\ Len(Front(s)) = Len(s) - 1
        BY <2>3, FrontAppend
      <4>2. Len(Front(s)) \in Nat
        BY <4>1, LenProperties
      <4>3. QED
        BY <2>1, <4>1, <4>2
    <3> HIDE DEF u
    <3>2. u[Len(Front(s))][Front(s)] = u[Len(s)][Front(s)]
      BY <3>1, <2>1, <1>7
    <3>3. QED
      BY <3>1, <3>2
  <2> HIDE DEF u
  <2>4. QED
    BY <2>2, <2>3
<1>9. F \in [Seq(A) -> X] /\ DOMAIN F = Seq(A)
  BY <1>8
<1> HIDE DEF F
<1>10. Recursion(F, base, g)
  BY <1>8, <1>9 DEF Recursion
<1>11. QED
  BY <1>9, <1>10

-----------------------------------------------------------------------------
(* The functions of package strings, one character at a time *)

LEMMA Characters ==
  /\ LF \in Char /\ CR \in Char /\ Blank \subseteq Char
  /\ LF # CR /\ LF \notin Blank /\ CR \notin Blank
<1>1. LF \in Char /\ CR \in Char /\ Blank \subseteq Char
  BY CharAssumption
<1>2. QED
  BY <1>1 DEF LF, CR, Blank

\* ReplaceAll(s, "\r\n", "\n"), when the text grows by a character.
LEMMA UnifyLineEndsStep ==
  /\ UnifyLineEnds(<<>>) = <<>>
  /\ \A s \in Text : UnifyLineEnds(s) \in Text
  /\ \A s \in Text, c \in Char :
       LET done == UnifyLineEnds(s)
       IN  UnifyLineEnds(Append(s, c)) =
             IF c = LF /\ done # <<>> /\ Last(done) = CR
             THEN Append(Front(done), LF) ELSE Append(done, c)
<1> DEFINE Body(u) == [t \in Text |->
             IF t = <<>> THEN <<>>
             ELSE LET done == u[Front(t)]
                  IN  IF Last(t) = LF /\ done # <<>> /\ Last(done) = CR
                      THEN Append(Front(done), LF) ELSE Append(done, Last(t))]
           U == CHOOSE u : u = Body(u)
           g == [p \in Text \X Text |->
             IF p[2] = <<>> THEN <<>>
             ELSE IF Last(p[2]) = LF /\ p[1] # <<>> /\ Last(p[1]) = CR
                  THEN Append(Front(p[1]), LF) ELSE Append(p[1], Last(p[2]))]
<1>1. \A s : UnifyLineEnds(s) = U[s]
  BY DEF UnifyLineEnds
<1>2. g \in [Text \X Text -> Text]
  <2>1. ASSUME NEW p \in Text \X Text PROVE g[p] \in Text
    BY FrontAppend, FrontLast, Characters, EmptySeq DEF Text
  <2>2. QED
    BY <2>1
<1>3. PICK f \in [Text -> Text] : Recursion(f, <<>>, g)
  <2> HIDE DEF g
  <2>1. <<>> \in Text
    BY EmptySeq DEF Text
  <2>2. QED
    BY <1>2, <2>1, RecursionOnSeq DEF Text
<1>4. f = Body(f)
  <2>1. ASSUME NEW t \in Text, t # <<>> PROVE <<f[Front(t)], t>> \in Text \X Text
    BY <2>1, FrontAppend DEF Text
  <2>2. QED
    BY <1>3, <2>1 DEF Recursion
<1>5. U = Body(U)
  <2> HIDE DEF Body
  <2>1. QED
    BY <1>4
<1>6. U[<<>>] = <<>>
  <2> HIDE DEF U
  <2>1. <<>> \in Text
    BY EmptySeq DEF Text
  <2>2. QED
    BY <1>5, <2>1
<1>7. ASSUME NEW s \in Text, NEW c \in Char
      PROVE  U[Append(s, c)] = IF c = LF /\ U[s] # <<>> /\ Last(U[s]) = CR
                               THEN Append(Front(U[s]), LF) ELSE Append(U[s], c)
  <2> HIDE DEF U
  <2>1. Append(s, c) \in Text /\ Append(s, c) # <<>> /\ Front(Append(s, c)) = s /\ Last(Append(s, c)) = c
    BY FrontLast DEF Text
  <2>2. QED
    BY <1>5, <2>1
<1> HIDE DEF U
<1> DEFINE S == {s \in Text : U[s] \in Text}
<1>8. Text \subseteq S
  <2>1. <<>> \in S
    BY <1>6, EmptySeq DEF Text
  <2>2. ASSUME NEW s \in S, NEW c \in Char PROVE Append(s, c) \in S
    <3>1. s \in Text /\ U[s] \in Text /\ Append(s, c) \in Text
      BY FrontLast DEF Text
    <3>2. U[s] # <<>> => Append(Front(U[s]), LF) \in Text
      BY <3>1, FrontAppend, FrontLast, Characters DEF Text
    <3>3. Append(U[s], c) \in Text
      BY <3>1, FrontLast DEF Text
    <3>4. QED
      BY <3>1, <3>2, <3>3, <1>7
  <2> HIDE DEF S
  <2>3. QED
    BY <2>1, <2>2, SetOfAllSeq DEF Text
<1>9. QED
  BY <1>1, <1>6, <1>7, <1>8

Pieces == Seq(Text) \ {<<>>}

\* Split, when the text grows by a character: it opens a piece or goes to the
\* last one.
LEMMA SplitStep ==
  ASSUME NEW seps
  PROVE  /\ Split(<<>>, seps) = << <<>> >>
         /\ \A s \in Text : Split(s, seps) \in Pieces
         /\ \A s \in Text, c \in Char :
              Split(Append(s, c), seps) =
                IF c \in seps THEN Append(Split(s, seps), <<>>)
                ELSE Append(Front(Split(s, seps)), Append(Last(Split(s, seps)), c))
<1> DEFINE Body(u) == [t \in Text |->
             IF t = <<>> THEN << <<>> >>
             ELSE LET ps == u[Front(t)]
                  IN  IF Last(t) \in seps THEN Append(ps, <<>>)
                      ELSE Append(Front(ps), Append(Last(ps), Last(t)))]
           U == CHOOSE u : u = Body(u)
           base == << <<>> >>
           g == [p \in Pieces \X Text |->
             IF p[2] = <<>> THEN base
             ELSE IF Last(p[2]) \in seps THEN Append(p[1], <<>>)
                  ELSE Append(Front(p[1]), Append(Last(p[1]), Last(p[2])))]
<1>1. \A s : Split(s, seps) = U[s]
  BY DEF Split
<1>2. <<>> \in Text /\ base \in Pieces
  BY EmptySeq DEF Text, Pieces
<1>3. ASSUME NEW ps \in Pieces, NEW c \in Char
      PROVE  /\ Append(ps, <<>>) \in Pieces
             /\ Append(Front(ps), Append(Last(ps), c)) \in Pieces
  <2>1. Front(ps) \in Seq(Text) /\ Last(ps) \in Text
    BY FrontAppend DEF Pieces
  <2>2. Append(Last(ps), c) \in Text
    BY <2>1, FrontLast DEF Text
  <2>3. QED
    BY <1>2, <2>1, <2>2, FrontLast DEF Pieces
<1>4. g \in [Pieces \X Text -> Pieces]
  <2>1. ASSUME NEW p \in Pieces \X Text PROVE g[p] \in Pieces
    <3>1. p[2] # <<>> => Last(p[2]) \in Char
      BY FrontAppend DEF Text
    <3>2. QED
      BY <3>1, <1>2, <1>3
  <2>2. QED
    BY <2>1
<1>5. PICK f \in [Text -> Pieces] : Recursion(f, base, g)
  <2> HIDE DEF g, base
  <2>1. QED
    BY <1>2, <1>4, RecursionOnSeq DEF Text
<1>6. f = Body(f)
  <2>1. ASSUME NEW t \in Text, t # <<>> PROVE <<f[Front(t)], t>> \in Pieces \X Text
    BY <2>1, FrontAppend DEF Text
  <2>2. QED
    BY <1>5, <2>1 DEF Recursion
<1>7. U = Body(U)
  <2> HIDE DEF Body
  <2>1. QED
    BY <1>6
<1> HIDE DEF U
<1>8. U[<<>>] = base
  BY <1>7, <1>2
<1>9. ASSUME NEW s \in Text, NEW c \in Char
      PROVE  U[Append(s, c)] = IF c \in seps THEN Append(U[s], <<>>)
                               ELSE Append(Front(U[s]), Append(Last(U[s]), c))
  <2>1. Append(s, c) \in Text /\ Append(s, c) # <<>> /\ Front(Append(s, c)) = s /\ Last(Append(s, c)) = c
    BY FrontLast DEF Text
  <2>2. QED
    BY <1>7, <2>1
<1> DEFINE S == {s \in Text : U[s] \in Pieces}
<1>10. Text \subseteq S
  <2>1. <<>> \in S
    BY <1>8, <1>2
  <2>2. ASSUME NEW s \in S, NEW c \in Char PROVE Append(s, c) \in S
    <3>1. s \in Text /\ U[s] \in Pieces /\ Append(s, c) \in Text
      BY FrontLast DEF Text
    <3>2. QED
      BY <3>1, <1>3, <1>9
  <2> HIDE DEF S
  <2>3. QED
    BY <2>1, <2>2, SetOfAllSeq DEF Text
<1>11. \A s \in Text : U[s] \in Pieces
  BY <1>10
<1> HIDE DEF S
<1>12. Split(<<>>, seps) = << <<>> >>
  BY <1>1, <1>8
<1> HIDE DEF base, g, Body
<1>13. QED
  BY <1>1, <1>9, <1>11, <1>12

\* Split returns at least one piece.
LEMMA SplitType ==
  ASSUME NEW seps, NEW s \in Text
  PROVE  Split(s, seps) \in Seq(Text) /\ Split(s, seps) # <<>>
<1>1. Split(s, seps) \in Pieces
  BY SplitStep
<1>2. QED
  BY <1>1 DEF Pieces

\* The step of Split, for one text and one character.
LEMMA SplitAppend ==
  ASSUME NEW seps, NEW s \in Text, NEW c \in Char
  PROVE  Split(Append(s, c), seps) =
           IF c \in seps THEN Append(Split(s, seps), <<>>)
           ELSE Append(Front(Split(s, seps)), Append(Last(Split(s, seps)), c))
<1>1. \A t \in Text, d \in Char :
        Split(Append(t, d), seps) =
          IF d \in seps THEN Append(Split(t, seps), <<>>)
          ELSE Append(Front(Split(t, seps)), Append(Last(Split(t, seps)), d))
  BY SplitStep
<1>2. QED
  BY <1>1

\* Join, when one more line is put behind.
LEMMA JoinStep ==
  /\ Join(<<>>) = <<>>
  /\ \A ls \in Seq(Text) : Join(ls) \in Text
  /\ \A ls \in Seq(Text), l \in Text :
       Join(Append(ls, l)) = IF ls = <<>> THEN l ELSE Join(ls) \o <<LF>> \o l
<1> DEFINE Body(u) == [t \in Seq(Text) |->
             IF t = <<>> THEN <<>>
             ELSE IF Len(t) = 1 THEN Last(t) ELSE u[Front(t)] \o <<LF>> \o Last(t)]
           U == CHOOSE u : u = Body(u)
           g == [p \in Text \X Seq(Text) |->
             IF p[2] = <<>> THEN <<>>
             ELSE IF Len(p[2]) = 1 THEN Last(p[2]) ELSE p[1] \o <<LF>> \o Last(p[2])]
<1>1. \A ls : Join(ls) = U[ls]
  BY DEF Join
<1>2. <<>> \in Text /\ <<>> \in Seq(Text)
  BY EmptySeq DEF Text
<1>3. ASSUME NEW t \in Text, NEW l \in Text PROVE t \o <<LF>> \o l \in Text
  BY Characters, ConcatProperties DEF Text
<1>4. g \in [Text \X Seq(Text) -> Text]
  <2>1. ASSUME NEW p \in Text \X Seq(Text) PROVE g[p] \in Text
    <3>1. p[2] # <<>> => Last(p[2]) \in Text
      BY FrontAppend
    <3>2. QED
      BY <3>1, <1>2, <1>3
  <2>2. QED
    BY <2>1
<1>5. PICK f \in [Seq(Text) -> Text] : Recursion(f, <<>>, g)
  <2> HIDE DEF g
  <2>1. QED
    BY <1>2, <1>4, RecursionOnSeq
<1>6. f = Body(f)
  <2>1. ASSUME NEW t \in Seq(Text), t # <<>> PROVE <<f[Front(t)], t>> \in Text \X Seq(Text)
    BY <2>1, FrontAppend
  <2>2. QED
    BY <1>5, <2>1 DEF Recursion
<1>7. U = Body(U)
  <2> HIDE DEF Body
  <2>1. QED
    BY <1>6
<1> HIDE DEF U
<1>8. U[<<>>] = <<>>
  BY <1>7, <1>2
<1>9. ASSUME NEW ls \in Seq(Text), NEW l \in Text
      PROVE  U[Append(ls, l)] = IF ls = <<>> THEN l ELSE U[ls] \o <<LF>> \o l
  <2>1. /\ Append(ls, l) \in Seq(Text) /\ Append(ls, l) # <<>>
        /\ Front(Append(ls, l)) = ls /\ Last(Append(ls, l)) = l
        /\ Len(Append(ls, l)) = 1 <=> ls = <<>>
    BY FrontLast, LenProperties, EmptySeq
  <2>2. QED
    BY <1>7, <2>1
<1> DEFINE S == {ls \in Seq(Text) : U[ls] \in Text}
<1>10. Seq(Text) \subseteq S
  <2>1. <<>> \in S
    BY <1>8, <1>2
  <2>2. ASSUME NEW ls \in S, NEW l \in Text PROVE Append(ls, l) \in S
    <3>1. ls \in Seq(Text) /\ U[ls] \in Text /\ Append(ls, l) \in Seq(Text)
      BY FrontLast
    <3>2. QED
      BY <3>1, <1>3, <1>9
  <2> HIDE DEF S
  <2>3. QED
    BY <2>1, <2>2, SetOfAllSeq
<1>11. QED
  BY <1>1, <1>8, <1>9, <1>10

\* What Fields leaves out, when one more piece is put behind.
LEMMA NonEmptyStep ==
  /\ NonEmpty(<<>>) = <<>>
  /\ \A ps \in Seq(Text) : NonEmpty(ps) \in Seq(Text)
  /\ \A ps \in Seq(Text), p \in Text :
       NonEmpty(Append(ps, p)) = IF p = <<>> THEN NonEmpty(ps) ELSE Append(NonEmpty(ps), p)
<1> DEFINE Body(u) == [t \in Seq(Text) |->
             IF t = <<>> THEN <<>>
             ELSE IF Last(t) = <<>> THEN u[Front(t)] ELSE Append(u[Front(t)], Last(t))]
           U == CHOOSE u : u = Body(u)
           g == [p \in Seq(Text) \X Seq(Text) |->
             IF p[2] = <<>> THEN <<>>
             ELSE IF Last(p[2]) = <<>> THEN p[1] ELSE Append(p[1], Last(p[2]))]
<1>1. \A ps : NonEmpty(ps) = U[ps]
  BY DEF NonEmpty
<1>2. <<>> \in Seq(Text)
  BY EmptySeq
<1>3. g \in [Seq(Text) \X Seq(Text) -> Seq(Text)]
  <2>1. ASSUME NEW p \in Seq(Text) \X Seq(Text) PROVE g[p] \in Seq(Text)
    <3>1. p[2] # <<>> => Last(p[2]) \in Text /\ Append(p[1], Last(p[2])) \in Seq(Text)
      BY FrontAppend, FrontLast
    <3>2. QED
      BY <3>1, <1>2
  <2>2. QED
    BY <2>1
<1>4. PICK f \in [Seq(Text) -> Seq(Text)] : Recursion(f, <<>>, g)
  <2> HIDE DEF g
  <2>1. QED
    BY <1>2, <1>3, RecursionOnSeq
<1>5. f = Body(f)
  <2>1. ASSUME NEW t \in Seq(Text), t # <<>> PROVE <<f[Front(t)], t>> \in Seq(Text) \X Seq(Text)
    BY <2>1, FrontAppend
  <2>2. QED
    BY <1>4, <2>1 DEF Recursion
<1>6. U = Body(U)
  <2> HIDE DEF Body
  <2>1. QED
    BY <1>5
<1> HIDE DEF U
<1>7. U[<<>>] = <<>>
  BY <1>6, <1>2
<1>8. ASSUME NEW ps \in Seq(Text), NEW p \in Text
      PROVE  U[Append(ps, p)] = IF p = <<>> THEN U[ps] ELSE Append(U[ps], p)
  <2>1. /\ Append(ps, p) \in Seq(Text) /\ Append(ps, p) # <<>>
        /\ Front(Append(ps, p)) = ps /\ Last(Append(ps, p)) = p
    BY FrontLast
  <2>2. QED
    BY <1>6, <2>1
<1> DEFINE S == {ps \in Seq(Text) : U[ps] \in Seq(Text)}
<1>9. Seq(Text) \subseteq S
  <2>1. <<>> \in S
    BY <1>7, <1>2
  <2>2. ASSUME NEW ps \in S, NEW p \in Text PROVE Append(ps, p) \in S
    <3>1. ps \in Seq(Text) /\ U[ps] \in Seq(Text) /\ Append(ps, p) \in Seq(Text)
      BY FrontLast
    <3>2. Append(U[ps], p) \in Seq(Text)
      BY <3>1, FrontLast
    <3>3. QED
      BY <3>1, <3>2, <1>8
  <2> HIDE DEF S
  <2>3. QED
    BY <2>1, <2>2, SetOfAllSeq
<1>10. QED
  BY <1>1, <1>7, <1>8, <1>9

-----------------------------------------------------------------------------
(* Pieces and tokens *)

\* Putting an element behind a concatenation puts it behind its second part.
LEMMA ConcatAppend ==
  ASSUME NEW A, NEW s \in Seq(A), NEW t \in Seq(A), NEW a \in A
  PROVE  s \o Append(t, a) = Append(s \o t, a)
<1>1. Append(t, a) = t \o <<a>> /\ Append(s \o t, a) = (s \o t) \o <<a>> /\ <<a>> \in Seq(A)
  BY AppendIsConcat, ConcatProperties
<1>2. QED
  BY <1>1, ConcatAssociative

\* A piece is made of the characters of the text that are no separators.
LEMMA SplitCharacters ==
  ASSUME NEW seps, NEW B \in SUBSET Char, NEW s \in Seq(B)
  PROVE  Split(s, seps) \in Seq(Seq(B \ seps))
<1> DEFINE Y == Seq(B \ seps)
           S == {t \in Seq(B) : Split(t, seps) \in Seq(Y)}
<1>1. \A t \in Seq(B) : t \in Text
  BY SeqMonotonic DEF Text
<1>2. <<>> \in Y
  BY EmptySeq
<1>3. <<>> \in S
  <2>1. << <<>> >> \in Seq(Y)
    BY <1>2
  <2>2. QED
    BY <2>1, SplitStep, EmptySeq
<1>4. ASSUME NEW t \in S, NEW c \in B PROVE Append(t, c) \in S
  <2> DEFINE ps == Split(t, seps)
  <2>1. ps \in Seq(Y) /\ ps # <<>> /\ t \in Text /\ c \in Char /\ Append(t, c) \in Seq(B)
    BY <1>1, SplitType, FrontLast
  <2>2. Split(Append(t, c), seps) = IF c \in seps THEN Append(ps, <<>>)
                                    ELSE Append(Front(ps), Append(Last(ps), c))
    BY <2>1, SplitAppend
  <2> HIDE DEF ps, Y
  <2>3. Append(ps, <<>>) \in Seq(Y) /\ Front(ps) \in Seq(Y) /\ Last(ps) \in Y
    BY <2>1, <1>2, FrontAppend, FrontLast
  <2>4. c \notin seps => Append(Last(ps), c) \in Y
    BY <2>3, FrontLast DEF Y
  <2>5. c \notin seps => Append(Front(ps), Append(Last(ps), c)) \in Seq(Y)
    BY <2>3, <2>4, FrontLast
  <2>6. QED
    BY <2>1, <2>2, <2>3, <2>5
<1> HIDE DEF S
<1>5. QED
  <2>1. Seq(B) \subseteq S
    BY <1>3, <1>4, SetOfAllSeq
  <2>2. QED
    BY <2>1 DEF S

-----------------------------------------------------------------------------
(* Rounding *)

\* The grid a number is rounded to lies among the integers, on both sides of 0.
LEMMA GridType ==
  /\ Grid \subseteq Int /\ 0 \in Grid
  /\ \A d \in Double \cup {Infinity} : d \in Grid /\ -d \in Grid
  BY DoubleAssumption DEF Grid

\* Rounding finds a nearest value of the grid.
LEMMA RoundNearest ==
  ASSUME NEW x \in Int
  PROVE  Round(x) \in Grid /\ \A d \in Grid : Abs(Round(x) - x) <= Abs(d - x)
<1> DEFINE near == {r \in Grid : \A d \in Grid : Abs(r - x) <= Abs(d - x)}
           D == {n \in Nat : \E d \in Grid : n = Abs(d - x)}
<1>1. \A d \in Grid : Abs(d - x) \in D
  BY GridType DEF Abs
<1>2. D # {} /\ D \in SUBSET Nat
  BY <1>1, GridType
<1>3. PICK n \in D : \A m \in D : n <= m
  <2> HIDE DEF D
  <2>1. QED
    BY <1>2, LeastNat
<1>4. PICK r \in Grid : n = Abs(r - x)
  BY <1>3
<1>5. r \in near
  <2> HIDE DEF D
  <2>1. QED
    BY <1>1, <1>3, <1>4
<1>6. Round(x) = CHOOSE c \in near : c \in Even \/ near \cap Even = {}
  BY DEF Round
<1> HIDE DEF near
<1>7. \E c \in near : c \in Even \/ near \cap Even = {}
  BY <1>5
<1>8. Round(x) \in near
  BY <1>6, <1>7
<1>9. QED
  BY <1>8 DEF near

\* What is on the grid stays; equal numbers have the difference 0.
LEMMA RoundZero == Round(0) = 0
<1>1. Round(0) \in Grid /\ Abs(Round(0) - 0) <= Abs(0 - 0)
  BY RoundNearest, GridType
<1>2. Round(0) \in Int
  BY <1>1, GridType
<1>3. QED
  BY <1>1, <1>2 DEF Abs

\* A difference that is at most epsilon when rounded is itself no farther than
\* half way from epsilon to any greater value of the grid.
LEMMA RoundedWithin ==
  ASSUME NEW z \in Int, NEW eps \in Double, Abs(Round(z)) <= eps,
         NEW d \in Double \cup {Infinity}, d > eps
  PROVE  2 * Abs(z) <= eps + d
<1> DEFINE r == Round(z)
<1>1. /\ r \in Int /\ d \in Int /\ eps \in Int
      /\ Abs(r - z) <= Abs(d - z) /\ Abs(r - z) <= Abs(-d - z)
  BY RoundNearest, GridType, DoubleAssumption
<1>2. Abs(r) <= eps
  OBVIOUS
<1> HIDE DEF r
<1>3. -eps <= r /\ r <= eps
  BY <1>1, <1>2 DEF Abs
<1>4. CASE z >= 0
  <2>1. z <= eps \/ z - r <= Abs(d - z)
    BY <1>1, <1>3, <1>4 DEF Abs
  <2>2. QED
    BY <1>1, <1>3, <1>4, <2>1 DEF Abs
<1>5. CASE z < 0
  <2>1. -z <= eps \/ r - z <= Abs(-d - z)
    BY <1>1, <1>3, <1>5 DEF Abs
  <2>2. QED
    BY <1>1, <1>3, <1>5, <2>1 DEF Abs
<1>6. QED
  BY <1>4, <1>5

\* A difference that is more than epsilon when rounded is more than epsilon.
LEMMA RoundedBeyond ==
  ASSUME NEW z \in Int, NEW eps \in Double, Abs(Round(z)) > eps
  PROVE  Abs(z) > eps
<1> DEFINE r == Round(z)
<1>1. /\ r \in Int /\ eps \in Int
      /\ Abs(r - z) <= Abs(eps - z) /\ Abs(r - z) <= Abs(-eps - z)
  BY RoundNearest, GridType, DoubleAssumption
<1>2. Abs(r) > eps
  OBVIOUS
<1> HIDE DEF r
<1>3. QED
  BY <1>1, <1>2 DEF Abs

\* What ParseFloat answers: a number is read from one, and on the grid.
LEMMA ParseFloatType ==
  ASSUME NEW w
  PROVE  /\ ParseFloat(w).val \in Int
         /\ ParseFloat(w).kind = "number" => ParseFloat(w).val \in Double /\ Reads[w].val \in Int
<1>1. CASE w \notin DOMAIN Reads
  BY <1>1 DEF ParseFloat
<1>2. CASE w \in DOMAIN Reads
  <2> DEFINE r == Round(Reads[w].val)
  <2>1. /\ Reads[w].val \in Int
        /\ ParseFloat(w) = IF Reads[w].kind # "number" THEN Reads[w]
                           ELSE [kind |-> IF r \in Double THEN "number" ELSE "error", val |-> r]
    BY <1>2, ReadsAssumption DEF ParseFloat, Parsed
  <2>2. r \in Int
    BY <2>1, RoundNearest, GridType
  <2> HIDE DEF r
  <2>3. CASE Reads[w].kind # "number"
    BY <2>1, <2>3
  <2>4. CASE Reads[w].kind = "number"
    BY <2>1, <2>2, <2>4
  <2>5. QED
    BY <2>3, <2>4
<1>3. QED
  BY <1>1, <1>2

\* The comparison of two numbers against their exact values: near enough when
\* accepted, far enough when refused.
LEMMA NumbersCompare ==
  ASSUME NEW v, NEW w, NEW eps \in Double, Number(v), Number(w)
  PROVE  /\ TokensCompare(v, w, eps) =>
              \A d \in Double \cup {Infinity} :
                d > eps => 2 * (Apart(v, w) - Errors(v, w)) <= eps + d
         /\ ~ TokensCompare(v, w, eps) => Apart(v, w) + Errors(v, w) > eps
<1> DEFINE x == ParseFloat(v).val
           y == ParseFloat(w).val
           X == Reads[v].val
           Y == Reads[w].val
           z == x - y
<1>1. x \in Int /\ y \in Int /\ X \in Int /\ Y \in Int /\ z \in Int /\ eps \in Int
  BY ParseFloatType, DoubleAssumption DEF Number
<1>2. TokensCompare(v, w, eps) <=> ~ (Abs(Round(z)) > eps)
  BY DEF TokensCompare, FartherThan, Number
<1>3. Round(z) \in Int /\ Abs(Round(z)) \in Int
  <2>1. Round(z) \in Int
    BY <1>1, RoundNearest, GridType
  <2>2. QED
    BY <2>1 DEF Abs
<1>4. Apart(v, w) = Abs(X - Y) /\ Errors(v, w) = Abs(x - X) + Abs(y - Y)
  BY DEF Apart, Errors
<1> HIDE DEF x, y, X, Y
<1>5. /\ Abs(X - Y) - (Abs(x - X) + Abs(y - Y)) <= Abs(z)
      /\ Abs(X - Y) + (Abs(x - X) + Abs(y - Y)) >= Abs(z)
      /\ Abs(X - Y) \in Int /\ Abs(x - X) \in Int /\ Abs(y - Y) \in Int /\ Abs(z) \in Int
  BY <1>1 DEF Abs
<1> HIDE DEF z
<1>6. ASSUME TokensCompare(v, w, eps), NEW d \in Double \cup {Infinity}, d > eps
      PROVE  2 * (Apart(v, w) - Errors(v, w)) <= eps + d
  <2>1. 2 * Abs(z) <= eps + d
    BY <1>1, <1>2, <1>3, <1>6, RoundedWithin
  <2>2. d \in Int
    BY DoubleAssumption
  <2>3. QED
    BY <1>1, <1>4, <1>5, <2>1, <2>2
<1>7. ASSUME ~ TokensCompare(v, w, eps) PROVE Apart(v, w) + Errors(v, w) > eps
  <2>1. Abs(z) > eps
    BY <1>1, <1>2, <1>7, RoundedBeyond
  <2>2. QED
    BY <1>1, <1>4, <1>5, <2>1
<1>8. QED
  BY <1>6, <1>7

-----------------------------------------------------------------------------
(* The comparison of a test case *)

\* The inductive invariant: the verdict, once there, is that of Compare.
CompInv ==
  /\ problem \in [mode : Mode, eps : Epsilon]
  /\ expected \in Text /\ stdout \in Text
  /\ verdict # "none" =>
       verdict = IF Compare(problem.mode, problem.eps, expected, stdout)
                 THEN "passed" ELSE "WRONG_ANSWER"

\* Once there, the verdict is that of Compare on two texts: engine.go:209-213.
THEOREM CompInvariant == CompSpec => []CompInv
<1>1. CompInit => CompInv
  BY FamilyAssumption DEF CompInit, CompInv
<1>2. CompInv /\ [CompareOutput]_compVars => CompInv'
  <2> SUFFICES ASSUME CompInv, [CompareOutput]_compVars PROVE CompInv'
    OBVIOUS
  <2>1. /\ problem' = problem /\ expected' = expected /\ stdout' = stdout
        /\ verdict' = verdict \/ verdict' = IF Compare(problem.mode, problem.eps, expected, stdout)
                                            THEN "passed" ELSE "WRONG_ANSWER"
    BY DEF CompareOutput, compVars
  <2>2. QED
    BY <2>1 DEF CompInv
<1>3. QED
  BY <1>1, <1>2, PTL DEF CompSpec

\* The types of the two columns the comparison depends on.
LEMMA ProblemFields ==
  ASSUME CompInv
  PROVE  problem.mode \in Mode /\ problem.eps \in Double /\ problem.eps \in Int
  BY EpsilonAssumption, DoubleAssumption DEF CompInv

\* FLOAT_EPSILON goes by the exact numbers of the texts up to what float64 does
\* to them: comparator.go's FloatComparator, for texts of any length, any set of
\* float64 values that has 0 and, with a value, its negative, and any epsilon.
THEOREM FloatSafety == CompSpec => []FloatErrsByRounding
<1>1. CompInv => FloatErrsByRounding
  <2> SUFFICES ASSUME CompInv, verdict # "none", problem.mode = "FLOAT_EPSILON"
               PROVE  FloatErrsByRounding
    BY DEF FloatErrsByRounding
  <2> DEFINE v == Fields(expected)
             w == Fields(stdout)
             eps == problem.eps
             Numbers(i) == Number(v[i]) /\ Number(w[i])
             Near(i) == \A d \in Double \cup {Infinity} :
                          d > eps => 2 * (Apart(v[i], w[i]) - Errors(v[i], w[i])) <= eps + d
             Far(i)  == Apart(v[i], w[i]) + Errors(v[i], w[i]) > eps
  <2>1. eps \in Double
    BY ProblemFields
  <2>2. verdict = "passed" <=> FloatCompare(expected, stdout, eps)
    BY DEF CompInv, Compare
  <2>3. FloatCompare(expected, stdout, eps) <=>
          Len(v) = Len(w) /\ \A i \in DOMAIN v : TokensCompare(v[i], w[i], eps)
    BY DEF FloatCompare
  <2>4. ASSUME NEW i \in DOMAIN v, Numbers(i)
        PROVE  /\ TokensCompare(v[i], w[i], eps) => Near(i)
               /\ ~ TokensCompare(v[i], w[i], eps) => Far(i)
    BY <2>1, <2>4, NumbersCompare
  <2>5. FloatErrsByRounding <=>
          /\ verdict = "passed" => Len(v) = Len(w) /\ \A i \in DOMAIN v : Numbers(i) => Near(i)
          /\ (verdict # "passed" /\ Len(v) = Len(w) /\ \A i \in DOMAIN v : Numbers(i)) =>
               \E i \in DOMAIN v : Far(i)
    BY DEF FloatErrsByRounding
  <2> HIDE DEF v, w, eps, Numbers, Near, Far
  <2>6. QED
    BY <2>2, <2>3, <2>4, <2>5
<1>2. QED
  BY <1>1, CompInvariant, PTL

-----------------------------------------------------------------------------
(* What is trimmed *)

LEMMA MaxInterval ==
  ASSUME NEW n \in Nat, NEW I \in SUBSET (1..n), I # {}
  PROVE  Max(I) \in I /\ \A i \in I : i <= Max(I)
<1> DEFINE D == {d \in Nat : \E i \in I : d = n - i}
<1>1. D # {}
  <2>1. PICK i \in I : TRUE
    OBVIOUS
  <2>2. n - i \in D
    OBVIOUS
  <2>3. QED
    BY <2>2
<1>2. PICK d \in D : \A e \in D : d <= e
  <2> HIDE DEF D
  <2>1. D \in SUBSET Nat
    BY DEF D
  <2>2. QED
    BY <1>1, <2>1, LeastNat
<1>3. PICK m \in I : d = n - m
  OBVIOUS
<1>4. ASSUME NEW i \in I PROVE m >= i
  <2>1. n - i \in D
    OBVIOUS
  <2>2. d <= n - i
    BY <1>2, <2>1
  <2>3. QED
    BY <1>3, <2>2
<1>5. \E x \in I : \A y \in I : x >= y
  BY <1>4
<1>6. Max(I) \in I /\ \A y \in I : Max(I) >= y
  BY <1>5 DEF Max
<1>7. QED
  BY <1>6

\* The positions of the characters that are not blank.
Inked(line) == {i \in 1..Len(line) : line[i] \notin Blank}
\* The positions of the lines that are not empty.
Filled(lines) == {i \in 1..Len(lines) : lines[i] # <<>>}

LastOf(I) == IF I # {} THEN Max(I) ELSE 0

\* The last of some positions is one of them, and none is behind it.
LEMMA LastOfInterval ==
  ASSUME NEW n \in Nat, NEW I \in SUBSET (1..n)
  PROVE  /\ LastOf(I) \in 0..n
         /\ \A i \in I : i <= LastOf(I)
         /\ LastOf(I) # 0 => LastOf(I) \in I
<1>1. CASE I = {}
  BY <1>1 DEF LastOf
<1>2. CASE I # {}
  <2>1. Max(I) \in I /\ \A i \in I : i <= Max(I)
    BY <1>2, MaxInterval
  <2>2. LastOf(I) = Max(I)
    BY <1>2 DEF LastOf
  <2>3. LastOf(I) \in I /\ \A i \in I : i <= LastOf(I)
    BY <2>1, <2>2, Zenon
  <2>4. LastOf(I) \in 1..n
    BY <2>3, Zenon
  <2>5. LastOf(I) \in 0..n
    BY <2>4
  <2>6. QED
    BY <2>3, <2>5, Zenon
<1>3. QED
  BY <1>1, <1>2

\* If the last position is among them, it is the last.
LEMMA LastOfTop ==
  ASSUME NEW n \in Nat, NEW I \in SUBSET (1..n), n \in I
  PROVE  LastOf(I) = n
<1>1. LastOf(I) \in 0..n /\ n <= LastOf(I)
  BY LastOfInterval
<1>2. QED
  BY <1>1

\* TrimRight cuts behind the last character that is no blank.
LEMMA TrimRightIs == \A line : TrimRight(line) = SubSeq(line, 1, LastOf(Inked(line)))
  BY DEF TrimRight, SelectLastInSeq, LastOf, Inked

\* WithoutTrailing cuts behind the last line that is not empty.
LEMMA WithoutTrailingIs ==
  \A lines : WithoutTrailing(lines) = SubSeq(lines, 1, LastOf(Filled(lines)))
  BY DEF WithoutTrailing, SelectLastInSeq, LastOf, Filled

\* The first n elements of a sequence, when one is put behind it.
LEMMA SubSeqAppend ==
  ASSUME NEW A, NEW s \in Seq(A), NEW a \in A, NEW n \in 0..Len(s)
  PROVE  /\ SubSeq(s, 1, n) \in Seq(A) /\ Len(SubSeq(s, 1, n)) = n
         /\ \A i \in 1..n : SubSeq(s, 1, n)[i] = s[i]
         /\ SubSeq(Append(s, a), 1, n) = SubSeq(s, 1, n)
         /\ SubSeq(Append(s, a), 1, Len(s) + 1) = Append(s, a)
<1>1. /\ Append(s, a) \in Seq(A) /\ Len(Append(s, a)) = Len(s) + 1 /\ Len(s) \in Nat
      /\ \A i \in 1..Len(s) : Append(s, a)[i] = s[i]
  BY AppendProperties, LenProperties
<1>2. /\ SubSeq(s, 1, n) \in Seq(A) /\ Len(SubSeq(s, 1, n)) = n
      /\ \A i \in 1..n : SubSeq(s, 1, n)[i] = s[i]
  <2>1. \A i \in 1..n : s[i] \in A
    BY <1>1, ElementOfSeq
  <2>2. QED
    BY <1>1, <2>1, SubSeqProperties
<1>3. /\ SubSeq(Append(s, a), 1, n) \in Seq(A) /\ Len(SubSeq(Append(s, a), 1, n)) = n
      /\ \A i \in 1..n : SubSeq(Append(s, a), 1, n)[i] = s[i]
  <2>1. \A i \in 1..n : Append(s, a)[i] \in A /\ Append(s, a)[i] = s[i]
    BY <1>1, ElementOfSeq
  <2>2. QED
    BY <1>1, <2>1, SubSeqProperties
<1>4. SubSeq(Append(s, a), 1, n) = SubSeq(s, 1, n)
  BY <1>2, <1>3, SeqEqual
<1>5. SubSeq(Append(s, a), 1, Len(s) + 1) = Append(s, a)
  BY <1>1, SubSeqFull
<1>6. QED
  BY <1>2, <1>4, <1>5

\* TrimRight, when the line grows by a character: any but a blank brings all
\* back.
LEMMA TrimRightStep ==
  /\ TrimRight(<<>>) = <<>>
  /\ \A l \in Text : TrimRight(l) \in Text
  /\ \A l \in Text, c \in Char :
       TrimRight(Append(l, c)) = IF c \in Blank THEN TrimRight(l) ELSE Append(l, c)
<1>1. TrimRight(<<>>) = <<>>
  <2>1. LastOf(Inked(<<>>)) = 0
    BY DEF LastOf, Inked
  <2>2. QED
    BY <2>1, TrimRightIs, SubSeqEmpty
<1>2. ASSUME NEW l \in Text
      PROVE  /\ Len(l) \in Nat /\ Inked(l) \in SUBSET (1..Len(l))
             /\ LastOf(Inked(l)) \in 0..Len(l) /\ TrimRight(l) \in Text
  <2>1. Len(l) \in Nat /\ Inked(l) \in SUBSET (1..Len(l))
    BY LenProperties DEF Text, Inked
  <2>2. LastOf(Inked(l)) \in 0..Len(l)
    BY <2>1, LastOfInterval
  <2>3. QED
    BY <2>1, <2>2, TrimRightIs, SubSeqAppend, Characters DEF Text
<1>3. ASSUME NEW l \in Text, NEW c \in Char
      PROVE  TrimRight(Append(l, c)) = IF c \in Blank THEN TrimRight(l) ELSE Append(l, c)
  <2> DEFINE m == Append(l, c)
  <2>1. /\ m \in Text /\ Len(m) = Len(l) + 1 /\ m[Len(l) + 1] = c
        /\ \A i \in 1..Len(l) : m[i] = l[i]
    BY AppendProperties DEF Text
  <2>2. TrimRight(m) = SubSeq(m, 1, LastOf(Inked(m))) /\ TrimRight(l) = SubSeq(l, 1, LastOf(Inked(l)))
    BY TrimRightIs
  <2>3. CASE c \in Blank
    <3>1. Inked(m) = Inked(l)
      BY <1>2, <2>1, <2>3 DEF Inked
    <3>2. SubSeq(m, 1, LastOf(Inked(l))) = SubSeq(l, 1, LastOf(Inked(l)))
      BY <1>2, SubSeqAppend DEF Text
    <3>3. QED
      BY <2>2, <2>3, <3>1, <3>2
  <2>4. CASE c \notin Blank
    <3>1. Len(l) + 1 \in Inked(m)
      BY <1>2, <2>1, <2>4 DEF Inked
    <3>2. LastOf(Inked(m)) = Len(l) + 1
      <4>1. Inked(m) \in SUBSET (1..(Len(l) + 1)) /\ Len(l) + 1 \in Nat
        BY <1>2, <2>1 DEF Inked
      <4>2. QED
        BY <4>1, <3>1, LastOfTop
    <3>3. SubSeq(m, 1, Len(l) + 1) = m
      BY <1>2, <2>1, SubSeqFull DEF Text
    <3>4. QED
      BY <2>2, <2>4, <3>2, <3>3
  <2>5. QED
    BY <2>3, <2>4
<1>4. QED
  BY <1>1, <1>2, <1>3

\* WithoutTrailing, when one more line is put behind.
LEMMA WithoutTrailingStep ==
  /\ WithoutTrailing(<<>>) = <<>>
  /\ \A ls \in Seq(Text) : WithoutTrailing(ls) \in Seq(Text)
  /\ \A ls \in Seq(Text), l \in Text :
       WithoutTrailing(Append(ls, l)) = IF l = <<>> THEN WithoutTrailing(ls) ELSE Append(ls, l)
<1>1. WithoutTrailing(<<>>) = <<>>
  <2>1. LastOf(Filled(<<>>)) = 0
    BY DEF LastOf, Filled
  <2>2. QED
    BY <2>1, WithoutTrailingIs, SubSeqEmpty
<1>2. ASSUME NEW ls \in Seq(Text)
      PROVE  /\ Len(ls) \in Nat /\ Filled(ls) \in SUBSET (1..Len(ls))
             /\ LastOf(Filled(ls)) \in 0..Len(ls) /\ WithoutTrailing(ls) \in Seq(Text)
  <2>1. Len(ls) \in Nat /\ Filled(ls) \in SUBSET (1..Len(ls))
    BY LenProperties DEF Filled
  <2>2. LastOf(Filled(ls)) \in 0..Len(ls)
    BY <2>1, LastOfInterval
  <2>3. <<>> \in Text
    BY EmptySeq DEF Text
  <2>4. QED
    BY <2>1, <2>2, <2>3, WithoutTrailingIs, SubSeqAppend
<1>3. ASSUME NEW ls \in Seq(Text), NEW l \in Text
      PROVE  WithoutTrailing(Append(ls, l)) = IF l = <<>> THEN WithoutTrailing(ls) ELSE Append(ls, l)
  <2> DEFINE m == Append(ls, l)
  <2>1. /\ m \in Seq(Text) /\ Len(m) = Len(ls) + 1 /\ m[Len(ls) + 1] = l
        /\ \A i \in 1..Len(ls) : m[i] = ls[i]
    BY AppendProperties
  <2>2. /\ WithoutTrailing(m) = SubSeq(m, 1, LastOf(Filled(m)))
        /\ WithoutTrailing(ls) = SubSeq(ls, 1, LastOf(Filled(ls)))
    BY WithoutTrailingIs
  <2>3. CASE l = <<>>
    <3>1. Filled(m) = Filled(ls)
      BY <1>2, <2>1, <2>3 DEF Filled
    <3>2. SubSeq(m, 1, LastOf(Filled(ls))) = SubSeq(ls, 1, LastOf(Filled(ls)))
      BY <1>2, SubSeqAppend
    <3>3. QED
      BY <2>2, <2>3, <3>1, <3>2
  <2>4. CASE l # <<>>
    <3>1. Len(ls) + 1 \in Filled(m)
      BY <1>2, <2>1, <2>4 DEF Filled
    <3>2. LastOf(Filled(m)) = Len(ls) + 1
      <4>1. Filled(m) \in SUBSET (1..(Len(ls) + 1)) /\ Len(ls) + 1 \in Nat
        BY <1>2, <2>1 DEF Filled
      <4>2. QED
        BY <4>1, <3>1, LastOfTop
    <3>3. SubSeq(m, 1, Len(ls) + 1) = m
      BY <1>2, <2>1, SubSeqFull
    <3>4. QED
      BY <2>2, <2>4, <3>2, <3>3
  <2>5. QED
    BY <2>3, <2>4
<1>4. QED
  BY <1>1, <1>2, <1>3

-----------------------------------------------------------------------------
(* Tokens survive the normalization *)

Space   == Blank \cup {LF, CR} \cup OtherSpace
\* The tokens that are complete, and the one the text ends in.
Done(s) == NonEmpty(Front(Split(s, Space)))
Open(s) == Last(Split(s, Space))

\* The fields of a text are those that are done and the open one, if it has
\* begun.
LEMMA FieldsScan ==
  ASSUME NEW s \in Text
  PROVE  /\ Done(s) \in Seq(Text) /\ Open(s) \in Text
         /\ Fields(s) = IF Open(s) = <<>> THEN Done(s) ELSE Append(Done(s), Open(s))
         /\ Fields(s) \in Seq(Text)
<1> DEFINE ps == Split(s, Space)
<1>1. ps \in Seq(Text) /\ ps # <<>>
  BY SplitType
<1>2. Fields(s) = NonEmpty(ps)
  BY DEF Fields, Space
<1> HIDE DEF ps
<1>3. ps = Append(Front(ps), Last(ps)) /\ Front(ps) \in Seq(Text) /\ Last(ps) \in Text
  BY <1>1, FrontAppend
<1>4. NonEmpty(Append(Front(ps), Last(ps))) =
        IF Last(ps) = <<>> THEN NonEmpty(Front(ps)) ELSE Append(NonEmpty(Front(ps)), Last(ps))
  BY <1>3, NonEmptyStep
<1>5. NonEmpty(ps) \in Seq(Text) /\ NonEmpty(Front(ps)) \in Seq(Text)
  BY <1>1, <1>3, NonEmptyStep
<1>6. Done(s) = NonEmpty(Front(ps)) /\ Open(s) = Last(ps)
  BY DEF Done, Open, ps
<1>7. QED
  BY <1>2, <1>3, <1>4, <1>5, <1>6, Zenon

\* The empty text has no field and none that has begun.
LEMMA EmptyScan == Done(<<>>) = <<>> /\ Open(<<>>) = <<>> /\ Fields(<<>>) = <<>>
<1>1. Split(<<>>, Space) = << <<>> >>
  BY SplitStep
<1>2. << <<>> >> = Append(<<>>, <<>>) /\ <<>> \in Seq(Text) /\ <<>> \in Text
  BY EmptySeq DEF Text
<1>3. Front(Append(<<>>, <<>>)) = <<>> /\ Last(Append(<<>>, <<>>)) = <<>>
  BY <1>2, FrontLast
<1>4. Done(<<>>) = <<>> /\ Open(<<>>) = <<>>
  BY <1>1, <1>2, <1>3, NonEmptyStep, Zenon DEF Done, Open
<1>5. QED
  BY <1>2, <1>4, FieldsScan

\* The fields, when the text grows by a character: white space ends the open
\* one.
LEMMA ScanStep ==
  ASSUME NEW s \in Text, NEW c \in Char
  PROVE  /\ c \in Space => /\ Done(Append(s, c)) = Fields(s)
                           /\ Open(Append(s, c)) = <<>>
                           /\ Fields(Append(s, c)) = Fields(s)
         /\ c \notin Space => /\ Done(Append(s, c)) = Done(s)
                              /\ Open(Append(s, c)) = Append(Open(s), c)
<1> DEFINE ps == Split(s, Space)
           qs == Split(Append(s, c), Space)
<1>1. ps \in Seq(Text) /\ ps # <<>> /\ Append(s, c) \in Text /\ <<>> \in Text
  BY SplitType, FrontLast, EmptySeq DEF Text
<1>2. qs = IF c \in Space THEN Append(ps, <<>>) ELSE Append(Front(ps), Append(Last(ps), c))
  <2>1. c \in Space => qs = Append(ps, <<>>)
    BY SplitAppend
  <2>2. c \notin Space => qs = Append(Front(ps), Append(Last(ps), c))
    BY SplitAppend
  <2>3. QED
    BY <2>1, <2>2
<1>3. /\ Done(s) = NonEmpty(Front(ps)) /\ Open(s) = Last(ps) /\ Fields(s) = NonEmpty(ps)
      /\ Done(Append(s, c)) = NonEmpty(Front(qs)) /\ Open(Append(s, c)) = Last(qs)
  BY DEF Done, Open, Fields, Space
<1> HIDE DEF ps, qs
<1>4. CASE c \in Space
  <2>1. Front(qs) = ps /\ Last(qs) = <<>>
    BY <1>1, <1>2, <1>4, FrontLast
  <2>2. Done(Append(s, c)) = Fields(s) /\ Open(Append(s, c)) = <<>>
    BY <1>3, <2>1
  <2>3. Fields(Append(s, c)) = Done(Append(s, c))
    BY <1>1, <2>2, FieldsScan
  <2>4. QED
    BY <1>4, <2>2, <2>3
<1>5. CASE c \notin Space
  <2>1. Front(ps) \in Seq(Text) /\ Last(ps) \in Text
    BY <1>1, FrontAppend
  <2>2. Append(Last(ps), c) \in Text
    BY <2>1, FrontLast DEF Text
  <2>3. Front(qs) = Front(ps) /\ Last(qs) = Append(Last(ps), c)
    <3>1. ASSUME NEW f \in Seq(Text), NEW w \in Text, qs = Append(f, w)
          PROVE  Front(qs) = f /\ Last(qs) = w
      BY <3>1, FrontLast
    <3>2. qs = Append(Front(ps), Append(Last(ps), c))
      BY <1>2, <1>5
    <3>3. QED
      BY <2>1, <2>2, <3>1, <3>2
  <2>4. QED
    BY <1>3, <1>5, <2>3
<1>6. QED
  BY <1>4, <1>5

\* "\r\n" and "\n" are white space alike.
LEMMA FieldsUnify == \A s \in Text : Fields(UnifyLineEnds(s)) = Fields(s)
<1> DEFINE S == {s \in Text : /\ Done(UnifyLineEnds(s)) = Done(s)
                              /\ Open(UnifyLineEnds(s)) = Open(s)}
<1>1. <<>> \in S
  BY UnifyLineEndsStep, EmptySeq DEF Text
<1>2. ASSUME NEW s \in S, NEW c \in Char PROVE Append(s, c) \in S
  <2> DEFINE u == UnifyLineEnds(s)
             r == Front(u)
  <2>1. u \in Text /\ Append(s, c) \in Text /\ Done(u) = Done(s) /\ Open(u) = Open(s)
    BY UnifyLineEndsStep, FrontLast DEF Text
  <2>2. Fields(u) = Fields(s)
    BY <2>1, FieldsScan
  <2>3. CASE c = LF /\ u # <<>> /\ Last(u) = CR
    <3>1. UnifyLineEnds(Append(s, c)) = Append(r, LF)
      BY <2>3, UnifyLineEndsStep
    <3> HIDE DEF u
    <3>2. r \in Text /\ u = Append(r, CR)
      BY <2>1, <2>3, FrontAppend DEF Text
    <3> HIDE DEF r
    <3>3. LF \in Space /\ CR \in Space
      BY DEF Space
    <3>4. Done(Append(r, LF)) = Fields(r) /\ Open(Append(r, LF)) = <<>> /\ Fields(u) = Fields(r)
      BY <3>2, <3>3, ScanStep, Characters
    <3>5. Done(Append(s, c)) = Fields(s) /\ Open(Append(s, c)) = <<>>
      BY <2>3, <3>3, ScanStep
    <3>6. QED
      BY <2>1, <2>2, <3>1, <3>4, <3>5
  <2>4. CASE ~ (c = LF /\ u # <<>> /\ Last(u) = CR)
    <3>1. UnifyLineEnds(Append(s, c)) = Append(u, c)
      BY <2>4, UnifyLineEndsStep
    <3> HIDE DEF u
    <3>2. Done(Append(u, c)) = Done(Append(s, c)) /\ Open(Append(u, c)) = Open(Append(s, c))
      BY <2>1, <2>2, ScanStep
    <3>3. QED
      BY <2>1, <3>1, <3>2
  <2>5. QED
    BY <2>3, <2>4
<1>3. Text \subseteq S
  <2> HIDE DEF S
  <2>1. QED
    BY <1>1, <1>2, SetOfAllSeq DEF Text
<1>4. QED
  BY <1>3, FieldsScan, UnifyLineEndsStep

\* A line end separates the tokens of what is before it from those behind it.
LEMMA FieldsConcat ==
  ASSUME NEW s \in Text, NEW t \in Text
  PROVE  Fields(s \o <<LF>> \o t) = Fields(s) \o Fields(t)
<1> DEFINE h == Append(s, LF)
           S == {r \in Text : /\ Done(h \o r) = Fields(s) \o Done(r)
                              /\ Open(h \o r) = Open(r)}
<1>1. h \in Text /\ LF \in Space /\ s \o <<LF>> = h
  BY Characters, AppendProperties, AppendIsConcat DEF Text, Space
<1>2. /\ Done(h) = Fields(s) /\ Open(h) = <<>>
      /\ Fields(s) \in Seq(Text)
  BY <1>1, Characters, ScanStep, FieldsScan
<1> HIDE DEF h
<1>3. <<>> \in S
  <2>1. h \o <<>> = h /\ Fields(s) \o <<>> = Fields(s) /\ <<>> \in Text
    BY <1>1, <1>2, ConcatEmptySeq, EmptySeq DEF Text
  <2>2. QED
    BY <1>2, <2>1, EmptyScan
<1>4. ASSUME NEW r \in Text
      PROVE  h \o r \in Text /\ (r \in S => Fields(h \o r) = Fields(s) \o Fields(r))
  <2>1. h \o r \in Text /\ Done(r) \in Seq(Text) /\ Open(r) \in Text
    BY <1>1, ConcatProperties, FieldsScan DEF Text
  <2>2. Fields(s) \o Append(Done(r), Open(r)) = Append(Fields(s) \o Done(r), Open(r))
    BY <1>2, <2>1, ConcatAppend
  <2>3. QED
    BY <2>1, <2>2, FieldsScan
<1>5. ASSUME NEW r \in S, NEW c \in Char PROVE Append(r, c) \in S
  <2>1. /\ r \in Text /\ Append(r, c) \in Text /\ h \o r \in Text
        /\ h \o Append(r, c) = Append(h \o r, c)
        /\ Fields(h \o r) = Fields(s) \o Fields(r)
        /\ Done(h \o r) = Fields(s) \o Done(r) /\ Open(h \o r) = Open(r)
    <3>1. /\ r \in Text /\ Done(h \o r) = Fields(s) \o Done(r) /\ Open(h \o r) = Open(r)
          /\ h \o r \in Text /\ Fields(h \o r) = Fields(s) \o Fields(r)
      BY <1>4
    <3> HIDE DEF S
    <3>2. Append(r, c) \in Text /\ h \o Append(r, c) = Append(h \o r, c)
      BY <1>1, <3>1, ConcatAppend, FrontLast DEF Text
    <3>3. QED
      BY <3>1, <3>2
  <2>2. Done(h \o Append(r, c)) = Fields(s) \o Done(Append(r, c))
        /\ Open(h \o Append(r, c)) = Open(Append(r, c))
    <3> HIDE DEF S
    <3>1. CASE c \in Space
      BY <2>1, <3>1, ScanStep
    <3>2. CASE c \notin Space
      BY <2>1, <3>2, ScanStep
    <3>3. QED
      BY <3>1, <3>2
  <2>3. QED
    BY <2>1, <2>2
<1>6. Text \subseteq S
  <2> HIDE DEF S
  <2>1. QED
    BY <1>3, <1>5, SetOfAllSeq DEF Text
<1>7. QED
  <2> HIDE DEF S
  <2>1. QED
    BY <1>1, <1>4, <1>6

\* Trimming a line takes away none of its fields.
LEMMA FieldsTrim == \A l \in Text : Fields(TrimRight(l)) = Fields(l)
<1> DEFINE S == {l \in Text : Fields(TrimRight(l)) = Fields(l)}
<1>1. <<>> \in S
  BY TrimRightStep, EmptySeq DEF Text
<1>2. ASSUME NEW l \in S, NEW c \in Char PROVE Append(l, c) \in S
  <2>1. Append(l, c) \in Text
    BY FrontLast DEF Text
  <2>2. CASE c \in Blank
    <3>1. Fields(Append(l, c)) = Fields(l)
      BY <2>2, ScanStep DEF Space
    <3>2. QED
      BY <2>1, <2>2, <3>1, TrimRightStep
  <2>3. CASE c \notin Blank
    BY <2>1, <2>3, TrimRightStep
  <2>4. QED
    BY <2>2, <2>3
<1>3. Text \subseteq S
  <2> HIDE DEF S
  <2>1. QED
    BY <1>1, <1>2, SetOfAllSeq DEF Text
<1>4. QED
  BY <1>3

\* A line that is joined adds its own fields: the line end keeps them apart.
LEMMA FieldsJoin ==
  ASSUME NEW ls \in Seq(Text), NEW l \in Text
  PROVE  Fields(Join(Append(ls, l))) = Fields(Join(ls)) \o Fields(l)
<1>1. CASE ls = <<>>
  <2>1. Join(Append(ls, l)) = l /\ Join(ls) = <<>>
    BY <1>1, JoinStep
  <2>2. <<>> \o Fields(l) = Fields(l)
    BY FieldsScan, ConcatEmptySeq
  <2>3. QED
    BY <2>1, <2>2, EmptyScan
<1>2. CASE ls # <<>>
  <2>1. Join(Append(ls, l)) = Join(ls) \o <<LF>> \o l /\ Join(ls) \in Text
    BY <1>2, JoinStep
  <2>2. QED
    BY <2>1, FieldsConcat
<1>3. QED
  BY <1>1, <1>2

Trimmed(lines) == [i \in DOMAIN lines |-> TrimRight(lines[i])]

\* Trimming all lines trims each.
LEMMA TrimmedElements ==
  ASSUME NEW ls \in Seq(Text)
  PROVE  /\ Trimmed(ls) \in Seq(Text) /\ Len(Trimmed(ls)) = Len(ls) /\ Len(ls) \in Nat
         /\ \A i \in 1..Len(ls) : ls[i] \in Text /\ Trimmed(ls)[i] = TrimRight(ls[i])
<1>1. /\ Len(ls) \in Nat /\ DOMAIN ls = 1..Len(ls)
      /\ \A i \in 1..Len(ls) : ls[i] \in Text
  BY LenProperties, ElementOfSeq
<1>2. \A i \in 1..Len(ls) : TrimRight(ls[i]) \in Text
  BY <1>1, TrimRightStep
<1>3. Trimmed(ls) = [i \in 1..Len(ls) |-> TrimRight(ls[i])]
  BY <1>1 DEF Trimmed
<1>4. Trimmed(ls) \in [1..Len(ls) -> Text]
  BY <1>2, <1>3
<1>5. Trimmed(ls) \in Seq(Text) /\ Len(Trimmed(ls)) = Len(ls)
  BY <1>1, <1>4
<1>6. QED
  BY <1>1, <1>3, <1>5

\* Trimming all lines, when one more is put behind.
LEMMA TrimmedStep ==
  /\ Trimmed(<<>>) = <<>>
  /\ \A ls \in Seq(Text), l \in Text :
       Trimmed(Append(ls, l)) = Append(Trimmed(ls), TrimRight(l))
  /\ \A ls \in Seq(Text) : Trimmed(ls) \in Seq(Text)
<1>1. ASSUME NEW ls \in Seq(Text)
      PROVE  /\ Trimmed(ls) \in Seq(Text) /\ Len(Trimmed(ls)) = Len(ls) /\ Len(ls) \in Nat
             /\ \A i \in 1..Len(ls) : ls[i] \in Text /\ Trimmed(ls)[i] = TrimRight(ls[i])
  BY TrimmedElements
<1>2. Trimmed(<<>>) = <<>>
  BY <1>1, EmptySeq
<1>3. ASSUME NEW ls \in Seq(Text), NEW l \in Text
      PROVE  Trimmed(Append(ls, l)) = Append(Trimmed(ls), TrimRight(l))
  <2> DEFINE v == Trimmed(Append(ls, l))
             w == Append(Trimmed(ls), TrimRight(l))
  <2>1. /\ Append(ls, l) \in Seq(Text) /\ Len(Append(ls, l)) = Len(ls) + 1
        /\ Append(ls, l)[Len(ls) + 1] = l /\ \A i \in 1..Len(ls) : Append(ls, l)[i] = ls[i]
    BY AppendProperties
  <2>2. /\ v \in Seq(Text) /\ Len(v) = Len(ls) + 1
        /\ \A i \in 1..(Len(ls) + 1) : v[i] = TrimRight(Append(ls, l)[i])
    BY <1>1, <2>1
  <2>3. /\ w \in Seq(Text) /\ Len(w) = Len(ls) + 1 /\ w[Len(ls) + 1] = TrimRight(l)
        /\ \A i \in 1..Len(ls) : w[i] = TrimRight(ls[i])
    <3>1. TrimRight(l) \in Text /\ Trimmed(ls) \in Seq(Text) /\ Len(Trimmed(ls)) = Len(ls)
      BY <1>1, TrimRightStep
    <3>2. QED
      BY <1>1, <3>1, AppendProperties
  <2> HIDE DEF v, w
  <2>4. ASSUME NEW i \in 1..Len(v) PROVE v[i] = w[i]
    <3>1. CASE i = Len(ls) + 1
      BY <3>1, <2>1, <2>2, <2>3, <1>1
    <3>2. CASE i \in 1..Len(ls)
      BY <3>2, <2>1, <2>2, <2>3, <1>1
    <3>3. QED
      BY <1>1, <2>2, <3>1, <3>2
  <2>5. v = w
    BY <2>2, <2>3, <2>4, SeqEqual
  <2>6. QED
    BY <2>5 DEF v, w
<1>4. QED
  BY <1>1, <1>2, <1>3

\* Trimming every line of a text takes away none of its fields.
LEMMA FieldsTrimmed == \A ls \in Seq(Text) : Fields(Join(Trimmed(ls))) = Fields(Join(ls))
<1> DEFINE S == {ls \in Seq(Text) : Fields(Join(Trimmed(ls))) = Fields(Join(ls))}
<1>1. <<>> \in S
  BY TrimmedStep, EmptySeq
<1>2. ASSUME NEW ls \in S, NEW l \in Text PROVE Append(ls, l) \in S
  <2>1. /\ ls \in Seq(Text) /\ Append(ls, l) \in Seq(Text) /\ Trimmed(ls) \in Seq(Text)
        /\ TrimRight(l) \in Text /\ Trimmed(Append(ls, l)) = Append(Trimmed(ls), TrimRight(l))
    BY TrimmedStep, TrimRightStep, FrontLast
  <2>2. Fields(Join(Append(Trimmed(ls), TrimRight(l)))) = Fields(Join(Trimmed(ls))) \o Fields(TrimRight(l))
    BY <2>1, FieldsJoin
  <2>3. Fields(Join(Append(ls, l))) = Fields(Join(ls)) \o Fields(l)
    BY <2>1, FieldsJoin
  <2>4. QED
    BY <2>1, <2>2, <2>3, FieldsTrim
<1>3. Seq(Text) \subseteq S
  <2> HIDE DEF S
  <2>1. QED
    BY <1>1, <1>2, SetOfAllSeq
<1>4. QED
  BY <1>3

\* Dropping the empty lines at the end takes away no field.
LEMMA FieldsWithoutTrailing ==
  \A ls \in Seq(Text) : Fields(Join(WithoutTrailing(ls))) = Fields(Join(ls))
<1> DEFINE S == {ls \in Seq(Text) : Fields(Join(WithoutTrailing(ls))) = Fields(Join(ls))}
<1>1. <<>> \in S
  BY WithoutTrailingStep, EmptySeq
<1>2. ASSUME NEW ls \in S, NEW l \in Text PROVE Append(ls, l) \in S
  <2>1. ls \in Seq(Text) /\ Append(ls, l) \in Seq(Text) /\ Join(ls) \in Text
    BY FrontLast, JoinStep
  <2>2. CASE l = <<>>
    <3>1. Fields(Join(Append(ls, l))) = Fields(Join(ls)) \o <<>>
      BY <2>1, <2>2, FieldsJoin, EmptyScan
    <3>2. Fields(Join(ls)) \o <<>> = Fields(Join(ls))
      BY <2>1, FieldsScan, ConcatEmptySeq
    <3>3. QED
      BY <2>1, <2>2, <3>1, <3>2, WithoutTrailingStep
  <2>3. CASE l # <<>>
    BY <2>1, <2>3, WithoutTrailingStep
  <2>4. QED
    BY <2>2, <2>3
<1>3. Seq(Text) \subseteq S
  <2> HIDE DEF S
  <2>1. QED
    BY <1>1, <1>2, SetOfAllSeq
<1>4. QED
  BY <1>3

\* Cutting a text at its line ends loses nothing but them.
LEMMA JoinSplit == \A s \in Text : Join(Split(s, {LF})) = s
<1> DEFINE S == {s \in Text : Join(Split(s, {LF})) = s}
<1>1. <<>> \in S
  <2>1. Split(<<>>, {LF}) = Append(<<>>, <<>>) /\ <<>> \in Text /\ <<>> \in Seq(Text)
    BY SplitStep, EmptySeq DEF Text
  <2>2. QED
    BY <2>1, JoinStep
<1>2. ASSUME NEW s \in S, NEW c \in Char PROVE Append(s, c) \in S
  <2> DEFINE ps == Split(s, {LF})
             f == Front(ps)
             l == Last(ps)
  <2>1. /\ s \in Text /\ Append(s, c) \in Text /\ Join(ps) = s
        /\ ps \in Seq(Text) /\ ps # <<>> /\ <<>> \in Text
    BY SplitType, FrontLast, EmptySeq DEF Text
  <2>2. Split(Append(s, c), {LF}) = IF c = LF THEN Append(ps, <<>>) ELSE Append(f, Append(l, c))
    BY <2>1, SplitAppend
  <2> HIDE DEF ps
  <2>3. ps = Append(f, l) /\ f \in Seq(Text) /\ l \in Text
    BY <2>1, FrontAppend
  <2> HIDE DEF f, l
  <2>4. CASE c = LF
    <3>1. Join(Append(ps, <<>>)) = s \o <<LF>> \o <<>>
      BY <2>1, JoinStep
    <3>2. s \o <<LF>> \o <<>> = Append(s, LF)
      BY <2>1, Characters, AppendIsConcat, ConcatProperties, ConcatEmptySeq DEF Text
    <3>3. QED
      BY <2>1, <2>2, <2>4, <3>1, <3>2
  <2>5. CASE c # LF
    <3>1. Append(l, c) \in Text /\ Join(f) \in Text
      BY <2>3, FrontLast, JoinStep DEF Text
    <3>2. Join(Append(f, Append(l, c))) = IF f = <<>> THEN Append(l, c)
                                          ELSE Join(f) \o <<LF>> \o Append(l, c)
      BY <2>3, <3>1, JoinStep
    <3>3. s = IF f = <<>> THEN l ELSE Join(f) \o <<LF>> \o l
      BY <2>1, <2>3, JoinStep
    <3>4. Join(f) \o <<LF>> \o Append(l, c) = Append(Join(f) \o <<LF>> \o l, c)
      <4>1. Join(f) \o <<LF>> \in Text
        BY <3>1, Characters, ConcatProperties DEF Text
      <4>2. QED
        BY <2>3, <4>1, ConcatAppend DEF Text
    <3>5. QED
      BY <2>1, <2>2, <2>5, <3>2, <3>3, <3>4
  <2>6. QED
    BY <2>4, <2>5
<1>3. Text \subseteq S
  <2> HIDE DEF S
  <2>1. QED
    BY <1>1, <1>2, SetOfAllSeq DEF Text
<1>4. QED
  BY <1>3

\* The lines normalize is left with.
Rows(s) == WithoutTrailing(Trimmed(Split(UnifyLineEnds(s), {LF})))

\* Normalize joins the rows of the text; the types of what it makes on the way.
LEMMA NormalizeIs ==
  ASSUME NEW s \in Text
  PROVE  /\ Normalize(s) = Join(Rows(s))
         /\ UnifyLineEnds(s) \in Text
         /\ Split(UnifyLineEnds(s), {LF}) \in Seq(Text)
         /\ Trimmed(Split(UnifyLineEnds(s), {LF})) \in Seq(Text)
         /\ Rows(s) \in Seq(Text)
<1>1. UnifyLineEnds(s) \in Text
  BY UnifyLineEndsStep
<1>2. Split(UnifyLineEnds(s), {LF}) \in Seq(Text)
  BY <1>1, SplitType
<1>3. Trimmed(Split(UnifyLineEnds(s), {LF})) \in Seq(Text)
  BY <1>2, TrimmedStep
<1>4. Rows(s) \in Seq(Text)
  BY <1>3, WithoutTrailingStep DEF Rows
<1>5. Normalize(s) = Join(Rows(s))
  BY DEF Normalize, Rows, Trimmed
<1>6. QED
  BY <1>1, <1>2, <1>3, <1>4, <1>5

\* Normalize changes none of the fields, although Fields cuts at other
\* characters.
LEMMA FieldsNormalize == \A s \in Text : Fields(Normalize(s)) = Fields(s)
<1> SUFFICES ASSUME NEW s \in Text PROVE Fields(Normalize(s)) = Fields(s)
  OBVIOUS
<1> DEFINE u == UnifyLineEnds(s)
           L == Split(u, {LF})
<1>1. Normalize(s) = Join(WithoutTrailing(Trimmed(L))) /\ u \in Text /\ L \in Seq(Text) /\ Trimmed(L) \in Seq(Text)
  BY NormalizeIs DEF Rows
<1>2. Join(L) = u
  BY <1>1, JoinSplit
<1> HIDE DEF L
<1>3. Fields(Normalize(s)) = Fields(Join(L))
  BY <1>1, FieldsTrimmed, FieldsWithoutTrailing
<1>4. QED
  BY <1>2, <1>3, FieldsUnify

\* A token is as good as itself, unless epsilon is negative.
LEMMA TokensCompareReflexive ==
  ASSUME NEW w, NEW eps \in Nat
  PROVE  TokensCompare(w, w, eps)
<1> DEFINE x == ParseFloat(w)
<1>1. x.val - x.val = 0
  BY ParseFloatType
<1>2. TokensCompare(w, w, eps) <=> "error" \in {x.kind} \/ ~ FartherThan(x, x, eps)
  BY DEF TokensCompare
<1> HIDE DEF x
<1>3. ~ (Abs(Round(x.val - x.val)) > eps)
  BY <1>1, RoundZero DEF Abs
<1>4. ~ FartherThan(x, x, eps)
  BY <1>3 DEF FartherThan
<1>5. QED
  BY <1>2, <1>4

\* A stricter mode accepts nothing a laxer one refuses, for every text: the
\* normalization and strings.Fields, two ways to cut a text up, agree on where
\* its tokens are.
THEOREM ModesSafety == CompSpec => []ModesAreNested
<1>1. CompInv => ModesAreNested
  <2> SUFFICES ASSUME CompInv PROVE ModesAreNested
    OBVIOUS
  <2> DEFINE e == expected
             a == stdout
             eps == problem.eps
  <2>1. e \in Text /\ a \in Text /\ eps \in Int
    BY ProblemFields DEF CompInv
  <2>2. e = a => WhitespaceCompare(e, a)
    BY DEF WhitespaceCompare
  <2>3. ASSUME WhitespaceCompare(e, a), eps >= 0 PROVE FloatCompare(e, a, eps)
    <3>1. Fields(e) = Fields(a) /\ Fields(e) \in Seq(Text)
      BY <2>1, <2>3, FieldsNormalize, FieldsScan DEF WhitespaceCompare
    <3>2. \A i \in DOMAIN Fields(e) : Fields(e)[i] \in Text
      BY <3>1
    <3>3. \A i \in DOMAIN Fields(e) : TokensCompare(Fields(e)[i], Fields(e)[i], eps)
      BY <2>1, <2>3, <3>2, TokensCompareReflexive
    <3>4. QED
      BY <3>1, <3>3 DEF FloatCompare
  <2>4. QED
    BY <2>2, <2>3 DEF ModesAreNested, Compare, ExactCompare
<1>2. QED
  BY <1>1, CompInvariant, PTL

-----------------------------------------------------------------------------
(* Where a character stands *)

Row(s, i) == Cardinality(Ends(s, i))
Col(s, i) == i - LineStart(s, i)

\* The line ends before a position, and the last of them.
LEMMA EndsType ==
  ASSUME NEW s \in Text, NEW i \in 1..(Len(s) + 1)
  PROVE  /\ Ends(s, i) \in SUBSET (1..(i - 1)) /\ IsFiniteSet(Ends(s, i)) /\ Row(s, i) \in Nat
         /\ LineStart(s, i) = LastOf(Ends(s, i)) /\ LineStart(s, i) \in 0..(i - 1)
         /\ \A j \in Ends(s, i) : j <= LineStart(s, i)
         /\ LineStart(s, i) # 0 => LineStart(s, i) \in Ends(s, i)
<1>1. Len(s) \in Nat /\ i \in Nat /\ i - 1 \in Nat
  BY LenProperties DEF Text
<1>2. Ends(s, i) \in SUBSET (1..(i - 1))
  BY DEF Ends
<1>3. IsFiniteSet(Ends(s, i)) /\ Row(s, i) \in Nat
  <2>1. IsFiniteSet(1..(i - 1))
    BY <1>1, FS_Interval
  <2>2. IsFiniteSet(Ends(s, i))
    BY <1>2, <2>1, FS_Subset
  <2>3. QED
    BY <2>2, FS_CardinalityType DEF Row
<1>4. LineStart(s, i) = LastOf(Ends(s, i))
  BY DEF LineStart, LastOf
<1>5. QED
  BY <1>1, <1>2, <1>3, <1>4, LastOfInterval

\* From a position to the next: only behind a line end a new line begins.
LEMMA EndsStep ==
  ASSUME NEW s \in Text, NEW i \in 1..Len(s)
  PROVE  /\ s[i] = LF => Row(s, i + 1) = Row(s, i) + 1 /\ LineStart(s, i + 1) = i
         /\ s[i] # LF => Row(s, i + 1) = Row(s, i) /\ LineStart(s, i + 1) = LineStart(s, i)
<1>1. Len(s) \in Nat /\ i \in 1..(Len(s) + 1) /\ i + 1 \in 1..(Len(s) + 1) /\ i \in Nat
  BY LenProperties DEF Text
<1>2. CASE s[i] = LF
  <2>1. Ends(s, i + 1) = Ends(s, i) \cup {i} /\ i \notin Ends(s, i)
    BY <1>1, <1>2 DEF Ends
  <2>2. Row(s, i + 1) = Row(s, i) + 1
    BY <1>1, <2>1, EndsType, FS_AddElement DEF Row
  <2>3. LineStart(s, i + 1) = i
    <3>1. Ends(s, i + 1) \in SUBSET (1..i) /\ i \in Ends(s, i + 1) /\ LineStart(s, i + 1) = LastOf(Ends(s, i + 1))
      BY <1>1, <2>1, EndsType
    <3>2. QED
      BY <1>1, <3>1, LastOfTop
  <2>4. QED
    BY <1>2, <2>2, <2>3
<1>3. CASE s[i] # LF
  <2>1. Ends(s, i + 1) = Ends(s, i)
    BY <1>1, <1>3 DEF Ends
  <2>2. QED
    BY <1>3, <2>1 DEF Row, LineStart
<1>4. QED
  BY <1>2, <1>3

\* What stands where does not depend on what comes behind.
LEMMA EndsAppend ==
  ASSUME NEW s \in Text, NEW c \in Char, NEW i \in 1..(Len(s) + 1)
  PROVE  /\ Row(Append(s, c), i) = Row(s, i)
         /\ LineStart(Append(s, c), i) = LineStart(s, i)
         /\ Col(Append(s, c), i) = Col(s, i)
<1>1. Len(s) \in Nat /\ \A j \in 1..Len(s) : Append(s, c)[j] = s[j]
  BY LenProperties, AppendProperties DEF Text
<1>2. Ends(Append(s, c), i) = Ends(s, i)
  BY <1>1 DEF Ends
<1>3. QED
  BY <1>2 DEF Row, LineStart, Col

\* Two positions have the same number of line ends before them exactly if the
\* same one is last.
LEMMA SameRow ==
  ASSUME NEW s \in Text, NEW i \in 1..(Len(s) + 1), NEW j \in 1..(Len(s) + 1)
  PROVE  Row(s, i) = Row(s, j) <=> LineStart(s, i) = LineStart(s, j)
<1>0. Len(s) \in Nat
  BY LenProperties DEF Text
<1>1. ASSUME NEW k \in 1..(Len(s) + 1), NEW m \in 1..(Len(s) + 1), k <= m
      PROVE  Row(s, k) = Row(s, m) <=> LineStart(s, k) = LineStart(s, m)
  <2>1. Ends(s, k) \in SUBSET Ends(s, m)
    BY <1>0, <1>1 DEF Ends
  <2>2. ASSUME Row(s, k) = Row(s, m) PROVE LineStart(s, k) = LineStart(s, m)
    <3>1. Ends(s, m) = Ends(s, k)
      BY <2>1, <2>2, EndsType, FS_Subset DEF Row
    <3>2. QED
      BY <3>1 DEF LineStart
  <2>3. ASSUME LineStart(s, k) = LineStart(s, m) PROVE Row(s, k) = Row(s, m)
    <3>1. ASSUME NEW e \in Ends(s, m) PROVE e \in Ends(s, k)
      <4>1. e \in 1..(m - 1) /\ s[e] = LF
        BY DEF Ends
      <4>2. e <= LineStart(s, k) /\ LineStart(s, k) \in 0..(k - 1)
        BY <2>3, EndsType
      <4>3. QED
        BY <1>0, <4>1, <4>2 DEF Ends
    <3>2. Ends(s, m) = Ends(s, k)
      BY <2>1, <3>1
    <3>3. QED
      BY <3>2 DEF Row
  <2>4. QED
    BY <2>2, <2>3
<1>2. CASE i <= j
  BY <1>1, <1>2
<1>3. CASE j <= i
  BY <1>1, <1>3
<1>4. QED
  BY <1>0, <1>2, <1>3

\* A cell of a sequence of lines, and a character that is no line end, in its
\* place: row r, column k.
Cell(ls, r, k, x) == /\ r \in Nat /\ r + 1 \in 1..Len(ls) /\ k \in 1..Len(ls[r + 1])
                     /\ x = ls[r + 1][k]
Mark(s, r, k, x)  == \E i \in 1..Len(s) : /\ ~ IsEnd(s, i)
                                          /\ r = Row(s, i) /\ k = Col(s, i) /\ x = s[i]

\* The cells of some lines, when the last one grows by a character.
LEMMA CellPut ==
  ASSUME NEW f \in Seq(Text), NEW l \in Text, NEW c \in Char, NEW r, NEW k, NEW x
  PROVE  /\ Cell(Append(f, Append(l, c)), r, k, x) <=>
              Cell(Append(f, l), r, k, x) \/ (r = Len(f) /\ k = Len(l) + 1 /\ x = c)
         /\ ~ (Cell(Append(f, l), r, k, x) /\ r = Len(f) /\ k = Len(l) + 1)
<1> DEFINE m  == Append(l, c)
           F == Append(f, l)
           G == Append(f, m)
<1>1. /\ m \in Text /\ Len(l) \in Nat /\ Len(m) = Len(l) + 1 /\ m[Len(l) + 1] = c
      /\ \A i \in 1..Len(l) : m[i] = l[i]
  BY LenProperties, AppendProperties DEF Text
<1> HIDE DEF m
<1>2. /\ Len(f) \in Nat /\ Len(F) = Len(f) + 1 /\ Len(G) = Len(f) + 1
      /\ F[Len(f) + 1] = l /\ G[Len(f) + 1] = m
      /\ \A i \in 1..Len(f) : F[i] = f[i] /\ G[i] = f[i]
  BY <1>1, LenProperties, AppendProperties
<1> HIDE DEF F, G
<1>3. CASE r = Len(f)
  <2>1. Cell(G, r, k, x) <=> k \in 1..(Len(l) + 1) /\ x = m[k]
    BY <1>1, <1>2, <1>3 DEF Cell
  <2>2. Cell(F, r, k, x) <=> k \in 1..Len(l) /\ x = l[k]
    BY <1>1, <1>2, <1>3 DEF Cell
  <2>3. k \in 1..(Len(l) + 1) <=> k \in 1..Len(l) \/ k = Len(l) + 1
    BY <1>1
  <2>4. Cell(G, r, k, x) <=> Cell(F, r, k, x) \/ (k = Len(l) + 1 /\ x = c)
    BY <1>1, <2>1, <2>2, <2>3
  <2>5. ~ (Cell(F, r, k, x) /\ k = Len(l) + 1)
    BY <1>1, <2>2
  <2>6. QED
    BY <1>3, <2>4, <2>5 DEF F, G, m
<1>4. CASE r # Len(f)
  <2>1. ASSUME r \in Nat, r + 1 \in 1..(Len(f) + 1) PROVE F[r + 1] = G[r + 1]
    BY <1>2, <1>4, <2>1
  <2>2. Cell(G, r, k, x) <=> Cell(F, r, k, x)
    BY <1>2, <2>1 DEF Cell
  <2>3. QED
    BY <1>4, <2>2 DEF F, G, m
<1>5. QED
  BY <1>3, <1>4

\* An empty line adds no cell.
LEMMA CellNew ==
  ASSUME NEW ls \in Seq(Text), NEW r, NEW k, NEW x
  PROVE  Cell(Append(ls, <<>>), r, k, x) <=> Cell(ls, r, k, x)
<1> DEFINE G == Append(ls, <<>>)
<1>1. /\ Len(ls) \in Nat /\ Len(G) = Len(ls) + 1 /\ G[Len(ls) + 1] = <<>>
      /\ \A i \in 1..Len(ls) : G[i] = ls[i]
  <2>1. <<>> \in Text
    BY EmptySeq DEF Text
  <2>2. QED
    BY <2>1, LenProperties, AppendProperties
<1> HIDE DEF G
<1>2. CASE r = Len(ls)
  BY <1>1, <1>2, EmptySeq DEF Cell, G
<1>3. CASE r # Len(ls)
  BY <1>1, <1>3 DEF Cell, G
<1>4. QED
  BY <1>2, <1>3

\* Whether a character is a line end, when one more is read: only a "\r" at the
\* end of the text can become one, and only by a "\n".
LEMMA IsEndAppend ==
  ASSUME NEW s \in Text, NEW c \in Char
  PROVE  /\ Len(s) \in Nat /\ Len(Append(s, c)) = Len(s) + 1 /\ Append(s, c)[Len(s) + 1] = c
         /\ \A i \in 1..Len(s) : Append(s, c)[i] = s[i]
         /\ IsEnd(Append(s, c), Len(s) + 1) <=> c = LF
         /\ \A i \in 1..Len(s) : IsEnd(Append(s, c), i) <=>
              IsEnd(s, i) \/ (i = Len(s) /\ s[i] = CR /\ c = LF)
<1> DEFINE t == Append(s, c)
           n == Len(s)
<1>1. n \in Nat /\ Len(t) = n + 1 /\ t[n + 1] = c /\ \A i \in 1..n : t[i] = s[i]
  BY LenProperties, AppendProperties DEF Text
<1> HIDE DEF t
<1>2. IsEnd(t, n + 1) <=> c = LF
  BY <1>1 DEF IsEnd
<1>3. ASSUME NEW i \in 1..n
      PROVE  IsEnd(t, i) <=> IsEnd(s, i) \/ (i = n /\ s[i] = CR /\ c = LF)
  <2>1. t[i] = s[i] /\ i < n + 1
    BY <1>1
  <2>2. CASE i = n
    BY <1>1, <2>1, <2>2 DEF IsEnd
  <2>3. CASE i < n
    <3>1. t[i + 1] = s[i + 1]
      BY <1>1, <2>3
    <3>2. QED
      BY <1>1, <2>1, <2>3, <3>1 DEF IsEnd
  <2>4. QED
    BY <1>1, <2>2, <2>3
<1>4. QED
  BY <1>1, <1>2, <1>3 DEF t

\* The marks of a text, when it grows: a "\n" takes back the mark of a "\r"
\* before it.
LEMMA MarkAppend ==
  ASSUME NEW s \in Text, NEW c \in Char, NEW r, NEW k, NEW x
  PROVE  Mark(Append(s, c), r, k, x) <=>
           \/ \E i \in 1..Len(s) : /\ ~ IsEnd(s, i) /\ ~ (i = Len(s) /\ s[i] = CR /\ c = LF)
                                   /\ r = Row(s, i) /\ k = Col(s, i) /\ x = s[i]
           \/ c # LF /\ r = Row(s, Len(s) + 1) /\ k = Col(s, Len(s) + 1) /\ x = c
<1> DEFINE t == Append(s, c)
           n == Len(s)
           At(i) == r = Row(s, i) /\ k = Col(s, i)
<1>1. /\ n \in Nat /\ Len(t) = n + 1 /\ t[n + 1] = c
      /\ \A i \in 1..n : t[i] = s[i]
      /\ IsEnd(t, n + 1) <=> c = LF
      /\ \A i \in 1..n : IsEnd(t, i) <=> IsEnd(s, i) \/ (i = n /\ s[i] = CR /\ c = LF)
  BY IsEndAppend
<1>2. \A i \in 1..(n + 1) : Row(t, i) = Row(s, i) /\ Col(t, i) = Col(s, i)
  BY EndsAppend
<1> HIDE DEF t, n, At
<1>3. Mark(t, r, k, x) <=> \E i \in 1..(n + 1) : ~ IsEnd(t, i) /\ At(i) /\ x = t[i]
  BY <1>1, <1>2 DEF Mark, At
<1>4. \A i : i \in 1..(n + 1) <=> i \in 1..n \/ i = n + 1
  BY <1>1
<1>5. Mark(t, r, k, x) <=> \/ \E i \in 1..n : ~ IsEnd(t, i) /\ At(i) /\ x = t[i]
                           \/ ~ IsEnd(t, n + 1) /\ At(n + 1) /\ x = t[n + 1]
  BY <1>3, <1>4
<1>6. (\E i \in 1..n : ~ IsEnd(t, i) /\ At(i) /\ x = t[i]) <=>
        \E i \in 1..n : /\ ~ IsEnd(s, i) /\ ~ (i = n /\ s[i] = CR /\ c = LF)
                        /\ At(i) /\ x = s[i]
  BY <1>1
<1>7. QED
  BY <1>1, <1>5, <1>6 DEF t, n, At

\* Any character but "\n" adds its mark.
LEMMA MarkPut ==
  ASSUME NEW s \in Text, NEW c \in Char, c # LF, NEW r, NEW k, NEW x
  PROVE  Mark(Append(s, c), r, k, x) <=>
           Mark(s, r, k, x) \/ (r = Row(s, Len(s) + 1) /\ k = Col(s, Len(s) + 1) /\ x = c)
<1>1. Mark(Append(s, c), r, k, x) <=>
        \/ \E i \in 1..Len(s) : ~ IsEnd(s, i) /\ r = Row(s, i) /\ k = Col(s, i) /\ x = s[i]
        \/ r = Row(s, Len(s) + 1) /\ k = Col(s, Len(s) + 1) /\ x = c
  BY MarkAppend
<1>2. Mark(s, r, k, x) <=>
        \E i \in 1..Len(s) : ~ IsEnd(s, i) /\ r = Row(s, i) /\ k = Col(s, i) /\ x = s[i]
  BY DEF Mark
<1>3. QED
  BY <1>1, <1>2

\* A "\n" that no "\r" precedes changes no mark.
LEMMA MarkEnd ==
  ASSUME NEW s \in Text, ~ (Len(s) # 0 /\ s[Len(s)] = CR), NEW r, NEW k, NEW x
  PROVE  Mark(Append(s, LF), r, k, x) <=> Mark(s, r, k, x)
<1>1. Len(s) \in Nat /\ LF \in Char
  BY LenProperties, Characters DEF Text
<1>2. \A i \in 1..Len(s) : ~ (i = Len(s) /\ s[i] = CR)
  BY <1>1
<1>3. Mark(Append(s, LF), r, k, x) <=>
        \E i \in 1..Len(s) : ~ IsEnd(s, i) /\ r = Row(s, i) /\ k = Col(s, i) /\ x = s[i]
  BY <1>1, <1>2, MarkAppend
<1>4. Mark(s, r, k, x) <=>
        \E i \in 1..Len(s) : ~ IsEnd(s, i) /\ r = Row(s, i) /\ k = Col(s, i) /\ x = s[i]
  BY DEF Mark
<1>5. QED
  BY <1>3, <1>4

\* A "\n" behind a "\r" takes back that one mark.
LEMMA MarkLineEnd ==
  ASSUME NEW s \in Text, Len(s) # 0, s[Len(s)] = CR, NEW r, NEW k, NEW x
  PROVE  Mark(Append(s, LF), r, k, x) <=>
           Mark(s, r, k, x) /\ ~ (r = Row(s, Len(s)) /\ k = Col(s, Len(s)))
<1> DEFINE n == Len(s)
<1>1. n \in Nat /\ LF \in Char /\ n \in 1..n
  BY LenProperties, Characters DEF Text
<1>2. ASSUME NEW i \in 1..n, i # n, r = Row(s, i), k = Col(s, i), r = Row(s, n), k = Col(s, n)
      PROVE  FALSE
  <2>1. i \in 1..(n + 1) /\ n \in 1..(n + 1)
    BY <1>1
  <2>2. LineStart(s, i) = LineStart(s, n)
    BY <1>2, <2>1, SameRow
  <2>3. LineStart(s, i) \in Int
    BY <2>1, EndsType
  <2>4. i - LineStart(s, i) = n - LineStart(s, i)
    BY <1>2, <2>2 DEF Col
  <2>5. QED
    BY <1>1, <1>2, <2>3, <2>4
<1>3. Mark(Append(s, LF), r, k, x) <=>
        \E i \in 1..n : ~ IsEnd(s, i) /\ i # n /\ r = Row(s, i) /\ k = Col(s, i) /\ x = s[i]
  BY <1>1, MarkAppend
<1>4. QED
  BY <1>1, <1>2, <1>3 DEF Mark

Lines(s) == Split(UnifyLineEnds(s), {LF})

\* How far the lines of a text have got, and what is in them: the characters
\* of the text but the line ends, each in its place.
Placed(s) ==
  /\ Len(Lines(s)) = Row(s, Len(s) + 1) + 1
  /\ Len(Last(Lines(s))) + 1 = Col(s, Len(s) + 1)
  /\ (UnifyLineEnds(s) # <<>> /\ Last(UnifyLineEnds(s)) = CR) <=> (Len(s) # 0 /\ s[Len(s)] = CR)
  /\ \A r, k, x : Cell(Lines(s), r, k, x) <=> Mark(s, r, k, x)

\* The lines of a text, the last of them apart.
LEMMA LinesType ==
  ASSUME NEW s \in Text
  PROVE  /\ UnifyLineEnds(s) \in Text /\ Lines(s) \in Seq(Text) /\ Lines(s) # <<>>
         /\ Front(Lines(s)) \in Seq(Text) /\ Last(Lines(s)) \in Text
         /\ Lines(s) = Append(Front(Lines(s)), Last(Lines(s)))
         /\ Len(Front(Lines(s))) = Len(Lines(s)) - 1
         /\ Len(s) \in Nat
<1>1. UnifyLineEnds(s) \in Text /\ Len(s) \in Nat
  BY UnifyLineEndsStep, LenProperties DEF Text
<1>2. Lines(s) \in Seq(Text) /\ Lines(s) # <<>>
  BY <1>1, SplitType DEF Lines
<1>3. QED
  BY <1>1, <1>2, FrontAppend

\* The empty text has one line, without a cell.
LEMMA PlacedEmpty == Placed(<<>>)
<1>1. UnifyLineEnds(<<>>) = <<>> /\ Lines(<<>>) = << <<>> >>
  BY UnifyLineEndsStep, SplitStep DEF Lines
<1>2. Len(<<>>) = 0 /\ <<>> \in Text /\ Len(<< <<>> >>) = 1 /\ Last(<< <<>> >>) = <<>>
  BY EmptySeq DEF Text, Last
<1>3. Ends(<<>>, 1) = {}
  BY DEF Ends
<1>4. Row(<<>>, 1) = 0 /\ Col(<<>>, 1) = 1
  BY <1>3, FS_EmptySet DEF Row, Col, LineStart
<1>5. ASSUME NEW r, NEW k, NEW x PROVE ~ Cell(<< <<>> >>, r, k, x) /\ ~ Mark(<<>>, r, k, x)
  <2>1. ~ Mark(<<>>, r, k, x)
    BY <1>2 DEF Mark
  <2>2. ~ Cell(<< <<>> >>, r, k, x)
    BY DEF Cell
  <2>3. QED
    BY <2>1, <2>2
<1>6. Len(<<>>) + 1 = 1
  BY <1>2
<1>7. Len(Lines(<<>>)) = Row(<<>>, Len(<<>>) + 1) + 1 /\ Len(Last(Lines(<<>>))) + 1 = Col(<<>>, Len(<<>>) + 1)
  BY <1>1, <1>2, <1>4, <1>6
<1>8. ASSUME NEW r, NEW k, NEW x PROVE Cell(Lines(<<>>), r, k, x) <=> Mark(<<>>, r, k, x)
  BY <1>1, <1>5
<1>9. QED
  BY <1>1, <1>2, <1>7, <1>8, Zenon DEF Placed

\* Any other character but "\n" goes behind the last line.
LEMMA PlacedCharacter ==
  ASSUME NEW s \in Text, Placed(s), NEW c \in Char, c # LF
  PROVE  Placed(Append(s, c))
<1> DEFINE t == Append(s, c)
           n == Len(s)
           f == Front(Lines(s))
           l == Last(Lines(s))
<1>1. /\ f \in Seq(Text) /\ l \in Text /\ Lines(s) = Append(f, l) /\ Len(f) = Len(Lines(s)) - 1
      /\ UnifyLineEnds(s) \in Text /\ n \in Nat
  BY LinesType
<1>2. UnifyLineEnds(t) = Append(UnifyLineEnds(s), c)
  BY UnifyLineEndsStep
<1>3. Lines(t) = Append(f, Append(l, c))
  <2>1. ASSUME NEW u \in Text
        PROVE  Split(Append(u, c), {LF}) = Append(Front(Split(u, {LF})), Append(Last(Split(u, {LF})), c))
    BY SplitAppend
  <2>2. QED
    BY <1>1, <1>2, <2>1, Zenon DEF Lines
<1>4. /\ t \in Text /\ Len(t) = n + 1 /\ t[n + 1] = c
      /\ n + 1 \in 1..(n + 1) /\ n + 1 \in 1..Len(t) /\ n + 2 \in 1..(Len(t) + 1)
  BY <1>1, AppendProperties DEF Text
<1>5. Row(t, n + 2) = Row(s, n + 1) /\ LineStart(t, n + 2) = LineStart(s, n + 1)
  <2>1. Row(t, n + 1) = Row(s, n + 1) /\ LineStart(t, n + 1) = LineStart(s, n + 1)
    BY <1>4, EndsAppend
  <2>2. Row(t, n + 1 + 1) = Row(t, n + 1) /\ LineStart(t, n + 1 + 1) = LineStart(t, n + 1)
    BY <1>4, EndsStep
  <2>3. n + 1 + 1 = n + 2
    BY <1>1
  <2>4. QED
    BY <2>1, <2>2, <2>3
<1>6. LineStart(s, n + 1) \in Int /\ Row(s, n + 1) \in Nat
  BY <1>4, EndsType
<1>7. /\ Len(l) \in Nat /\ Append(l, c) \in Text /\ Len(Append(l, c)) = Len(l) + 1
      /\ Len(Append(f, Append(l, c))) = Len(f) + 1
      /\ Last(Append(f, Append(l, c))) = Append(l, c)
  <2>1. Len(l) \in Nat /\ Append(l, c) \in Text /\ Len(Append(l, c)) = Len(l) + 1
    BY <1>1, LenProperties, FrontLast DEF Text
  <2>2. ASSUME NEW w \in Text PROVE Len(Append(f, w)) = Len(f) + 1 /\ Last(Append(f, w)) = w
    BY <1>1, FrontLast
  <2>3. QED
    BY <2>1, <2>2
<1>8. Last(UnifyLineEnds(t)) = c /\ UnifyLineEnds(t) # <<>>
  BY <1>1, <1>2, FrontLast DEF Text
<1> HIDE DEF t, f, l
<1>9. /\ Len(Lines(s)) = Row(s, n + 1) + 1 /\ Len(l) + 1 = (n + 1) - LineStart(s, n + 1)
      /\ Len(Lines(s)) \in Nat
  BY <1>6 DEF Placed, Col, l
<1>10. Len(Lines(t)) = Row(t, n + 2) + 1
  BY <1>1, <1>3, <1>5, <1>6, <1>7, <1>9
<1>11. Len(Last(Lines(t))) + 1 = Col(t, n + 2)
  <2>1. Len(Last(Lines(t))) = Len(l) + 1
    BY <1>3, <1>7
  <2>2. Col(t, n + 2) = (n + 2) - LineStart(s, n + 1)
    <3>1. Col(t, n + 2) = (n + 2) - LineStart(t, n + 2)
      BY DEF Col
    <3>2. QED
      BY <3>1, <1>5
  <2>3. QED
    BY <2>1, <2>2, <1>1, <1>6, <1>7, <1>9
<1>12. ASSUME NEW r, NEW k, NEW x PROVE Cell(Lines(t), r, k, x) <=> Mark(t, r, k, x)
  <2>1. Cell(Lines(t), r, k, x) <=> Cell(Lines(s), r, k, x) \/ (r = Len(f) /\ k = Len(l) + 1 /\ x = c)
    BY <1>1, <1>3, CellPut
  <2>2. Mark(t, r, k, x) <=> Mark(s, r, k, x) \/ (r = Row(s, n + 1) /\ k = Col(s, n + 1) /\ x = c)
    BY MarkPut DEF t
  <2>3. Cell(Lines(s), r, k, x) <=> Mark(s, r, k, x)
    BY DEF Placed
  <2>4. Len(f) = Row(s, n + 1) /\ Len(l) + 1 = Col(s, n + 1)
    BY <1>1, <1>6, <1>9 DEF Col
  <2>5. QED
    BY <2>1, <2>2, <2>3, <2>4
<1>13. Len(t) + 1 = n + 2 /\ Len(t) # 0 /\ t[Len(t)] = c
  BY <1>1, <1>4
<1>14. QED
  BY <1>8, <1>10, <1>11, <1>12, <1>13 DEF Placed, t

\* What a "\n" does to rows and columns.
LEMMA EndsNewLine ==
  ASSUME NEW s \in Text
  PROVE  LET t == Append(s, LF)
         IN  /\ t \in Text /\ Len(t) = Len(s) + 1 /\ t[Len(t)] = LF
             /\ Row(t, Len(t) + 1) = Row(s, Len(s) + 1) + 1 /\ Col(t, Len(t) + 1) = 1
<1> DEFINE t == Append(s, LF)
           n == Len(s)
<1>1. n \in Nat /\ LF \in Char
  BY LenProperties, Characters DEF Text
<1>2. /\ t \in Text /\ Len(t) = n + 1 /\ t[n + 1] = LF
      /\ n + 1 \in 1..(n + 1) /\ n + 1 \in 1..Len(t)
  BY <1>1, AppendProperties DEF Text
<1>3. Row(t, n + 1) = Row(s, n + 1)
  BY <1>1, <1>2, EndsAppend
<1> HIDE DEF t
<1>4. Row(t, n + 1 + 1) = Row(t, n + 1) + 1 /\ LineStart(t, n + 1 + 1) = n + 1
  BY <1>2, EndsStep
<1>5. Col(t, n + 1 + 1) = 1
  BY <1>1, <1>4 DEF Col
<1>6. QED
  BY <1>2, <1>3, <1>4, <1>5 DEF t

\* A "\n" starts a line.
LEMMA PlacedNewLine ==
  ASSUME NEW s \in Text, Placed(s), ~ (Len(s) # 0 /\ s[Len(s)] = CR)
  PROVE  Placed(Append(s, LF))
<1> DEFINE t == Append(s, LF)
<1>1. UnifyLineEnds(t) = Append(UnifyLineEnds(s), LF) /\ UnifyLineEnds(s) \in Text
  BY UnifyLineEndsStep, Characters DEF Placed
<1>2. Lines(t) = Append(Lines(s), <<>>)
  BY <1>1, Characters, SplitAppend DEF Lines
<1>3. /\ t \in Text /\ Len(t) = Len(s) + 1 /\ t[Len(t)] = LF /\ Len(s) \in Nat
      /\ Row(t, Len(t) + 1) = Row(s, Len(s) + 1) + 1 /\ Col(t, Len(t) + 1) = 1
  BY EndsNewLine, LinesType
<1>4. Len(Lines(t)) = Len(Lines(s)) + 1 /\ Last(Lines(t)) = <<>> /\ Len(Last(Lines(t))) = 0
  <2>1. Lines(s) \in Seq(Text) /\ <<>> \in Text
    BY LinesType, EmptySeq DEF Text
  <2>2. QED
    BY <1>2, <2>1, FrontLast, EmptySeq
<1>5. UnifyLineEnds(t) # <<>> /\ Last(UnifyLineEnds(t)) = LF
  BY <1>1, Characters, FrontLast DEF Text
<1>6. ASSUME NEW r, NEW k, NEW x PROVE Cell(Lines(t), r, k, x) <=> Mark(t, r, k, x)
  <2>1. Cell(Lines(t), r, k, x) <=> Cell(Lines(s), r, k, x)
    BY <1>2, LinesType, CellNew
  <2>2. Mark(t, r, k, x) <=> Mark(s, r, k, x)
    BY MarkEnd
  <2>3. QED
    BY <2>1, <2>2 DEF Placed
<1> HIDE DEF t
<1>7. Len(Lines(s)) = Row(s, Len(s) + 1) + 1
  BY DEF Placed
<1>8. QED
  BY <1>3, <1>4, <1>5, <1>6, <1>7, Characters DEF Placed, t

\* A "\n" behind a "\r" starts a line as well, and takes the "\r" back.
LEMMA PlacedLineEnd ==
  ASSUME NEW s \in Text, Placed(s), Len(s) # 0, s[Len(s)] = CR
  PROVE  Placed(Append(s, LF))
<1> DEFINE t == Append(s, LF)
           n == Len(s)
           u == UnifyLineEnds(s)
           v == Front(u)
           M == Split(v, {LF})
           f == Front(M)
           l == Last(M)
<1>1. u \in Text /\ u # <<>> /\ Last(u) = CR /\ n \in Nat /\ n \in 1..n /\ n \in 1..(n + 1) /\ n + 1 \in 1..(n + 1)
  BY LinesType DEF Placed
<1>2. UnifyLineEnds(t) = Append(v, LF)
  BY <1>1, UnifyLineEndsStep, Characters
<1>3. v \in Text /\ u = Append(v, CR)
  BY <1>1, FrontAppend DEF Text
<1>4. Lines(t) = Append(M, <<>>)
  BY <1>2, <1>3, Characters, SplitAppend DEF Lines
<1>5. Lines(s) = Append(f, Append(l, CR))
  <2>1. Split(Append(v, CR), {LF}) = Append(f, Append(l, CR))
    <3> HIDE DEF v
    <3>1. QED
      BY <1>3, Characters, SplitAppend
  <2>2. QED
    BY <1>3, <2>1, Zenon DEF Lines, u
<1>6. M \in Seq(Text) /\ f \in Seq(Text) /\ l \in Text /\ M = Append(f, l)
  BY <1>3, SplitType, FrontAppend
<1> HIDE DEF u, v, M, f, l
<1>7. /\ Len(M) = Len(f) + 1 /\ Len(f) \in Nat /\ Len(l) \in Nat
      /\ Len(Lines(s)) = Len(f) + 1 /\ Len(Last(Lines(s))) = Len(l) + 1
  <2>1. Append(l, CR) \in Text /\ Len(Append(l, CR)) = Len(l) + 1 /\ Len(l) \in Nat /\ Len(f) \in Nat
    BY <1>6, Characters, FrontLast, LenProperties DEF Text
  <2>2. ASSUME NEW w \in Text PROVE Len(Append(f, w)) = Len(f) + 1 /\ Last(Append(f, w)) = w
    BY <1>6, FrontLast
  <2>3. QED
    BY <1>5, <1>6, <2>1, <2>2
<1>8. /\ t \in Text /\ Len(t) = n + 1 /\ t[Len(t)] = LF
      /\ Row(t, Len(t) + 1) = Row(s, n + 1) + 1 /\ Col(t, Len(t) + 1) = 1
  BY EndsNewLine
<1>9. Len(Lines(t)) = Len(M) + 1 /\ Last(Lines(t)) = <<>> /\ Len(Last(Lines(t))) = 0
  <2>1. <<>> \in Text
    BY EmptySeq DEF Text
  <2>2. Len(Append(M, <<>>)) = Len(M) + 1 /\ Last(Append(M, <<>>)) = <<>>
    BY <1>6, <2>1, FrontLast
  <2>3. QED
    BY <1>4, <2>2, EmptySeq
<1>10. UnifyLineEnds(t) # <<>> /\ Last(UnifyLineEnds(t)) = LF
  BY <1>2, <1>3, Characters, FrontLast DEF Text
<1>11. Len(f) = Row(s, n) /\ Len(l) + 1 = Col(s, n) /\ Len(Lines(s)) = Row(s, n + 1) + 1
  <2>1. Row(s, n + 1) = Row(s, n) /\ LineStart(s, n + 1) = LineStart(s, n)
    BY <1>1, EndsStep, Characters
  <2>2. LineStart(s, n) \in Int /\ Row(s, n) \in Nat
    BY <1>1, EndsType
  <2>3. Len(Lines(s)) = Row(s, n + 1) + 1 /\ Len(Last(Lines(s))) + 1 = (n + 1) - LineStart(s, n + 1)
    <3>1. Len(Lines(s)) = Row(s, n + 1) + 1 /\ Len(Last(Lines(s))) + 1 = Col(s, n + 1)
      BY DEF Placed
    <3>2. Col(s, n + 1) = (n + 1) - LineStart(s, n + 1)
      BY DEF Col
    <3>3. QED
      BY <3>1, <3>2
  <2>4. QED
    BY <1>1, <1>7, <2>1, <2>2, <2>3 DEF Col
<1>12. ASSUME NEW r, NEW k, NEW x PROVE Cell(Lines(t), r, k, x) <=> Mark(t, r, k, x)
  <2>1. Cell(Lines(t), r, k, x) <=> Cell(Append(f, l), r, k, x)
    <3>1. Cell(Append(M, <<>>), r, k, x) <=> Cell(M, r, k, x)
      BY <1>6, CellNew
    <3>2. QED
      BY <1>4, <1>6, <3>1
  <2>2. /\ Cell(Lines(s), r, k, x) <=>
             Cell(Append(f, l), r, k, x) \/ (r = Len(f) /\ k = Len(l) + 1 /\ x = CR)
        /\ ~ (Cell(Append(f, l), r, k, x) /\ r = Len(f) /\ k = Len(l) + 1)
    BY <1>5, <1>6, Characters, CellPut
  <2>3. Mark(t, r, k, x) <=> Mark(s, r, k, x) /\ ~ (r = Row(s, n) /\ k = Col(s, n))
    BY MarkLineEnd
  <2>4. Cell(Lines(s), r, k, x) <=> Mark(s, r, k, x)
    BY DEF Placed
  <2>5. QED
    BY <2>1, <2>2, <2>3, <2>4, <1>11
<1> HIDE DEF t
<1>13. Len(Lines(t)) = Row(t, Len(t) + 1) + 1 /\ Len(Last(Lines(t))) + 1 = Col(t, Len(t) + 1)
  BY <1>7, <1>8, <1>9, <1>11
<1>14. QED
  BY <1>8, <1>10, <1>12, <1>13, Characters DEF Placed, t

\* The lines normalize cuts a text into hold what stands in it, each character
\* in its place.
LEMMA AllPlaced == \A s \in Text : Placed(s)
<1> DEFINE S == {s \in Text : Placed(s)}
<1>1. <<>> \in S
  BY PlacedEmpty, EmptySeq DEF Text
<1>2. ASSUME NEW s \in S, NEW c \in Char PROVE Append(s, c) \in S
  <2>1. Append(s, c) \in Text
    BY FrontLast DEF Text
  <2>2. QED
    BY <2>1, PlacedCharacter, PlacedNewLine, PlacedLineEnd
<1>3. Text \subseteq S
  <2> HIDE DEF S
  <2>1. QED
    BY <1>1, <1>2, SetOfAllSeq DEF Text
<1>4. QED
  BY <1>3

-----------------------------------------------------------------------------
(* What is left of a text is its shape *)

\* The members of Shape(s), by their three parts.
Visible(s, r, k, x) ==
  \E i \in 1..Len(s) : ~ IsEnd(s, i) /\ Counts(s, i) /\ r = Row(s, i) /\ k = Col(s, i) /\ x = s[i]

\* A mark is visible if it, or one after it on its row, is no blank.
LEMMA VisibleIs ==
  ASSUME NEW s \in Text, NEW r, NEW k, NEW x
  PROVE  Visible(s, r, k, x) <=>
           Mark(s, r, k, x) /\ \E m, y : Mark(s, r, m, y) /\ m >= k /\ y \notin Blank
<1>0. /\ Len(s) \in Nat
      /\ \A i \in 1..Len(s) : i \in 1..(Len(s) + 1) /\ LineStart(s, i) \in Int /\ Col(s, i) \in Int
  <2>1. Len(s) \in Nat
    BY LenProperties DEF Text
  <2>2. ASSUME NEW i \in 1..Len(s) PROVE i \in 1..(Len(s) + 1) /\ LineStart(s, i) \in Int
    BY <2>1, EndsType
  <2>3. QED
    BY <2>1, <2>2 DEF Col
<1>1. ASSUME Visible(s, r, k, x)
      PROVE  Mark(s, r, k, x) /\ \E m, y : Mark(s, r, m, y) /\ m >= k /\ y \notin Blank
  <2>1. PICK i \in 1..Len(s) : ~ IsEnd(s, i) /\ Counts(s, i) /\ r = Row(s, i) /\ k = Col(s, i) /\ x = s[i]
    BY <1>1 DEF Visible
  <2>2. PICK j \in i..Len(s) : LineStart(s, j) = LineStart(s, i) /\ ~ IsEnd(s, j) /\ s[j] \notin Blank
    BY <2>1 DEF Counts
  <2>3. j \in 1..Len(s) /\ j >= i
    BY <1>0
  <2>4. Row(s, j) = r
    BY <1>0, <2>1, <2>2, <2>3, SameRow
  <2>5. Col(s, j) >= k
    BY <1>0, <2>1, <2>2, <2>3 DEF Col
  <2>6. Mark(s, r, Col(s, j), s[j])
    BY <2>2, <2>3, <2>4 DEF Mark
  <2>7. Mark(s, r, k, x)
    BY <2>1 DEF Mark
  <2>8. QED
    BY <2>2, <2>5, <2>6, <2>7
<1>2. ASSUME Mark(s, r, k, x), NEW m, NEW y, Mark(s, r, m, y), m >= k, y \notin Blank
      PROVE  Visible(s, r, k, x)
  <2>1. PICK i \in 1..Len(s) : ~ IsEnd(s, i) /\ r = Row(s, i) /\ k = Col(s, i) /\ x = s[i]
    BY <1>2 DEF Mark
  <2>2. PICK j \in 1..Len(s) : ~ IsEnd(s, j) /\ r = Row(s, j) /\ m = Col(s, j) /\ y = s[j]
    BY <1>2 DEF Mark
  <2>3. LineStart(s, j) = LineStart(s, i)
    BY <1>0, <2>1, <2>2, SameRow
  <2>4. j - LineStart(s, i) >= i - LineStart(s, i)
    BY <1>2, <2>1, <2>2, <2>3 DEF Col
  <2>5. j \in i..Len(s)
    BY <1>0, <2>4
  <2>6. Counts(s, i)
    BY <1>2, <2>2, <2>3, <2>5 DEF Counts
  <2>7. QED
    BY <2>1, <2>6 DEF Visible
<1>3. QED
  BY <1>1, <1>2

\* What TrimRight keeps: a prefix, up to the last character that is no blank.
LEMMA TrimRightLength ==
  ASSUME NEW l \in Text
  PROVE  LET t == TrimRight(l)
         IN  /\ Len(l) \in Nat /\ Len(t) \in 0..Len(l) /\ \A i \in 1..Len(t) : t[i] = l[i]
             /\ \A k \in 1..Len(l) : k <= Len(t) <=> \E m \in 1..Len(l) : m >= k /\ l[m] \notin Blank
<1> DEFINE t == TrimRight(l)
           b == LastOf(Inked(l))
<1>1. Len(l) \in Nat /\ Inked(l) \in SUBSET (1..Len(l))
  BY LenProperties DEF Text, Inked
<1>2. b \in 0..Len(l) /\ (\A i \in Inked(l) : i <= b) /\ (b # 0 => b \in Inked(l))
  BY <1>1, LastOfInterval
<1>3. t = SubSeq(l, 1, b)
  BY TrimRightIs
<1> HIDE DEF b, t
<1>4. Len(t) = b /\ \A i \in 1..b : t[i] = l[i]
  BY <1>2, <1>3, SubSeqAppend, Characters DEF Text
<1>5. ASSUME NEW k \in 1..Len(l)
      PROVE  k <= b <=> \E m \in 1..Len(l) : m >= k /\ l[m] \notin Blank
  <2>1. ASSUME k <= b PROVE b \in 1..Len(l) /\ b >= k /\ l[b] \notin Blank
    BY <1>1, <1>2, <2>1 DEF Inked
  <2>2. ASSUME NEW m \in 1..Len(l), m >= k, l[m] \notin Blank PROVE k <= b
    <3>1. m <= b
      BY <1>2, <2>2 DEF Inked
    <3>2. QED
      BY <1>1, <1>2, <2>2, <3>1
  <2>3. QED
    BY <2>1, <2>2
<1>6. QED
  BY <1>1, <1>2, <1>4, <1>5 DEF t

\* The cells that are left when every line is trimmed.
LEMMA TrimmedCells ==
  ASSUME NEW ls \in Seq(Text), NEW r, NEW k, NEW x
  PROVE  Cell(Trimmed(ls), r, k, x) <=>
           Cell(ls, r, k, x) /\ \E m, y : Cell(ls, r, m, y) /\ m >= k /\ y \notin Blank
<1>1. CASE r \in Nat /\ r + 1 \in 1..Len(ls)
  <2> DEFINE l == ls[r + 1]
             t == TrimRight(l)
  <2>1. l \in Text /\ Trimmed(ls)[r + 1] = t /\ Len(Trimmed(ls)) = Len(ls)
    BY <1>1, TrimmedElements
  <2>2. /\ Len(l) \in Nat /\ Len(t) \in 0..Len(l) /\ \A i \in 1..Len(t) : t[i] = l[i]
        /\ \A i \in 1..Len(l) : i <= Len(t) <=> \E m \in 1..Len(l) : m >= i /\ l[m] \notin Blank
    BY <2>1, TrimRightLength
  <2>3. Cell(Trimmed(ls), r, k, x) <=> k \in 1..Len(t) /\ x = t[k]
    BY <1>1, <2>1 DEF Cell
  <2>4. \A m, y : Cell(ls, r, m, y) <=> m \in 1..Len(l) /\ y = l[m]
    BY <1>1 DEF Cell
  <2> HIDE DEF l, t
  <2>5. k \in 1..Len(t) <=> k \in 1..Len(l) /\ k <= Len(t)
    BY <2>2
  <2>6. k \in 1..Len(l) => (k <= Len(t) <=> \E m, y : Cell(ls, r, m, y) /\ m >= k /\ y \notin Blank)
    BY <2>2, <2>4
  <2>7. QED
    BY <2>2, <2>3, <2>4, <2>5, <2>6
<1>2. CASE ~ (r \in Nat /\ r + 1 \in 1..Len(ls))
  BY <1>2, TrimmedElements DEF Cell
<1>3. QED
  BY <1>1, <1>2

\* Dropping the empty lines at the end takes away no cell, and the last line
\* left is not empty.
LEMMA WithoutTrailingCells ==
  ASSUME NEW ls \in Seq(Text)
  PROVE  LET w == WithoutTrailing(ls)
         IN  /\ \A r, k, x : Cell(w, r, k, x) <=> Cell(ls, r, k, x)
             /\ w # <<>> => w[Len(w)] # <<>>
             /\ Len(w) <= Len(ls) /\ \A i \in 1..Len(w) : w[i] = ls[i]
<1> DEFINE w == WithoutTrailing(ls)
           b == LastOf(Filled(ls))
<1>1. Len(ls) \in Nat /\ Filled(ls) \in SUBSET (1..Len(ls))
  BY LenProperties DEF Filled
<1>2. b \in 0..Len(ls) /\ (\A i \in Filled(ls) : i <= b) /\ (b # 0 => b \in Filled(ls))
  BY <1>1, LastOfInterval
<1>3. w = SubSeq(ls, 1, b) /\ w \in Seq(Text)
  BY WithoutTrailingIs, WithoutTrailingStep
<1> HIDE DEF b, w
<1>4. Len(w) = b /\ \A i \in 1..b : w[i] = ls[i]
  <2>1. <<>> \in Text
    BY EmptySeq DEF Text
  <2>2. QED
    BY <1>2, <1>3, <2>1, SubSeqAppend
<1>5. w # <<>> => w[Len(w)] # <<>>
  <2>1. SUFFICES ASSUME w # <<>> PROVE w[b] # <<>>
    BY <1>4
  <2>2. b # 0 /\ b \in 1..b
    BY <1>2, <1>3, <1>4, <2>1, EmptySeq
  <2>3. QED
    BY <1>2, <1>4, <2>2 DEF Filled
<1>6. ASSUME NEW r, NEW k, NEW x PROVE Cell(w, r, k, x) <=> Cell(ls, r, k, x)
  <2>1. CASE r \in Nat /\ r + 1 \in 1..b
    BY <1>1, <1>2, <1>4, <2>1 DEF Cell
  <2>2. CASE r \in Nat /\ r + 1 \in 1..Len(ls) /\ r + 1 \notin 1..b
    <3>1. ls[r + 1] = <<>>
      BY <1>1, <1>2, <2>2 DEF Filled
    <3>2. QED
      BY <1>4, <2>2, <3>1, EmptySeq DEF Cell
  <2>3. CASE ~ (r \in Nat /\ r + 1 \in 1..Len(ls))
    <3>1. ~ (r \in Nat /\ r + 1 \in 1..b)
      BY <1>1, <1>2, <2>3
    <3>2. QED
      BY <1>4, <2>3, <3>1 DEF Cell
  <2>4. QED
    BY <2>1, <2>2, <2>3
<1>7. QED
  BY <1>1, <1>2, <1>4, <1>5, <1>6 DEF w

\* The cells of the lines normalize is left with are the shape of the text.
LEMMA RowsCells ==
  ASSUME NEW s \in Text, NEW r, NEW k, NEW x
  PROVE  Cell(Rows(s), r, k, x) <=> Visible(s, r, k, x)
<1> DEFINE L == Lines(s)
           T == Trimmed(L)
<1>1. L \in Seq(Text) /\ T \in Seq(Text) /\ Rows(s) = WithoutTrailing(T)
  BY NormalizeIs DEF Rows, Lines
<1>2. Cell(Rows(s), r, k, x) <=> Cell(T, r, k, x)
  <2> HIDE DEF T
  <2>1. QED
    BY <1>1, WithoutTrailingCells
<1>3. Cell(T, r, k, x) <=> Cell(L, r, k, x) /\ \E m, y : Cell(L, r, m, y) /\ m >= k /\ y \notin Blank
  <2> HIDE DEF L
  <2>1. QED
    BY <1>1, TrimmedCells
<1>4. \A m, y : Cell(L, r, m, y) <=> Mark(s, r, m, y)
  BY AllPlaced DEF Placed
<1> HIDE DEF L, T
<1>5. QED
  BY <1>2, <1>3, <1>4, VisibleIs

\* Sequences of lines that do not end in an empty one are told apart by their
\* cells.
LEMMA CellsDetermine ==
  ASSUME NEW V \in Seq(Text), NEW W \in Seq(Text),
         V # <<>> => V[Len(V)] # <<>>, W # <<>> => W[Len(W)] # <<>>,
         \A r, k, x : Cell(V, r, k, x) <=> Cell(W, r, k, x)
  PROVE  V = W
<1>1. ASSUME NEW P \in Seq(Text), NEW Q \in Seq(Text), P # <<>> => P[Len(P)] # <<>>,
             \A r, k, x : Cell(P, r, k, x) => Cell(Q, r, k, x)
      PROVE  Len(P) <= Len(Q)
  <2>1. Len(P) \in Nat /\ Len(Q) \in Nat
    BY LenProperties
  <2>2. CASE P = <<>>
    BY <2>1, <2>2, EmptySeq
  <2>3. CASE P # <<>>
    <3> DEFINE l == P[Len(P)]
               r == Len(P) - 1
    <3>1. r \in Nat /\ r + 1 = Len(P) /\ Len(P) \in 1..Len(P)
      BY <2>1, <2>3, EmptySeq
    <3>2. l \in Text /\ l # <<>>
      BY <1>1, <2>3, <3>1, ElementOfSeq
    <3>3. 1 \in 1..Len(l)
      BY <3>2, EmptySeq DEF Text
    <3>4. Cell(P, r, 1, l[1])
      BY <3>1, <3>3 DEF Cell
    <3> HIDE DEF l
    <3>5. Cell(Q, r, 1, l[1])
      BY <1>1, <3>4
    <3>6. r + 1 \in 1..Len(Q)
      BY <3>5 DEF Cell
    <3>7. QED
      BY <2>1, <3>1, <3>6
  <2>4. QED
    BY <2>2, <2>3
<1>2. Len(V) = Len(W) /\ Len(V) \in Nat
  <2>1. Len(V) <= Len(W) /\ Len(W) <= Len(V)
    BY <1>1
  <2>2. Len(V) \in Nat /\ Len(W) \in Nat
    BY LenProperties
  <2>3. QED
    BY <2>1, <2>2
<1>3. ASSUME NEW P \in Seq(Text), NEW Q \in Seq(Text), NEW i \in 1..Len(P), Len(P) = Len(Q),
             \A r, k, x : Cell(P, r, k, x) => Cell(Q, r, k, x)
      PROVE  /\ P[i] \in Text /\ Len(P[i]) \in Nat
             /\ \A k \in 1..Len(P[i]) : k \in 1..Len(Q[i]) /\ P[i][k] = Q[i][k]
  <2>1. Len(P) \in Nat /\ P[i] \in Text /\ Len(P[i]) \in Nat
    BY LenProperties, ElementOfSeq DEF Text
  <2>2. i - 1 \in Nat /\ (i - 1) + 1 = i
    BY <2>1
  <2>3. ASSUME NEW k \in 1..Len(P[i]) PROVE k \in 1..Len(Q[i]) /\ P[i][k] = Q[i][k]
    <3>1. Cell(P, i - 1, k, P[i][k])
      BY <2>2 DEF Cell
    <3>2. Cell(Q, i - 1, k, P[i][k])
      BY <1>3, <3>1
    <3>3. QED
      BY <2>2, <3>2 DEF Cell
  <2>4. QED
    BY <2>1, <2>3
<1>4. ASSUME NEW i \in 1..Len(V) PROVE V[i] = W[i]
  <2>1. /\ V[i] \in Text /\ Len(V[i]) \in Nat
        /\ \A k \in 1..Len(V[i]) : k \in 1..Len(W[i]) /\ V[i][k] = W[i][k]
    BY <1>2, <1>3
  <2>2. /\ W[i] \in Text /\ Len(W[i]) \in Nat
        /\ \A k \in 1..Len(W[i]) : k \in 1..Len(V[i])
    BY <1>2, <1>3
  <2>3. Len(V[i]) = Len(W[i])
    <3> DEFINE a == Len(V[i])
               b == Len(W[i])
    <3>1. a \in Nat /\ b \in Nat /\ (\A k \in 1..a : k \in 1..b) /\ (\A k \in 1..b : k \in 1..a)
      BY <2>1, <2>2
    <3> HIDE DEF a, b
    <3>2. a <= b
      <4>1. a # 0 => a \in 1..a
        BY <3>1
      <4>2. QED
        BY <3>1, <4>1
    <3>3. b <= a
      <4>1. b # 0 => b \in 1..b
        BY <3>1
      <4>2. QED
        BY <3>1, <4>1
    <3>4. QED
      BY <3>1, <3>2, <3>3 DEF a, b
  <2>4. QED
    BY <2>1, <2>2, <2>3, SeqEqual DEF Text
<1>5. QED
  BY <1>2, <1>4, SeqEqual

\* A character that is no line end goes to the last line.
LEMMA SplitPut ==
  ASSUME NEW u \in Text, NEW c \in Char, c # LF, NEW ps, Split(u, {LF}) = ps
  PROVE  Split(Append(u, c), {LF}) = Append(Front(ps), Append(Last(ps), c))
<1>1. Split(Append(u, c), {LF}) = Append(Front(Split(u, {LF})), Append(Last(Split(u, {LF})), c))
  BY SplitAppend
<1>2. QED
  BY <1>1, Zenon

\* A text without separators is one piece.
LEMMA SplitWhole == \A l \in Seq(Char \ {LF}) : Split(l, {LF}) = <<l>>
<1> DEFINE B == Char \ {LF}
           S == {l \in Seq(B) : Split(l, {LF}) = <<l>>}
<1>1. <<>> \in S
  BY SplitStep, EmptySeq
<1>2. ASSUME NEW l \in S, NEW c \in B PROVE Append(l, c) \in S
  <2>1. l \in Text /\ c \in Char /\ c # LF /\ Append(l, c) \in Seq(B) /\ Split(l, {LF}) = <<l>>
    BY SeqMonotonic, FrontLast DEF Text
  <2>2. Split(Append(l, c), {LF}) = Append(Front(<<l>>), Append(Last(<<l>>), c))
    <3> HIDE DEF S
    <3>1. QED
      BY <2>1, SplitPut
  <2>3. Front(<<l>>) = <<>> /\ Last(<<l>>) = l
    BY DEF Front, Last
  <2>4. Append(<<>>, Append(l, c)) = <<Append(l, c)>>
    OBVIOUS
  <2>5. QED
    BY <2>1, <2>2, <2>3, <2>4
<1>3. Seq(B) \subseteq S
  <2> HIDE DEF S, B
  <2>1. QED
    BY <1>1, <1>2, SetOfAllSeq
<1>4. QED
  BY <1>3

\* A line that is joined to a text is its last line when it is split again.
LEMMA SplitBehind ==
  ASSUME NEW s \in Text, NEW l \in Seq(Char \ {LF})
  PROVE  Split(s \o <<LF>> \o l, {LF}) = Append(Split(s, {LF}), l)
<1> DEFINE B == Char \ {LF}
           h == Append(s, LF)
           P == Split(s, {LF})
           S == {t \in Seq(B) : Split(h \o t, {LF}) = Append(P, t)}
<1>1. h \in Text /\ s \o <<LF>> = h /\ P \in Seq(Text)
  BY Characters, AppendProperties, AppendIsConcat, SplitType DEF Text
<1>2. Split(h, {LF}) = Append(P, <<>>)
  BY Characters, SplitAppend
<1> HIDE DEF h, P
<1>3. <<>> \in S
  BY <1>1, <1>2, ConcatEmptySeq, EmptySeq DEF Text
<1>4. ASSUME NEW t \in S, NEW c \in B PROVE Append(t, c) \in S
  <2>1. /\ t \in Text /\ c \in Char /\ c # LF /\ Append(t, c) \in Seq(B)
        /\ Split(h \o t, {LF}) = Append(P, t)
    <3>1. t \in Seq(B) /\ c \in Char /\ c # LF /\ Split(h \o t, {LF}) = Append(P, t)
      OBVIOUS
    <3> HIDE DEF S
    <3>2. t \in Text /\ Append(t, c) \in Seq(B)
      BY <3>1, SeqMonotonic, FrontLast DEF Text
    <3>3. QED
      BY <3>1, <3>2
  <2>2. h \o t \in Text /\ h \o Append(t, c) = Append(h \o t, c)
    BY <1>1, <2>1, ConcatProperties, ConcatAppend DEF Text
  <2>3. Split(Append(h \o t, c), {LF}) = Append(Front(Append(P, t)), Append(Last(Append(P, t)), c))
    <3> HIDE DEF S
    <3>1. QED
      BY <2>1, <2>2, SplitPut
  <2>4. Front(Append(P, t)) = P /\ Last(Append(P, t)) = t
    BY <1>1, <2>1, FrontLast
  <2>5. QED
    BY <2>1, <2>2, <2>3, <2>4
<1>5. Seq(B) \subseteq S
  <2> HIDE DEF S, B
  <2>1. QED
    BY <1>3, <1>4, SetOfAllSeq
<1>6. Split(h \o l, {LF}) = Append(P, l)
  BY <1>5
<1>7. QED
  <2> HIDE DEF S
  <2>1. QED
    BY <1>1, <1>6 DEF P

\* Cutting what was joined gives the lines back.
LEMMA SplitJoin == \A ls \in Seq(Seq(Char \ {LF})) : ls # <<>> => Split(Join(ls), {LF}) = ls
<1> DEFINE Y == Seq(Char \ {LF})
           S == {ls \in Seq(Y) : ls # <<>> => Split(Join(ls), {LF}) = ls}
<1>1. \A l \in Y : l \in Text
  BY SeqMonotonic DEF Text
<1>2. <<>> \in S
  BY EmptySeq
<1>3. ASSUME NEW ls \in S, NEW l \in Y PROVE Append(ls, l) \in S
  <2>1. ls \in Seq(Text) /\ l \in Text /\ Append(ls, l) \in Seq(Y) /\ Join(ls) \in Text
    BY <1>1, SeqMonotonic, FrontLast, JoinStep
  <2>2. CASE ls = <<>>
    <3>1. Join(Append(ls, l)) = l /\ Append(ls, l) = <<l>>
      <4>1. Join(Append(ls, l)) = l
        BY <2>1, <2>2, JoinStep
      <4>2. Append(<<>>, l) = <<l>>
        OBVIOUS
      <4>3. QED
        BY <2>2, <4>1, <4>2
    <3>2. QED
      BY <2>1, <3>1, SplitWhole
  <2>3. CASE ls # <<>>
    <3>1. Join(Append(ls, l)) = Join(ls) \o <<LF>> \o l /\ Split(Join(ls), {LF}) = ls
      BY <2>1, <2>3, JoinStep
    <3>2. QED
      BY <2>1, <3>1, SplitBehind
  <2>4. QED
    BY <2>2, <2>3
<1>4. Seq(Y) \subseteq S
  <2> HIDE DEF S, Y
  <2>1. QED
    BY <1>2, <1>3, SetOfAllSeq
<1>5. QED
  BY <1>4

\* No row has a line end in it, and the last one is not empty.
LEMMA RowsCharacters ==
  ASSUME NEW s \in Text
  PROVE  /\ Rows(s) \in Seq(Seq(Char \ {LF}))
         /\ Rows(s) # <<>> => Rows(s)[Len(Rows(s))] # <<>>
<1> DEFINE B == Char \ {LF}
           L == Lines(s)
           T == Trimmed(L)
           W == Rows(s)
<1>1. L \in Seq(Text) /\ T \in Seq(Text) /\ W \in Seq(Text) /\ W = WithoutTrailing(T)
  BY NormalizeIs DEF Rows, Lines
<1>2. L \in Seq(Seq(B))
  <2>1. UnifyLineEnds(s) \in Seq(Char)
    BY UnifyLineEndsStep DEF Text
  <2>2. QED
    BY <2>1, SplitCharacters DEF Lines
<1>3. /\ Len(L) \in Nat /\ Len(T) = Len(L)
      /\ \A i \in 1..Len(L) : L[i] \in Text /\ T[i] = TrimRight(L[i])
  BY <1>1, TrimmedElements
<1> HIDE DEF L
<1>4. ASSUME NEW i \in 1..Len(L) PROVE T[i] \in Seq(B)
  <2> DEFINE l == L[i]
             t == TrimRight(l)
  <2>1. l \in Seq(B) /\ l \in Text /\ T[i] = t
    BY <1>2, <1>3, ElementOfSeq
  <2>2. t \in Text /\ Len(l) \in Nat /\ Len(t) \in 0..Len(l) /\ \A k \in 1..Len(t) : t[k] = l[k]
    BY <2>1, TrimRightLength, TrimRightStep
  <2>3. t \in [1..Len(t) -> Char] /\ Len(t) \in Nat
    BY <2>2, LenProperties DEF Text
  <2>4. \A k \in 1..Len(t) : t[k] \in B
    BY <2>1, <2>2, ElementOfSeq
  <2> HIDE DEF t
  <2>5. t \in [1..Len(t) -> B]
    BY <2>3, <2>4
  <2>6. t \in Seq(B)
    BY <2>3, <2>5
  <2>7. QED
    BY <2>1, <2>6
<1> HIDE DEF T
<1>5. /\ W # <<>> => W[Len(W)] # <<>>
      /\ Len(W) <= Len(T) /\ \A i \in 1..Len(W) : W[i] = T[i]
  <2> HIDE DEF W
  <2>1. QED
    BY <1>1, WithoutTrailingCells
<1> HIDE DEF W
<1>6. Len(W) \in Nat /\ W \in [1..Len(W) -> Text]
  BY <1>1, LenProperties
<1>7. \A i \in 1..Len(W) : W[i] \in Seq(B)
  BY <1>3, <1>4, <1>5, <1>6
<1>8. W \in [1..Len(W) -> Seq(B)]
  BY <1>6, <1>7
<1>9. W \in Seq(Seq(B))
  BY <1>6, <1>8
<1>10. QED
  BY <1>5, <1>9 DEF W

\* No two sequences of lines normalize can be left with join to the same text.
LEMMA JoinInjective ==
  ASSUME NEW V \in Seq(Seq(Char \ {LF})), NEW W \in Seq(Seq(Char \ {LF})),
         V # <<>> => V[Len(V)] # <<>>, W # <<>> => W[Len(W)] # <<>>,
         Join(V) = Join(W)
  PROVE  V = W
<1>1. ASSUME NEW P \in Seq(Seq(Char \ {LF})), P # <<>>, P[Len(P)] # <<>> PROVE Join(P) # <<>>
  <2>1. SUFFICES ASSUME Join(P) = <<>> PROVE FALSE
    OBVIOUS
  <2>2. P = << <<>> >>
    BY <1>1, <2>1, SplitJoin, SplitStep
  <2>3. QED
    BY <1>1, <2>2
<1>2. CASE V = <<>> \/ W = <<>>
  <2>1. Join(<<>>) = <<>>
    BY JoinStep
  <2>2. (V # <<>> => Join(V) # <<>>) /\ (W # <<>> => Join(W) # <<>>)
    BY <1>1
  <2>3. QED
    BY <1>2, <2>1, <2>2
<1>3. CASE V # <<>> /\ W # <<>>
  BY <1>3, SplitJoin
<1>4. QED
  BY <1>2, <1>3

\* The shape of a text is the set of what is visible in it.
LEMMA ShapeIs ==
  ASSUME NEW s \in Text, NEW p
  PROVE  p \in Shape(s) <=> \E r, k, x : p = <<r, k, x>> /\ Visible(s, r, k, x)
<1>1. DOMAIN s = 1..Len(s)
  BY LenProperties DEF Text
<1>2. p \in Shape(s) <=>
        \E i \in 1..Len(s) : ~ IsEnd(s, i) /\ Counts(s, i) /\ p = <<Row(s, i), Col(s, i), s[i]>>
  BY <1>1 DEF Shape, Row, Col
<1>3. QED
  BY <1>2 DEF Visible

\* Two texts are equal up to white space exactly when they have the same shape.
LEMMA NormalizeKeepsShape ==
  ASSUME NEW e \in Text, NEW a \in Text
  PROVE  WhitespaceCompare(e, a) <=> Shape(e) = Shape(a)
<1>1. WhitespaceCompare(e, a) <=> Rows(e) = Rows(a)
  <2>1. Normalize(e) = Join(Rows(e)) /\ Normalize(a) = Join(Rows(a))
    BY NormalizeIs
  <2>2. Join(Rows(e)) = Join(Rows(a)) => Rows(e) = Rows(a)
    BY RowsCharacters, JoinInjective
  <2>3. QED
    BY <2>1, <2>2 DEF WhitespaceCompare
<1>2. Rows(e) = Rows(a) <=> \A r, k, x : Visible(e, r, k, x) <=> Visible(a, r, k, x)
  <2>1. \A r, k, x : /\ Cell(Rows(e), r, k, x) <=> Visible(e, r, k, x)
                     /\ Cell(Rows(a), r, k, x) <=> Visible(a, r, k, x)
    BY RowsCells
  <2>2. ASSUME \A r, k, x : Visible(e, r, k, x) <=> Visible(a, r, k, x) PROVE Rows(e) = Rows(a)
    <3>1. Rows(e) \in Seq(Text) /\ Rows(a) \in Seq(Text)
      BY NormalizeIs
    <3>2. /\ Rows(e) # <<>> => Rows(e)[Len(Rows(e))] # <<>>
          /\ Rows(a) # <<>> => Rows(a)[Len(Rows(a))] # <<>>
      BY RowsCharacters
    <3>3. \A r, k, x : Cell(Rows(e), r, k, x) <=> Cell(Rows(a), r, k, x)
      BY <2>1, <2>2
    <3>4. QED
      BY <3>1, <3>2, <3>3, CellsDetermine
  <2>3. ASSUME Rows(e) = Rows(a), NEW r, NEW k, NEW x
        PROVE  Visible(e, r, k, x) <=> Visible(a, r, k, x)
    BY <2>1, <2>3
  <2>4. QED
    BY <2>2, <2>3
<1>3. Shape(e) = Shape(a) <=> \A r, k, x : Visible(e, r, k, x) <=> Visible(a, r, k, x)
  <2>1. ASSUME NEW s \in Text, NEW r, NEW k, NEW x
        PROVE  <<r, k, x>> \in Shape(s) <=> Visible(s, r, k, x)
    BY ShapeIs
  <2>2. ASSUME Shape(e) = Shape(a), NEW r, NEW k, NEW x
        PROVE  Visible(e, r, k, x) <=> Visible(a, r, k, x)
    BY <2>1, <2>2
  <2>3. ASSUME \A r, k, x : Visible(e, r, k, x) <=> Visible(a, r, k, x) PROVE Shape(e) = Shape(a)
    <3>1. ASSUME NEW p PROVE p \in Shape(e) <=> p \in Shape(a)
      BY <2>3, ShapeIs
    <3>2. QED
      BY <3>1
  <2>4. QED
    BY <2>2, <2>3
<1>4. QED
  BY <1>1, <1>2, <1>3

\* NORMALIZED_WHITESPACE accepts exactly the outputs of the shape of the
\* expected one, for texts of any length over any alphabet: WhitespaceComparator
\* in comparator.go drops nothing that can be seen and lets nothing decide that
\* cannot.
THEOREM WhitespaceSafety == CompSpec => []WhitespaceKeepsShape
<1>1. CompInv => WhitespaceKeepsShape
  <2> SUFFICES ASSUME CompInv, verdict # "none", problem.mode = "NORMALIZED_WHITESPACE"
               PROVE  verdict = "passed" <=> Shape(expected) = Shape(stdout)
    BY DEF WhitespaceKeepsShape
  <2>1. verdict = "passed" <=> WhitespaceCompare(expected, stdout)
    BY DEF CompInv, Compare
  <2>2. expected \in Text /\ stdout \in Text
    BY DEF CompInv
  <2>3. QED
    BY <2>1, <2>2, NormalizeKeepsShape
<1>2. QED
  BY <1>1, CompInvariant, PTL
=============================================================================
