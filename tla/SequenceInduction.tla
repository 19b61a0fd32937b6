------------------------- MODULE SequenceInduction -------------------------
(***************************************************************************)
(* Induction for the proofs of this project.  What is to be proved of all  *)
(* natural numbers, or of all sequences, is given as the set of those it    *)
(* holds of, and the step of a recursive definition as a function, so that  *)
(* first-order provers can use the lemmas.  Then what holds of the operators *)
(* of SequenceFolds for every sequence.                                    *)
(***************************************************************************)
EXTENDS SequenceFolds, Integers, SequencesExt, SequenceTheorems, WellFoundedInduction, TLAPS

(* A set with 0, and with n + 1 for each n in it, has all natural numbers.  *)
LEMMA NatInductionOnSet ==
  ASSUME NEW T, 0 \in T, \A n \in Nat : n \in T => n + 1 \in T
  PROVE  Nat \subseteq T
<1>1. SUFFICES ASSUME Nat \ T # {} PROVE FALSE
  OBVIOUS
<1>2. PICK n \in Nat \ T : \A m \in Nat \ T : ~ (<<m, n>> \in OpToRel(<, Nat))
  BY <1>1, NatLessThanWellFounded, WFMin, Zenon
<1>3. \A m \in Nat \ T : ~ (m < n)
  <2>1. SUFFICES ASSUME NEW m \in Nat \ T, m < n PROVE FALSE
    OBVIOUS
  <2>2. <<m, n>> \in OpToRel(<, Nat)
    BY <2>1, Zenon DEF OpToRel
  <2>3. QED
    BY <1>2, <2>2
<1>4. n # 0 /\ n \in Nat
  OBVIOUS
<1>5. n - 1 \in Nat /\ n - 1 < n
  BY <1>4
<1>6. (n - 1) + 1 \in T
  BY <1>3, <1>5
<1>7. QED
  BY <1>4, <1>6

(* A set with the empty sequence, and with Append(s, e) for each s in it,   *)
(* has all sequences.                                                      *)
LEMMA SeqInductionOnSet ==
  ASSUME NEW S, NEW T, <<>> \in T,
         \A s \in Seq(S), e \in S : s \in T => Append(s, e) \in T
  PROVE  Seq(S) \subseteq T
<1>. DEFINE N == {n \in Nat : \A s \in Seq(S) : Len(s) = n => s \in T}
<1>1. 0 \in N
  <2>1. \A s \in Seq(S) : Len(s) = 0 => s = <<>>
    BY EmptySeq
  <2>2. QED
    BY <2>1
<1>2. ASSUME NEW n \in Nat, n \in N PROVE n + 1 \in N
  <2>1. SUFFICES ASSUME NEW s \in Seq(S), Len(s) = n + 1 PROVE s \in T
    OBVIOUS
  <2>2. s # <<>>
    BY <2>1, EmptySeq
  <2>3. PICK r \in Seq(S), e \in S : s = Append(r, e)
    BY <2>2, SequenceEmptyOrAppend
  <2>4. Len(r) = n
    BY <2>1, <2>3, AppendProperties, LenProperties
  <2>5. QED
    BY <1>2, <2>3, <2>4
<1>3. Nat \subseteq N
  <2>. HIDE DEF N
  <2>1. QED
    BY <1>1, <1>2, NatInductionOnSet
<1>4. QED
  BY <1>3, LenProperties

(* g starts with base and each value follows from the one before by step.   *)
Iterates(g, N, S, base, step) ==
  /\ g \in [0 .. N -> S]
  /\ g[0] = base
  /\ \A n \in 1 .. N : g[n] = step[<<n, g[n - 1]>>]

(* A function on 0 .. N may be defined by its first value and a step from   *)
(* each value to the next.                                                 *)
LEMMA RecursionOnInterval ==
  ASSUME NEW N \in Nat, NEW S, NEW base \in S, NEW step \in [(1 .. N) \X S -> S]
  PROVE  \E g : Iterates(g, N, S, base, step)
<1>. DEFINE Defines(g, n) == /\ g \in [0 .. n -> S]
                             /\ g[0] = base
                             /\ \A m \in 1 .. n : g[m] = step[<<m, g[m - 1]>>]
            T == {n \in Nat : n <= N => \E g : Defines(g, n)}
<1>1. 0 \in T
  <2>1. Defines([m \in 0 .. 0 |-> base], 0)
    OBVIOUS
  <2>2. QED
    BY <2>1
<1>2. ASSUME NEW n \in Nat, n \in T PROVE n + 1 \in T
  <2>1. SUFFICES ASSUME n + 1 <= N PROVE \E g : Defines(g, n + 1)
    OBVIOUS
  <2>2. PICK g : Defines(g, n)
    BY <1>2, <2>1
  <2>. DEFINE h == [m \in 0 .. n + 1 |-> IF m <= n THEN g[m] ELSE step[<<n + 1, g[n]>>]]
  <2>3. step[<<n + 1, g[n]>>] \in S
    <3>1. n + 1 \in 1 .. N /\ g[n] \in S
      BY <2>1, <2>2
    <3>2. QED
      BY <3>1
  <2>4. h \in [0 .. n + 1 -> S] /\ h[0] = base
    BY <2>2, <2>3
  <2>5. ASSUME NEW m \in 1 .. n + 1 PROVE h[m] = step[<<m, h[m - 1]>>]
    <3>1. CASE m <= n
      <4>1. h[m] = g[m] /\ h[m - 1] = g[m - 1] /\ m \in 1 .. n
        BY <3>1
      <4>2. g[m] = step[<<m, g[m - 1]>>]
        BY <2>2, <4>1
      <4>3. QED
        BY <4>1, <4>2
    <3>2. CASE ~(m <= n)
      <4>1. m = n + 1
        BY <3>2
      <4>2. h[n + 1] = step[<<n + 1, g[n]>>] /\ h[n] = g[n]
        OBVIOUS
      <4>. HIDE DEF h
      <4>3. h[m] = h[n + 1] /\ h[m - 1] = h[n]
        BY <4>1
      <4>4. <<m, h[m - 1]>> = <<n + 1, g[n]>>
        BY <4>1, <4>2, <4>3
      <4>5. QED
        BY <4>2, <4>3, <4>4
    <3>3. QED
      BY <3>1, <3>2
  <2>. HIDE DEF h
  <2>6. QED
    BY <2>4, <2>5
<1>3. N \in T
  <2>. HIDE DEF T
  <2>1. QED
    BY <1>1, <1>2, NatInductionOnSet
<1>4. QED
  BY <1>3 DEF Iterates

-----------------------------------------------------------------------------
(* g is the function chosen of Select(s, T).                               *)
Selects(s, T, g) ==
  g = [n \in 0 .. Len(s) |-> IF n = 0 THEN <<>>
                             ELSE IF s[n] \in T THEN Append(g[n - 1], s[n])
                             ELSE g[n - 1]]

LEMMA SelectsStep ==
  ASSUME NEW S, NEW s \in Seq(S), NEW T, NEW g, Selects(s, T, g)
  PROVE  /\ g[0] = <<>>
         /\ \A n \in 1 .. Len(s) :
              g[n] = IF s[n] \in T THEN Append(g[n - 1], s[n]) ELSE g[n - 1]
<1>1. Len(s) \in Nat
  BY LenProperties
<1>2. \A n \in 0 .. Len(s) : g[n] = IF n = 0 THEN <<>>
                                    ELSE IF s[n] \in T THEN Append(g[n - 1], s[n])
                                    ELSE g[n - 1]
  BY Zenon DEF Selects
<1>3. QED
  BY <1>1, <1>2

(* There is such a function, and its values are sequences.                 *)
LEMMA SelectsExists ==
  ASSUME NEW S, NEW s \in Seq(S), NEW T
  PROVE  \E g \in [0 .. Len(s) -> Seq(S)] : Selects(s, T, g)
<1>. DEFINE step == [x \in (1 .. Len(s)) \X Seq(S) |->
                       IF s[x[1]] \in T THEN Append(x[2], s[x[1]]) ELSE x[2]]
<1>1. Len(s) \in Nat /\ <<>> \in Seq(S)
  BY LenProperties, EmptySeq
<1>2. \A n \in 1 .. Len(s), r \in Seq(S) :
        step[<<n, r>>] = IF s[n] \in T THEN Append(r, s[n]) ELSE r
  OBVIOUS
<1>3. step \in [(1 .. Len(s)) \X Seq(S) -> Seq(S)]
  <2>1. \A n \in 1 .. Len(s), r \in Seq(S) : Append(r, s[n]) \in Seq(S)
    BY ElementOfSeq, AppendProperties
  <2>2. QED
    BY <2>1
<1>. HIDE DEF step
<1>4. PICK g : Iterates(g, Len(s), Seq(S), <<>>, step)
  BY <1>1, <1>3, RecursionOnInterval
<1>5. ASSUME NEW n \in 1 .. Len(s) PROVE n # 0 /\ g[n - 1] \in Seq(S)
  <2>1. g \in [0 .. Len(s) -> Seq(S)]
    BY <1>4 DEF Iterates
  <2>2. n - 1 \in 0 .. Len(s)
    BY <1>1
  <2>3. QED
    BY <1>1, <2>1, <2>2
<1>6. ASSUME NEW n \in 0 .. Len(s)
      PROVE  g[n] = IF n = 0 THEN <<>>
                    ELSE IF s[n] \in T THEN Append(g[n - 1], s[n]) ELSE g[n - 1]
  <2>1. CASE n = 0
    BY <1>4, <2>1 DEF Iterates
  <2>2. CASE n # 0
    <3>1. n \in 1 .. Len(s)
      BY <1>1, <2>2
    <3>2. QED
      BY <1>2, <1>4, <1>5, <2>2, <3>1 DEF Iterates
  <2>3. QED
    BY <2>1, <2>2
<1>7. g = [n \in 0 .. Len(s) |-> g[n]] /\ g \in [0 .. Len(s) -> Seq(S)]
  BY <1>4 DEF Iterates
<1>8. [n \in 0 .. Len(s) |-> g[n]]
        = [n \in 0 .. Len(s) |-> IF n = 0 THEN <<>>
                                 ELSE IF s[n] \in T THEN Append(g[n - 1], s[n])
                                 ELSE g[n - 1]]
  BY <1>6, Zenon
<1>9. QED
  BY <1>7, <1>8, Zenon DEF Selects

(* The functions of two sequences agree where the sequences do.            *)
LEMMA SelectsAgree ==
  ASSUME NEW S, NEW s \in Seq(S), NEW t \in Seq(S), NEW T, Len(s) <= Len(t),
         \A n \in 1 .. Len(s) : s[n] = t[n],
         NEW g, Selects(s, T, g), NEW h, Selects(t, T, h)
  PROVE  g[Len(s)] = h[Len(s)]
<1>. DEFINE N == {n \in Nat : n <= Len(s) => g[n] = h[n]}
<1>1. Len(s) \in Nat /\ Len(t) \in Nat
  BY LenProperties
<1>2. /\ g[0] = <<>> /\ h[0] = <<>>
      /\ \A n \in 1 .. Len(s) :
           /\ g[n] = IF s[n] \in T THEN Append(g[n - 1], s[n]) ELSE g[n - 1]
           /\ h[n] = IF t[n] \in T THEN Append(h[n - 1], t[n]) ELSE h[n - 1]
  BY <1>1, SelectsStep
<1>3. 0 \in N
  BY <1>2
<1>4. ASSUME NEW n \in Nat, n \in N PROVE n + 1 \in N
  <2>1. SUFFICES ASSUME n + 1 <= Len(s) PROVE g[n + 1] = h[n + 1]
    OBVIOUS
  <2>2. n + 1 \in 1 .. Len(s) /\ (n + 1) - 1 = n /\ g[n] = h[n]
    BY <1>1, <1>4, <2>1
  <2>3. QED
    BY <1>2, <2>2
<1>5. Nat \subseteq N
  <2>. HIDE DEF N
  <2>1. QED
    BY <1>3, <1>4, NatInductionOnSet
<1>6. QED
  BY <1>1, <1>5

(* Select is the last value of each of its functions.                      *)
LEMMA SelectIs ==
  ASSUME NEW S, NEW s \in Seq(S), NEW T, NEW g, Selects(s, T, g)
  PROVE  Select(s, T) = g[Len(s)]
<1>1. Select(s, T) = (CHOOSE h : Selects(s, T, h))[Len(s)]
  BY DEF Select, Selects
<1>2. Selects(s, T, CHOOSE h : Selects(s, T, h))
  OBVIOUS
<1>3. Len(s) <= Len(s)
  BY LenProperties
<1>4. QED
  BY <1>1, <1>2, <1>3, SelectsAgree

LEMMA SelectEmpty == \A T : Select(<<>>, T) = <<>>
<1>1. <<>> \in Seq({}) /\ Len(<<>>) = 0
  BY EmptySeq
<1>2. ASSUME NEW T PROVE Select(<<>>, T) = <<>>
  <2>1. PICK g \in [0 .. Len(<<>>) -> Seq({})] : Selects(<<>>, T, g)
    BY <1>1, SelectsExists
  <2>2. g[0] = <<>>
    BY <1>1, <2>1, SelectsStep
  <2>3. QED
    BY <1>1, <2>1, <2>2, SelectIs
<1>3. QED
  BY <1>2

LEMMA SelectType ==
  ASSUME NEW S, NEW s \in Seq(S), NEW T
  PROVE  Select(s, T) \in Seq(S)
<1>1. PICK g \in [0 .. Len(s) -> Seq(S)] : Selects(s, T, g)
  BY SelectsExists
<1>2. QED
  BY <1>1, SelectIs, LenProperties

LEMMA SelectAppend ==
  ASSUME NEW S, NEW s \in Seq(S), NEW T, NEW e \in S
  PROVE  Select(Append(s, e), T) = IF e \in T THEN Append(Select(s, T), e) ELSE Select(s, T)
<1>. DEFINE t == Append(s, e)
<1>1. /\ t \in Seq(S) /\ Len(t) = Len(s) + 1 /\ Len(s) \in Nat
      /\ \A n \in 1 .. Len(s) : s[n] = t[n]
      /\ t[Len(s) + 1] = e
  BY AppendProperties, LenProperties
<1>. HIDE DEF t
<1>2. PICK g : Selects(s, T, g)
  BY SelectsExists
<1>3. PICK h : Selects(t, T, h)
  BY <1>1, SelectsExists
<1>4. h[Len(s)] = g[Len(s)]
  BY <1>1, <1>2, <1>3, SelectsAgree
<1>5. h[Len(t)] = IF e \in T THEN Append(h[Len(s)], e) ELSE h[Len(s)]
  <2>1. Len(t) \in 1 .. Len(t) /\ Len(t) - 1 = Len(s) /\ t[Len(t)] = e
    BY <1>1
  <2>2. QED
    BY <1>1, <1>3, <2>1, SelectsStep
<1>6. Select(s, T) = g[Len(s)] /\ Select(t, T) = h[Len(t)]
  BY <1>1, <1>2, <1>3, SelectIs
<1>7. QED
  BY <1>4, <1>5, <1>6 DEF t

(* Selecting commutes with concatenation.                                  *)
LEMMA SelectConcat ==
  ASSUME NEW S, NEW s \in Seq(S), NEW t \in Seq(S), NEW T
  PROVE  Select(s \o t, T) = Select(s, T) \o Select(t, T)
<1>. DEFINE Q == {r \in Seq(S) : Select(s \o r, T) = Select(s, T) \o Select(r, T)}
<1>1. <<>> \in Q
  <2>1. s \o <<>> = s /\ Select(s, T) \o <<>> = Select(s, T)
    BY SelectType, ConcatEmptySeq
  <2>2. QED
    BY <2>1, SelectEmpty, EmptySeq
<1>2. ASSUME NEW r \in Seq(S), NEW e \in S, r \in Q PROVE Append(r, e) \in Q
  <2>. DEFINE u == s \o r
              x == Select(s, T)
              y == Select(r, T)
  <2>1. u \in Seq(S) /\ x \in Seq(S) /\ y \in Seq(S) /\ Append(r, e) \in Seq(S)
    BY ConcatProperties, SelectType, AppendProperties
  <2>2. s \o Append(r, e) = Append(u, e) /\ x \o Append(y, e) = Append(x \o y, e)
    <3>1. <<e>> \in Seq(S)
      OBVIOUS
    <3>2. Append(r, e) = r \o <<e>> /\ Append(u, e) = u \o <<e>> /\ Append(y, e) = y \o <<e>>
      BY <2>1, AppendIsConcat
    <3>3. s \o (r \o <<e>>) = u \o <<e>> /\ x \o (y \o <<e>>) = (x \o y) \o <<e>>
      BY <2>1, <3>1, ConcatAssociative
    <3>4. x \o y \in Seq(S)
      BY <2>1, ConcatProperties
    <3>5. Append(x \o y, e) = (x \o y) \o <<e>>
      BY <3>4, AppendIsConcat
    <3>6. QED
      BY <3>2, <3>3, <3>5
  <2>3. Select(u, T) = x \o y
    BY <1>2
  <2>4. Select(Append(u, e), T) = IF e \in T THEN Append(Select(u, T), e) ELSE Select(u, T)
    <3>1. u \in Seq(S)
      BY <2>1
    <3>. HIDE DEF u
    <3>2. QED
      BY <3>1, SelectAppend
  <2>5. Select(Append(r, e), T) = IF e \in T THEN Append(y, e) ELSE y
    BY SelectAppend
  <2>6. Select(s \o Append(r, e), T) = x \o Select(Append(r, e), T)
    <3>. HIDE DEF u, x, y
    <3>1. CASE e \in T
      BY <2>2, <2>3, <2>4, <2>5, <3>1
    <3>2. CASE e \notin T
      BY <2>2, <2>3, <2>4, <2>5, <3>2
    <3>3. QED
      BY <3>1, <3>2
  <2>7. QED
    BY <2>1, <2>6
<1>3. Seq(S) \subseteq Q
  <2>. HIDE DEF Q
  <2>1. QED
    BY <1>1, <1>2, SeqInductionOnSet
<1>4. QED
  BY <1>3

(* What is selected of one element, and of a head and a tail.              *)
LEMMA SelectOne ==
  ASSUME NEW S, NEW e \in S, NEW T
  PROVE  Select(<<e>>, T) = IF e \in T THEN <<e>> ELSE <<>>
<1>. DEFINE none == <<>>
<1>1. none \in Seq(S)
  BY EmptySeq
<1>2. Append(none, e) = <<e>> /\ Select(none, T) = none
  BY SelectEmpty
<1>. HIDE DEF none
<1>3. Select(Append(none, e), T) = IF e \in T THEN Append(Select(none, T), e) ELSE Select(none, T)
  BY <1>1, SelectAppend
<1>4. QED
  BY <1>2, <1>3 DEF none

LEMMA SelectHeadTail ==
  ASSUME NEW S, NEW s \in Seq(S), s # <<>>, NEW T
  PROVE  Select(s, T) = IF Head(s) \in T THEN <<Head(s)>> \o Select(Tail(s), T)
                        ELSE Select(Tail(s), T)
<1>. DEFINE h == <<Head(s)>>
<1>1. Head(s) \in S /\ Tail(s) \in Seq(S) /\ h \in Seq(S)
  BY HeadTailProperties
<1>2. s = h \o Tail(s)
  <2>1. /\ h \o Tail(s) \in Seq(S) /\ Len(h) = 1 /\ Len(Tail(s)) = Len(s) - 1
        /\ Len(h \o Tail(s)) = Len(s) /\ Len(s) \in Nat
        /\ \A i \in 1 .. Len(s) : (h \o Tail(s))[i] = IF i <= 1 THEN h[i] ELSE Tail(s)[i - 1]
    BY <1>1, ConcatProperties, HeadTailProperties, LenProperties
  <2>2. \A i \in 1 .. Len(s) : (h \o Tail(s))[i] = s[i]
    BY <2>1, HeadTailProperties
  <2>3. QED
    BY <2>1, <2>2, SeqEqual
<1>3. Select(h, T) = IF Head(s) \in T THEN h ELSE <<>>
  BY <1>1, SelectOne
<1>. DEFINE r == Tail(s)
<1>4. h \in Seq(S) /\ r \in Seq(S)
  BY <1>1
<1>5. Select(h \o r, T) = Select(h, T) \o Select(r, T)
  <2>. HIDE DEF h, r
  <2>1. QED
    BY <1>4, SelectConcat
<1>6. Select(r, T) \in Seq(S)
  BY <1>4, SelectType
<1>7. <<>> \o Select(r, T) = Select(r, T)
  BY <1>6, ConcatEmptySeq
<1>8. QED
  BY <1>2, <1>3, <1>5, <1>7, Zenon

-----------------------------------------------------------------------------
(* step takes a value of V and an element of S to a value of V.           *)
StepOn(step, V, S) == step \in [V \X S -> V]

(* g is the function value of FoldOver(step, base, s).                     *)
Folds(step, base, s, g) ==
  g = [n \in 0 .. Len(s) |-> IF n = 0 THEN base ELSE step[<<g[n - 1], s[n]>>]]

LEMMA FoldsStep ==
  ASSUME NEW S, NEW s \in Seq(S), NEW step, NEW base, NEW g, Folds(step, base, s, g)
  PROVE  /\ g[0] = base
         /\ \A n \in 1 .. Len(s) : g[n] = step[<<g[n - 1], s[n]>>]
<1>1. Len(s) \in Nat
  BY LenProperties
<1>2. \A n \in 0 .. Len(s) : g[n] = IF n = 0 THEN base ELSE step[<<g[n - 1], s[n]>>]
  BY Zenon DEF Folds
<1>3. 0 \in 0 .. Len(s) /\ \A n \in 1 .. Len(s) : n \in 0 .. Len(s) /\ n # 0
  BY <1>1
<1>4. QED
  BY <1>2, <1>3, Zenon

(* There is such a function, and its values are of the type of the step.   *)
LEMMA FoldsExists ==
  ASSUME NEW S, NEW V, NEW step, StepOn(step, V, S), NEW base \in V, NEW s \in Seq(S)
  PROVE  \E g \in [0 .. Len(s) -> V] : Folds(step, base, s, g)
<1>. DEFINE next == [x \in (1 .. Len(s)) \X V |-> step[<<x[2], s[x[1]]>>]]
<1>1. Len(s) \in Nat
  BY LenProperties
<1>2. \A n \in 1 .. Len(s), v \in V : next[<<n, v>>] = step[<<v, s[n]>>]
  OBVIOUS
<1>3. next \in [(1 .. Len(s)) \X V -> V]
  <2>1. \A n \in 1 .. Len(s), v \in V : step[<<v, s[n]>>] \in V
    BY ElementOfSeq DEF StepOn
  <2>2. QED
    BY <2>1
<1>. HIDE DEF next
<1>4. PICK g : Iterates(g, Len(s), V, base, next)
  BY <1>1, <1>3, RecursionOnInterval
<1>5. ASSUME NEW n \in 1 .. Len(s) PROVE n # 0 /\ g[n - 1] \in V
  <2>1. g \in [0 .. Len(s) -> V]
    BY <1>4 DEF Iterates
  <2>2. n - 1 \in 0 .. Len(s)
    BY <1>1
  <2>3. QED
    BY <1>1, <2>1, <2>2
<1>6. ASSUME NEW n \in 0 .. Len(s)
      PROVE  g[n] = IF n = 0 THEN base ELSE step[<<g[n - 1], s[n]>>]
  <2>1. CASE n = 0
    BY <1>4, <2>1 DEF Iterates
  <2>2. CASE n # 0
    <3>1. n \in 1 .. Len(s)
      BY <1>1, <2>2
    <3>2. QED
      BY <1>2, <1>4, <1>5, <2>2, <3>1 DEF Iterates
  <2>3. QED
    BY <2>1, <2>2
<1>7. g = [n \in 0 .. Len(s) |-> g[n]] /\ g \in [0 .. Len(s) -> V]
  BY <1>4 DEF Iterates
<1>8. [n \in 0 .. Len(s) |-> g[n]]
        = [n \in 0 .. Len(s) |-> IF n = 0 THEN base ELSE step[<<g[n - 1], s[n]>>]]
  BY <1>6
<1>9. QED
  BY <1>7, <1>8, Zenon DEF Folds

LEMMA FoldsAgree ==
  ASSUME NEW S, NEW s \in Seq(S), NEW t \in Seq(S), Len(s) <= Len(t),
         \A n \in 1 .. Len(s) : s[n] = t[n],
         NEW step, NEW base, NEW g, Folds(step, base, s, g), NEW h, Folds(step, base, t, h)
  PROVE  g[Len(s)] = h[Len(s)]
<1>. DEFINE N == {n \in Nat : n <= Len(s) => g[n] = h[n]}
<1>1. Len(s) \in Nat /\ Len(t) \in Nat
  BY LenProperties
<1>2. /\ g[0] = base /\ h[0] = base
      /\ \A n \in 1 .. Len(s) : g[n] = step[<<g[n - 1], s[n]>>]
      /\ \A n \in 1 .. Len(t) : h[n] = step[<<h[n - 1], t[n]>>]
  BY FoldsStep
<1>3. 0 \in N
  BY <1>2
<1>4. ASSUME NEW n \in Nat, n \in N PROVE n + 1 \in N
  <2>1. SUFFICES ASSUME n + 1 <= Len(s) PROVE g[n + 1] = h[n + 1]
    OBVIOUS
  <2>2. n + 1 \in 1 .. Len(s) /\ n + 1 \in 1 .. Len(t) /\ (n + 1) - 1 = n /\ g[n] = h[n]
    BY <1>1, <1>4, <2>1
  <2>3. g[n + 1] = step[<<g[n], s[n + 1]>>] /\ h[n + 1] = step[<<h[n], t[n + 1]>>]
    BY <1>2, <2>2
  <2>4. QED
    BY <2>2, <2>3
<1>5. Nat \subseteq N
  <2>. HIDE DEF N
  <2>1. QED
    BY <1>3, <1>4, NatInductionOnSet
<1>6. QED
  BY <1>1, <1>5

LEMMA FoldIs ==
  ASSUME NEW S, NEW s \in Seq(S), NEW step, NEW base, NEW g, Folds(step, base, s, g)
  PROVE  FoldOver(step, base, s) = g[Len(s)]
<1>1. FoldOver(step, base, s) = (CHOOSE h : Folds(step, base, s, h))[Len(s)]
  BY DEF FoldOver, Folds
<1>2. Folds(step, base, s, CHOOSE h : Folds(step, base, s, h))
  OBVIOUS
<1>3. Len(s) <= Len(s)
  BY LenProperties
<1>4. QED
  BY <1>1, <1>2, <1>3, FoldsAgree

LEMMA FoldEmpty ==
  ASSUME NEW S, NEW V, NEW step, StepOn(step, V, S), NEW base \in V
  PROVE  FoldOver(step, base, <<>>) = base
<1>. DEFINE s == <<>>
<1>1. s \in Seq(S) /\ Len(s) = 0
  BY EmptySeq
<1>. HIDE DEF s
<1>2. PICK g \in [0 .. Len(s) -> V] : Folds(step, base, s, g)
  BY <1>1, FoldsExists
<1>3. g[0] = base
  <2>1. 0 \in 0 .. Len(s)
    BY <1>1
  <2>2. QED
    BY <1>2, <2>1, Zenon DEF Folds
<1>4. FoldOver(step, base, s) = g[Len(s)]
  BY <1>1, <1>2, FoldIs
<1>5. QED
  BY <1>1, <1>3, <1>4 DEF s

LEMMA FoldType ==
  ASSUME NEW S, NEW V, NEW step, StepOn(step, V, S), NEW base \in V, NEW s \in Seq(S)
  PROVE  FoldOver(step, base, s) \in V
<1>1. PICK g \in [0 .. Len(s) -> V] : Folds(step, base, s, g)
  BY FoldsExists
<1>2. FoldOver(step, base, s) = g[Len(s)]
  BY <1>1, FoldIs
<1>3. Len(s) \in 0 .. Len(s)
  BY LenProperties
<1>4. QED
  BY <1>1, <1>2, <1>3

LEMMA FoldAppend ==
  ASSUME NEW S, NEW V, NEW step, StepOn(step, V, S), NEW base \in V,
         NEW s \in Seq(S), NEW e \in S
  PROVE  FoldOver(step, base, Append(s, e)) = step[<<FoldOver(step, base, s), e>>]
<1>. DEFINE t == Append(s, e)
<1>1. /\ t \in Seq(S) /\ Len(t) = Len(s) + 1 /\ Len(s) \in Nat
      /\ \A n \in 1 .. Len(s) : s[n] = t[n]
      /\ t[Len(s) + 1] = e
  BY AppendProperties, LenProperties
<1>. HIDE DEF t
<1>2. PICK g : Folds(step, base, s, g)
  BY FoldsExists
<1>3. PICK h : Folds(step, base, t, h)
  BY <1>1, FoldsExists
<1>4. Len(s) <= Len(t)
  BY <1>1
<1>5. g[Len(s)] = h[Len(s)]
  BY <1>1, <1>2, <1>3, <1>4, FoldsAgree
<1>6. h[Len(t)] = step[<<h[Len(s)], e>>]
  <2>1. Len(t) \in 1 .. Len(t) /\ Len(t) - 1 = Len(s) /\ t[Len(t)] = e
    BY <1>1
  <2>2. h[Len(t)] = step[<<h[Len(t) - 1], t[Len(t)]>>]
    BY <1>1, <1>3, <2>1, FoldsStep
  <2>3. QED
    BY <2>1, <2>2
<1>7. FoldOver(step, base, s) = g[Len(s)] /\ FoldOver(step, base, t) = h[Len(t)]
  BY <1>1, <1>2, <1>3, FoldIs
<1>8. QED
  BY <1>5, <1>6, <1>7 DEF t

(* Folding over a concatenation is folding over one part after the other.  *)
LEMMA FoldConcat ==
  ASSUME NEW S, NEW V, NEW step, StepOn(step, V, S), NEW base \in V,
         NEW s \in Seq(S), NEW t \in Seq(S)
  PROVE  FoldOver(step, base, s \o t) = FoldOver(step, FoldOver(step, base, s), t)
<1>. DEFINE b == FoldOver(step, base, s)
            Q == {r \in Seq(S) : FoldOver(step, base, s \o r) = FoldOver(step, b, r)}
<1>1. b \in V
  BY FoldType
<1>2. <<>> \in Q
  <2>1. s \o <<>> = s /\ <<>> \in Seq(S)
    BY ConcatEmptySeq, EmptySeq
  <2>. HIDE DEF b
  <2>2. FoldOver(step, b, <<>>) = b
    BY <1>1, FoldEmpty
  <2>3. QED
    BY <2>1, <2>2 DEF b
<1>3. ASSUME NEW r \in Seq(S), NEW e \in S, r \in Q PROVE Append(r, e) \in Q
  <2>. DEFINE u == s \o r
  <2>1. u \in Seq(S) /\ Append(r, e) \in Seq(S)
    BY ConcatProperties, AppendProperties
  <2>2. s \o Append(r, e) = Append(u, e)
    <3>1. <<e>> \in Seq(S)
      OBVIOUS
    <3>2. Append(r, e) = r \o <<e>> /\ Append(u, e) = u \o <<e>>
      BY <2>1, AppendIsConcat
    <3>3. s \o (r \o <<e>>) = u \o <<e>>
      BY <3>1, ConcatAssociative
    <3>4. QED
      BY <3>2, <3>3
  <2>3. FoldOver(step, base, u) = FoldOver(step, b, r)
    BY <1>3
  <2>. HIDE DEF u, b
  <2>4. FoldOver(step, base, Append(u, e)) = step[<<FoldOver(step, base, u), e>>]
    BY <2>1, FoldAppend
  <2>5. FoldOver(step, b, Append(r, e)) = step[<<FoldOver(step, b, r), e>>]
    BY <1>1, FoldAppend
  <2>6. FoldOver(step, base, s \o Append(r, e)) = FoldOver(step, b, Append(r, e))
    BY <2>2, <2>3, <2>4, <2>5
  <2>7. QED
    BY <2>1, <2>6
<1>4. Seq(S) \subseteq Q
  <2>. HIDE DEF Q
  <2>1. QED
    BY <1>2, <1>3, SeqInductionOnSet
<1>5. QED
  BY <1>4

(* A sequence is its head followed by its tail.                            *)
LEMMA HeadThenTail ==
  ASSUME NEW S, NEW s \in Seq(S), s # <<>>
  PROVE  /\ <<Head(s)>> \in Seq(S) /\ Tail(s) \in Seq(S) /\ Head(s) \in S
         /\ s = <<Head(s)>> \o Tail(s)
<1>. DEFINE h == <<Head(s)>>
<1>1. Head(s) \in S /\ Tail(s) \in Seq(S) /\ h \in Seq(S)
  BY HeadTailProperties
<1>2. /\ h \o Tail(s) \in Seq(S) /\ Len(h) = 1 /\ Len(Tail(s)) = Len(s) - 1
      /\ Len(h \o Tail(s)) = Len(s) /\ Len(s) \in Nat
      /\ \A i \in 1 .. Len(s) : (h \o Tail(s))[i] = IF i <= 1 THEN h[i] ELSE Tail(s)[i - 1]
  BY <1>1, ConcatProperties, HeadTailProperties, LenProperties
<1>3. \A i \in 1 .. Len(s) : (h \o Tail(s))[i] = s[i]
  BY <1>2, HeadTailProperties
<1>4. s = h \o Tail(s)
  BY <1>2, <1>3, SeqEqual
<1>5. QED
  BY <1>1, <1>4

LEMMA FoldOne ==
  ASSUME NEW S, NEW V, NEW step, StepOn(step, V, S), NEW base \in V, NEW e \in S
  PROVE  FoldOver(step, base, <<e>>) = step[<<base, e>>]
<1>. DEFINE none == <<>>
<1>1. none \in Seq(S)
  BY EmptySeq
<1>2. FoldOver(step, base, none) = base /\ Append(none, e) = <<e>>
  BY FoldEmpty
<1>. HIDE DEF none
<1>3. FoldOver(step, base, Append(none, e)) = step[<<FoldOver(step, base, none), e>>]
  BY <1>1, FoldAppend
<1>4. QED
  BY <1>1, <1>2, <1>3

LEMMA FoldHeadTail ==
  ASSUME NEW S, NEW V, NEW step, StepOn(step, V, S), NEW base \in V,
         NEW s \in Seq(S), s # <<>>
  PROVE  FoldOver(step, base, s) = FoldOver(step, step[<<base, Head(s)>>], Tail(s))
<1>. DEFINE h == <<Head(s)>>
            t == Tail(s)
            e == Head(s)
<1>1. h \in Seq(S) /\ t \in Seq(S) /\ s = h \o t /\ e \in S
  BY HeadThenTail
<1>2. FoldOver(step, base, h) = step[<<base, Head(s)>>]
  <2>. HIDE DEF e
  <2>1. FoldOver(step, base, <<e>>) = step[<<base, e>>]
    BY <1>1, FoldOne
  <2>2. QED
    BY <2>1 DEF e
<1>. HIDE DEF h, t, e
<1>3. FoldOver(step, base, h \o t) = FoldOver(step, FoldOver(step, base, h), t)
  BY <1>1, FoldConcat
<1>4. QED
  BY <1>1, <1>2, <1>3 DEF t

-----------------------------------------------------------------------------
(* The elements of s, each replaced by what f makes of it.                 *)
MapOn(f, S, V) == f \in [S -> V]

Mapped(f, s) == [n \in 1 .. Len(s) |-> f[s[n]]]

LEMMA MappedElements ==
  ASSUME NEW S, NEW V, NEW f, MapOn(f, S, V), NEW s \in Seq(S)
  PROVE  /\ Mapped(f, s) \in Seq(V)
         /\ Len(Mapped(f, s)) = Len(s)
         /\ \A n \in 1 .. Len(s) : Mapped(f, s)[n] = f[s[n]]
<1>. DEFINE m == [n \in 1 .. Len(s) |-> f[s[n]]]
<1>1. Len(s) \in Nat /\ \A n \in 1 .. Len(s) : s[n] \in S
  BY LenProperties, ElementOfSeq
<1>2. \A n \in 1 .. Len(s) : f[s[n]] \in V
  BY <1>1 DEF MapOn
<1>3. m \in Seq(V) /\ Len(m) = Len(s)
  BY <1>1, <1>2, IsASeq
<1>4. QED
  BY <1>3, Zenon DEF Mapped

LEMMA MappedEmpty == \A f : Mapped(f, <<>>) = <<>>
BY DEF Mapped

LEMMA MappedAppend ==
  ASSUME NEW S, NEW V, NEW f, MapOn(f, S, V), NEW s \in Seq(S), NEW e \in S
  PROVE  Mapped(f, Append(s, e)) = Append(Mapped(f, s), f[e])
<1>. DEFINE t == Append(s, e)
            m == Mapped(f, s)
            x == f[e]
<1>1. /\ t \in Seq(S) /\ Len(t) = Len(s) + 1 /\ Len(s) \in Nat
      /\ \A n \in 1 .. Len(s) : t[n] = s[n]
      /\ t[Len(s) + 1] = e
  BY AppendProperties, LenProperties
<1>2. m \in Seq(V) /\ Len(m) = Len(s) /\ \A n \in 1 .. Len(s) : m[n] = f[s[n]]
  BY MappedElements
<1>3. x \in V
  BY DEF MapOn
<1>. HIDE DEF t, m, x
<1>4. /\ Mapped(f, t) \in Seq(V) /\ Len(Mapped(f, t)) = Len(t)
      /\ \A n \in 1 .. Len(t) : Mapped(f, t)[n] = f[t[n]]
  BY <1>1, MappedElements
<1>5. /\ Append(m, x) \in Seq(V) /\ Len(Append(m, x)) = Len(m) + 1
      /\ \A n \in 1 .. Len(m) : Append(m, x)[n] = m[n]
      /\ Append(m, x)[Len(m) + 1] = x
  BY <1>2, <1>3, AppendProperties
<1>6. ASSUME NEW n \in 1 .. Len(t) PROVE Mapped(f, t)[n] = Append(m, x)[n]
  <2>1. CASE n = Len(s) + 1
    BY <1>1, <1>2, <1>4, <1>5, <2>1 DEF x
  <2>2. CASE n # Len(s) + 1
    <3>1. n \in 1 .. Len(s)
      BY <1>1, <2>2
    <3>2. QED
      BY <1>1, <1>2, <1>4, <1>5, <3>1
  <2>3. QED
    BY <2>1, <2>2
<1>7. Mapped(f, t) = Append(m, x)
  BY <1>1, <1>2, <1>4, <1>5, <1>6, SeqEqual
<1>8. QED
  BY <1>7 DEF t, m, x

LEMMA MappedHeadTail ==
  ASSUME NEW S, NEW V, NEW f, MapOn(f, S, V), NEW s \in Seq(S), s # <<>>
  PROVE  /\ Mapped(f, s) # <<>>
         /\ Head(Mapped(f, s)) = f[Head(s)]
         /\ Tail(Mapped(f, s)) = Mapped(f, Tail(s))
<1>. DEFINE m == Mapped(f, s)
            t == Tail(s)
            u == Mapped(f, t)
<1>1. /\ t \in Seq(S) /\ Len(t) = Len(s) - 1 /\ Len(s) \in Nat \ {0} /\ Head(s) = s[1]
      /\ \A n \in 1 .. Len(t) : t[n] = s[n + 1]
  BY HeadTailProperties, LenProperties, EmptySeq
<1>2. m \in Seq(V) /\ Len(m) = Len(s) /\ \A n \in 1 .. Len(s) : m[n] = f[s[n]]
  BY MappedElements
<1>. HIDE DEF m, t
<1>3. u \in Seq(V) /\ Len(u) = Len(t) /\ \A n \in 1 .. Len(t) : u[n] = f[t[n]]
  BY <1>1, MappedElements
<1>. HIDE DEF u
<1>4. m # <<>>
  BY <1>1, <1>2, EmptySeq
<1>5. /\ Head(m) = m[1] /\ Tail(m) \in Seq(V) /\ Len(Tail(m)) = Len(m) - 1
      /\ \A n \in 1 .. Len(Tail(m)) : Tail(m)[n] = m[n + 1]
  BY <1>2, <1>4, HeadTailProperties
<1>6. ASSUME NEW n \in 1 .. Len(u) PROVE Tail(m)[n] = u[n]
  <2>1. n \in 1 .. Len(Tail(m)) /\ n \in 1 .. Len(t) /\ n + 1 \in 1 .. Len(s)
    BY <1>1, <1>2, <1>3, <1>5
  <2>2. QED
    BY <1>1, <1>2, <1>3, <1>5, <2>1
<1>7. Len(Tail(m)) = Len(u)
  BY <1>1, <1>2, <1>3, <1>5
<1>8. Tail(m) = u
  BY <1>3, <1>5, <1>6, <1>7, SeqEqual
<1>9. Head(m) = f[Head(s)]
  BY <1>1, <1>2, <1>5
<1>10. QED
  BY <1>4, <1>8, <1>9 DEF m, t, u

(* When all elements are in T, all are selected.                           *)
LEMMA SelectAll ==
  ASSUME NEW S, NEW T, NEW s \in Seq(S), \A n \in 1 .. Len(s) : s[n] \in T
  PROVE  Select(s, T) = s
<1>. DEFINE Q == {r \in Seq(S) : (\A n \in 1 .. Len(r) : r[n] \in T) => Select(r, T) = r}
<1>1. <<>> \in Q
  BY SelectEmpty, EmptySeq
<1>2. ASSUME NEW r \in Seq(S), NEW e \in S, r \in Q PROVE Append(r, e) \in Q
  <2>. DEFINE t == Append(r, e)
  <2>1. /\ t \in Seq(S) /\ Len(t) = Len(r) + 1 /\ Len(r) \in Nat
        /\ \A n \in 1 .. Len(r) : t[n] = r[n]
        /\ t[Len(r) + 1] = e
    BY AppendProperties, LenProperties
  <2>2. Select(Append(r, e), T) = IF e \in T THEN Append(Select(r, T), e) ELSE Select(r, T)
    BY SelectAppend
  <2>3. ASSUME \A n \in 1 .. Len(t) : t[n] \in T PROVE Select(t, T) = t
    <3>. HIDE DEF t
    <3>1. e \in T /\ \A n \in 1 .. Len(r) : r[n] \in T
      BY <2>1, <2>3
    <3>2. Select(r, T) = r
      BY <1>2, <3>1
    <3>3. QED
      BY <2>2, <3>1, <3>2 DEF t
  <2>4. QED
    BY <2>1, <2>3
<1>3. Seq(S) \subseteq Q
  <2>. HIDE DEF Q
  <2>1. QED
    BY <1>1, <1>2, SeqInductionOnSet
<1>4. QED
  BY <1>3

-----------------------------------------------------------------------------
(* Sequences of sequences, one after the other: FlattenSeq is a fold.      *)
Join(S) == [x \in Seq(S) \X Seq(S) |-> x[1] \o x[2]]

LEMMA JoinOn ==
  ASSUME NEW S
  PROVE  /\ StepOn(Join(S), Seq(S), Seq(S))
         /\ \A x, y \in Seq(S) : Join(S)[<<x, y>>] = x \o y
<1>1. ASSUME NEW x \in Seq(S) \X Seq(S) PROVE x[1] \o x[2] \in Seq(S)
  <2>1. x[1] \in Seq(S) /\ x[2] \in Seq(S)
    OBVIOUS
  <2>2. QED
    BY <2>1, ConcatProperties
<1>2. QED
  BY <1>1 DEF StepOn, Join

(* h is the function value of FlattenSeq(s).                               *)
Flattens(s, h) ==
  h = [n \in 1 .. Len(s) |-> IF n = 1 THEN s[n] ELSE h[n - 1] \o s[n]]

LEMMA FlattensStep ==
  ASSUME NEW S, NEW s \in Seq(Seq(S)), NEW h, Flattens(s, h)
  PROVE  \A n \in 1 .. Len(s) : h[n] = IF n = 1 THEN s[n] ELSE h[n - 1] \o s[n]
BY Zenon DEF Flattens

LEMMA FlattenIsFold ==
  ASSUME NEW S, NEW s \in Seq(Seq(S))
  PROVE  FlattenSeq(s) = FoldOver(Join(S), <<>>, s)
<1>. DEFINE none == <<>>
            J == Join(S)
            B == Seq(S)
<1>1. none \in B /\ StepOn(J, B, B) /\ s \in Seq(B) /\ Len(s) \in Nat
  BY EmptySeq, JoinOn, LenProperties
<1>2. \A n \in 1 .. Len(s) : s[n] \in B
  BY <1>1, ElementOfSeq
<1>. HIDE DEF none, J, B
<1>3. PICK g \in [0 .. Len(s) -> B] : Folds(J, none, s, g)
  BY <1>1, FoldsExists
<1>4. FoldOver(J, none, s) = g[Len(s)]
  BY <1>1, <1>3, FoldIs
<1>5. g[0] = none
  <2>1. 0 \in 0 .. Len(s)
    BY <1>1
  <2>2. QED
    BY <1>3, <2>1, Zenon DEF Folds
<1>6. ASSUME NEW n \in 1 .. Len(s) PROVE g[n] = IF n = 1 THEN s[n] ELSE g[n - 1] \o s[n]
  <2>1. n - 1 \in 0 .. Len(s)
    BY <1>1
  <2>2. g[n - 1] \in B
    BY <1>3, <2>1
  <2>3. g[n] = J[<<g[n - 1], s[n]>>]
    <3>1. n \in 0 .. Len(s) /\ n # 0
      BY <1>1
    <3>2. QED
      BY <1>3, <3>1, Zenon DEF Folds
  <2>4. g[n] = g[n - 1] \o s[n]
    BY <1>2, <2>2, <2>3, JoinOn DEF J, B
  <2>5. CASE n = 1
    <3>1. g[n - 1] = <<>>
      BY <1>5, <2>5 DEF none
    <3>2. <<>> \o s[n] = s[n]
      BY <1>2, ConcatEmptySeq DEF B
    <3>3. QED
      BY <2>4, <2>5, <3>1, <3>2
  <2>6. QED
    BY <2>4, <2>5
<1>7. CASE Len(s) = 0
  <2>1. s = <<>>
    BY <1>7, EmptySeq
  <2>2. FlattenSeq(s) = s
    BY <1>7 DEF FlattenSeq
  <2>3. QED
    BY <1>4, <1>5, <1>7, <2>1, <2>2 DEF none, J
<1>8. CASE Len(s) # 0
  <2>. DEFINE f == [n \in 1 .. Len(s) |-> g[n]]
  <2>1. Flattens(s, f)
    <3>1. \A n \in 1 .. Len(s) : f[n] = g[n]
      BY Zenon
    <3>2. \A n \in 1 .. Len(s) : n # 1 => n - 1 \in 1 .. Len(s)
      BY <1>1
    <3>. HIDE DEF f
    <3>3. \A n \in 1 .. Len(s) : g[n] = IF n = 1 THEN s[n] ELSE f[n - 1] \o s[n]
      BY <1>6, <3>1, <3>2
    <3>4. [n \in 1 .. Len(s) |-> g[n]] = [n \in 1 .. Len(s) |-> IF n = 1 THEN s[n] ELSE f[n - 1] \o s[n]]
      BY <3>3, Zenon
    <3>5. QED
      BY <3>4, Zenon DEF Flattens, f
  <2>2. PICK h : h = (CHOOSE x : Flattens(s, x))
    OBVIOUS
  <2>. HIDE DEF f
  <2>3. Flattens(s, h)
    BY <2>1, <2>2
  <2>4. FlattenSeq(s) = h[Len(s)]
    BY <1>8, <2>2 DEF FlattenSeq, Flattens
  <2>5. \A n \in 1 .. Len(s) : h[n] = IF n = 1 THEN s[n] ELSE h[n - 1] \o s[n]
    BY <2>3, FlattensStep
  <2>. DEFINE N == {n \in Nat : n \in 1 .. Len(s) => h[n] = g[n]}
  <2>6. 0 \in N
    BY <1>1
  <2>7. ASSUME NEW n \in Nat, n \in N PROVE n + 1 \in N
    <3>. DEFINE k == n + 1
    <3>1. SUFFICES ASSUME k \in 1 .. Len(s) PROVE h[k] = g[k]
      OBVIOUS
    <3>2. k - 1 = n /\ (k # 1 => n \in 1 .. Len(s))
      BY <1>1, <3>1
    <3>3. k # 1 => h[k - 1] = g[k - 1]
      BY <2>7, <3>2
    <3>. HIDE DEF k
    <3>4. /\ h[k] = IF k = 1 THEN s[k] ELSE h[k - 1] \o s[k]
          /\ g[k] = IF k = 1 THEN s[k] ELSE g[k - 1] \o s[k]
      BY <1>6, <2>5, <3>1
    <3>5. QED
      BY <3>3, <3>4
  <2>8. Nat \subseteq N
    <3>. HIDE DEF N
    <3>1. QED
      BY <2>6, <2>7, NatInductionOnSet
  <2>9. Len(s) \in 1 .. Len(s)
    BY <1>1, <1>8
  <2>10. h[Len(s)] = g[Len(s)]
    BY <1>1, <2>8, <2>9
  <2>11. QED
    BY <1>4, <2>4, <2>10 DEF J, none
<1>9. QED
  BY <1>7, <1>8

LEMMA FlattenType ==
  ASSUME NEW S, NEW s \in Seq(Seq(S))
  PROVE  FlattenSeq(s) \in Seq(S)
<1>. DEFINE none == <<>>
            J == Join(S)
            B == Seq(S)
<1>1. none \in B /\ StepOn(J, B, B) /\ s \in Seq(B)
  BY EmptySeq, JoinOn
<1>2. FlattenSeq(s) = FoldOver(J, none, s)
  BY FlattenIsFold
<1>. HIDE DEF none, J, B
<1>3. FoldOver(J, none, s) \in B
  BY <1>1, FoldType
<1>4. QED
  BY <1>2, <1>3 DEF B

LEMMA FlattenEmpty == FlattenSeq(<<>>) = <<>>
BY EmptySeq DEF FlattenSeq

LEMMA FlattenAppend ==
  ASSUME NEW S, NEW s \in Seq(Seq(S)), NEW e \in Seq(S)
  PROVE  FlattenSeq(Append(s, e)) = FlattenSeq(s) \o e
<1>. DEFINE none == <<>>
            J == Join(S)
            B == Seq(S)
            t == Append(s, e)
<1>1. none \in B /\ StepOn(J, B, B) /\ s \in Seq(B) /\ e \in B
  BY EmptySeq, JoinOn
<1>2. t \in Seq(Seq(S))
  BY AppendProperties
<1>. HIDE DEF t
<1>3. FlattenSeq(s) = FoldOver(J, none, s) /\ FlattenSeq(t) = FoldOver(J, none, t)
  BY <1>2, FlattenIsFold
<1>4. FlattenSeq(s) \in Seq(S)
  BY FlattenType
<1>5. FoldOver(J, none, Append(s, e)) = J[<<FoldOver(J, none, s), e>>]
  <2>. HIDE DEF none, J, B
  <2>1. QED
    BY <1>1, FoldAppend
<1>6. J[<<FlattenSeq(s), e>>] = FlattenSeq(s) \o e
  BY <1>4, JoinOn
<1>7. QED
  <2>. HIDE DEF none, J, B
  <2>1. QED
    BY <1>3, <1>5, <1>6 DEF t

LEMMA FlattenHeadTail ==
  ASSUME NEW S, NEW s \in Seq(Seq(S)), s # <<>>
  PROVE  FlattenSeq(s) = Head(s) \o FlattenSeq(Tail(s))
<1>. DEFINE B == Seq(S)
            h == Head(s)
            Q == {r \in Seq(B) : FlattenSeq(<<h>> \o r) = h \o FlattenSeq(r)}
<1>1. h \in B /\ Tail(s) \in Seq(B) /\ s = <<h>> \o Tail(s) /\ <<h>> \in Seq(B)
  <2>1. s \in Seq(B)
    OBVIOUS
  <2>. HIDE DEF B
  <2>2. QED
    BY <2>1, HeadThenTail
<1>. DEFINE l == <<h>>
<1>2. l \in Seq(B)
  BY <1>1
<1>3. FlattenSeq(l) = h
  BY <1>1 DEF FlattenSeq
<1>4. <<>> \in Q
  <2>1. l \o <<>> = l /\ h \o <<>> = h /\ <<>> \in Seq(B)
    BY <1>1, <1>2, ConcatEmptySeq, EmptySeq
  <2>2. QED
    BY <1>3, <2>1, FlattenEmpty
<1>5. ASSUME NEW r \in Seq(B), NEW e \in B, r \in Q PROVE Append(r, e) \in Q
  <2>. DEFINE u == l \o r
              t == Append(r, e)
              f == FlattenSeq(r)
  <2>1. u \in Seq(B) /\ t \in Seq(B) /\ f \in B
    BY <1>2, ConcatProperties, AppendProperties, FlattenType
  <2>2. l \o t = Append(u, e)
    <3>1. <<e>> \in Seq(B)
      BY <1>5
    <3>2. t = r \o <<e>> /\ Append(u, e) = u \o <<e>>
      BY <2>1, AppendIsConcat
    <3>3. l \o (r \o <<e>>) = u \o <<e>>
      <4>. HIDE DEF l
      <4>1. QED
        BY <1>2, <3>1, ConcatAssociative
    <3>4. QED
      BY <3>2, <3>3
  <2>3. FlattenSeq(u) = h \o f
    BY <1>5
  <2>4. FlattenSeq(Append(u, e)) = FlattenSeq(u) \o e
    <3>. HIDE DEF u
    <3>1. QED
      BY <2>1, FlattenAppend
  <2>5. FlattenSeq(t) = f \o e
    BY FlattenAppend
  <2>6. (h \o f) \o e = h \o (f \o e)
    <3>. HIDE DEF h, f
    <3>1. QED
      BY <1>1, <2>1, ConcatAssociative
  <2>7. FlattenSeq(l \o t) = h \o FlattenSeq(t)
    <3>. HIDE DEF u, t, f, h, l
    <3>1. QED
      BY <2>2, <2>3, <2>4, <2>5, <2>6
  <2>8. QED
    BY <2>1, <2>7
<1>6. Seq(B) \subseteq Q
  <2>. HIDE DEF Q, B
  <2>1. QED
    BY <1>4, <1>5, SeqInductionOnSet
<1>7. QED
  BY <1>1, <1>6

-----------------------------------------------------------------------------
(* Reading a sequence from the front.                                      *)

(* What is left of a sequence that is read from index n on.                *)
Rest(a, n) == SubSeq(a, n, Len(a))

(* ... and once x is read.                                                 *)
Splits(S, a, n, x, y) ==
  /\ a \in Seq(S) /\ n \in 1 .. Len(a) + 1
  /\ x \in Seq(S) /\ y \in Seq(S)
  /\ Rest(a, n) = x \o y

LEMMA ReadOn ==
  ASSUME NEW S, NEW a, NEW n, NEW x, NEW y, Splits(S, a, n, x, y)
  PROVE  /\ n + Len(x) \in 1 .. Len(a) + 1
         /\ Rest(a, n + Len(x)) = y
         /\ Len(a) + 1 = n + Len(x) + Len(y)
         /\ \A k \in 1 .. Len(x) : a[n + k - 1] = x[k]
<1>. DEFINE l == Len(a)
            m == n + Len(x)
            b == x \o y
            u == SubSeq(a, n, l)
            v == SubSeq(a, m, l)
<1>0. a \in Seq(S) /\ n \in 1 .. Len(a) + 1 /\ x \in Seq(S) /\ y \in Seq(S) /\ Rest(a, n) = x \o y
  BY DEF Splits
<1>1. l \in Nat /\ Len(x) \in Nat /\ Len(y) \in Nat /\ \A i \in 1 .. l : a[i] \in S
  BY <1>0, LenProperties, ElementOfSeq
<1>2. /\ b \in Seq(S) /\ Len(b) = Len(x) + Len(y)
      /\ \A i \in 1 .. Len(x) + Len(y) : b[i] = IF i <= Len(x) THEN x[i] ELSE y[i - Len(x)]
  BY <1>0, ConcatProperties
<1>3. u = b
  BY <1>0 DEF Rest
<1>. HIDE DEF l, b, u
<1>4. n \in 1 .. l + 1
  BY <1>0 DEF l
<1>5. Len(u) = (IF n <= l THEN l - n + 1 ELSE 0) /\ \A i \in 1 .. l - n + 1 : u[i] = a[n + i - 1]
  <2>1. n \in Int /\ l \in Int /\ \A i \in n .. l : a[i] \in S
    BY <1>1, <1>4
  <2>2. QED
    BY <2>1, SubSeqProperties DEF u
<1>6. l - n + 1 = Len(x) + Len(y) /\ \A i \in 1 .. l - n + 1 : a[n + i - 1] = b[i]
  <2>1. Len(u) = Len(x) + Len(y)
    BY <1>2, <1>3
  <2>2. Len(u) = l - n + 1
    BY <1>1, <1>4, <1>5
  <2>3. QED
    BY <1>3, <1>5, <2>1, <2>2
<1>7. m \in 1 .. l + 1 /\ l + 1 = m + Len(y)
  BY <1>1, <1>4, <1>6
<1>. HIDE DEF m, v
<1>8. v \in Seq(S) /\ Len(v) = Len(y) /\ \A i \in 1 .. Len(y) : v[i] = a[m + i - 1]
  <2>1. m \in Int /\ l \in Int /\ \A i \in m .. l : a[i] \in S
    BY <1>1, <1>7
  <2>2. /\ v \in Seq(S) /\ Len(v) = (IF m <= l THEN l - m + 1 ELSE 0)
        /\ \A i \in 1 .. l - m + 1 : v[i] = a[m + i - 1]
    BY <2>1, SubSeqProperties DEF v
  <2>3. QED
    BY <1>1, <1>7, <2>2
<1>9. ASSUME NEW i \in 1 .. Len(y) PROVE v[i] = y[i]
  <2>. DEFINE j == Len(x) + i
  <2>1. /\ j \in 1 .. l - n + 1 /\ n + j - 1 = m + i - 1
        /\ j \in 1 .. Len(x) + Len(y) /\ ~(j <= Len(x)) /\ j - Len(x) = i
    BY <1>1, <1>4, <1>6 DEF m
  <2>. HIDE DEF j
  <2>2. a[n + j - 1] = b[j] /\ b[j] = y[j - Len(x)]
    BY <1>2, <1>6, <2>1
  <2>3. QED
    BY <1>8, <2>1, <2>2
<1>10. v = y
  BY <1>0, <1>8, <1>9, SeqEqual
<1>11. \A k \in 1 .. Len(x) : a[n + k - 1] = x[k]
  BY <1>1, <1>2, <1>6
<1>12. QED
  BY <1>7, <1>10, <1>11 DEF Rest, l, m, v
=============================================================================
