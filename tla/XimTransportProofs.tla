-------------------------- MODULE XimTransportProofs --------------------------
(***************************************************************************)
(* Proofs about XimTransport: whatever the lengths of the messages and the  *)
(* number of names, messages arrive whole and in order.                    *)
(*                                                                         *)
(* The argument follows the messages that are sent and not yet handled.     *)
(* Each is a letter: the message, whether it is long, and the name of its   *)
(* property.  At any moment there is a sequence of letters for a connection *)
(* of which the waiting events tell the forms and lengths, the sent messages *)
(* are those received and then theirs, and a property holds the bytes of    *)
(* those under its name (Carries).  Sending appends a letter, handling an   *)
(* event takes the first one away.                                         *)
(***************************************************************************)
EXTENDS XimTransport, SequenceInduction, TLAPS

(* Messages have a byte or more, all alike.                                *)
Messages == {m \in Seq(Bytes) : m # <<>> /\ \A k \in 1 .. Len(m) : m[k] = m[1]}

Letter == [long : BOOLEAN, atom : Names, message : Messages]

EventOf == [l \in Letter |->
              IF l.long THEN Long(Len(l.message), l.atom) ELSE Short(l.message)]

MessageOf == [l \in Letter |-> l.message]

IsUnder(l, a) == l.long /\ l.atom = a

PlusBytes(a) ==
  [x \in Seq(Bytes) \X Letter |-> IF IsUnder(x[2], a) THEN x[1] \o x[2].message ELSE x[1]]

(* The bytes of the letters under the name a.                              *)
Under(a, w) == FoldOver(PlusBytes(a), <<>>, w)

-----------------------------------------------------------------------------
(* What the letters of a sequence add up to.                               *)

LEMMA MessageElements ==
  ASSUME NEW m \in Messages
  PROVE  m \in Seq(Bytes) /\ m # <<>> /\ Len(m) \in Nat \ {0} /\ \A k \in 1 .. Len(m) : m[k] = m[1]
<1>1. m \in Seq(Bytes) /\ m # <<>> /\ \A k \in 1 .. Len(m) : m[k] = m[1]
  BY DEF Messages
<1>2. QED
  BY <1>1, LenProperties, EmptySeq

LEMMA LetterFields ==
  ASSUME NEW l \in Letter
  PROVE  l.long \in BOOLEAN /\ l.atom \in Names /\ l.message \in Messages
BY DEF Letter

LEMMA EventOfOn == MapOn(EventOf, Letter, Event)
<1>1. ASSUME NEW l \in Letter
      PROVE  (IF l.long THEN Long(Len(l.message), l.atom) ELSE Short(l.message)) \in Event
  <2>1. l.atom \in Names /\ l.message \in Seq(Bytes) /\ Len(l.message) \in Nat
    BY LetterFields, MessageElements
  <2>2. QED
    BY <2>1 DEF Event, Long, Short
<1>2. QED
  BY <1>1 DEF MapOn, EventOf

LEMMA EventOfLetter ==
  ASSUME NEW l \in Letter
  PROVE  EventOf[l] = IF l.long THEN Long(Len(l.message), l.atom) ELSE Short(l.message)
BY DEF EventOf

LEMMA MessageOfOn ==
  /\ MapOn(MessageOf, Letter, Seq(Bytes))
  /\ \A l \in Letter : MessageOf[l] = l.message
BY LetterFields, MessageElements DEF MapOn, MessageOf

LEMMA PlusBytesOn ==
  ASSUME NEW a
  PROVE  StepOn(PlusBytes(a), Seq(Bytes), Letter)
<1>1. ASSUME NEW x \in Seq(Bytes) \X Letter
      PROVE  (IF IsUnder(x[2], a) THEN x[1] \o x[2].message ELSE x[1]) \in Seq(Bytes)
  <2>1. x[1] \in Seq(Bytes) /\ x[2] \in Letter
    OBVIOUS
  <2>2. x[2].message \in Seq(Bytes)
    BY <2>1, LetterFields, MessageElements
  <2>3. x[1] \o x[2].message \in Seq(Bytes)
    BY <2>1, <2>2, ConcatProperties
  <2>4. QED
    BY <2>1, <2>3
<1>2. QED
  BY <1>1 DEF StepOn, PlusBytes

LEMMA PlusBytesOf ==
  ASSUME NEW a, NEW b \in Seq(Bytes), NEW l \in Letter
  PROVE  PlusBytes(a)[<<b, l>>] = IF IsUnder(l, a) THEN b \o l.message ELSE b
BY DEF PlusBytes

LEMMA UnderType ==
  ASSUME NEW a, NEW w \in Seq(Letter)
  PROVE  Under(a, w) \in Seq(Bytes)
<1>1. <<>> \in Seq(Bytes)
  BY EmptySeq
<1>2. QED
  BY <1>1, PlusBytesOn, FoldType DEF Under

LEMMA UnderEmpty == \A a : Under(a, <<>>) = <<>>
<1>1. <<>> \in Seq(Bytes)
  BY EmptySeq
<1>2. QED
  BY <1>1, PlusBytesOn, FoldEmpty DEF Under

LEMMA UnderAppend ==
  ASSUME NEW a, NEW w \in Seq(Letter), NEW l \in Letter
  PROVE  Under(a, Append(w, l)) = IF IsUnder(l, a) THEN Under(a, w) \o l.message ELSE Under(a, w)
<1>. DEFINE P == PlusBytes(a)
            none == <<>>
<1>1. none \in Seq(Bytes) /\ StepOn(P, Seq(Bytes), Letter)
  BY EmptySeq, PlusBytesOn
<1>2. Under(a, Append(w, l)) = PlusBytes(a)[<<Under(a, w), l>>]
  <2>. HIDE DEF P, none
  <2>1. FoldOver(P, none, Append(w, l)) = P[<<FoldOver(P, none, w), l>>]
    BY <1>1, FoldAppend
  <2>2. QED
    BY <2>1 DEF Under, P, none
<1>3. QED
  BY <1>2, UnderType, PlusBytesOf

(* What was there before the letters stays before their bytes.             *)
LEMMA UnderAfter ==
  ASSUME NEW a, NEW b \in Seq(Bytes), NEW w \in Seq(Letter)
  PROVE  FoldOver(PlusBytes(a), b, w) = b \o Under(a, w)
<1>. DEFINE P == PlusBytes(a)
            Q == {r \in Seq(Letter) : FoldOver(P, b, r) = b \o Under(a, r)}
<1>1. StepOn(P, Seq(Bytes), Letter)
  BY PlusBytesOn
<1>2. <<>> \in Q
  <2>1. b \o <<>> = b /\ <<>> \in Seq(Letter)
    BY ConcatEmptySeq, EmptySeq
  <2>2. FoldOver(P, b, <<>>) = b
    BY <1>1, FoldEmpty
  <2>3. QED
    BY <2>1, <2>2, UnderEmpty
<1>3. ASSUME NEW r \in Seq(Letter), NEW l \in Letter, r \in Q PROVE Append(r, l) \in Q
  <2>. DEFINE u == Under(a, r)
              m == l.message
              t == Append(r, l)
              f == FoldOver(P, b, r)
  <2>1. u \in Seq(Bytes) /\ m \in Seq(Bytes) /\ t \in Seq(Letter) /\ b \o u \in Seq(Bytes)
    BY UnderType, LetterFields, MessageElements, AppendProperties, ConcatProperties
  <2>2. f = b \o u
    BY <1>3
  <2>3. FoldOver(P, b, t) = P[<<f, l>>]
    BY <1>1, FoldAppend
  <2>4. P[<<f, l>>] = IF IsUnder(l, a) THEN f \o m ELSE f
    <3>. HIDE DEF f, u
    <3>1. f \in Seq(Bytes)
      BY <2>1, <2>2
    <3>2. QED
      BY <3>1, PlusBytesOf
  <2>5. Under(a, t) = IF IsUnder(l, a) THEN u \o m ELSE u
    BY UnderAppend
  <2>6. (b \o u) \o m = b \o (u \o m)
    <3>. HIDE DEF u, m
    <3>1. QED
      BY <2>1, ConcatAssociative
  <2>7. FoldOver(P, b, t) = b \o Under(a, t)
    <3>. HIDE DEF P, f, u, m, t
    <3>1. QED
      BY <2>2, <2>3, <2>4, <2>5, <2>6
  <2>8. QED
    BY <2>1, <2>7
<1>4. Seq(Letter) \subseteq Q
  <2>. HIDE DEF Q
  <2>1. QED
    BY <1>2, <1>3, SeqInductionOnSet
<1>5. QED
  BY <1>4

(* The bytes of the first letter, if it is under the name, are in front.   *)
LEMMA UnderHeadTail ==
  ASSUME NEW a, NEW w \in Seq(Letter), w # <<>>
  PROVE  Under(a, w) = IF IsUnder(Head(w), a) THEN Head(w).message \o Under(a, Tail(w))
                       ELSE Under(a, Tail(w))
<1>. DEFINE l == Head(w)
            t == Tail(w)
            none == <<>>
            P == PlusBytes(a)
            b == P[<<none, l>>]
            m == l.message
<1>1. l \in Letter /\ t \in Seq(Letter)
  BY HeadTailProperties
<1>2. none \in Seq(Bytes)
  BY EmptySeq
<1>3. StepOn(P, Seq(Bytes), Letter)
  BY PlusBytesOn
<1>4. m \in Seq(Bytes) /\ Under(a, t) \in Seq(Bytes)
  BY <1>1, LetterFields, MessageElements, UnderType
<1>5. none \o m = m /\ none \o Under(a, t) = Under(a, t)
  BY <1>4, ConcatEmptySeq
<1>6. b = IF IsUnder(l, a) THEN m ELSE none
  <2>1. P[<<none, l>>] = IF IsUnder(l, a) THEN none \o m ELSE none
    BY <1>1, <1>2, PlusBytesOf
  <2>2. QED
    BY <1>5, <2>1
<1>7. Under(a, w) = FoldOver(P, b, t)
  <2>. HIDE DEF P, none
  <2>1. FoldOver(P, none, w) = FoldOver(P, P[<<none, Head(w)>>], Tail(w))
    BY <1>2, <1>3, FoldHeadTail
  <2>2. QED
    BY <2>1 DEF Under, P, none
<1>8. b \in Seq(Bytes)
  <2>. HIDE DEF b, m, none, l
  <2>1. QED
    BY <1>2, <1>4, <1>6
<1>9. FoldOver(P, b, t) = b \o Under(a, t)
  <2>. HIDE DEF b, t
  <2>1. QED
    BY <1>1, <1>8, UnderAfter
<1>10. QED
  <2>. HIDE DEF b, t, l, m, P, none
  <2>1. Under(a, w) = b \o Under(a, t)
    BY <1>7, <1>9
  <2>2. CASE IsUnder(l, a)
    BY <1>6, <2>1, <2>2 DEF l, m, t
  <2>3. CASE ~IsUnder(l, a)
    BY <1>5, <1>6, <2>1, <2>3 DEF l, t
  <2>4. QED
    BY <2>2, <2>3

LEMMA UnderNone ==
  ASSUME NEW a, NEW w \in Seq(Letter), \A n \in 1 .. Len(w) : ~IsUnder(w[n], a)
  PROVE  Under(a, w) = <<>>
<1>. DEFINE Q == {r \in Seq(Letter) :
                    (\A n \in 1 .. Len(r) : ~IsUnder(r[n], a)) => Under(a, r) = <<>>}
<1>1. <<>> \in Q
  BY UnderEmpty, EmptySeq
<1>2. ASSUME NEW r \in Seq(Letter), NEW l \in Letter, r \in Q PROVE Append(r, l) \in Q
  <2>. DEFINE t == Append(r, l)
  <2>1. /\ t \in Seq(Letter) /\ Len(t) = Len(r) + 1 /\ Len(r) \in Nat
        /\ \A n \in 1 .. Len(r) : t[n] = r[n]
        /\ t[Len(r) + 1] = l
    BY AppendProperties, LenProperties
  <2>2. Under(a, t) = IF IsUnder(l, a) THEN Under(a, r) \o l.message ELSE Under(a, r)
    BY UnderAppend
  <2>3. ASSUME \A n \in 1 .. Len(t) : ~IsUnder(t[n], a) PROVE Under(a, t) = <<>>
    <3>. HIDE DEF t
    <3>1. ~IsUnder(l, a) /\ \A n \in 1 .. Len(r) : ~IsUnder(r[n], a)
      BY <2>1, <2>3
    <3>2. Under(a, r) = <<>>
      BY <1>2, <3>1
    <3>3. QED
      BY <2>2, <3>1, <3>2
  <2>4. QED
    BY <2>1, <2>3
<1>3. Seq(Letter) \subseteq Q
  <2>. HIDE DEF Q
  <2>1. QED
    BY <1>1, <1>2, SeqInductionOnSet
<1>4. QED
  BY <1>3

-----------------------------------------------------------------------------
(* What waiting events announce under a name is as long as the bytes.      *)
LEMMA PlusLengthOn ==
  ASSUME NEW a
  PROVE  StepOn(PlusLength(a), Nat, Event)
<1>1. ASSUME NEW x \in Nat \X Event
      PROVE  (IF x[2].format = 32 /\ x[2].atom = a THEN x[1] + x[2].length ELSE x[1]) \in Nat
  <2>1. x[1] \in Nat /\ x[2] \in Event
    OBVIOUS
  <2>2. CASE x[2].format = 32 /\ x[2].atom = a
    <3>1. x[2].length \in Nat
      BY <2>1, <2>2 DEF Event
    <3>2. QED
      BY <2>1, <2>2, <3>1
  <2>3. CASE ~(x[2].format = 32 /\ x[2].atom = a)
    BY <2>1, <2>3
  <2>4. QED
    BY <2>2, <2>3
<1>2. QED
  BY <1>1 DEF StepOn, PlusLength

LEMMA PlusLengthOf ==
  ASSUME NEW a, NEW n \in Nat, NEW l \in Letter
  PROVE  PlusLength(a)[<<n, EventOf[l]>>] = IF IsUnder(l, a) THEN n + Len(l.message) ELSE n
<1>. DEFINE e == EventOf[l]
<1>1. e \in Event
  BY EventOfOn DEF MapOn
<1>2. e = IF l.long THEN Long(Len(l.message), l.atom) ELSE Short(l.message)
  BY EventOfLetter
<1>. HIDE DEF e
<1>3. PlusLength(a)[<<n, e>>] = IF e.format = 32 /\ e.atom = a THEN n + e.length ELSE n
  BY <1>1 DEF PlusLength
<1>4. CASE l.long
  <2>1. e.format = 32 /\ e.atom = l.atom /\ e.length = Len(l.message)
    BY <1>2, <1>4 DEF Long
  <2>2. QED
    BY <1>3, <1>4, <2>1 DEF IsUnder, e
<1>5. CASE ~l.long
  <2>1. e.format = 8
    BY <1>2, <1>5 DEF Short
  <2>2. QED
    BY <1>3, <1>5, <2>1 DEF IsUnder, e
<1>6. QED
  BY <1>4, <1>5

LEMMA AnnouncedUnder ==
  ASSUME NEW a, NEW w \in Seq(Letter)
  PROVE  FoldOver(PlusLength(a), 0, Mapped(EventOf, w)) = Len(Under(a, w))
<1>. DEFINE P == PlusLength(a)
            Q == {r \in Seq(Letter) : FoldOver(P, 0, Mapped(EventOf, r)) = Len(Under(a, r))}
<1>1. StepOn(P, Nat, Event)
  BY PlusLengthOn
<1>. HIDE DEF P
<1>2. <<>> \in Q
  <2>1. <<>> \in Seq(Letter) /\ Len(<<>>) = 0 /\ 0 \in Nat
    BY EmptySeq
  <2>2. FoldOver(P, 0, <<>>) = 0
    BY <1>1, <2>1, FoldEmpty
  <2>3. QED
    BY <2>1, <2>2, UnderEmpty, MappedEmpty
<1>3. ASSUME NEW r \in Seq(Letter), NEW l \in Letter, r \in Q PROVE Append(r, l) \in Q
  <2>. DEFINE q == Mapped(EventOf, r)
              e == EventOf[l]
              t == Append(r, l)
              n == Len(Under(a, r))
              u == Under(a, r)
              m == l.message
  <2>1. q \in Seq(Event) /\ e \in Event /\ t \in Seq(Letter)
    BY EventOfOn, MappedElements, AppendProperties DEF MapOn
  <2>2. Mapped(EventOf, t) = Append(q, e)
    BY EventOfOn, MappedAppend
  <2>3. FoldOver(P, 0, q) = n
    BY <1>3
  <2>4. u \in Seq(Bytes) /\ m \in Seq(Bytes) /\ n \in Nat
    BY UnderType, LetterFields, MessageElements, LenProperties
  <2>5. P[<<n, e>>] = IF IsUnder(l, a) THEN n + Len(m) ELSE n
    BY <2>4, PlusLengthOf DEF P
  <2>6. Under(a, t) = IF IsUnder(l, a) THEN u \o m ELSE u
    BY UnderAppend
  <2>7. Len(u \o m) = n + Len(m)
    <3>. HIDE DEF u, m
    <3>1. Len(u \o m) = Len(u) + Len(m)
      BY <2>4, ConcatProperties
    <3>2. QED
      BY <3>1 DEF u
  <2>8. FoldOver(P, 0, Append(q, e)) = P[<<FoldOver(P, 0, q), e>>]
    <3>. DEFINE zero == 0
    <3>1. zero \in Nat
      OBVIOUS
    <3>. HIDE DEF q, e, zero
    <3>2. FoldOver(P, zero, Append(q, e)) = P[<<FoldOver(P, zero, q), e>>]
      BY <1>1, <2>1, <3>1, FoldAppend
    <3>3. QED
      BY <3>2 DEF zero
  <2>9. FoldOver(P, 0, Mapped(EventOf, t)) = Len(Under(a, t))
    <3>1. n = Len(u)
      OBVIOUS
    <3>. HIDE DEF q, e, t, n, u, m
    <3>2. CASE IsUnder(l, a)
      BY <2>2, <2>3, <2>5, <2>6, <2>7, <2>8, <3>2
    <3>3. CASE ~IsUnder(l, a)
      BY <2>2, <2>3, <2>5, <2>6, <2>8, <3>1, <3>3
    <3>4. QED
      BY <3>2, <3>3
  <2>10. QED
    BY <2>1, <2>9
<1>4. Seq(Letter) \subseteq Q
  <2>. HIDE DEF Q
  <2>1. QED
    BY <1>2, <1>3, SeqInductionOnSet
<1>5. QED
  BY <1>4 DEF P

-----------------------------------------------------------------------------
(* What a receiver makes of the bytes.                                     *)

LEMMA SplitConcat ==
  ASSUME NEW S, NEW m \in Seq(S), NEW r \in Seq(S)
  PROVE  /\ Len(m) <= Len(m \o r)
         /\ SubSeq(m \o r, 1, Len(m)) = m
         /\ SubSeq(m \o r, Len(m) + 1, Len(m \o r)) = r
<1>. DEFINE b == m \o r
            x == SubSeq(b, 1, Len(m))
            y == SubSeq(b, Len(m) + 1, Len(b))
<1>1. /\ b \in Seq(S) /\ Len(b) = Len(m) + Len(r)
      /\ \A i \in 1 .. Len(m) + Len(r) : b[i] = IF i <= Len(m) THEN m[i] ELSE r[i - Len(m)]
  BY ConcatProperties
<1>2. Len(m) \in Nat /\ Len(r) \in Nat /\ \A i \in 1 .. Len(b) : b[i] \in S
  BY <1>1, LenProperties, ElementOfSeq
<1>. HIDE DEF b
<1>3. /\ x \in Seq(S) /\ Len(x) = Len(m)
      /\ \A i \in 1 .. Len(m) : x[i] = b[i]
  <2>1. 1 \in Int /\ Len(m) \in Int /\ \A i \in 1 .. Len(m) : b[i] \in S
    BY <1>1, <1>2
  <2>2. /\ x \in Seq(S) /\ Len(x) = (IF 1 <= Len(m) THEN Len(m) - 1 + 1 ELSE 0)
        /\ \A i \in 1 .. Len(m) - 1 + 1 : x[i] = b[1 + i - 1]
    BY <2>1, SubSeqProperties
  <2>3. QED
    BY <1>2, <2>2
<1>4. /\ y \in Seq(S) /\ Len(y) = Len(r)
      /\ \A i \in 1 .. Len(r) : y[i] = b[Len(m) + i]
  <2>. DEFINE k == Len(m) + 1
              l == Len(b)
  <2>1. k \in Int /\ l \in Int /\ \A i \in k .. l : b[i] \in S
    BY <1>1, <1>2
  <2>2. /\ SubSeq(b, k, l) \in Seq(S) /\ Len(SubSeq(b, k, l)) = (IF k <= l THEN l - k + 1 ELSE 0)
        /\ \A i \in 1 .. l - k + 1 : SubSeq(b, k, l)[i] = b[k + i - 1]
    <3>. HIDE DEF k, l
    <3>1. QED
      BY <2>1, SubSeqProperties
  <2>3. l - k + 1 = Len(r) /\ \A i \in 1 .. Len(r) : k + i - 1 = Len(m) + i
    BY <1>1, <1>2
  <2>4. QED
    BY <1>1, <1>2, <2>2, <2>3
<1>. HIDE DEF x, y
<1>5. \A i \in 1 .. Len(m) : x[i] = m[i]
  BY <1>1, <1>2, <1>3
<1>6. \A i \in 1 .. Len(r) : y[i] = r[i]
  BY <1>1, <1>2, <1>4
<1>7. x = m
  BY <1>3, <1>5, SeqEqual
<1>8. y = r
  BY <1>4, <1>6, SeqEqual
<1>9. QED
  BY <1>1, <1>2, <1>7, <1>8 DEF b, x, y

(* The first message of a property with one message is that.               *)
LEMMA FirstMessageOf ==
  ASSUME NEW m \in Messages
  PROVE  FirstMessage(m) = m
<1>1. m \in Seq(Bytes) /\ m # <<>> /\ \A k \in 1 .. Len(m) : m[k] \in {m[1]}
  BY MessageElements
<1>2. Select(m, {m[1]}) = m
  BY <1>1, SelectAll
<1>3. QED
  BY <1>1, <1>2 DEF FirstMessage

(* Letters added and taken away in the history.                            *)
LEMMA HistoryAppend ==
  ASSUME NEW r \in Seq(Seq(Bytes)), NEW w \in Seq(Letter), NEW l \in Letter
  PROVE  r \o Mapped(MessageOf, Append(w, l)) = Append(r \o Mapped(MessageOf, w), l.message)
<1>. DEFINE q == Mapped(MessageOf, w)
            m == l.message
            B == Seq(Bytes)
<1>1. q \in Seq(B) /\ m \in B
  BY MessageOfOn, MappedElements, LetterFields, MessageElements
<1>2. Mapped(MessageOf, Append(w, l)) = Append(q, m)
  BY MessageOfOn, MappedAppend
<1>. HIDE DEF q, m, B
<1>3. r \o Append(q, m) = Append(r \o q, m)
  <2>. DEFINE p == r \o q
  <2>1. <<m>> \in Seq(B) /\ r \in Seq(B)
    BY <1>1 DEF B
  <2>2. p \in Seq(B)
    BY <1>1, <2>1, ConcatProperties
  <2>3. p \o <<m>> = r \o (q \o <<m>>)
    BY <1>1, <2>1, ConcatAssociative
  <2>. HIDE DEF p
  <2>4. Append(q, m) = q \o <<m>> /\ Append(p, m) = p \o <<m>>
    BY <1>1, <2>2, AppendIsConcat
  <2>5. QED
    BY <2>3, <2>4 DEF p
<1>4. QED
  BY <1>2, <1>3 DEF q, m

LEMMA HistoryTail ==
  ASSUME NEW r \in Seq(Seq(Bytes)), NEW w \in Seq(Letter), w # <<>>
  PROVE  r \o Mapped(MessageOf, w) = Append(r, Head(w).message) \o Mapped(MessageOf, Tail(w))
<1>. DEFINE q == Mapped(MessageOf, w)
            t == Mapped(MessageOf, Tail(w))
            m == Head(w).message
            B == Seq(Bytes)
            h == <<m>>
<1>1. Head(w) \in Letter /\ Tail(w) \in Seq(Letter)
  BY HeadTailProperties
<1>2. q \in Seq(B) /\ q # <<>> /\ Head(q) = m /\ Tail(q) = t
  <2>1. MapOn(MessageOf, Letter, B) /\ MessageOf[Head(w)] = m
    BY <1>1, MessageOfOn
  <2>2. q \in Seq(B)
    BY <2>1, MappedElements
  <2>3. q # <<>> /\ Head(q) = MessageOf[Head(w)] /\ Tail(q) = t
    BY <2>1, MappedHeadTail
  <2>4. QED
    BY <2>1, <2>2, <2>3
<1>. HIDE DEF q, t, m, B
<1>3. h \in Seq(B) /\ t \in Seq(B) /\ q = h \o t /\ m \in B
  BY <1>2, HeadThenTail
<1>4. r \in Seq(B)
  BY DEF B
<1>5. Append(r, m) = r \o h
  BY <1>3, <1>4, AppendIsConcat
<1>6. (r \o h) \o t = r \o (h \o t)
  <2>. HIDE DEF h
  <2>1. QED
    BY <1>3, <1>4, ConcatAssociative
<1>7. QED
  <2>. HIDE DEF h
  <2>1. QED
    BY <1>3, <1>5, <1>6 DEF q, t, m

-----------------------------------------------------------------------------
(* The invariant.                                                          *)

SendingTypes == [connect_id : Connections, atom : Names, message : Messages]

TypeOK ==
  /\ toServer \in BOOLEAN
  /\ sequence \in 0 .. LastName + 1
  /\ sending = Nobody \/ sending \in SendingTypes
  /\ properties \in [Connections -> [Names -> Seq(Bytes)]]
  /\ events \in [Connections -> Seq(Event)]
  /\ sent \in [Connections -> Seq(Seq(Bytes))]
  /\ received \in [Connections -> Seq(Seq(Bytes))]

(* The connections of which anything is promised.                          *)
Clear == Connections \ Spoilt

(* The bytes that were put into a property and are not announced yet.      *)
Coming(c, a) ==
  IF sending.connect_id = c /\ sending.atom = a THEN sending.message ELSE <<>>

Waiting(c, w) == events[c] = Mapped(EventOf, w)

History(c, w) == sent[c] = received[c] \o Mapped(MessageOf, w)

Stored(c, w) == \A a \in Names : properties[c][a] = Under(a, w) \o Coming(c, a)

(* Of requests no two are under one name.                                  *)
Single(c, w) ==
  toServer =>
    \A n \in 1 .. Len(w) :
      w[n].long =>
        /\ \A k \in 1 .. Len(w) : w[k].long /\ w[k].atom = w[n].atom => k = n
        /\ ~(sending.connect_id = c /\ sending.atom = w[n].atom)

Carries(c, w) ==
  /\ w \in Seq(Letter)
  /\ Waiting(c, w)
  /\ History(c, w)
  /\ Stored(c, w)
  /\ Single(c, w)

Carried(c) == \E w : Carries(c, w)

Delivered == \A c \in Clear : Carried(c)

-----------------------------------------------------------------------------
(* Type correctness.                                                       *)

LEMMA EventFields ==
  ASSUME NEW e \in Event
  PROVE  /\ e.format = 8 => e.message \in Seq(Bytes)
         /\ e.format = 32 => e.length \in Nat /\ e.atom \in Names
BY DEF Event

LEMMA MessageType ==
  ASSUME TypeOK, NEW c \in Connections, NEW length \in Lengths
  PROVE  Message(c, length) \in Messages /\ Len(Message(c, length)) = length
<1>. DEFINE m == Message(c, length)
            b == <<c, Len(sent[c]) + 1>>
<1>1. length \in Nat \ {0}
  BY NumbersAssumption
<1>2. b \in Bytes
  <2>1. sent[c] \in Seq(Seq(Bytes))
    BY DEF TypeOK
  <2>2. Len(sent[c]) \in Nat
    BY <2>1, LenProperties
  <2>3. QED
    BY <2>2 DEF Bytes
<1>. HIDE DEF b
<1>3. [k \in 1 .. length |-> b] \in Seq(Bytes) /\ Len([k \in 1 .. length |-> b]) = length
  BY <1>1, <1>2, IsASeq
<1>4. m = [k \in 1 .. length |-> b]
  BY DEF Message, b
<1>5. m \in Seq(Bytes) /\ Len(m) = length
  BY <1>3, <1>4
<1>6. m # <<>>
  BY <1>1, <1>5, EmptySeq
<1>7. \A k \in 1 .. Len(m) : m[k] = m[1]
  <2>1. 1 \in 1 .. length
    BY <1>1
  <2>2. \A k \in 1 .. length : m[k] = b
    BY <1>4, Zenon
  <2>3. QED
    BY <1>5, <2>1, <2>2
<1>8. QED
  BY <1>5, <1>6, <1>7 DEF Messages

LEMMA TypeInit == Init => TypeOK
<1>1. SUFFICES ASSUME Init PROVE TypeOK
  OBVIOUS
<1>2. <<>> \in Seq(Bytes) /\ <<>> \in Seq(Event) /\ <<>> \in Seq(Seq(Bytes))
  BY EmptySeq
<1>3. 0 \in 0 .. LastName + 1
  BY NumbersAssumption
<1>4. QED
  BY <1>1, <1>2, <1>3 DEF Init, TypeOK

LEMMA TypeSendEvent ==
  ASSUME TypeOK, NEW c \in Connections, NEW e \in Event, NEW m \in Seq(Bytes), SendEvent(c, e, m)
  PROVE  /\ toServer' \in BOOLEAN
         /\ events' \in [Connections -> Seq(Event)]
         /\ sent' \in [Connections -> Seq(Seq(Bytes))]
         /\ received' \in [Connections -> Seq(Seq(Bytes))]
<1>1. events[c] \in Seq(Event) /\ sent[c] \in Seq(Seq(Bytes))
  BY DEF TypeOK
<1>2. Append(events[c], e) \in Seq(Event) /\ Append(sent[c], m) \in Seq(Seq(Bytes))
  BY <1>1, AppendProperties
<1>3. QED
  BY <1>2 DEF SendEvent, TypeOK

LEMMA TypePut ==
  ASSUME TypeOK, NEW c \in Connections, NEW a \in Names, NEW m \in Messages,
         PutInProperty(c, a, m), sequence' \in 0 .. LastName + 1
  PROVE  TypeOK'
<1>1. m \in Seq(Bytes) /\ properties[c][a] \in Seq(Bytes)
  BY MessageElements DEF TypeOK
<1>2. properties[c][a] \o m \in Seq(Bytes)
  BY <1>1, ConcatProperties
<1>3. properties' \in [Connections -> [Names -> Seq(Bytes)]]
  <2>1. properties' = [properties EXCEPT ![c][a] = properties[c][a] \o m]
    BY DEF PutInProperty, XChangeProperty
  <2>2. QED
    BY <1>2, <2>1 DEF TypeOK
<1>4. sending' \in SendingTypes
  BY DEF PutInProperty, SendingTypes
<1>5. QED
  BY <1>3, <1>4 DEF PutInProperty, TypeOK

LEMMA TypeTake ==
  ASSUME TypeOK, NEW c \in Connections, events[c] # <<>>, NEW m \in Seq(Bytes), Take(c, m),
         properties' \in [Connections -> [Names -> Seq(Bytes)]]
  PROVE  TypeOK'
<1>1. events[c] \in Seq(Event) /\ received[c] \in Seq(Seq(Bytes))
  BY DEF TypeOK
<1>2. Tail(events[c]) \in Seq(Event) /\ Append(received[c], m) \in Seq(Seq(Bytes))
  BY <1>1, HeadTailProperties, AppendProperties
<1>3. events' \in [Connections -> Seq(Event)]
  BY <1>2 DEF Take, TypeOK
<1>4. received' \in [Connections -> Seq(Seq(Bytes))]
  BY <1>2 DEF Take, TypeOK
<1>5. QED
  BY <1>3, <1>4 DEF Take, TypeOK

LEMMA SequenceType ==
  ASSUME TypeOK
  PROVE  MakeNewAtom \in Names /\ NextSequence \in 0 .. LastName + 1
BY NumbersAssumption DEF TypeOK, MakeNewAtom, NextSequence, Names

LEMMA SubSeqType ==
  ASSUME NEW b \in Seq(Bytes), NEW n \in 0 .. Len(b)
  PROVE  SubSeq(b, 1, n) \in Seq(Bytes) /\ SubSeq(b, n + 1, Len(b)) \in Seq(Bytes)
<1>. DEFINE k == n + 1
            l == Len(b)
<1>1. /\ l \in Nat /\ n \in Int /\ k \in Int /\ l \in Int /\ 1 \in Int
      /\ \A i \in 1 .. Len(b) : b[i] \in Bytes
  BY LenProperties, ElementOfSeq
<1>2. (\A i \in 1 .. n : b[i] \in Bytes) /\ (\A i \in k .. l : b[i] \in Bytes)
  BY <1>1
<1>3. SubSeq(b, 1, n) \in Seq(Bytes)
  BY <1>1, <1>2, SubSeqProperties
<1>. HIDE DEF k, l
<1>4. SubSeq(b, k, l) \in Seq(Bytes)
  BY <1>1, <1>2, SubSeqProperties
<1>5. QED
  BY <1>3, <1>4 DEF k, l

LEMMA TypeReceive ==
  ASSUME TypeOK, NEW c \in Connections, Receive(c)
  PROVE  TypeOK'
<1>. DEFINE e == Head(events[c])
            b == properties[c][e.atom]
<1>1. events[c] \in Seq(Event) /\ events[c] # <<>>
  BY DEF TypeOK, Receive, ReceiveShort, ClientReceiveLong, ReadXIMMessage
<1>2. e \in Event
  BY <1>1, HeadTailProperties
<1>3. CASE ReceiveShort(c)
  <2>1. e.message \in Seq(Bytes)
    BY <1>2, <1>3, EventFields DEF ReceiveShort
  <2>2. properties' \in [Connections -> [Names -> Seq(Bytes)]]
    BY <1>3 DEF ReceiveShort, TypeOK
  <2>3. Take(c, e.message)
    BY <1>3 DEF ReceiveShort
  <2>4. QED
    BY <1>1, <2>1, <2>2, <2>3, TypeTake
<1>4. ASSUME e.format = 32, NEW m \in Seq(Bytes), NEW r \in Seq(Bytes), Take(c, m),
             properties' = [properties EXCEPT ![c][e.atom] = r]
      PROVE  TypeOK'
  <2>1. e.atom \in Names
    BY <1>2, <1>4, EventFields
  <2>2. properties' \in [Connections -> [Names -> Seq(Bytes)]]
    BY <1>4, <2>1 DEF TypeOK
  <2>3. QED
    BY <1>1, <1>4, <2>2, TypeTake
<1>5. CASE ClientReceiveLong(c)
  <2>. DEFINE n == IF e.length < Len(b) THEN e.length ELSE Len(b)
  <2>1. e.format = 32
    BY <1>5 DEF ClientReceiveLong
  <2>2. e.length \in Nat /\ e.atom \in Names
    BY <1>2, <2>1, EventFields
  <2>3. b \in Seq(Bytes)
    BY <2>2 DEF TypeOK
  <2>4. n \in 0 .. Len(b)
    BY <2>2, <2>3, LenProperties
  <2>5. /\ properties' = [properties EXCEPT ![c][e.atom] = SubSeq(b, n + 1, Len(b))]
        /\ Take(c, SubSeq(b, 1, n))
    BY <1>5, Zenon DEF ClientReceiveLong
  <2>6. SubSeq(b, 1, n) \in Seq(Bytes) /\ SubSeq(b, n + 1, Len(b)) \in Seq(Bytes)
    <3>. HIDE DEF n, b
    <3>1. QED
      BY <2>3, <2>4, SubSeqType
  <2>. HIDE DEF n, b, e
  <2>7. QED
    BY <1>4, <2>1, <2>5, <2>6
<1>6. CASE ReadXIMMessage(c)
  <2>1. e.format = 32
    BY <1>6 DEF ReadXIMMessage
  <2>2. e.length \in Nat /\ e.atom \in Names
    BY <1>2, <2>1, EventFields
  <2>3. b \in Seq(Bytes)
    BY <2>2 DEF TypeOK
  <2>4. /\ properties' = [properties EXCEPT ![c][e.atom] = Deleted(b, e.length)]
        /\ Take(c, FirstMessage(b))
    BY <1>6 DEF ReadXIMMessage
  <2>5. Deleted(b, e.length) \in Seq(Bytes)
    BY <2>3, EmptySeq DEF Deleted
  <2>6. FirstMessage(b) \in Seq(Bytes)
    BY <2>3, SelectType, EmptySeq DEF FirstMessage
  <2>. HIDE DEF b, e
  <2>7. QED
    BY <1>4, <2>1, <2>4, <2>5, <2>6
<1>7. QED
  BY <1>3, <1>5, <1>6 DEF Receive

LEMMA TypeNext == TypeOK /\ [Next]_vars => TypeOK'
<1>1. SUFFICES ASSUME TypeOK, [Next]_vars PROVE TypeOK'
  OBVIOUS
<1>2. ASSUME NEW c \in Connections, SendShort(c) PROVE TypeOK'
  <2>1. PICK length \in Lengths : SendEvent(c, Short(Message(c, length)), Message(c, length))
    BY <1>2 DEF SendShort
  <2>2. Message(c, length) \in Seq(Bytes)
    BY <1>1, MessageType, MessageElements
  <2>3. Short(Message(c, length)) \in Event
    BY <2>2 DEF Short, Event
  <2>4. /\ toServer' \in BOOLEAN
        /\ events' \in [Connections -> Seq(Event)]
        /\ sent' \in [Connections -> Seq(Seq(Bytes))]
        /\ received' \in [Connections -> Seq(Seq(Bytes))]
    BY <1>1, <2>1, <2>2, <2>3, TypeSendEvent
  <2>5. QED
    BY <1>1, <1>2, <2>4 DEF SendShort, TypeOK
<1>3. ASSUME NEW c \in Connections, SendLong(c) PROVE TypeOK'
  <2>1. PICK length \in Lengths : PutInProperty(c, MakeNewAtom, Message(c, length))
    BY <1>3 DEF SendLong
  <2>2. sequence' \in 0 .. LastName + 1
    BY <1>1, <1>3, SequenceType DEF SendLong
  <2>3. QED
    BY <1>1, <2>1, <2>2, MessageType, SequenceType, TypePut
<1>4. ASSUME NEW c \in Connections, ClientSendLong(c) PROVE TypeOK'
  <2>1. PICK length \in Lengths, a \in Names : PutInProperty(c, a, Message(c, length))
    BY <1>4 DEF ClientSendLong
  <2>2. sequence' \in 0 .. LastName + 1
    BY <1>1, <1>4 DEF ClientSendLong, TypeOK
  <2>3. QED
    BY <1>1, <2>1, <2>2, MessageType, TypePut
<1>5. CASE Announce
  <2>1. sending \in SendingTypes
    BY <1>1, <1>5 DEF Announce, TypeOK
  <2>2. sending.connect_id \in Connections /\ sending.atom \in Names /\ sending.message \in Messages
    BY <2>1 DEF SendingTypes
  <2>3. sending.message \in Seq(Bytes) /\ Len(sending.message) \in Nat
    BY <2>2, MessageElements
  <2>4. Long(Len(sending.message), sending.atom) \in Event
    BY <2>2, <2>3 DEF Long, Event
  <2>5. /\ toServer' \in BOOLEAN
        /\ events' \in [Connections -> Seq(Event)]
        /\ sent' \in [Connections -> Seq(Seq(Bytes))]
        /\ received' \in [Connections -> Seq(Seq(Bytes))]
    BY <1>1, <1>5, <2>2, <2>3, <2>4, TypeSendEvent DEF Announce
  <2>6. QED
    BY <1>1, <1>5, <2>5 DEF Announce, TypeOK
<1>6. CASE UNCHANGED vars
  BY <1>1, <1>6 DEF vars, TypeOK
<1>7. QED
  BY <1>1, <1>2, <1>3, <1>4, <1>5, <1>6, TypeReceive DEF Next

-----------------------------------------------------------------------------
(* Steps and letters.                                                      *)

LEMMA ClearSteps ==
  ASSUME toServer' = toServer, crowded \subseteq crowded', NEW d \in Clear'
  PROVE  d \in Clear /\ d \in Connections
BY DEF Clear, Spoilt

(* A step that is about another connection.                                *)
LEMMA Untouched ==
  ASSUME NEW d, NEW w, Carries(d, w), toServer' = toServer,
         events'[d] = events[d], sent'[d] = sent[d], received'[d] = received[d],
         \A a \in Names : properties'[d][a] = properties[d][a],
         sending' = sending \/ (sending.connect_id # d /\ sending'.connect_id # d)
  PROVE  Carries(d, w)'
<1>1. Waiting(d, w)' /\ History(d, w)'
  BY DEF Carries, Waiting, History
<1>2. \A a : Coming(d, a)' = Coming(d, a)
  BY DEF Coming
<1>3. Stored(d, w)'
  BY <1>2 DEF Carries, Stored
<1>4. Single(d, w)'
  BY DEF Carries, Single
<1>5. QED
  BY <1>1, <1>3, <1>4 DEF Carries

LEMMA NothingComing ==
  ASSUME sending = Nobody, NEW c \in Connections
  PROVE  /\ sending.connect_id # c
         /\ \A a : Coming(c, a) = <<>>
BY ConnectionsAssumption DEF Nobody, Coming

LEMMA ComingType ==
  ASSUME TypeOK
  PROVE  \A c, a : Coming(c, a) \in Seq(Bytes)
<1>1. <<>> \in Seq(Bytes)
  BY EmptySeq
<1>2. CASE sending = Nobody
  <2>1. sending.message = <<>>
    BY <1>2 DEF Nobody
  <2>2. QED
    BY <1>1, <2>1 DEF Coming
<1>3. CASE sending \in SendingTypes
  <2>1. sending.message \in Messages
    BY <1>3 DEF SendingTypes
  <2>2. sending.message \in Seq(Bytes)
    BY <2>1, MessageElements
  <2>3. QED
    BY <1>1, <2>2 DEF Coming
<1>4. QED
  BY <1>2, <1>3 DEF TypeOK

(* The waiting events and the letters.                                     *)
LEMMA WaitingElements ==
  ASSUME NEW c \in Connections, NEW w, Carries(c, w)
  PROVE  /\ w \in Seq(Letter) /\ Len(w) \in Nat /\ Len(events[c]) = Len(w)
         /\ \A n \in 1 .. Len(w) : w[n] \in Letter /\ events[c][n] = EventOf[w[n]]
<1>1. w \in Seq(Letter) /\ events[c] = Mapped(EventOf, w)
  BY DEF Carries, Waiting
<1>2. Len(w) \in Nat /\ \A n \in 1 .. Len(w) : w[n] \in Letter
  BY <1>1, LenProperties, ElementOfSeq
<1>3. Len(Mapped(EventOf, w)) = Len(w) /\ \A n \in 1 .. Len(w) : Mapped(EventOf, w)[n] = EventOf[w[n]]
  BY <1>1, EventOfOn, MappedElements
<1>4. QED
  BY <1>1, <1>2, <1>3

LEMMA FirstLetter ==
  ASSUME NEW c \in Connections, NEW w, Carries(c, w), events[c] # <<>>
  PROVE  /\ w \in Seq(Letter) /\ w # <<>> /\ Head(w) \in Letter /\ Tail(w) \in Seq(Letter)
         /\ Head(events[c]) = EventOf[Head(w)]
         /\ Tail(events[c]) = Mapped(EventOf, Tail(w))
<1>1. w \in Seq(Letter) /\ events[c] = Mapped(EventOf, w)
  BY DEF Carries, Waiting
<1>2. w # <<>>
  BY <1>1, MappedEmpty
<1>3. Head(w) \in Letter /\ Tail(w) \in Seq(Letter)
  BY <1>1, <1>2, HeadTailProperties
<1>4. Head(Mapped(EventOf, w)) = EventOf[Head(w)] /\ Tail(Mapped(EventOf, w)) = Mapped(EventOf, Tail(w))
  BY <1>1, <1>2, EventOfOn, MappedHeadTail
<1>5. QED
  BY <1>1, <1>2, <1>3, <1>4

(* Of the letters in front of which one is under a name the others are not. *)
LEMMA AfterFirst ==
  ASSUME NEW c \in Connections, NEW w \in Seq(Letter), w # <<>>, Single(c, w), toServer, Head(w).long
  PROVE  /\ Under(Head(w).atom, Tail(w)) = <<>>
         /\ Coming(c, Head(w).atom) = <<>>
<1>. DEFINE a == Head(w).atom
            t == Tail(w)
<1>1. /\ Len(w) \in Nat \ {0} /\ Head(w) = w[1] /\ t \in Seq(Letter) /\ Len(t) = Len(w) - 1
      /\ \A n \in 1 .. Len(t) : t[n] = w[n + 1]
  BY HeadTailProperties, LenProperties, EmptySeq
<1>2. 1 \in 1 .. Len(w) /\ w[1].long /\ a = w[1].atom
  BY <1>1
<1>3. /\ \A k \in 1 .. Len(w) : w[k].long /\ w[k].atom = a => k = 1
      /\ ~(sending.connect_id = c /\ sending.atom = a)
  BY <1>2 DEF Single
<1>. HIDE DEF a, t
<1>4. \A n \in 1 .. Len(t) : ~IsUnder(t[n], a)
  <2>1. SUFFICES ASSUME NEW n \in 1 .. Len(t) PROVE ~IsUnder(t[n], a)
    OBVIOUS
  <2>2. n + 1 \in 1 .. Len(w) /\ n + 1 # 1
    BY <1>1
  <2>3. QED
    BY <1>1, <1>3, <2>2 DEF IsUnder
<1>5. Under(a, t) = <<>>
  BY <1>1, <1>4, UnderNone
<1>6. QED
  BY <1>3, <1>5 DEF a, t, Coming

(* A letter is added.                                                      *)
LEMMA AddLetter ==
  ASSUME TypeOK, NEW c \in Connections, NEW w, Carries(c, w), NEW l \in Letter,
         SendEvent(c, EventOf[l], l.message)
  PROVE  /\ Append(w, l) \in Seq(Letter)
         /\ Waiting(c, Append(w, l))'
         /\ History(c, Append(w, l))'
<1>1. w \in Seq(Letter) /\ Waiting(c, w) /\ History(c, w)
  BY DEF Carries
<1>2. Append(w, l) \in Seq(Letter)
  BY <1>1, AppendProperties
<1>3. /\ events'[c] = Append(events[c], EventOf[l])
      /\ sent'[c] = Append(sent[c], l.message)
      /\ received'[c] = received[c]
  BY DEF SendEvent, TypeOK
<1>4. Mapped(EventOf, Append(w, l)) = Append(Mapped(EventOf, w), EventOf[l])
  BY <1>1, EventOfOn, MappedAppend
<1>5. events'[c] = Mapped(EventOf, Append(w, l))
  BY <1>1, <1>3, <1>4 DEF Waiting
<1>6. received[c] \in Seq(Seq(Bytes))
  BY DEF TypeOK
<1>7. received[c] \o Mapped(MessageOf, Append(w, l)) = Append(received[c] \o Mapped(MessageOf, w), l.message)
  <2>. DEFINE r == received[c]
  <2>1. r \in Seq(Seq(Bytes))
    BY <1>6
  <2>. HIDE DEF r
  <2>2. r \o Mapped(MessageOf, Append(w, l)) = Append(r \o Mapped(MessageOf, w), l.message)
    BY <1>1, <2>1, HistoryAppend
  <2>3. QED
    BY <2>2 DEF r
<1>8. sent'[c] = received'[c] \o Mapped(MessageOf, Append(w, l))
  BY <1>1, <1>3, <1>7 DEF History
<1>9. QED
  BY <1>2, <1>5, <1>8 DEF Waiting, History

(* Of what a letter after others is one.                                   *)
LEMMA AppendedLetter ==
  ASSUME NEW w \in Seq(Letter), NEW l \in Letter
  PROVE  /\ Len(Append(w, l)) = Len(w) + 1 /\ Len(w) \in Nat
         /\ \A n \in 1 .. Len(w) + 1 :
              \/ n \in 1 .. Len(w) /\ Append(w, l)[n] = w[n]
              \/ n = Len(w) + 1 /\ Append(w, l)[n] = l
<1>1. /\ Len(Append(w, l)) = Len(w) + 1 /\ Len(w) \in Nat
      /\ \A n \in 1 .. Len(w) : Append(w, l)[n] = w[n]
      /\ Append(w, l)[Len(w) + 1] = l
  BY AppendProperties, LenProperties
<1>2. QED
  BY <1>1

LEMMA CarriesShort ==
  ASSUME TypeOK, NEW c \in Connections, NEW w, Carries(c, w), NEW m \in Messages,
         sending = Nobody, sending' = sending, properties' = properties,
         SendEvent(c, Short(m), m)
  PROVE  Carried(c)'
<1>. DEFINE l == [long |-> FALSE, atom |-> 0, message |-> m]
            t == Append(w, l)
<1>1. l \in Letter /\ l.message = m /\ l.long = FALSE
  BY NumbersAssumption DEF Letter, Names
<1>2. EventOf[l] = Short(m)
  BY <1>1, EventOfLetter
<1>. HIDE DEF l
<1>3. t \in Seq(Letter) /\ Waiting(c, t)' /\ History(c, t)'
  BY <1>1, <1>2, AddLetter
<1>4. w \in Seq(Letter) /\ Stored(c, w) /\ Single(c, w)
  BY DEF Carries
<1>5. Stored(c, t)'
  <2>1. \A a \in Names : Under(a, t) = Under(a, w)
    BY <1>1, <1>4, UnderAppend DEF IsUnder
  <2>2. \A a : Coming(c, a)' = Coming(c, a)
    BY DEF Coming
  <2>. HIDE DEF t
  <2>3. QED
    BY <1>4, <2>1, <2>2 DEF Stored
<1>6. Single(c, t)'
  <2>1. SUFFICES ASSUME toServer PROVE Single(c, t)'
    BY DEF Single, SendEvent
  <2>2. /\ Len(t) = Len(w) + 1 /\ Len(w) \in Nat
        /\ \A n \in 1 .. Len(w) + 1 :
             \/ n \in 1 .. Len(w) /\ t[n] = w[n]
             \/ n = Len(w) + 1 /\ t[n] = l
    BY <1>1, <1>4, AppendedLetter
  <2>. HIDE DEF t
  <2>3. ASSUME NEW n \in 1 .. Len(t), t[n].long PROVE n \in 1 .. Len(w) /\ t[n] = w[n]
    BY <1>1, <2>2, <2>3
  <2>4. QED
    BY <1>4, <2>1, <2>3 DEF Single
<1>7. QED
  BY <1>3, <1>5, <1>6 DEF Carries, Carried

LEMMA CarriesAnnounced ==
  ASSUME TypeOK, NEW c \in Connections, NEW w, Carries(c, w), Announce, sending.connect_id = c
  PROVE  Carried(c)'
<1>1. PICK l \in Letter : l.message = sending.message /\ l.long = TRUE /\ l.atom = sending.atom
  <2>1. sending \in SendingTypes
    BY DEF Announce, TypeOK
  <2>2. [long |-> TRUE, atom |-> sending.atom, message |-> sending.message] \in Letter
    BY <2>1 DEF SendingTypes, Letter
  <2>3. QED
    BY <2>2
<1>. DEFINE t == Append(w, l)
<1>2. EventOf[l] = Long(Len(sending.message), sending.atom)
  BY <1>1, EventOfLetter
<1>3. SendEvent(c, EventOf[l], l.message) /\ sending' = Nobody /\ properties' = properties
  BY <1>1, <1>2 DEF Announce
<1>4. t \in Seq(Letter) /\ Waiting(c, t)' /\ History(c, t)'
  BY <1>1, <1>3, AddLetter
<1>5. w \in Seq(Letter) /\ Stored(c, w) /\ Single(c, w)
  BY DEF Carries
<1>6. \A a : Coming(c, a)' = <<>>
  BY <1>3, ConnectionsAssumption DEF Nobody, Coming
<1>7. Stored(c, t)'
  <2>1. SUFFICES ASSUME NEW a \in Names PROVE properties'[c][a] = Under(a, t) \o <<>>
    BY <1>6 DEF Stored
  <2>2. properties[c][a] = Under(a, w) \o Coming(c, a)
    BY <1>5 DEF Stored
  <2>3. Under(a, t) = IF IsUnder(l, a) THEN Under(a, w) \o l.message ELSE Under(a, w)
    BY <1>1, <1>5, UnderAppend
  <2>4. Coming(c, a) = IF IsUnder(l, a) THEN l.message ELSE <<>>
    BY <1>1 DEF Coming, IsUnder
  <2>5. Under(a, w) \in Seq(Bytes) /\ Under(a, t) \in Seq(Bytes)
    BY <1>4, <1>5, UnderType
  <2>6. Under(a, w) \o <<>> = Under(a, w) /\ Under(a, t) \o <<>> = Under(a, t)
    BY <2>5, ConcatEmptySeq
  <2>. HIDE DEF t
  <2>7. QED
    BY <1>3, <2>2, <2>3, <2>4, <2>6
<1>8. Single(c, t)'
  <2>1. SUFFICES ASSUME toServer PROVE Single(c, t)'
    BY <1>3 DEF Single, SendEvent
  <2>2. /\ Len(t) = Len(w) + 1 /\ Len(w) \in Nat
        /\ \A n \in 1 .. Len(w) + 1 :
             \/ n \in 1 .. Len(w) /\ t[n] = w[n]
             \/ n = Len(w) + 1 /\ t[n] = l
    BY <1>1, <1>5, AppendedLetter
  <2>. HIDE DEF t
  <2>3. \A n \in 1 .. Len(w) : w[n].long => w[n].atom # l.atom
    BY <1>1, <1>5, <2>1 DEF Single
  <2>4. \A n, k \in 1 .. Len(w) : w[n].long /\ w[k].long /\ w[k].atom = w[n].atom => k = n
    BY <1>5, <2>1 DEF Single
  <2>5. sending'.connect_id # c
    BY <1>3, ConnectionsAssumption DEF Nobody
  <2>6. ASSUME NEW n \in 1 .. Len(t), t[n].long, NEW k \in 1 .. Len(t), t[k].long, t[k].atom = t[n].atom
        PROVE  k = n
    BY <1>1, <2>2, <2>3, <2>4, <2>6
  <2>7. QED
    BY <2>5, <2>6 DEF Single
<1>9. QED
  BY <1>4, <1>7, <1>8 DEF Carries, Carried

LEMMA CarriesPut ==
  ASSUME TypeOK, NEW c \in Connections, NEW w, Carries(c, w), NEW a \in Names, NEW m \in Messages,
         PutInProperty(c, a, m), c \in Clear'
  PROVE  Carried(c)'
<1>1. w \in Seq(Letter) /\ Waiting(c, w) /\ History(c, w) /\ Stored(c, w) /\ Single(c, w)
  BY DEF Carries
<1>2. /\ sending = Nobody
      /\ sending' = [connect_id |-> c, atom |-> a, message |-> m]
      /\ properties' = [properties EXCEPT ![c][a] = properties[c][a] \o m]
      /\ toServer' = toServer /\ events' = events /\ sent' = sent /\ received' = received
  BY DEF PutInProperty, XChangeProperty
<1>3. Waiting(c, w)' /\ History(c, w)'
  BY <1>1, <1>2 DEF Waiting, History
<1>4. Stored(c, w)'
  <2>1. SUFFICES ASSUME NEW b \in Names PROVE properties'[c][b] = Under(b, w) \o Coming(c, b)'
    BY DEF Stored
  <2>2. properties[c][b] = Under(b, w) \o <<>>
    BY <1>1, <1>2, NothingComing DEF Stored
  <2>3. Under(b, w) \in Seq(Bytes)
    BY <1>1, UnderType
  <2>4. Under(b, w) \o <<>> = Under(b, w)
    BY <2>3, ConcatEmptySeq
  <2>5. properties'[c][b] = IF b = a THEN properties[c][b] \o m ELSE properties[c][b]
    BY <1>2 DEF TypeOK
  <2>6. Coming(c, b)' = IF b = a THEN m ELSE <<>>
    BY <1>2 DEF Coming
  <2>7. QED
    BY <2>2, <2>4, <2>5, <2>6
<1>5. Single(c, w)'
  <2>1. SUFFICES ASSUME toServer PROVE Single(c, w)'
    BY <1>2 DEF Single
  <2>2. ~InUse(c, a)
    BY <1>2, <2>1 DEF Clear, Spoilt, PutInProperty
  <2>3. \A n \in 1 .. Len(w) : ~IsUnder(w[n], a)
    <3>1. SUFFICES ASSUME NEW n \in 1 .. Len(w), IsUnder(w[n], a) PROVE InUse(c, a)
      BY <2>2
    <3>2. Len(events[c]) = Len(w) /\ w[n] \in Letter /\ events[c][n] = EventOf[w[n]]
      BY WaitingElements
    <3>3. events[c][n].format = 32 /\ events[c][n].atom = a
      <4>. DEFINE l == w[n]
      <4>1. l \in Letter /\ l.long /\ l.atom = a /\ events[c][n] = EventOf[l]
        BY <3>1, <3>2 DEF IsUnder
      <4>. HIDE DEF l
      <4>2. events[c][n] = Long(Len(l.message), l.atom)
        BY <4>1, EventOfLetter
      <4>3. QED
        BY <4>1, <4>2 DEF Long
    <3>4. n \in DOMAIN events[c]
      <4>1. events[c] \in Seq(Event)
        BY DEF TypeOK
      <4>2. DOMAIN events[c] = 1 .. Len(events[c])
        BY <4>1, LenProperties
      <4>3. QED
        BY <3>2, <4>2
    <3>5. QED
      BY <3>3, <3>4 DEF InUse
  <2>4. QED
    BY <1>1, <1>2, <2>1, <2>3 DEF Single, IsUnder
<1>6. QED
  BY <1>1, <1>3, <1>4, <1>5 DEF Carries, Carried

(* The first letter is taken away.                                         *)
LEMMA CarriesTaken ==
  ASSUME TypeOK, NEW c \in Connections, NEW w, Carries(c, w), events[c] # <<>>,
         Take(c, Head(w).message),
         \A a \in Names : properties'[c][a] = Under(a, Tail(w)) \o Coming(c, a)
  PROVE  Carried(c)'
<1>. DEFINE t == Tail(w)
            m == Head(w).message
<1>1. w \in Seq(Letter) /\ Waiting(c, w) /\ History(c, w) /\ Single(c, w)
  BY DEF Carries
<1>2. /\ w # <<>> /\ Head(w) \in Letter /\ t \in Seq(Letter)
      /\ Tail(events[c]) = Mapped(EventOf, t)
  BY FirstLetter
<1>3. m # <<>>
  BY <1>2, LetterFields, MessageElements
<1>4. /\ events'[c] = Tail(events[c])
      /\ received'[c] = Append(received[c], m)
      /\ toServer' = toServer /\ sent' = sent /\ sending' = sending
  BY <1>3 DEF Take, TypeOK
<1>5. Waiting(c, t)'
  BY <1>2, <1>4 DEF Waiting
<1>6. History(c, t)'
  <2>1. received[c] \in Seq(Seq(Bytes))
    BY DEF TypeOK
  <2>. DEFINE r == received[c]
  <2>2. r \in Seq(Seq(Bytes))
    BY <2>1
  <2>. HIDE DEF r
  <2>3. r \o Mapped(MessageOf, w) = Append(r, Head(w).message) \o Mapped(MessageOf, Tail(w))
    BY <1>1, <1>2, <2>2, HistoryTail
  <2>4. QED
    BY <1>1, <1>4, <2>3 DEF History, r
<1>7. Stored(c, t)'
  <2>1. \A a : Coming(c, a)' = Coming(c, a)
    BY <1>4 DEF Coming
  <2>2. QED
    BY <2>1 DEF Stored
<1>8. Single(c, t)'
  <2>1. SUFFICES ASSUME toServer PROVE Single(c, t)'
    BY <1>4 DEF Single
  <2>2. /\ Len(w) \in Nat \ {0} /\ Len(t) = Len(w) - 1
        /\ \A n \in 1 .. Len(t) : t[n] = w[n + 1]
    BY <1>1, <1>2, HeadTailProperties, LenProperties, EmptySeq
  <2>. HIDE DEF t
  <2>3. \A n \in 1 .. Len(t) : n + 1 \in 1 .. Len(w) /\ t[n] = w[n + 1]
    BY <2>2
  <2>4. ASSUME NEW n \in 1 .. Len(t), t[n].long
        PROVE  /\ \A k \in 1 .. Len(t) : t[k].long /\ t[k].atom = t[n].atom => k = n
               /\ ~(sending.connect_id = c /\ sending.atom = t[n].atom)
    <3>1. /\ \A k \in 1 .. Len(w) : w[k].long /\ w[k].atom = w[n + 1].atom => k = n + 1
          /\ ~(sending.connect_id = c /\ sending.atom = w[n + 1].atom)
      BY <1>1, <2>1, <2>3, <2>4 DEF Single
    <3>2. ASSUME NEW k \in 1 .. Len(t), t[k].long, t[k].atom = t[n].atom PROVE k = n
      <4>1. k + 1 = n + 1
        BY <2>3, <3>1, <3>2
      <4>2. QED
        BY <2>2, <4>1
    <3>3. QED
      BY <2>3, <3>1, <3>2
  <2>5. QED
    BY <1>4, <2>4 DEF Single
<1>9. QED
  BY <1>2, <1>5, <1>6, <1>7, <1>8 DEF Carries, Carried

(* The other names, when the bytes of a letter are taken from its property. *)
LEMMA TakenFrom ==
  ASSUME TypeOK, NEW c \in Connections, NEW w, Carries(c, w), events[c] # <<>>, Head(w).long,
         NEW r,
         properties' = [properties EXCEPT ![c][Head(w).atom] = r],
         r = Under(Head(w).atom, Tail(w)) \o Coming(c, Head(w).atom)
  PROVE  \A a \in Names : properties'[c][a] = Under(a, Tail(w)) \o Coming(c, a)
<1>1. w \in Seq(Letter) /\ w # <<>> /\ Head(w) \in Letter /\ Stored(c, w)
  BY FirstLetter DEF Carries
<1>2. Head(w).atom \in Names
  BY <1>1, LetterFields
<1>3. SUFFICES ASSUME NEW a \in Names PROVE properties'[c][a] = Under(a, Tail(w)) \o Coming(c, a)
  OBVIOUS
<1>4. CASE a = Head(w).atom
  <2>1. properties'[c][a] = r
    BY <1>2, <1>4 DEF TypeOK
  <2>2. QED
    BY <1>4, <2>1
<1>5. CASE a # Head(w).atom
  <2>1. properties'[c][a] = properties[c][a]
    BY <1>2, <1>5 DEF TypeOK
  <2>2. ~IsUnder(Head(w), a)
    BY <1>5 DEF IsUnder
  <2>3. Under(a, w) = Under(a, Tail(w))
    BY <1>1, <2>2, UnderHeadTail
  <2>4. properties[c][a] = Under(a, w) \o Coming(c, a)
    BY <1>1 DEF Stored
  <2>5. QED
    BY <2>1, <2>3, <2>4
<1>6. QED
  BY <1>4, <1>5

(* What the property of the first letter holds.                            *)
LEMMA FirstBytes ==
  ASSUME TypeOK, NEW c \in Connections, NEW w, Carries(c, w), events[c] # <<>>,
         Head(events[c]).format = 32
  PROVE  /\ Head(w).long /\ Head(w).message \in Messages /\ Head(w).atom \in Names
         /\ Head(events[c]).atom = Head(w).atom
         /\ Head(events[c]).length = Len(Head(w).message)
         /\ Under(Head(w).atom, Tail(w)) \o Coming(c, Head(w).atom) \in Seq(Bytes)
         /\ properties[c][Head(w).atom]
              = Head(w).message \o (Under(Head(w).atom, Tail(w)) \o Coming(c, Head(w).atom))
<1>. DEFINE l == Head(w)
            t == Tail(w)
            a == l.atom
            m == l.message
            u == Under(a, t)
            k == Coming(c, a)
<1>1. /\ w \in Seq(Letter) /\ w # <<>> /\ l \in Letter /\ t \in Seq(Letter)
      /\ Head(events[c]) = EventOf[l]
      /\ Stored(c, w)
  BY FirstLetter DEF Carries
<1>2. a \in Names /\ m \in Messages /\ m \in Seq(Bytes) /\ l.long \in BOOLEAN
  BY <1>1, LetterFields, MessageElements
<1>3. Head(events[c]) = IF l.long THEN Long(Len(m), a) ELSE Short(m)
  BY <1>1, EventOfLetter
<1>4. l.long
  BY <1>3 DEF Short
<1>5. Head(events[c]).atom = a /\ Head(events[c]).length = Len(m)
  BY <1>3, <1>4 DEF Long
<1>6. u \in Seq(Bytes)
  BY <1>1, UnderType
<1>7. k \in Seq(Bytes)
  BY ComingType
<1>8. Under(a, w) = m \o u
  <2>1. IsUnder(l, a)
    BY <1>4 DEF IsUnder
  <2>2. QED
    BY <1>1, <2>1, UnderHeadTail
<1>9. properties[c][a] = Under(a, w) \o k
  BY <1>1, <1>2 DEF Stored
<1>10. u \o k \in Seq(Bytes) /\ (m \o u) \o k = m \o (u \o k)
  <2>. HIDE DEF m, u, k
  <2>1. QED
    BY <1>2, <1>6, <1>7, ConcatProperties, ConcatAssociative
<1>11. properties[c][a] = m \o (u \o k)
  <2>. HIDE DEF m, u, k, a
  <2>1. QED
    BY <1>8, <1>9, <1>10
<1>12. QED
  BY <1>2, <1>4, <1>5, <1>10, <1>11

LEMMA CarriesReceived ==
  ASSUME TypeOK, NEW c \in Connections, NEW w, Carries(c, w), Receive(c)
  PROVE  Carried(c)'
<1>. DEFINE l == Head(w)
            t == Tail(w)
            m == l.message
            u == Under(l.atom, t)
            k == Coming(c, l.atom)
            e == Head(events[c])
            b == properties[c][e.atom]
<1>1. events[c] # <<>>
  BY DEF Receive, ReceiveShort, ClientReceiveLong, ReadXIMMessage
<1>2. /\ w \in Seq(Letter) /\ w # <<>> /\ l \in Letter /\ t \in Seq(Letter)
      /\ e = EventOf[l] /\ Stored(c, w) /\ Single(c, w)
  BY <1>1, FirstLetter DEF Carries
<1>3. CASE ReceiveShort(c)
  <2>1. e = IF l.long THEN Long(Len(m), l.atom) ELSE Short(m)
    BY <1>2, EventOfLetter
  <2>2. e.format = 8
    BY <1>3 DEF ReceiveShort
  <2>3. ~l.long
    BY <2>1, <2>2 DEF Long
  <2>4. e.message = m
    BY <2>1, <2>3 DEF Short
  <2>5. Take(c, m) /\ properties' = properties
    BY <1>3, <2>4 DEF ReceiveShort
  <2>6. \A a \in Names : properties'[c][a] = Under(a, t) \o Coming(c, a)
    <3>1. \A a \in Names : Under(a, w) = Under(a, t)
      BY <1>2, <2>3, UnderHeadTail DEF IsUnder
    <3>2. QED
      BY <1>2, <2>5, <3>1 DEF Stored
  <2>7. QED
    BY <1>1, <2>5, <2>6, CarriesTaken
<1>4. ASSUME e.format = 32, Take(c, m),
             properties' = [properties EXCEPT ![c][l.atom] = u \o k]
      PROVE  Carried(c)'
  <2>1. l.long
    BY <1>1, <1>4, FirstBytes
  <2>2. \A a \in Names : properties'[c][a] = Under(a, t) \o Coming(c, a)
    <3>. DEFINE r == u \o k
    <3>1. properties' = [properties EXCEPT ![c][l.atom] = r] /\ r = u \o k
      BY <1>4
    <3>. HIDE DEF r
    <3>2. PICK x : x = r
      OBVIOUS
    <3>3. QED
      BY <1>1, <2>1, <3>1, TakenFrom
  <2>3. QED
    BY <1>1, <1>4, <2>2, CarriesTaken
<1>5. ASSUME e.format = 32
      PROVE  /\ e.atom = l.atom /\ e.length = Len(m) /\ m \in Messages /\ l.long
             /\ m \in Seq(Bytes) /\ Len(m) \in Nat \ {0}
             /\ u \o k \in Seq(Bytes) /\ b = m \o (u \o k)
  <2>1. /\ e.atom = l.atom /\ e.length = Len(m) /\ m \in Messages /\ l.long
        /\ u \o k \in Seq(Bytes) /\ properties[c][l.atom] = m \o (u \o k)
    BY <1>1, <1>5, FirstBytes
  <2>2. QED
    BY <2>1, MessageElements
<1>6. CASE ClientReceiveLong(c)
  <2>. DEFINE n == IF e.length < Len(b) THEN e.length ELSE Len(b)
  <2>1. e.format = 32
    BY <1>6 DEF ClientReceiveLong
  <2>2. /\ properties' = [properties EXCEPT ![c][e.atom] = SubSeq(b, n + 1, Len(b))]
        /\ Take(c, SubSeq(b, 1, n))
    BY <1>6, Zenon DEF ClientReceiveLong
  <2>. DEFINE r == u \o k
  <2>3. /\ e.atom = l.atom /\ e.length = Len(m) /\ m \in Seq(Bytes) /\ r \in Seq(Bytes)
        /\ b = m \o r /\ Len(m) \in Nat
    BY <1>5, <2>1
  <2>. HIDE DEF m, u, k, b, e, l, r
  <2>4. /\ Len(m) <= Len(m \o r)
        /\ SubSeq(m \o r, 1, Len(m)) = m
        /\ SubSeq(m \o r, Len(m) + 1, Len(m \o r)) = r
    BY <2>3, SplitConcat
  <2>5. Len(b) \in Nat /\ Len(m) <= Len(b)
    <3>1. m \o r \in Seq(Bytes)
      BY <2>3, ConcatProperties
    <3>2. Len(m \o r) \in Nat
      BY <3>1, LenProperties
    <3>3. QED
      BY <2>3, <2>4, <3>2
  <2>6. n = Len(m)
    BY <2>3, <2>5
  <2>7. SubSeq(b, 1, n) = m /\ SubSeq(b, n + 1, Len(b)) = r
    BY <2>3, <2>4, <2>6
  <2>8. Take(c, m) /\ properties' = [properties EXCEPT ![c][l.atom] = r]
    BY <2>2, <2>3, <2>7
  <2>9. QED
    BY <1>4, <2>1, <2>8 DEF r, m
<1>7. CASE ReadXIMMessage(c)
  <2>1. e.format = 32 /\ toServer
    BY <1>7 DEF ReadXIMMessage
  <2>2. /\ properties' = [properties EXCEPT ![c][e.atom] = Deleted(b, e.length)]
        /\ Take(c, FirstMessage(b))
    BY <1>7 DEF ReadXIMMessage
  <2>3. /\ e.atom = l.atom /\ e.length = Len(m) /\ m \in Messages /\ l.long /\ m \in Seq(Bytes)
        /\ Len(m) \in Nat \ {0} /\ b = m \o (u \o k)
    BY <1>5, <2>1
  <2>4. u = <<>> /\ k = <<>>
    BY <1>2, <2>1, <2>3, AfterFirst
  <2>. HIDE DEF m, u, k, b, e, l
  <2>5. u \o k = <<>>
    BY <2>4, EmptySeq, ConcatEmptySeq
  <2>6. b = m
    BY <2>3, <2>5, ConcatEmptySeq
  <2>7. FirstMessage(b) = m
    BY <2>3, <2>6, FirstMessageOf
  <2>8. Deleted(b, e.length) = u \o k
    BY <2>3, <2>5, <2>6 DEF Deleted
  <2>9. Take(c, m) /\ properties' = [properties EXCEPT ![c][l.atom] = u \o k]
    BY <2>2, <2>3, <2>7, <2>8
  <2>10. QED
    BY <1>4, <2>1, <2>9 DEF m
<1>8. QED
  BY <1>3, <1>6, <1>7 DEF Receive

-----------------------------------------------------------------------------
(* The invariant holds.                                                    *)

LEMMA DeliveredInit == Init => Delivered
<1>1. SUFFICES ASSUME Init, NEW c \in Connections PROVE Carries(c, <<>>)
  BY DEF Delivered, Clear, Spoilt, Carried
<1>2. <<>> \in Seq(Letter) /\ Len(<<>>) = 0
  BY EmptySeq
<1>3. Waiting(c, <<>>)
  BY <1>1, MappedEmpty DEF Init, Waiting
<1>4. History(c, <<>>)
  <2>1. <<>> \in Seq(Bytes)
    BY EmptySeq
  <2>2. <<>> \o <<>> = <<>>
    BY <2>1, ConcatEmptySeq
  <2>3. QED
    BY <1>1, <2>2, MappedEmpty DEF Init, History
<1>5. Stored(c, <<>>)
  <2>1. <<>> \in Seq(Bytes)
    BY EmptySeq
  <2>2. <<>> \o <<>> = <<>>
    BY <2>1, ConcatEmptySeq
  <2>3. sending = Nobody
    BY <1>1 DEF Init
  <2>4. \A a \in Names : properties[c][a] = <<>>
    BY <1>1 DEF Init
  <2>5. QED
    BY <2>2, <2>3, <2>4, NothingComing, UnderEmpty DEF Stored
<1>6. Single(c, <<>>)
  BY <1>2 DEF Single
<1>7. QED
  BY <1>2, <1>3, <1>4, <1>5, <1>6 DEF Carries

LEMMA DeliveredNext == TypeOK /\ Delivered /\ [Next]_vars => Delivered'
<1>1. SUFFICES ASSUME TypeOK, Delivered, [Next]_vars, NEW d \in Clear' PROVE Carried(d)'
  BY DEF Delivered
<1>2. toServer' = toServer /\ crowded \subseteq crowded'
  BY <1>1 DEF Next, Receive, SendShort, SendLong, ClientSendLong, ReceiveShort, ClientReceiveLong,
    ReadXIMMessage, Announce, SendEvent, PutInProperty, Take, vars
<1>3. d \in Clear /\ d \in Connections
  BY <1>1, <1>2, ClearSteps
<1>4. PICK w : Carries(d, w)
  BY <1>1, <1>3 DEF Delivered, Carried
<1>5. ASSUME Carries(d, w)' PROVE Carried(d)'
  BY <1>5 DEF Carried
<1>6. ASSUME NEW c \in Connections, SendShort(c) PROVE Carried(d)'
  <2>1. PICK length \in Lengths : SendEvent(c, Short(Message(c, length)), Message(c, length))
    BY <1>6 DEF SendShort
  <2>2. sending = Nobody /\ sending' = sending /\ properties' = properties
    BY <1>6 DEF SendShort
  <2>3. CASE c = d
    <3>1. PICK m \in Messages : m = Message(c, length)
      BY <1>1, MessageType
    <3>2. SendEvent(d, Short(m), m)
      BY <2>1, <2>3, <3>1
    <3>3. QED
      BY <1>1, <1>3, <1>4, <2>2, <3>2, CarriesShort
  <2>4. CASE c # d
    <3>1. events'[d] = events[d] /\ sent'[d] = sent[d] /\ received'[d] = received[d]
      BY <1>1, <1>3, <2>1, <2>4 DEF SendEvent, TypeOK
    <3>2. \A a \in Names : properties'[d][a] = properties[d][a]
      BY <2>2
    <3>3. QED
      BY <1>2, <1>4, <1>5, <2>2, <3>1, <3>2, Untouched
  <2>5. QED
    BY <2>3, <2>4
<1>7. ASSUME NEW c \in Connections, NEW a \in Names, NEW length \in Lengths,
             PutInProperty(c, a, Message(c, length))
      PROVE  Carried(d)'
  <2>1. PICK m \in Messages : m = Message(c, length)
    BY <1>1, MessageType
  <2>2. PutInProperty(c, a, m)
    BY <1>7, <2>1
  <2>3. CASE c = d
    BY <1>1, <1>3, <1>4, <2>2, <2>3, CarriesPut
  <2>4. CASE c # d
    <3>1. events'[d] = events[d] /\ sent'[d] = sent[d] /\ received'[d] = received[d]
      BY <2>2 DEF PutInProperty
    <3>2. \A n \in Names : properties'[d][n] = properties[d][n]
      BY <1>1, <1>3, <2>2, <2>4 DEF PutInProperty, TypeOK
    <3>3. sending.connect_id # d /\ sending'.connect_id # d
      BY <1>3, <2>2, <2>4, NothingComing DEF PutInProperty
    <3>4. QED
      BY <1>2, <1>4, <1>5, <3>1, <3>2, <3>3, Untouched
  <2>5. QED
    BY <2>3, <2>4
<1>8. ASSUME NEW c \in Connections, SendLong(c) PROVE Carried(d)'
  <2>1. PICK length \in Lengths : PutInProperty(c, MakeNewAtom, Message(c, length))
    BY <1>8 DEF SendLong
  <2>2. PICK a \in Names : a = MakeNewAtom
    BY <1>1, SequenceType
  <2>3. QED
    BY <1>7, <2>1, <2>2
<1>9. ASSUME NEW c \in Connections, ClientSendLong(c) PROVE Carried(d)'
  BY <1>7, <1>9 DEF ClientSendLong
<1>10. CASE Announce
  <2>. DEFINE c == sending.connect_id
  <2>1. c \in Connections
    BY <1>1, <1>10 DEF Announce, TypeOK, SendingTypes
  <2>2. CASE c = d
    BY <1>1, <1>3, <1>4, <1>10, <2>2, CarriesAnnounced
  <2>3. CASE c # d
    <3>1. events'[d] = events[d] /\ sent'[d] = sent[d] /\ received'[d] = received[d]
      BY <1>1, <1>3, <1>10, <2>1, <2>3 DEF Announce, SendEvent, TypeOK
    <3>2. \A a \in Names : properties'[d][a] = properties[d][a]
      BY <1>10 DEF Announce
    <3>3. sending.connect_id # d /\ sending'.connect_id # d
      BY <1>3, <1>10, <2>3, ConnectionsAssumption DEF Announce, Nobody
    <3>4. QED
      BY <1>2, <1>4, <1>5, <3>1, <3>2, <3>3, Untouched
  <2>4. QED
    BY <2>2, <2>3
<1>11. ASSUME NEW c \in Connections, Receive(c) PROVE Carried(d)'
  <2>1. CASE c = d
    BY <1>1, <1>3, <1>4, <1>11, <2>1, CarriesReceived
  <2>2. CASE c # d
    <3>1. PICK m : Take(c, m)
      BY <1>11 DEF Receive, ReceiveShort, ClientReceiveLong, ReadXIMMessage
    <3>2. events'[d] = events[d] /\ sent'[d] = sent[d] /\ received'[d] = received[d] /\ sending' = sending
      BY <1>1, <1>3, <2>2, <3>1 DEF Take, TypeOK
    <3>3. \A a \in Names : properties'[d][a] = properties[d][a]
      BY <1>1, <1>3, <1>11, <2>2
        DEF Receive, ReceiveShort, ClientReceiveLong, ReadXIMMessage, TypeOK
    <3>4. QED
      BY <1>2, <1>4, <1>5, <3>2, <3>3, Untouched
  <2>3. QED
    BY <2>1, <2>2
<1>12. CASE UNCHANGED vars
  BY <1>4, <1>5, <1>12, Untouched DEF vars
<1>13. QED
  BY <1>1, <1>6, <1>8, <1>9, <1>10, <1>11, <1>12 DEF Next

(* Types, and the letters of every connection that is promised anything.   *)
LEMMA Invariance == Spec => [](TypeOK /\ Delivered)
<1>1. Init => TypeOK /\ Delivered
  BY TypeInit, DeliveredInit
<1>2. TypeOK /\ Delivered /\ [Next]_vars => (TypeOK /\ Delivered)'
  BY TypeNext, DeliveredNext
<1>3. QED
  BY <1>1, <1>2, PTL DEF Spec

-----------------------------------------------------------------------------
(* The properties.                                                         *)

(* What is sent and not yet received.                                      *)
LEMMA OnTheWay ==
  ASSUME TypeOK, NEW c \in Connections, NEW w, Carries(c, w)
  PROVE  /\ received[c] \in Seq(Seq(Bytes)) /\ Mapped(MessageOf, w) \in Seq(Seq(Bytes))
         /\ sent[c] = received[c] \o Mapped(MessageOf, w)
         /\ Len(Mapped(MessageOf, w)) = Len(w)
<1>1. Mapped(MessageOf, w) \in Seq(Seq(Bytes)) /\ Len(Mapped(MessageOf, w)) = Len(w)
  BY MessageOfOn, MappedElements DEF Carries
<1>2. QED
  BY <1>1 DEF TypeOK, Carries, History

(* For each message that was sent and not handled an event waits: none is  *)
(* lost, split or doubled (Xi18nXSend, WaitXIMProtocol).                    *)
THEOREM NoMessageLost == Spec => []NoneLost
<1>1. ASSUME TypeOK, Delivered, NEW c \in Clear
      PROVE  Len(sent[c]) = Len(received[c]) + Len(events[c])
  <2>1. PICK w : Carries(c, w)
    BY <1>1 DEF Delivered, Carried
  <2>. DEFINE q == Mapped(MessageOf, w)
              B == Seq(Bytes)
  <2>2. c \in Connections
    BY DEF Clear, Spoilt
  <2>3. /\ received[c] \in Seq(B) /\ q \in Seq(B)
        /\ sent[c] = received[c] \o q /\ Len(q) = Len(w)
    BY <1>1, <2>1, <2>2, OnTheWay
  <2>4. Len(events[c]) = Len(w)
    BY <2>1, <2>2, WaitingElements
  <2>. DEFINE r == received[c]
  <2>5. r \in Seq(B) /\ q \in Seq(B) /\ sent[c] = r \o q
    BY <2>3
  <2>6. Len(received[c]) = Len(r)
    OBVIOUS
  <2>. HIDE DEF q, B, r
  <2>7. Len(r \o q) = Len(r) + Len(q)
    BY <2>5, ConcatProperties
  <2>8. QED
    BY <2>3, <2>4, <2>5, <2>6, <2>7
<1>2. TypeOK /\ Delivered => NoneLost
  BY <1>1 DEF NoneLost, Clear, Spoilt
<1>3. QED
  BY <1>2, Invariance, PTL

(* What is received was sent, each message whole, in the order in which it   *)
(* was sent, and there is nothing else, for all lengths and however often    *)
(* the names of properties are used again while messages under them are     *)
(* unread (Xi18nXSend, MakeNewAtom, ReadXIMMessage).                        *)
THEOREM ReceivedWasSent == Spec => [](\A c \in Connections \ Spoilt : IsPrefix(received[c], sent[c]))
<1>1. ASSUME TypeOK, Delivered, NEW c \in Clear
      PROVE  IsPrefix(received[c], sent[c])
  <2>1. PICK w : Carries(c, w)
    BY <1>1 DEF Delivered, Carried
  <2>. DEFINE r == received[c]
              q == Mapped(MessageOf, w)
              B == Seq(Bytes)
  <2>2. r \in Seq(B) /\ q \in Seq(B) /\ sent[c] = r \o q
    BY <1>1, <2>1, OnTheWay DEF Clear
  <2>. HIDE DEF r, q, B
  <2>3. Len(r) <= Len(r \o q) /\ SubSeq(r \o q, 1, Len(r)) = r
    BY <2>2, SplitConcat
  <2>4. SubSeq(r, 1, Len(r)) = r
    BY <2>2, SubSeqFull
  <2>5. QED
    BY <2>2, <2>3, <2>4 DEF IsPrefix, r
<1>2. TypeOK /\ Delivered => \A c \in Connections \ Spoilt : IsPrefix(received[c], sent[c])
  BY <1>1 DEF Clear
<1>3. QED
  BY <1>2, Invariance, PTL

(* Taking an event hands over the oldest message, if any.                  *)
LEMMA TakeHandsOver ==
  ASSUME TypeOK, Delivered', NEW c \in Connections, c \notin Spoilt, Spoilt' = Spoilt, TypeOK',
         NEW m, Take(c, m)
  PROVE  Channel!HandOver(c) \/ UNCHANGED <<sent, received>>
<1>1. /\ received' = [received EXCEPT ![c] = IF m = <<>> THEN @ ELSE Append(@, m)]
      /\ sent' = sent
      /\ received \in [Connections -> Seq(Seq(Bytes))]
  BY DEF Take, TypeOK
<1>2. CASE m = <<>>
  <2>1. received' = received
    BY <1>1, <1>2
  <2>2. QED
    BY <1>1, <2>1
<1>3. CASE m # <<>>
  <2>. DEFINE r == received[c]
              B == Seq(Bytes)
  <2>1. received' = [received EXCEPT ![c] = Append(r, m)]
    BY <1>1, <1>3
  <2>2. received'[c] = Append(r, m) /\ r \in Seq(B)
    BY <1>1, <2>1
  <2>3. PICK v : /\ received'[c] \in Seq(B) /\ v \in Seq(B)
                 /\ sent'[c] = received'[c] \o v
    <3>1. PICK w : Carries(c, w)'
      BY DEF Delivered, Carried, Clear, Spoilt
    <3>2. /\ w \in Seq(Letter)
          /\ sent'[c] = received'[c] \o Mapped(MessageOf, w)
      BY <3>1 DEF Carries, History, Mapped
    <3>3. Mapped(MessageOf, w) \in Seq(B)
      BY <3>2, MessageOfOn, MappedElements
    <3>4. received'[c] \in Seq(B)
      BY DEF TypeOK
    <3>5. QED
      BY <3>2, <3>3, <3>4
  <2>. DEFINE a == Append(r, m)
  <2>4. m \in B
    <3>1. a \in Seq(B) /\ Len(a) = Len(r) + 1 /\ Len(r) \in Nat
      BY <2>2, <2>3, LenProperties DEF a
    <3>2. a[Len(r) + 1] = m
      BY <2>2
    <3>. HIDE DEF a, B, r
    <3>3. QED
      BY <3>1, <3>2, ElementOfSeq
  <2>5. Len(a) = Len(r) + 1 /\ a[Len(r) + 1] = m /\ Len(r) \in Nat
    BY <2>2, <2>4, AppendProperties, LenProperties
  <2>6. sent[c] = a \o v /\ a \in Seq(B) /\ v \in Seq(B)
    BY <1>1, <2>2, <2>3
  <2>7. Len(sent[c]) = Len(a) + Len(v) /\ Len(v) \in Nat /\ sent[c][Len(r) + 1] = m
    <3>. HIDE DEF a, B, r
    <3>1. Len(a \o v) = Len(a) + Len(v) /\ Len(v) \in Nat
          /\ \A n \in 1 .. Len(a) : (a \o v)[n] = a[n]
      BY <2>6, ConcatProperties, LenProperties
    <3>2. QED
      BY <2>5, <2>6, <3>1
  <2>8. Len(r) < Len(sent[c]) /\ received' = [received EXCEPT ![c] = Append(@, sent[c][Len(r) + 1])]
    <3>1. Len(r) < Len(sent[c])
      <4>. HIDE DEF a, B, r
      <4>1. QED
        BY <2>5, <2>7
    <3>2. QED
      BY <2>1, <2>7, <3>1
  <2>9. QED
    BY <1>1, <2>8 DEF Channel!HandOver, Channel!Oldest
<1>4. QED
  BY <1>2, <1>3

(* Announcing a message sends it.                                          *)
LEMMA AnnouncingSends ==
  ASSUME TypeOK, NEW c \in Connections, NEW m \in Seq(Bytes), NEW e, SendEvent(c, e, m)
  PROVE  Channel!Send(c)
<1>. DEFINE s == sent[c]
            B == Seq(Bytes)
<1>1. s \in Seq(B) /\ sent \in [Connections -> Seq(B)]
  BY DEF TypeOK
<1>2. sent' = [sent EXCEPT ![c] = Append(s, m)] /\ sent'[c] = Append(s, m)
  BY <1>1 DEF SendEvent
<1>3. Len(Append(s, m)) = Len(s) + 1 /\ Append(s, m)[Len(s) + 1] = m
  <2>1. m \in B
    OBVIOUS
  <2>. HIDE DEF s, B
  <2>2. QED
    BY <1>1, <2>1, AppendProperties
<1>4. received' = received /\ Spoilt' = Spoilt
  BY DEF SendEvent, Spoilt
<1>5. Len(sent'[c]) = Len(sent[c]) + 1 /\ sent'[c][Len(sent[c]) + 1] = m
  BY <1>2, <1>3
<1>6. sent' = [sent EXCEPT ![c] = Append(@, sent'[c][Len(@) + 1])]
  BY <1>2, <1>5
<1>7. QED
  BY <1>4, <1>5, <1>6 DEF Channel!Send

(* Putting a message into a property is not seen, but for a name in use.    *)
LEMMA PuttingSpoils ==
  ASSUME NEW c \in Connections, NEW a, NEW m, PutInProperty(c, a, m)
  PROVE  Channel!Spoil(c) \/ UNCHANGED Channel!channelVars
<1>1. sent' = sent /\ received' = received /\ (Spoilt' = Spoilt \/ Spoilt' = Spoilt \cup {c})
  BY DEF PutInProperty, Spoilt
<1>2. QED
  BY <1>1 DEF Channel!Spoil, Channel!channelVars

(* A step of the transport is one of the channel, or none.                  *)
LEMMA ChannelStep ==
  ASSUME TypeOK, TypeOK', Delivered', [Next]_vars
  PROVE  [Channel!Next]_(Channel!channelVars)
<1>1. ASSUME NEW c \in Connections, SendShort(c) PROVE Channel!Next
  <2>1. PICK length \in Lengths : SendEvent(c, Short(Message(c, length)), Message(c, length))
    BY <1>1 DEF SendShort
  <2>2. Message(c, length) \in Seq(Bytes)
    BY MessageType DEF Messages
  <2>3. QED
    BY <2>1, <2>2, AnnouncingSends DEF Channel!Next
<1>2. ASSUME NEW c \in Connections, SendLong(c) \/ ClientSendLong(c)
      PROVE  Channel!Next \/ UNCHANGED Channel!channelVars
  BY <1>2, PuttingSpoils DEF SendLong, ClientSendLong, Channel!Next
<1>3. ASSUME Announce PROVE Channel!Next
  <2>1. sending.connect_id \in Connections /\ sending.message \in Seq(Bytes)
    BY <1>3 DEF Announce, TypeOK, SendingTypes, Messages
  <2>2. QED
    BY <1>3, <2>1, AnnouncingSends DEF Announce, Channel!Next
<1>4. ASSUME NEW c \in Connections, Receive(c)
      PROVE  Channel!Next \/ UNCHANGED Channel!channelVars
  <2>1. PICK m : Take(c, m)
    BY <1>4 DEF Receive, ReceiveShort, ClientReceiveLong, ReadXIMMessage
  <2>2. sent' = sent /\ Spoilt' = Spoilt
    BY <2>1 DEF Take, Spoilt
  <2>3. CASE c \in Spoilt
    <3>1. received' = [received EXCEPT ![c] = received'[c]]
      BY <2>1 DEF Take, TypeOK
    <3>2. QED
      BY <2>2, <2>3, <3>1 DEF Channel!HandOverAnything, Channel!Next
  <2>4. CASE c \notin Spoilt
    BY <2>1, <2>2, <2>4, TakeHandsOver DEF Channel!Next, Channel!channelVars
  <2>5. QED
    BY <2>3, <2>4
<1>5. CASE UNCHANGED vars
  BY <1>5 DEF vars, Spoilt, Channel!channelVars
<1>6. QED
  BY <1>1, <1>2, <1>3, <1>4, <1>5 DEF Next

(* The transport is a channel: although long messages take two requests and *)
(* the names of properties are used again, each connection hands over what  *)
(* was sent, once, whole and in order; nothing is promised only of a client *)
(* that names a property in use (Xi18nXSend and WaitXIMProtocol, i18nX.c).   *)
THEOREM ChannelKept == Spec => WholeMessages
<1>1. Init => Channel!Init
  BY DEF Init, Channel!Init, Spoilt
<1>2. TypeOK /\ Delivered /\ (TypeOK /\ Delivered)' /\ [Next]_vars
        => [Channel!Next]_(Channel!channelVars)
  BY ChannelStep
<1>3. QED
  BY <1>1, <1>2, Invariance, PTL DEF Spec, WholeMessages, Channel!Spec

(* A property is as long as the unread events under its name and the        *)
(* message that is being put there say: nothing is left behind, nothing is  *)
(* read before it is there (XChangeProperty and XGetWindowProperty in       *)
(* i18nX.c).                                                               *)
THEOREM PropertiesAgreeWithEvents == Spec => []PropertiesAgree
<1>1. ASSUME TypeOK, Delivered, NEW c \in Clear, NEW a \in Names
      PROVE  Len(properties[c][a])
               = FoldOver(PlusLength(a), 0, events[c])
                   + (IF sending.connect_id = c /\ sending.atom = a THEN Len(sending.message) ELSE 0)
  <2>1. PICK w : Carries(c, w)
    BY <1>1 DEF Delivered, Carried
  <2>. DEFINE u == Under(a, w)
              k == Coming(c, a)
  <2>2. u \in Seq(Bytes) /\ FoldOver(PlusLength(a), 0, events[c]) = Len(u)
    BY <2>1, UnderType, AnnouncedUnder DEF Carries, Waiting
  <2>3. k \in Seq(Bytes)
    BY <1>1, ComingType
  <2>4. properties[c][a] = u \o k
    BY <2>1 DEF Carries, Stored
  <2>5. Len(k) = IF sending.connect_id = c /\ sending.atom = a THEN Len(sending.message) ELSE 0
    BY EmptySeq DEF Coming
  <2>. HIDE DEF u, k
  <2>6. Len(u \o k) = Len(u) + Len(k)
    BY <2>2, <2>3, ConcatProperties
  <2>7. QED
    BY <2>2, <2>4, <2>5, <2>6
<1>2. TypeOK /\ Delivered => PropertiesAgree
  BY <1>1, Zenon DEF PropertiesAgree, Clear, Spoilt
<1>3. QED
  BY <1>2, Invariance, PTL

=============================================================================
