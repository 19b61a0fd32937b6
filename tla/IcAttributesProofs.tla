-------------------------- MODULE IcAttributesProofs --------------------------
(***************************************************************************)
(* Proofs about IcAttributes: for all values, windows and ids and requests  *)
(* of any length, a reply holds what was asked for, what is read back is    *)
(* what was set last, and the composition window is where it was put.       *)
(*                                                                         *)
(* Storing is compared with the history attribute by attribute, by          *)
(* induction over the attributes of a request (StoresPre, StoresSts,        *)
(* StoresPlain).  For reading, what the ids found so far and the ids still  *)
(* to be read make together is what was asked (Left).                      *)
(***************************************************************************)
EXTENDS IcAttributes, SequenceInduction, TLAPS

-----------------------------------------------------------------------------
(* The last attribute with an id.                                          *)

LastOf(named) == IF named = {} THEN 0 ELSE CHOOSE k \in named : \A n \in named : n <= k

LEMMA LastNamedEmpty == \A ids : LastNamed(<<>>, ids) = 0
<1>1. ASSUME NEW ids PROVE {k \in DOMAIN <<>> : <<>>[k].id \in ids} = {}
  <2>1. DOMAIN <<>> = {}
    OBVIOUS
  <2>2. QED
    BY <2>1
<1>2. QED
  BY <1>1 DEF LastNamed

LEMMA LastNamedIs ==
  ASSUME NEW S, NEW s \in Seq(S), NEW ids
  PROVE  /\ LastNamed(s, ids) \in 0 .. Len(s)
         /\ LastNamed(s, ids) # 0 => s[LastNamed(s, ids)].id \in ids
<1>. DEFINE named == {k \in DOMAIN s : s[k].id \in ids}
<1>1. Len(s) \in Nat /\ DOMAIN s = 1 .. Len(s)
  BY LenProperties
<1>2. CASE named = {}
  BY <1>1, <1>2 DEF LastNamed
<1>3. CASE named # {}
  <2>1. \E k \in named : \A l \in named : l <= k
    <3>. DEFINE M == {m \in Nat : (\E k \in named : k <= m) =>
                                    \E k \in named : k <= m /\ \A l \in named : l <= m => l <= k}
    <3>1. 0 \in M
      <4>1. \A k \in named : ~(k <= 0)
        BY <1>1
      <4>2. QED
        BY <4>1
    <3>2. ASSUME NEW m \in Nat, m \in M PROVE m + 1 \in M
      <4>1. named \subseteq Nat
        BY <1>1
      <4>. HIDE DEF named
      <4>2. CASE m + 1 \in named
        BY <4>1, <4>2
      <4>3. CASE m + 1 \notin named
        <5>1. \A k \in named : k <= m + 1 <=> k <= m
          BY <4>1, <4>3
        <5>2. QED
          BY <3>2, <5>1
      <4>4. QED
        BY <4>2, <4>3
    <3>3. Nat \subseteq M
      <4>. HIDE DEF M
      <4>1. QED
        BY <3>1, <3>2, NatInductionOnSet
    <3>4. (\E k \in named : k <= Len(s)) =>
            \E k \in named : k <= Len(s) /\ \A l \in named : l <= Len(s) => l <= k
      BY <1>1, <3>3
    <3>5. \A k \in named : k <= Len(s)
      BY <1>1
    <3>6. QED
      BY <1>3, <3>4, <3>5
  <2>2. LastNamed(s, ids) = CHOOSE k \in named : \A n \in named : n <= k
    BY <1>3 DEF LastNamed
  <2>3. LastNamed(s, ids) \in named
    <3>. HIDE DEF named
    <3>1. QED
      BY <2>1, <2>2
  <2>4. QED
    BY <1>1, <2>3
<1>4. QED
  BY <1>2, <1>3

LEMMA LastNamedAppend ==
  ASSUME NEW S, NEW s \in Seq(S), NEW e \in S, NEW ids
  PROVE  LastNamed(Append(s, e), ids) = IF e.id \in ids THEN Len(s) + 1 ELSE LastNamed(s, ids)
<1>. DEFINE t == Append(s, e)
            before == {k \in DOMAIN s : s[k].id \in ids}
            named == {k \in DOMAIN t : t[k].id \in ids}
<1>1. /\ t \in Seq(S) /\ Len(t) = Len(s) + 1 /\ Len(s) \in Nat
      /\ \A n \in 1 .. Len(s) : t[n] = s[n]
      /\ t[Len(s) + 1] = e
  BY AppendProperties, LenProperties
<1>2. DOMAIN s = 1 .. Len(s)
  BY LenProperties
<1>. HIDE DEF t
<1>3. DOMAIN t = 1 .. Len(t)
  BY <1>1, LenProperties
<1>4. CASE e.id \in ids
  <2>1. Len(s) + 1 \in named /\ \A n \in named : n <= Len(s) + 1 /\ n \in Nat
    BY <1>1, <1>3, <1>4
  <2>2. LastNamed(t, ids) = CHOOSE k \in named : \A n \in named : n <= k
    BY <2>1 DEF LastNamed
  <2>. HIDE DEF named
  <2>3. \A k \in named : (\A n \in named : n <= k) => k = Len(s) + 1
    BY <2>1
  <2>4. LastNamed(t, ids) = Len(s) + 1
    BY <2>1, <2>2, <2>3
  <2>5. QED
    BY <1>4, <2>4 DEF t
<1>5. CASE e.id \notin ids
  <2>1. named = before
    <3>1. \A k \in DOMAIN t : t[k].id \in ids => k \in DOMAIN s /\ s[k].id \in ids
      BY <1>1, <1>2, <1>3, <1>5
    <3>2. \A k \in DOMAIN s : k \in DOMAIN t /\ t[k] = s[k]
      BY <1>1, <1>2, <1>3
    <3>3. QED
      BY <3>1, <3>2
  <2>2. LastNamed(t, ids) = LastNamed(s, ids)
    <3>1. LastNamed(t, ids) = LastOf(named) /\ LastNamed(s, ids) = LastOf(before)
      BY Zenon DEF LastNamed, LastOf
    <3>. HIDE DEF named, before
    <3>2. QED
      BY <2>1, <3>1
  <2>3. QED
    BY <1>5, <2>2 DEF t
<1>6. QED
  BY <1>4, <1>5

(* The element there, before and after another is added.                   *)
LEMMA LastElementAppend ==
  ASSUME NEW S, NEW s \in Seq(S), NEW e \in S, NEW ids
  PROVE  LET k == LastNamed(s, ids)
             n == LastNamed(Append(s, e), ids)
         IN  /\ e.id \in ids => n # 0 /\ Append(s, e)[n] = e
             /\ e.id \notin ids => n = k /\ (n # 0 => Append(s, e)[n] = s[k])
<1>. DEFINE t == Append(s, e)
            k == LastNamed(s, ids)
            n == LastNamed(t, ids)
<1>1. /\ Len(s) \in Nat /\ \A j \in 1 .. Len(s) : t[j] = s[j]
      /\ t[Len(s) + 1] = e
  BY AppendProperties, LenProperties
<1>2. k \in 0 .. Len(s)
  BY LastNamedIs
<1>3. n = IF e.id \in ids THEN Len(s) + 1 ELSE k
  BY LastNamedAppend
<1>. HIDE DEF t, k, n
<1>4. e.id \in ids => n # 0 /\ t[n] = e
  BY <1>1, <1>3
<1>5. e.id \notin ids => n = k /\ (n # 0 => t[n] = s[k])
  <2>1. n # 0 /\ e.id \notin ids => k \in 1 .. Len(s)
    BY <1>1, <1>2, <1>3
  <2>2. QED
    BY <1>1, <1>3, <2>1
<1>6. QED
  BY <1>4, <1>5 DEF t, k, n

LEMMA LastOrAppend ==
  ASSUME NEW S, NEW s \in Seq(S), NEW e \in S, NEW id, NEW default
  PROVE  LastOr(Append(s, e), id, default) = IF e.id = id THEN e.value ELSE LastOr(s, id, default)
<1>. DEFINE t == Append(s, e)
            ids == {id}
            k == LastNamed(s, ids)
            n == LastNamed(t, ids)
<1>1. /\ e.id \in ids => n # 0 /\ t[n] = e
      /\ e.id \notin ids => n = k /\ (n # 0 => t[n] = s[k])
  <2>. HIDE DEF ids
  <2>1. QED
    BY LastElementAppend
<1>2. LastOr(t, id, default) = IF n = 0 THEN default ELSE t[n].value
  BY DEF LastOr
<1>3. LastOr(s, id, default) = IF k = 0 THEN default ELSE s[k].value
  BY DEF LastOr
<1>4. e.id \in ids <=> e.id = id
  OBVIOUS
<1>. HIDE DEF t, n, k, ids
<1>5. QED
  BY <1>1, <1>2, <1>3, <1>4 DEF t

LEMMA LastOrEmpty == \A id, default : LastOr(<<>>, id, default) = default
BY LastNamedEmpty DEF LastOr

-----------------------------------------------------------------------------
(* Reading the attributes of a request.                                    *)

ReadOf == [e \in Attribute |-> ReadICValue(e)]

LEMMA SwappedDatum ==
  ASSUME swapped \in BOOLEAN, NEW x \in Datum
  PROVE  Swapped(x) \in Datum /\ Swapped(x)[1] = x[1]
BY DEF Datum, Swapped

LEMMA ReadAttribute ==
  ASSUME swapped \in BOOLEAN, NEW e \in Attribute
  PROVE  /\ ReadICValue(e) \in Attribute
         /\ ReadICValue(e).id = e.id
         /\ ReadICValue(e).value \in Datum
         /\ ReadICValue(e).value[1] = e.value[1]
         /\ ReadICValue(e).value = IF e.id \in {"SpotLocation", "FontSet"} THEN e.value
                                   ELSE Swapped(e.value)
<1>1. e.value \in Datum /\ e = [id |-> e.id, value |-> e.value] /\ e.id \in KnownIds \ Nests
  BY DEF Attribute
<1>2. Swapped(e.value) \in Datum /\ Swapped(e.value)[1] = e.value[1]
  BY <1>1, SwappedDatum
<1>. DEFINE v == IF e.id \in {"SpotLocation", "FontSet"} THEN e.value ELSE Swapped(e.value)
<1>3. ReadICValue(e) = [e EXCEPT !.value = v]
  BY DEF ReadICValue, SetRectAttribute, SetPointAttribute, SetFontAttribute, SetCardAttribute
<1>4. v \in Datum /\ v[1] = e.value[1]
  BY <1>1, <1>2
<1>. HIDE DEF v
<1>5. ReadICValue(e) = [id |-> e.id, value |-> v]
  BY <1>1, <1>3
<1>6. QED
  BY <1>1, <1>4, <1>5 DEF Attribute, v

LEMMA ReadOfOn ==
  ASSUME swapped \in BOOLEAN
  PROVE  /\ MapOn(ReadOf, Attribute, Attribute)
         /\ \A e \in Attribute : ReadOf[e] = ReadICValue(e)
BY ReadAttribute DEF MapOn, ReadOf

LEMMA AttributesMapped ==
  ASSUME swapped \in BOOLEAN, NEW entries \in Seq(Attribute)
  PROVE  Attributes(entries) = Mapped(ReadOf, entries)
<1>1. DOMAIN entries = 1 .. Len(entries)
  BY LenProperties
<1>2. ASSUME NEW k \in 1 .. Len(entries) PROVE ReadICValue(entries[k]) = ReadOf[entries[k]]
  BY ElementOfSeq, ReadOfOn
<1>3. [k \in 1 .. Len(entries) |-> ReadICValue(entries[k])] = [k \in 1 .. Len(entries) |-> ReadOf[entries[k]]]
  BY <1>2, Zenon
<1>4. QED
  BY <1>1, <1>3, Zenon DEF Attributes, Mapped

LEMMA AttributesEmpty == Attributes(<<>>) = <<>>
BY DEF Attributes

LEMMA AttributesAppend ==
  ASSUME swapped \in BOOLEAN, NEW entries \in Seq(Attribute), NEW e \in Attribute
  PROVE  /\ Attributes(entries) \in Seq(Attribute)
         /\ Attributes(Append(entries, e)) = Append(Attributes(entries), ReadICValue(e))
<1>. DEFINE t == Append(entries, e)
<1>1. t \in Seq(Attribute)
  BY AppendProperties
<1>. HIDE DEF t
<1>2. Attributes(t) = Mapped(ReadOf, t)
  BY <1>1, AttributesMapped
<1>3. Attributes(entries) = Mapped(ReadOf, entries)
  BY AttributesMapped
<1>4. Mapped(ReadOf, entries) \in Seq(Attribute)
  BY ReadOfOn, MappedElements
<1>5. Mapped(ReadOf, Append(entries, e)) = Append(Mapped(ReadOf, entries), ReadOf[e])
  BY ReadOfOn, MappedAppend
<1>6. ReadOf[e] = ReadICValue(e)
  BY ReadOfOn
<1>7. QED
  BY <1>2, <1>3, <1>4, <1>5, <1>6 DEF t

-----------------------------------------------------------------------------
(* Storing one attribute.                                                  *)

LEMMA DefaultWindow ==
  /\ Default \in CompositionWindows
  /\ <<NoWindow, FALSE>> \in Datum
BY DEF Default, Datum, CompositionWindows

LEMMA ICFields ==
  ASSUME NEW r \in ICs
  PROVE  /\ r = [focus |-> r.focus, pre |-> r.pre, sts |-> r.sts, window |-> r.window]
         /\ r.focus \in Datum
         /\ r.pre \in [PreeditIds -> Datum]
         /\ r.sts \in [StatusIds -> Datum]
         /\ r.window \in CompositionWindows
BY DEF ICs

LEMMA StoresIcAttribute ==
  ASSUME NEW r \in ICs, NEW e \in Attribute
  PROVE  LET q == StoreIcAttribute(r, e) IN
         /\ q \in ICs
         /\ q.pre = r.pre /\ q.sts = r.sts
         /\ q.focus = IF e.id = "FocusWindow" THEN e.value ELSE r.focus
         /\ q.window = IF e.id = "InputStyle" /\ e.value[1] = "Nothing" THEN Default ELSE r.window
<1>1. e.value \in Datum
  BY DEF Attribute
<1>2. CASE e.id = "FocusWindow"
  <2>1. StoreIcAttribute(r, e) = [focus |-> e.value, pre |-> r.pre, sts |-> r.sts, window |-> r.window]
    BY <1>2, ICFields DEF StoreIcAttribute
  <2>2. QED
    BY <1>1, <1>2, <2>1, ICFields DEF ICs
<1>3. CASE e.id = "InputStyle" /\ e.value[1] = "Nothing"
  <2>1. StoreIcAttribute(r, e) = [focus |-> r.focus, pre |-> r.pre, sts |-> r.sts, window |-> Default]
    BY <1>3, ICFields DEF StoreIcAttribute
  <2>2. QED
    BY <1>3, <2>1, ICFields, DefaultWindow DEF ICs
<1>4. CASE e.id # "FocusWindow" /\ ~(e.id = "InputStyle" /\ e.value[1] = "Nothing")
  BY <1>4 DEF StoreIcAttribute
<1>5. QED
  BY <1>2, <1>3, <1>4

Places == {"Area", "SpotLocation"}

LEMMA StoresPreeditAttribute ==
  ASSUME NEW r \in ICs, NEW e \in Attribute, NEW found
  PROVE  LET q == StorePreeditAttribute(r, e, found) IN
         /\ q \in ICs
         /\ q.focus = r.focus /\ q.sts = r.sts
         /\ q.pre = [r.pre EXCEPT ![e.id] = e.value]
         /\ q.window = IF e.id \in Places THEN PlacedAt(r, e, found) ELSE r.window
<1>1. e.value \in Datum
  BY DEF Attribute
<1>. DEFINE p == [r.pre EXCEPT ![e.id] = e.value]
            w == PlacedAt(r, e, found)
<1>2. p \in [PreeditIds -> Datum]
  BY <1>1, ICFields
<1>3. e.id \in Places => w \in CompositionWindows
  BY <1>1, ICFields, DefaultWindow DEF PlacedAt, Places, CompositionWindows
<1>4. CASE e.id \in Places
  <2>1. StorePreeditAttribute(r, e, found) = [focus |-> r.focus, pre |-> p, sts |-> r.sts, window |-> w]
    <3>1. StorePreeditAttribute(r, e, found) = [[r EXCEPT !.pre = p] EXCEPT !.window = w]
      BY <1>4 DEF StorePreeditAttribute, Places
    <3>. HIDE DEF p, w
    <3>2. [r EXCEPT !.pre = p] = [focus |-> r.focus, pre |-> p, sts |-> r.sts, window |-> r.window]
      BY ICFields
    <3>3. QED
      BY <3>1, <3>2
  <2>. HIDE DEF p, w
  <2>2. QED
    BY <1>2, <1>3, <1>4, <2>1, ICFields DEF ICs, p, w
<1>5. CASE e.id \notin Places
  <2>1. StorePreeditAttribute(r, e, found) = [focus |-> r.focus, pre |-> p, sts |-> r.sts, window |-> r.window]
    BY <1>5, ICFields DEF StorePreeditAttribute, Places
  <2>. HIDE DEF p, w
  <2>2. QED
    BY <1>2, <1>5, <2>1, ICFields DEF ICs, p
<1>6. QED
  BY <1>4, <1>5

LEMMA StoresStatusAttribute ==
  ASSUME NEW r \in ICs, NEW e \in Attribute
  PROVE  LET q == StoreStatusAttribute(r, e) IN
         /\ q \in ICs
         /\ q.focus = r.focus /\ q.pre = r.pre /\ q.window = r.window
         /\ q.sts = [r.sts EXCEPT ![e.id] = e.value]
<1>1. e.value \in Datum
  BY DEF Attribute
<1>. DEFINE p == [r.sts EXCEPT ![e.id] = e.value]
<1>2. p \in [StatusIds -> Datum]
  BY <1>1, ICFields
<1>3. StoreStatusAttribute(r, e) = [focus |-> r.focus, pre |-> r.pre, sts |-> p, window |-> r.window]
  BY ICFields DEF StoreStatusAttribute
<1>. HIDE DEF p
<1>4. QED
  BY <1>2, <1>3, ICFields DEF ICs, p

-----------------------------------------------------------------------------
(* Storing all of a list: step by step.                                    *)

IcStep == [x \in ICs \X Attribute |-> StoreIcAttribute(x[1], x[2])]

PreStep(found) == [x \in ICs \X Attribute |-> StorePreeditAttribute(x[1], x[2], found)]

StsStep == [x \in ICs \X Attribute |-> StoreStatusAttribute(x[1], x[2])]

LEMMA StepsOn ==
  /\ StepOn(IcStep, ICs, Attribute)
  /\ StepOn(StsStep, ICs, Attribute)
  /\ \A found : StepOn(PreStep(found), ICs, Attribute)
<1>1. ASSUME NEW x \in ICs \X Attribute
      PROVE  /\ StoreIcAttribute(x[1], x[2]) \in ICs
             /\ StoreStatusAttribute(x[1], x[2]) \in ICs
             /\ \A found : StorePreeditAttribute(x[1], x[2], found) \in ICs
  <2>1. x[1] \in ICs /\ x[2] \in Attribute
    OBVIOUS
  <2>2. QED
    BY <2>1, StoresIcAttribute, StoresStatusAttribute, StoresPreeditAttribute
<1>2. QED
  BY <1>1 DEF StepOn, IcStep, StsStep, PreStep

LEMMA StepValues ==
  ASSUME NEW r \in ICs, NEW e \in Attribute
  PROVE  /\ IcStep[<<r, e>>] = StoreIcAttribute(r, e)
         /\ StsStep[<<r, e>>] = StoreStatusAttribute(r, e)
         /\ \A found : PreStep(found)[<<r, e>>] = StorePreeditAttribute(r, e, found)
BY DEF IcStep, StsStep, PreStep

LEMMA StoreNone ==
  ASSUME NEW r \in ICs
  PROVE  /\ StoreIcAttributes(r, <<>>) = r
         /\ StoreStatusAttributes(r, <<>>) = r
         /\ \A found : StorePreeditAttributes(r, <<>>, found) = r
<1>1. FoldOver(IcStep, r, <<>>) = r /\ FoldOver(StsStep, r, <<>>) = r
  BY StepsOn, FoldEmpty
<1>2. ASSUME NEW found PROVE FoldOver(PreStep(found), r, <<>>) = r
  <2>. DEFINE P == PreStep(found)
  <2>1. StepOn(P, ICs, Attribute)
    BY StepsOn
  <2>. HIDE DEF P
  <2>2. FoldOver(P, r, <<>>) = r
    BY <2>1, FoldEmpty
  <2>3. QED
    BY <2>2 DEF P
<1>3. QED
  BY <1>1, <1>2
    DEF StoreIcAttributes, StoreStatusAttributes, StorePreeditAttributes, IcStep, StsStep, PreStep

LEMMA StoreTypes ==
  ASSUME NEW r \in ICs, NEW s \in Seq(Attribute), NEW found
  PROVE  /\ StoreIcAttributes(r, s) \in ICs
         /\ StoreStatusAttributes(r, s) \in ICs
         /\ StorePreeditAttributes(r, s, found) \in ICs
<1>. DEFINE P == PreStep(found)
<1>1. StepOn(IcStep, ICs, Attribute) /\ StepOn(StsStep, ICs, Attribute) /\ StepOn(P, ICs, Attribute)
  BY StepsOn
<1>. HIDE DEF P
<1>2. FoldOver(IcStep, r, s) \in ICs /\ FoldOver(StsStep, r, s) \in ICs /\ FoldOver(P, r, s) \in ICs
  BY <1>1, FoldType
<1>3. QED
  BY <1>2
    DEF StoreIcAttributes, StoreStatusAttributes, StorePreeditAttributes, IcStep, StsStep, PreStep, P

LEMMA StoreOneMore ==
  ASSUME NEW r \in ICs, NEW s \in Seq(Attribute), NEW e \in Attribute, NEW found
  PROVE  /\ StoreIcAttributes(r, Append(s, e)) = StoreIcAttribute(StoreIcAttributes(r, s), e)
         /\ StoreStatusAttributes(r, Append(s, e)) = StoreStatusAttribute(StoreStatusAttributes(r, s), e)
         /\ StorePreeditAttributes(r, Append(s, e), found)
              = StorePreeditAttribute(StorePreeditAttributes(r, s, found), e, found)
<1>. DEFINE P == PreStep(found)
            x == StoreIcAttributes(r, s)
            y == StoreStatusAttributes(r, s)
            z == StorePreeditAttributes(r, s, found)
<1>1. StepOn(IcStep, ICs, Attribute) /\ StepOn(StsStep, ICs, Attribute) /\ StepOn(P, ICs, Attribute)
  BY StepsOn
<1>2. x \in ICs /\ y \in ICs /\ z \in ICs
  BY StoreTypes
<1>3. x = FoldOver(IcStep, r, s) /\ y = FoldOver(StsStep, r, s) /\ z = FoldOver(P, r, s)
  BY DEF StoreIcAttributes, StoreStatusAttributes, StorePreeditAttributes, IcStep, StsStep, PreStep
<1>4. /\ StoreIcAttributes(r, Append(s, e)) = FoldOver(IcStep, r, Append(s, e))
      /\ StoreStatusAttributes(r, Append(s, e)) = FoldOver(StsStep, r, Append(s, e))
      /\ StorePreeditAttributes(r, Append(s, e), found) = FoldOver(P, r, Append(s, e))
  BY DEF StoreIcAttributes, StoreStatusAttributes, StorePreeditAttributes, IcStep, StsStep, PreStep
<1>. HIDE DEF P, x, y, z
<1>5. /\ FoldOver(IcStep, r, Append(s, e)) = IcStep[<<x, e>>]
      /\ FoldOver(StsStep, r, Append(s, e)) = StsStep[<<y, e>>]
      /\ FoldOver(P, r, Append(s, e)) = P[<<z, e>>]
  BY <1>1, <1>3, FoldAppend
<1>6. /\ IcStep[<<x, e>>] = StoreIcAttribute(x, e)
      /\ StsStep[<<y, e>>] = StoreStatusAttribute(y, e)
      /\ P[<<z, e>>] = StorePreeditAttribute(z, e, found)
  BY <1>2, StepValues DEF P
<1>7. QED
  BY <1>4, <1>5, <1>6 DEF x, y, z

-----------------------------------------------------------------------------
(* What is stored and what was asked.                                      *)

(* The attribute of an IC that has the value y in requests is stored as x.  *)
Held(id, x, y) ==
  \/ x = Unset(id) /\ y = Unset(id)
  \/ \E v : y = OnWire(id, v) /\ x = ReadICValue([id |-> id, value |-> y]).value

(* The window that is stored as w, where the client last put it.            *)
Alike(w, u) ==
  /\ w.place = u.place
  /\ w.at = <<u.at[1], swapped /\ u.place = "SpotLocation">>
  /\ w.of[1] = u.of[1]
  /\ w.grown => u.place = "Area" /\ u.of[1] # NoWindow

LEMMA AlikeDefault == Alike(Default, Unplaced)
BY DEF Alike, Default, Unplaced

(* Attributes for one of the two nested lists, as a client sends them.      *)
Sent(ids) == {e \in Attribute : e.id \in ids /\ \E v : e.value = OnWire(e.id, v)}

LEMMA HeldStored ==
  ASSUME NEW ids, NEW e \in Sent(ids)
  PROVE  e \in Attribute /\ e.id \in ids /\ Held(e.id, ReadICValue(e).value, e.value)
<1>1. e \in Attribute /\ e.id \in ids /\ \E v : e.value = OnWire(e.id, v)
  BY DEF Sent
<1>2. e = [id |-> e.id, value |-> e.value]
  BY <1>1 DEF Attribute
<1>3. QED
  BY <1>1, <1>2 DEF Held

WindowAt(e, found, focus) ==
  [place |-> e.id, at |-> e.value, of |-> IF found THEN focus ELSE <<NoWindow, FALSE>>]

(* Where the window is after a list of preedit attributes.                 *)
WindowAfter(pres, found, focus, window) ==
  LET p == LastNamed(pres, Places)
  IN  IF p # 0 THEN WindowAt(pres[p], found, focus) ELSE window

(* What a place in a request is stored as: reversed just for a point of a   *)
(* client of the other byte order.                                         *)
LEMMA PlaceRead ==
  ASSUME swapped \in BOOLEAN, NEW ids, NEW e \in Sent(ids), e.id \in Places
  PROVE  ReadICValue(e).value = <<e.value[1], swapped /\ e.id = "SpotLocation">>
<1>1. e \in Attribute
  BY DEF Sent
<1>2. PICK v : e.value = OnWire(e.id, v)
  BY DEF Sent
<1>3. e.value = <<v, swapped>>
  BY <1>2 DEF OnWire, Places
<1>4. ReadICValue(e).value = IF e.id = "SpotLocation" THEN e.value ELSE Swapped(e.value)
  BY <1>1, ReadAttribute DEF Places
<1>5. QED
  BY <1>3, <1>4 DEF Swapped

LEMMA WindowAfterAppend ==
  ASSUME NEW S, NEW s \in Seq(S), NEW e \in S, NEW found, NEW focus, NEW window
  PROVE  WindowAfter(Append(s, e), found, focus, window) =
           IF e.id \in Places THEN WindowAt(e, found, focus)
           ELSE WindowAfter(s, found, focus, window)
<1>. DEFINE t == Append(s, e)
            k == LastNamed(s, Places)
            n == LastNamed(t, Places)
<1>1. /\ e.id \in Places => n # 0 /\ t[n] = e
      /\ e.id \notin Places => n = k /\ (n # 0 => t[n] = s[k])
  BY LastElementAppend
<1>2. WindowAfter(t, found, focus, window) = IF n # 0 THEN WindowAt(t[n], found, focus) ELSE window
  BY DEF WindowAfter
<1>3. WindowAfter(s, found, focus, window) = IF k # 0 THEN WindowAt(s[k], found, focus) ELSE window
  BY DEF WindowAfter
<1>. HIDE DEF t, n, k
<1>4. QED
  BY <1>1, <1>2, <1>3 DEF t

(* An IC before its list of preedit attributes is stored.                  *)
ReadyForPre(r, focus, window, want) ==
  /\ r.focus[1] = focus[1] /\ Alike(r.window, window)
  /\ \A id \in PreeditIds : Held(id, r.pre[id], want[id])

LEMMA StoresPre ==
  ASSUME swapped \in BOOLEAN, NEW r \in ICs, NEW found, NEW focus, NEW window, NEW want,
         ReadyForPre(r, focus, window, want),
         NEW pres \in Seq(Sent(PreeditIds))
  PROVE  LET q == StorePreeditAttributes(r, Attributes(pres), found) IN
         /\ q \in ICs
         /\ q.focus = r.focus /\ q.sts = r.sts
         /\ \A id \in PreeditIds : Held(id, q.pre[id], LastOr(pres, id, want[id]))
         /\ Alike(q.window, WindowAfter(pres, found, focus, window))
<1>. DEFINE E == Sent(PreeditIds)
            St(s) == StorePreeditAttributes(r, Attributes(s), found)
            Good(s) ==
              /\ St(s) \in ICs
              /\ St(s).focus = r.focus /\ St(s).sts = r.sts
              /\ \A id \in PreeditIds : Held(id, St(s).pre[id], LastOr(s, id, want[id]))
              /\ Alike(St(s).window, WindowAfter(s, found, focus, window))
            Q == {s \in Seq(E) : Good(s)}
<1>0. /\ r.focus[1] = focus[1] /\ Alike(r.window, window)
      /\ \A id \in PreeditIds : Held(id, r.pre[id], want[id])
  BY DEF ReadyForPre
<1>1. <<>> \in Q
  <2>1. St(<<>>) = r
    BY AttributesEmpty, StoreNone
  <2>2. \A id \in PreeditIds : LastOr(<<>>, id, want[id]) = want[id]
    BY LastOrEmpty
  <2>3. WindowAfter(<<>>, found, focus, window) = window
    BY LastNamedEmpty DEF WindowAfter
  <2>4. <<>> \in Seq(E)
    BY EmptySeq
  <2>. HIDE DEF St, E
  <2>5. QED
    BY <1>0, <2>1, <2>2, <2>3, <2>4
<1>2. ASSUME NEW s \in Seq(E), NEW e \in E, s \in Q PROVE Append(s, e) \in Q
  <2>. DEFINE t == Append(s, e)
              a == Attributes(s)
              f == ReadICValue(e)
              p == St(s)
              q == St(t)
  <2>1. e \in Attribute /\ e.id \in PreeditIds /\ Held(e.id, f.value, e.value)
    BY HeldStored
  <2>. DEFINE reversed == swapped /\ e.id = "SpotLocation"
  <2>15. e.id \in Places => f.value = <<e.value[1], reversed>>
    BY PlaceRead
  <2>2. s \in Seq(Attribute)
    <3>1. E \subseteq Attribute
      BY DEF Sent
    <3>2. QED
      BY <3>1
  <2>3. a \in Seq(Attribute) /\ Attributes(t) = Append(a, f)
    BY <2>1, <2>2, AttributesAppend
  <2>4. f \in Attribute /\ f.id = e.id /\ f.value[1] = e.value[1]
    BY <2>1, ReadAttribute
  <2>5. /\ p \in ICs /\ p.focus = r.focus /\ p.sts = r.sts
        /\ \A id \in PreeditIds : Held(id, p.pre[id], LastOr(s, id, want[id]))
        /\ Alike(p.window, WindowAfter(s, found, focus, window))
    BY <1>2
  <2>6. q = StorePreeditAttribute(p, f, found)
    <3>1. StorePreeditAttributes(r, Append(a, f), found)
            = StorePreeditAttribute(StorePreeditAttributes(r, a, found), f, found)
      <4>. HIDE DEF a, f
      <4>1. QED
        BY <2>3, <2>4, StoreOneMore
    <3>2. QED
      BY <2>3, <3>1
  <2>7. t \in Seq(E)
    BY AppendProperties
  <2>8. \A id : LastOr(t, id, want[id]) = IF e.id = id THEN e.value ELSE LastOr(s, id, want[id])
    BY LastOrAppend
  <2>9. WindowAfter(t, found, focus, window) =
          IF e.id \in Places
            THEN WindowAt(e, found, focus)
            ELSE WindowAfter(s, found, focus, window)
    BY WindowAfterAppend
  <2>. HIDE DEF t, a, f, p, q, E, St
  <2>10. /\ q \in ICs /\ q.focus = p.focus /\ q.sts = p.sts
         /\ q.pre = [p.pre EXCEPT ![f.id] = f.value]
         /\ q.window = IF f.id \in Places THEN PlacedAt(p, f, found) ELSE p.window
    BY <2>4, <2>5, <2>6, StoresPreeditAttribute
  <2>11. \A id \in PreeditIds : Held(id, q.pre[id], LastOr(t, id, want[id]))
    <3>1. SUFFICES ASSUME NEW id \in PreeditIds PROVE Held(id, q.pre[id], LastOr(t, id, want[id]))
      OBVIOUS
    <3>2. p.pre \in [PreeditIds -> Datum]
      BY <2>5, ICFields
    <3>3. q.pre[id] = IF id = e.id THEN f.value ELSE p.pre[id]
      BY <2>4, <2>10, <3>2
    <3>4. CASE id = e.id
      BY <2>1, <2>8, <3>3, <3>4
    <3>5. CASE id # e.id
      BY <2>5, <2>8, <3>3, <3>5
    <3>6. QED
      BY <3>4, <3>5
  <2>12. Alike(q.window, WindowAfter(t, found, focus, window))
    <3>1. CASE e.id \in Places
      <4>. DEFINE of == IF found THEN p.focus ELSE <<NoWindow, FALSE>>
                  to == IF found THEN focus ELSE <<NoWindow, FALSE>>
      <4>. HIDE DEF reversed
      <4>1. /\ q.window.place = e.id /\ q.window.of = of
            /\ q.window.at = <<e.value[1], reversed>>
            /\ q.window.grown => (e.id = "Area" /\ of[1] # NoWindow)
        <5>. DEFINE w == q.window
        <5>1. w = PlacedAt(p, f, found) /\ f.id = e.id /\ f.value = <<e.value[1], reversed>>
          BY <2>4, <2>10, <2>15, <3>1
        <5>2. of = IF found THEN p.focus ELSE <<NoWindow, FALSE>>
          OBVIOUS
        <5>. HIDE DEF of, w
        <5>. DEFINE grown == f.id = "Area" /\ of[1] # NoWindow
        <5>3. w = [place |-> f.id, at |-> f.value, of |-> of, grown |-> grown]
          BY <5>1, <5>2 DEF PlacedAt
        <5>5. w.place = f.id /\ w.of = of /\ w.at = f.value
          BY <5>3
        <5>6. w.grown = grown
          BY <5>3
        <5>4. QED
          BY <5>1, <5>5, <5>6 DEF w
      <4>2. of[1] = to[1]
        BY <1>0, <2>5
      <4>3. WindowAfter(t, found, focus, window) = [place |-> e.id, at |-> e.value, of |-> to]
        BY <2>9, <3>1 DEF WindowAt
      <4>. HIDE DEF of, to
      <4>4. QED
        BY <4>1, <4>2, <4>3 DEF Alike, reversed
    <3>2. CASE e.id \notin Places
      BY <2>4, <2>5, <2>9, <2>10, <3>2
    <3>3. QED
      BY <3>1, <3>2
  <2>13. Good(t)
    BY <2>5, <2>10, <2>11, <2>12 DEF q
  <2>. HIDE DEF Good
  <2>14. QED
    BY <2>7, <2>13 DEF t
<1>3. Seq(E) \subseteq Q
  <2>. HIDE DEF Q, E
  <2>1. QED
    BY <1>1, <1>2, SeqInductionOnSet
<1>4. QED
  BY <1>3

LEMMA StoresSts ==
  ASSUME swapped \in BOOLEAN, NEW r \in ICs, NEW want,
         \A id \in StatusIds : Held(id, r.sts[id], want[id]),
         NEW stss \in Seq(Sent(StatusIds))
  PROVE  LET q == StoreStatusAttributes(r, Attributes(stss)) IN
         /\ q \in ICs
         /\ q.focus = r.focus /\ q.pre = r.pre /\ q.window = r.window
         /\ \A id \in StatusIds : Held(id, q.sts[id], LastOr(stss, id, want[id]))
<1>. DEFINE E == Sent(StatusIds)
            St(s) == StoreStatusAttributes(r, Attributes(s))
            Good(s) ==
              /\ St(s) \in ICs
              /\ St(s).focus = r.focus /\ St(s).pre = r.pre /\ St(s).window = r.window
              /\ \A id \in StatusIds : Held(id, St(s).sts[id], LastOr(s, id, want[id]))
            Q == {s \in Seq(E) : Good(s)}
<1>1. <<>> \in Q
  <2>1. St(<<>>) = r
    BY AttributesEmpty, StoreNone
  <2>2. \A id \in StatusIds : LastOr(<<>>, id, want[id]) = want[id]
    BY LastOrEmpty
  <2>3. <<>> \in Seq(E)
    BY EmptySeq
  <2>. HIDE DEF St, E
  <2>4. QED
    BY <2>1, <2>2, <2>3
<1>2. ASSUME NEW s \in Seq(E), NEW e \in E, s \in Q PROVE Append(s, e) \in Q
  <2>. DEFINE t == Append(s, e)
              a == Attributes(s)
              f == ReadICValue(e)
              p == St(s)
              q == St(t)
  <2>1. e \in Attribute /\ e.id \in StatusIds /\ Held(e.id, f.value, e.value)
    BY HeldStored
  <2>2. s \in Seq(Attribute)
    <3>1. E \subseteq Attribute
      BY DEF Sent
    <3>2. QED
      BY <3>1
  <2>3. a \in Seq(Attribute) /\ Attributes(t) = Append(a, f)
    BY <2>1, <2>2, AttributesAppend
  <2>4. f \in Attribute /\ f.id = e.id
    BY <2>1, ReadAttribute
  <2>5. /\ p \in ICs /\ p.focus = r.focus /\ p.pre = r.pre /\ p.window = r.window
        /\ \A id \in StatusIds : Held(id, p.sts[id], LastOr(s, id, want[id]))
    BY <1>2
  <2>6. q = StoreStatusAttribute(p, f)
    <3>1. StoreStatusAttributes(r, Append(a, f)) = StoreStatusAttribute(StoreStatusAttributes(r, a), f)
      <4>. HIDE DEF a, f
      <4>1. QED
        BY <2>3, <2>4, StoreOneMore
    <3>2. QED
      BY <2>3, <3>1
  <2>7. t \in Seq(E)
    BY AppendProperties
  <2>8. \A id : LastOr(t, id, want[id]) = IF e.id = id THEN e.value ELSE LastOr(s, id, want[id])
    BY LastOrAppend
  <2>. HIDE DEF t, a, f, p, q, E, St
  <2>9. /\ q \in ICs /\ q.focus = p.focus /\ q.pre = p.pre /\ q.window = p.window
        /\ q.sts = [p.sts EXCEPT ![f.id] = f.value]
    BY <2>4, <2>5, <2>6, StoresStatusAttribute
  <2>10. \A id \in StatusIds : Held(id, q.sts[id], LastOr(t, id, want[id]))
    <3>1. SUFFICES ASSUME NEW id \in StatusIds PROVE Held(id, q.sts[id], LastOr(t, id, want[id]))
      OBVIOUS
    <3>2. p.sts \in [StatusIds -> Datum]
      BY <2>5, ICFields
    <3>3. q.sts[id] = IF id = e.id THEN f.value ELSE p.sts[id]
      BY <2>4, <2>9, <3>2
    <3>4. CASE id = e.id
      BY <2>1, <2>8, <3>3, <3>4
    <3>5. CASE id # e.id
      BY <2>5, <2>8, <3>3, <3>5
    <3>6. QED
      BY <3>4, <3>5
  <2>11. Good(t)
    BY <2>5, <2>9, <2>10 DEF q
  <2>. HIDE DEF Good
  <2>12. QED
    BY <2>7, <2>11 DEF t
<1>3. Seq(E) \subseteq Q
  <2>. HIDE DEF Q, E
  <2>1. QED
    BY <1>1, <1>2, SeqInductionOnSet
<1>4. QED
  BY <1>3

-----------------------------------------------------------------------------
(* The items of a request that sets values.                                *)

SetItem ==
  {x \in Attribute : x.id \in {"InputStyle", "FocusWindow"}}
    \cup [id : {"PreeditAttributes"}, list : Seq(Sent(PreeditIds))]
    \cup [id : {"StatusAttributes"}, list : Seq(Sent(StatusIds))]

LEMMA SetItemFields ==
  ASSUME NEW x \in SetItem
  PROVE  /\ x \in Attribute <=> x.id \in {"InputStyle", "FocusWindow"}
         /\ x.id \in {"InputStyle", "FocusWindow"} \cup Nests
         /\ x.id = "PreeditAttributes" => x.list \in Seq(Sent(PreeditIds))
         /\ x.id = "StatusAttributes" => x.list \in Seq(Sent(StatusIds))
<1>1. CASE x \in Attribute /\ x.id \in {"InputStyle", "FocusWindow"}
  BY <1>1
<1>2. CASE x \in [id : {"PreeditAttributes"}, list : Seq(Sent(PreeditIds))]
  <2>1. x.id = "PreeditAttributes" /\ x.list \in Seq(Sent(PreeditIds))
    BY <1>2
  <2>2. x \notin Attribute
    BY <2>1 DEF Attribute, Nests
  <2>3. QED
    BY <2>1, <2>2 DEF Nests
<1>3. CASE x \in [id : {"StatusAttributes"}, list : Seq(Sent(StatusIds))]
  <2>1. x.id = "StatusAttributes" /\ x.list \in Seq(Sent(StatusIds))
    BY <1>3
  <2>2. x \notin Attribute
    BY <2>1 DEF Attribute, Nests
  <2>3. QED
    BY <2>1, <2>2 DEF Nests
<1>4. QED
  BY <1>1, <1>2, <1>3 DEF SetItem

LEMMA BoundedIsSeq ==
  ASSUME NEW S, NEW n \in Nat, NEW s \in BoundedSeq(S, n)
  PROVE  s \in Seq(S)
BY DEF BoundedSeq, SeqOf

LEMMA EntriesSent ==
  ASSUME swapped \in BOOLEAN, NEW ids, ids \subseteq KnownIds \ Nests
  PROVE  Entries(ids) \subseteq Sent(ids)
<1>1. SUFFICES ASSUME NEW id \in ids, NEW v \in Values, NEW e, e = [id |-> id, value |-> OnWire(id, v)]
               PROVE  e \in Sent(ids)
  BY DEF Entries, Entry
<1>2. OnWire(id, v) \in Datum
  BY DEF OnWire, Datum
<1>3. e \in Attribute /\ e.id = id /\ e.value = OnWire(id, v)
  BY <1>1, <1>2 DEF Attribute
<1>4. QED
  BY <1>3 DEF Sent

LEMMA IdsKnown ==
  /\ PreeditIds \subseteq KnownIds \ Nests
  /\ StatusIds \subseteq KnownIds \ Nests
  /\ "Separator" \notin PreeditIds \cup StatusIds
BY IdsAssumption DEF KnownIds, KnownIdsNoSeparator, Nests

LEMMA SetRequestType ==
  ASSUME swapped \in BOOLEAN, NEW items \in SetRequests
  PROVE  items \in Seq(SetItem)
<1>. DEFINE A == Entry("InputStyle", {"Callbacks", "Nothing"})
            B == Entry("FocusWindow", Windows)
            C == Nest("PreeditAttributes", Entries(PreeditIds))
            D == Nest("StatusAttributes", Entries(StatusIds))
<1>1. A \subseteq SetItem
  <2>1. SUFFICES ASSUME NEW v \in {"Callbacks", "Nothing"}, NEW x, x = [id |-> "InputStyle", value |-> OnWire("InputStyle", v)]
                 PROVE  x \in SetItem
    BY DEF Entry
  <2>2. OnWire("InputStyle", v) \in Datum
    BY DEF OnWire, Datum
  <2>3. x \in Attribute /\ x.id = "InputStyle"
    BY <2>1, <2>2 DEF Attribute, KnownIds, KnownIdsNoSeparator, Nests
  <2>4. QED
    BY <2>3 DEF SetItem
<1>2. B \subseteq SetItem
  <2>1. SUFFICES ASSUME NEW v \in Windows, NEW x, x = [id |-> "FocusWindow", value |-> OnWire("FocusWindow", v)]
                 PROVE  x \in SetItem
    BY DEF Entry
  <2>2. OnWire("FocusWindow", v) \in Datum
    BY DEF OnWire, Datum
  <2>3. x \in Attribute /\ x.id = "FocusWindow"
    BY <2>1, <2>2 DEF Attribute, KnownIds, KnownIdsNoSeparator, Nests
  <2>4. QED
    BY <2>3 DEF SetItem
<1>3. C \subseteq SetItem
  <2>1. SUFFICES ASSUME NEW l \in BoundedSeq(Entries(PreeditIds), MaxNested)
                 PROVE  [id |-> "PreeditAttributes", list |-> l] \in SetItem
    BY DEF Nest
  <2>2. l \in Seq(Entries(PreeditIds))
    BY BoundedIsSeq, BoundsAssumption
  <2>3. l \in Seq(Sent(PreeditIds))
    BY <2>2, EntriesSent, IdsKnown
  <2>4. QED
    BY <2>3 DEF SetItem
<1>4. D \subseteq SetItem
  <2>1. SUFFICES ASSUME NEW l \in BoundedSeq(Entries(StatusIds), MaxNested)
                 PROVE  [id |-> "StatusAttributes", list |-> l] \in SetItem
    BY DEF Nest
  <2>2. l \in Seq(Entries(StatusIds))
    BY BoundedIsSeq, BoundsAssumption
  <2>3. l \in Seq(Sent(StatusIds))
    BY <2>2, EntriesSent, IdsKnown
  <2>4. QED
    BY <2>3 DEF SetItem
<1>5. items \in BoundedSeq(A \cup B \cup C \cup D, MaxSetItems)
  BY DEF SetRequests
<1>. HIDE DEF A, B, C, D
<1>6. items \in Seq(A \cup B \cup C \cup D)
  BY <1>5, BoundedIsSeq, BoundsAssumption
<1>7. A \cup B \cup C \cup D \subseteq SetItem
  BY <1>1, <1>2, <1>3, <1>4
<1>8. QED
  BY <1>6, <1>7

(* Nested lists, item by item.                                             *)
ListIn(X, nest) == [x \in X |-> IF x.id = nest THEN x.list ELSE <<>>]

LEMMA NestedIs ==
  ASSUME NEW X, NEW S, NEW nest, \A x \in X : x.id = nest => x.list \in Seq(S),
         NEW items \in Seq(X)
  PROVE  /\ MapOn(ListIn(X, nest), X, Seq(S))
         /\ Nested(items, nest) = FlattenSeq(Mapped(ListIn(X, nest), items))
         /\ Nested(items, nest) \in Seq(S)
<1>. DEFINE f == ListIn(X, nest)
<1>1. MapOn(f, X, Seq(S))
  BY EmptySeq DEF MapOn, ListIn
<1>2. Nested(items, nest) = FlattenSeq(Mapped(f, items))
  <2>1. DOMAIN items = 1 .. Len(items)
    BY LenProperties
  <2>2. ASSUME NEW k \in 1 .. Len(items)
        PROVE  (IF items[k].id = nest THEN items[k].list ELSE <<>>) = f[items[k]]
    BY ElementOfSeq DEF ListIn
  <2>3. [k \in 1 .. Len(items) |-> IF items[k].id = nest THEN items[k].list ELSE <<>>]
          = [k \in 1 .. Len(items) |-> f[items[k]]]
    BY <2>2, Zenon
  <2>4. QED
    BY <2>1, <2>3, Zenon DEF Nested, Mapped
<1>. HIDE DEF f
<1>3. Mapped(f, items) \in Seq(Seq(S))
  BY <1>1, MappedElements
<1>4. FlattenSeq(Mapped(f, items)) \in Seq(S)
  <2>. DEFINE m == Mapped(f, items)
  <2>1. m \in Seq(Seq(S))
    BY <1>3
  <2>. HIDE DEF m
  <2>2. FlattenSeq(m) \in Seq(S)
    BY <2>1, FlattenType
  <2>3. QED
    BY <2>2 DEF m
<1>5. QED
  BY <1>1, <1>2, <1>4 DEF f

LEMMA NestedHeadTail ==
  ASSUME NEW X, NEW S, NEW nest, \A x \in X : x.id = nest => x.list \in Seq(S),
         NEW items \in Seq(X), items # <<>>
  PROVE  Nested(items, nest) = (IF Head(items).id = nest THEN Head(items).list ELSE <<>>)
                                 \o Nested(Tail(items), nest)
<1>. DEFINE f == ListIn(X, nest)
            t == Tail(items)
            m == Mapped(f, items)
<1>1. Head(items) \in X /\ t \in Seq(X)
  BY HeadTailProperties
<1>2. MapOn(f, X, Seq(S)) /\ Nested(items, nest) = FlattenSeq(m)
  BY NestedIs
<1>3. Nested(t, nest) = FlattenSeq(Mapped(f, t))
  <2>. HIDE DEF t
  <2>1. QED
    BY <1>1, NestedIs
<1>4. f[Head(items)] = IF Head(items).id = nest THEN Head(items).list ELSE <<>>
  BY <1>1 DEF ListIn
<1>. HIDE DEF f
<1>5. m \in Seq(Seq(S)) /\ m # <<>> /\ Head(m) = f[Head(items)] /\ Tail(m) = Mapped(f, t)
  BY <1>2, MappedElements, MappedHeadTail
<1>. HIDE DEF m, t
<1>6. FlattenSeq(m) = Head(m) \o FlattenSeq(Tail(m))
  BY <1>5, FlattenHeadTail
<1>7. Nested(items, nest) = f[Head(items)] \o Nested(t, nest)
  BY <1>2, <1>3, <1>5, <1>6
<1>8. QED
  BY <1>4, <1>7 DEF t

-----------------------------------------------------------------------------
(* The attributes of the IC itself.                                        *)

Nothing(items) ==
  \E k \in DOMAIN items : items[k].id = "InputStyle" /\ items[k].value[1] = "Nothing"

LEMMA NothingAppend ==
  ASSUME NEW S, NEW s \in Seq(S), NEW e \in S
  PROVE  Nothing(Append(s, e)) <=> Nothing(s) \/ (e.id = "InputStyle" /\ e.value[1] = "Nothing")
<1>. DEFINE t == Append(s, e)
<1>1. /\ t \in Seq(S) /\ Len(t) = Len(s) + 1 /\ Len(s) \in Nat
      /\ \A n \in 1 .. Len(s) : t[n] = s[n]
      /\ t[Len(s) + 1] = e
  BY AppendProperties, LenProperties
<1>. HIDE DEF t
<1>2. DOMAIN t = 1 .. Len(t) /\ DOMAIN s = 1 .. Len(s)
  BY <1>1, LenProperties
<1>3. ASSUME NEW k \in DOMAIN t
      PROVE  \/ k = Len(s) + 1 /\ t[k] = e
             \/ k \in DOMAIN s /\ t[k] = s[k]
  BY <1>1, <1>2
<1>4. Len(s) + 1 \in DOMAIN t /\ \A k \in DOMAIN s : k \in DOMAIN t /\ t[k] = s[k]
  BY <1>1, <1>2
<1>5. Nothing(t) => Nothing(s) \/ (e.id = "InputStyle" /\ e.value[1] = "Nothing")
  BY <1>3 DEF Nothing
<1>6. Nothing(s) \/ (e.id = "InputStyle" /\ e.value[1] = "Nothing") => Nothing(t)
  BY <1>1, <1>4 DEF Nothing
<1>7. QED
  BY <1>5, <1>6 DEF t

LEMMA PlainType ==
  ASSUME NEW items \in Seq(SetItem)
  PROVE  Plain(items) \in Seq(Attribute)
<1>. DEFINE Q == {s \in Seq(SetItem) : Plain(s) \in Seq(Attribute)}
<1>1. <<>> \in Q
  BY SelectEmpty, EmptySeq DEF Plain
<1>2. ASSUME NEW s \in Seq(SetItem), NEW e \in SetItem, s \in Q PROVE Append(s, e) \in Q
  <2>1. Append(s, e) \in Seq(SetItem)
    BY AppendProperties
  <2>2. Plain(Append(s, e)) = IF e \in Attribute THEN Append(Plain(s), e) ELSE Plain(s)
    BY SelectAppend DEF Plain
  <2>. DEFINE l == Plain(s)
  <2>3. l \in Seq(Attribute)
    BY <1>2
  <2>. HIDE DEF l
  <2>4. e \in Attribute => Append(l, e) \in Seq(Attribute)
    BY <2>3, AppendProperties
  <2>5. QED
    BY <2>1, <2>2, <2>3, <2>4 DEF l
<1>3. Seq(SetItem) \subseteq Q
  <2>. HIDE DEF Q
  <2>1. QED
    BY <1>1, <1>2, SeqInductionOnSet
<1>4. QED
  BY <1>3

LEMMA StoresPlain ==
  ASSUME swapped \in BOOLEAN, NEW r \in ICs, NEW focus, NEW window,
         r.focus[1] = focus[1], Alike(r.window, window),
         NEW items \in Seq(SetItem)
  PROVE  LET q == StoreIcAttributes(r, Attributes(Plain(items))) IN
         /\ q \in ICs
         /\ q.pre = r.pre /\ q.sts = r.sts
         /\ q.focus[1] = LastOr(items, "FocusWindow", focus)[1]
         /\ Alike(q.window, IF Nothing(items) THEN Unplaced ELSE window)
<1>. DEFINE E == SetItem
            St(s) == StoreIcAttributes(r, Attributes(Plain(s)))
            Good(s) ==
              /\ St(s) \in ICs
              /\ St(s).pre = r.pre /\ St(s).sts = r.sts
              /\ St(s).focus[1] = LastOr(s, "FocusWindow", focus)[1]
              /\ Alike(St(s).window, IF Nothing(s) THEN Unplaced ELSE window)
            Q == {s \in Seq(E) : Good(s)}
<1>1. <<>> \in Q
  <2>1. St(<<>>) = r
    BY AttributesEmpty, StoreNone, SelectEmpty DEF Plain
  <2>2. LastOr(<<>>, "FocusWindow", focus) = focus
    BY LastOrEmpty
  <2>3. ~Nothing(<<>>)
    BY DEF Nothing
  <2>4. <<>> \in Seq(E)
    BY EmptySeq
  <2>. HIDE DEF St, E
  <2>5. QED
    BY <2>1, <2>2, <2>3, <2>4
<1>2. ASSUME NEW s \in Seq(E), NEW e \in E, s \in Q PROVE Append(s, e) \in Q
  <2>. DEFINE t == Append(s, e)
              l == Plain(s)
              a == Attributes(l)
              f == ReadICValue(e)
              p == St(s)
              q == St(t)
  <2>1. /\ e \in Attribute <=> e.id \in {"InputStyle", "FocusWindow"}
        /\ e.id \in {"InputStyle", "FocusWindow"} \cup Nests
    BY SetItemFields
  <2>2. l \in Seq(Attribute)
    BY PlainType
  <2>3. Plain(t) = IF e \in Attribute THEN Append(l, e) ELSE l
    BY SelectAppend DEF Plain
  <2>4. /\ p \in ICs /\ p.pre = r.pre /\ p.sts = r.sts
        /\ p.focus[1] = LastOr(s, "FocusWindow", focus)[1]
        /\ Alike(p.window, IF Nothing(s) THEN Unplaced ELSE window)
    BY <1>2
  <2>5. t \in Seq(E)
    BY AppendProperties
  <2>6. LastOr(t, "FocusWindow", focus) =
          IF e.id = "FocusWindow" THEN e.value ELSE LastOr(s, "FocusWindow", focus)
    BY LastOrAppend
  <2>7. Nothing(t) <=> Nothing(s) \/ (e.id = "InputStyle" /\ e.value[1] = "Nothing")
    BY NothingAppend
  <2>8. CASE e \in Attribute
    <3>1. f \in Attribute /\ f.id = e.id /\ f.value[1] = e.value[1]
      BY <2>8, ReadAttribute
    <3>2. a \in Seq(Attribute) /\ Attributes(Append(l, e)) = Append(a, f)
      <4>. HIDE DEF l
      <4>1. QED
        BY <2>2, <2>8, AttributesAppend
    <3>3. q = StoreIcAttribute(p, f)
      <4>1. StoreIcAttributes(r, Append(a, f)) = StoreIcAttribute(StoreIcAttributes(r, a), f)
        <5>. HIDE DEF a, f
        <5>1. QED
          BY <3>1, <3>2, StoreOneMore
      <4>2. QED
        BY <2>3, <2>8, <3>2, <4>1
    <3>. HIDE DEF p, q, f, t, E, St
    <3>4. /\ q \in ICs
          /\ q.pre = p.pre /\ q.sts = p.sts
          /\ q.focus = IF f.id = "FocusWindow" THEN f.value ELSE p.focus
          /\ q.window = IF f.id = "InputStyle" /\ f.value[1] = "Nothing" THEN Default ELSE p.window
      BY <2>4, <3>1, <3>3, StoresIcAttribute
    <3>5. q.focus[1] = LastOr(t, "FocusWindow", focus)[1]
      BY <2>4, <2>6, <3>1, <3>4
    <3>6. Alike(q.window, IF Nothing(t) THEN Unplaced ELSE window)
      <4>1. CASE e.id = "InputStyle" /\ e.value[1] = "Nothing"
        BY <2>7, <3>1, <3>4, <4>1, AlikeDefault
      <4>2. CASE ~(e.id = "InputStyle" /\ e.value[1] = "Nothing")
        <5>1. q.window = p.window /\ (Nothing(t) <=> Nothing(s))
          BY <2>7, <3>1, <3>4, <4>2
        <5>2. QED
          BY <2>4, <5>1
      <4>3. QED
        BY <4>1, <4>2
    <3>7. Good(t)
      BY <2>4, <3>4, <3>5, <3>6 DEF q
    <3>. HIDE DEF Good
    <3>8. QED
      BY <2>5, <3>7 DEF t
  <2>9. CASE e \notin Attribute
    <3>1. q = p
      BY <2>3, <2>9
    <3>2. LastOr(t, "FocusWindow", focus) = LastOr(s, "FocusWindow", focus) /\ (Nothing(t) <=> Nothing(s))
      BY <2>1, <2>6, <2>7, <2>9
    <3>. HIDE DEF p, q, t, E, St
    <3>3. Good(t)
      BY <2>4, <3>1, <3>2 DEF q
    <3>. HIDE DEF Good
    <3>4. QED
      BY <2>5, <3>3 DEF t
  <2>10. QED
    BY <2>8, <2>9
<1>3. Seq(E) \subseteq Q
  <2>. HIDE DEF Q, E
  <2>1. QED
    BY <1>1, <1>2, SeqInductionOnSet
<1>4. QED
  BY <1>3

-----------------------------------------------------------------------------
(* What is stored agrees with what the client asked for.                   *)

Stored ==
  /\ swapped \in BOOLEAN
  /\ ic \in ICs
  /\ ic.focus[1] = asked.focus[1]
  /\ Alike(ic.window, asked.window)
  /\ asked.window.of[1] = asked.focus[1] \/ asked.window.of[1] = NoWindow \/ asked.moved
  /\ \A id \in PreeditIds : Held(id, ic.pre[id], asked.pre[id])
  /\ \A id \in StatusIds : Held(id, ic.sts[id], asked.sts[id])

LEMMA StoredInit == Init => Stored
<1>. SUFFICES ASSUME Init PROVE Stored
  OBVIOUS
<1>1. swapped \in BOOLEAN /\ ic = NewIC /\ asked = NothingAsked
  BY DEF Init
<1>2. \A id : Unset(id) \in Datum
  BY DEF Unset, Datum
<1>3. NewIC \in ICs
  BY <1>2, DefaultWindow DEF NewIC, ICs
<1>4. /\ \A id \in PreeditIds : NewIC.pre[id] = Unset(id) /\ NothingAsked.pre[id] = Unset(id)
      /\ \A id \in StatusIds : NewIC.sts[id] = Unset(id) /\ NothingAsked.sts[id] = Unset(id)
      /\ NewIC.focus = NothingAsked.focus
      /\ NewIC.window = Default /\ NothingAsked.window = Unplaced
      /\ NothingAsked.window.of = <<NoWindow, FALSE>>
  BY DEF NewIC, NothingAsked, Unplaced
<1>5. QED
  BY <1>1, <1>3, <1>4, AlikeDefault DEF Stored, Held

LEMMA NestedTypes ==
  ASSUME NEW items \in Seq(SetItem)
  PROVE  /\ Nested(items, "PreeditAttributes") \in Seq(Sent(PreeditIds))
         /\ Nested(items, "StatusAttributes") \in Seq(Sent(StatusIds))
<1>. DEFINE A == Sent(PreeditIds)
            B == Sent(StatusIds)
            pre == "PreeditAttributes"
            sts == "StatusAttributes"
<1>1. \A x \in SetItem : (x.id = pre => x.list \in Seq(A)) /\ (x.id = sts => x.list \in Seq(B))
  BY SetItemFields
<1>. HIDE DEF A, B, pre, sts
<1>2. Nested(items, pre) \in Seq(A) /\ Nested(items, sts) \in Seq(B)
  BY <1>1, NestedIs
<1>3. QED
  BY <1>2 DEF A, B, pre, sts

LEMMA StoresAll ==
  ASSUME Stored, NEW items \in Seq(SetItem), NEW found \in BOOLEAN,
         NEW q, q = StoreIMIC(ic, Attributes(Plain(items)),
                              Attributes(Nested(items, "PreeditAttributes")),
                              Attributes(Nested(items, "StatusAttributes")), found),
         NEW a, a = Asked(items, found)
  PROVE  /\ q \in ICs
         /\ q.focus[1] = a.focus[1]
         /\ Alike(q.window, a.window)
         /\ a.window.of[1] = a.focus[1] \/ a.window.of[1] = NoWindow \/ a.moved
         /\ \A id \in PreeditIds : Held(id, q.pre[id], a.pre[id])
         /\ \A id \in StatusIds : Held(id, q.sts[id], a.sts[id])
<1>. DEFINE pres == Nested(items, "PreeditAttributes")
            stss == Nested(items, "StatusAttributes")
            r1 == StoreIcAttributes(ic, Attributes(Plain(items)))
            r2 == StorePreeditAttributes(r1, Attributes(pres), found)
            f0 == asked.focus
            w0 == asked.window
            focus == LastOr(items, "FocusWindow", f0)
            window == IF Nothing(items) THEN Unplaced ELSE w0
            named == LastNamed(items, {"FocusWindow"})
            p == LastNamed(pres, Places)
            moved == p = 0 /\ (asked.moved \/ named # 0)
            wantp == asked.pre
            wants == asked.sts
<1>1. /\ swapped \in BOOLEAN /\ ic \in ICs
      /\ ic.focus[1] = f0[1] /\ Alike(ic.window, w0)
      /\ w0.of[1] = f0[1] \/ w0.of[1] = NoWindow \/ asked.moved
      /\ \A id \in PreeditIds : Held(id, ic.pre[id], wantp[id])
      /\ \A id \in StatusIds : Held(id, ic.sts[id], wants[id])
  BY DEF Stored
<1>2. pres \in Seq(Sent(PreeditIds)) /\ stss \in Seq(Sent(StatusIds))
  BY NestedTypes
<1>3. q = StoreStatusAttributes(r2, Attributes(stss))
  BY DEF StoreIMIC
<1>4. a = [focus |-> focus,
           pre |-> [id \in PreeditIds |-> LastOr(pres, id, wantp[id])],
           sts |-> [id \in StatusIds |-> LastOr(stss, id, wants[id])],
           window |-> WindowAfter(pres, found, focus, window),
           moved |-> moved]
  BY DEF Asked, WindowAfter, WindowAt, Nothing, Places
<1>. DEFINE w == WindowAfter(pres, found, focus, window)
<1>13. w.of[1] = focus[1] \/ w.of[1] = NoWindow \/ moved
  <2>1. CASE p # 0
    <3>1. w.of = IF found THEN focus ELSE <<NoWindow, FALSE>>
      BY <2>1 DEF WindowAfter, WindowAt
    <3>2. QED
      BY <3>1
  <2>2. CASE p = 0
    <3>1. w = window
      BY <2>2 DEF WindowAfter
    <3>2. Unplaced.of[1] = NoWindow
      BY DEF Unplaced
    <3>3. named = 0 => focus = f0
      BY DEF LastOr
    <3>4. QED
      BY <1>1, <2>2, <3>1, <3>2, <3>3
  <2>3. QED
    BY <2>1, <2>2
<1>. HIDE DEF pres, stss, f0, w0, wantp, wants, named, p, moved, w
<1>5. /\ r1 \in ICs
      /\ r1.pre = ic.pre /\ r1.sts = ic.sts
      /\ r1.focus[1] = LastOr(items, "FocusWindow", f0)[1]
      /\ Alike(r1.window, IF Nothing(items) THEN Unplaced ELSE w0)
  BY <1>1, StoresPlain
<1>. HIDE DEF r1, focus, window
<1>6. r1.focus[1] = focus[1] /\ Alike(r1.window, window)
  BY <1>5 DEF focus, window
<1>7. \A id \in PreeditIds : Held(id, r1.pre[id], wantp[id])
  BY <1>1, <1>5
<1>8. /\ r2 \in ICs
      /\ r2.focus = r1.focus /\ r2.sts = r1.sts
      /\ \A id \in PreeditIds : Held(id, r2.pre[id], LastOr(pres, id, wantp[id]))
      /\ Alike(r2.window, WindowAfter(pres, found, focus, window))
  <2>1. ReadyForPre(r1, focus, window, wantp)
    BY <1>6, <1>7 DEF ReadyForPre
  <2>2. QED
    BY <1>1, <1>2, <1>5, <2>1, StoresPre
<1>. HIDE DEF r2
<1>9. \A id \in StatusIds : Held(id, r2.sts[id], wants[id])
  BY <1>1, <1>5, <1>8
<1>10. /\ q \in ICs
       /\ q.focus = r2.focus /\ q.pre = r2.pre /\ q.window = r2.window
       /\ \A id \in StatusIds : Held(id, q.sts[id], LastOr(stss, id, wants[id]))
  BY <1>1, <1>2, <1>3, <1>8, <1>9, StoresSts
<1>11. /\ a.focus = focus /\ a.window = WindowAfter(pres, found, focus, window)
       /\ a.moved = moved
       /\ \A id \in PreeditIds : a.pre[id] = LastOr(pres, id, wantp[id])
       /\ \A id \in StatusIds : a.sts[id] = LastOr(stss, id, wants[id])
  BY <1>4
<1>12. QED
  BY <1>6, <1>8, <1>10, <1>11, <1>13 DEF w

LEMMA StoredNext == Stored /\ [Next]_vars => Stored'
<1>. SUFFICES ASSUME Stored, [Next]_vars PROVE Stored'
  OBVIOUS
<1>1. CASE ChangeIC
  <2>1. PICK items \in SetRequests, found \in BOOLEAN :
          /\ ic' = StoreIMIC(ic, Attributes(Plain(items)),
                             Attributes(Nested(items, "PreeditAttributes")),
                             Attributes(Nested(items, "StatusAttributes")), found)
          /\ asked' = Asked(items, found)
    BY <1>1 DEF ChangeIC
  <2>2. swapped' = swapped /\ swapped \in BOOLEAN
    BY <1>1 DEF ChangeIC, Stored
  <2>3. items \in Seq(SetItem)
    BY <2>2, SetRequestType
  <2>4. /\ ic' \in ICs
        /\ ic'.focus[1] = asked'.focus[1]
        /\ Alike(ic'.window, asked'.window)
        /\ \/ asked'.window.of[1] = asked'.focus[1]
           \/ asked'.window.of[1] = NoWindow
           \/ asked'.moved
        /\ \A id \in PreeditIds : Held(id, ic'.pre[id], asked'.pre[id])
        /\ \A id \in StatusIds : Held(id, ic'.sts[id], asked'.sts[id])
    BY <2>1, <2>3, StoresAll
  <2>5. QED
    BY <2>2, <2>4
      DEF Stored, Alike, Held, OnWire, ReadICValue, SetRectAttribute, SetPointAttribute,
          SetFontAttribute, SetCardAttribute, Swapped
<1>2. CASE UNCHANGED <<swapped, ic, asked>>
  BY <1>2
    DEF Stored, Alike, Held, OnWire, ReadICValue, SetRectAttribute, SetPointAttribute,
        SetFontAttribute, SetCardAttribute, Swapped
<1>3. QED
  BY <1>1, <1>2 DEF Next, ClientGetsIC, ReadIds, GetIC, ClientGotIC, vars

(* The composition window is where the client put it, in the right byte     *)
(* order but for spots of clients of the other one, and relative to the     *)
(* client's focus window unless that was named later, whatever the order of *)
(* a request and for requests of any length (StoreIMIC).                   *)
THEOREM WindowStaysWhereAsked == Spec => []WindowWhereAsked
<1>1. Stored => WindowWhereAsked
  BY DEF Stored, Alike, WindowWhereAsked
<1>2. QED
  BY <1>1, StoredInit, StoredNext, PTL DEF Spec

-----------------------------------------------------------------------------
(* The items of a request that reads values, and their ids.                *)

GetItem ==
  [id : {"FilterEvents", "InputStyle"}]
    \cup [id : {"PreeditAttributes"}, list : Seq(PreeditIds)]
    \cup [id : {"StatusAttributes"}, list : Seq(StatusIds)]

(* What the server makes of an item among the attributes of the IC.        *)
Plainly == [x \in GetItem |-> IF x.id \in Nests THEN "Separator" ELSE x.id]

Encoded ==
  [x \in GetItem |-> IF x.id \in Nests THEN <<x.id>> \o x.list \o <<"Separator">> ELSE <<x.id>>]

LEMMA GetItemFields ==
  ASSUME NEW x \in GetItem
  PROVE  /\ x.id \in {"FilterEvents", "InputStyle"} \cup Nests
         /\ x.id = "PreeditAttributes" => x.list \in Seq(PreeditIds)
         /\ x.id = "StatusAttributes" => x.list \in Seq(StatusIds)
         /\ x.id \in Nests => x.list \in Seq(KnownIds \ {"Separator"})
<1>1. PreeditIds \subseteq KnownIds \ {"Separator"} /\ StatusIds \subseteq KnownIds \ {"Separator"}
  BY IdsKnown
<1>2. CASE x \in [id : {"FilterEvents", "InputStyle"}]
  BY <1>2 DEF Nests
<1>3. CASE x \in [id : {"PreeditAttributes"}, list : Seq(PreeditIds)]
  <2>1. x.id = "PreeditAttributes" /\ x.list \in Seq(PreeditIds)
    BY <1>3
  <2>2. x.list \in Seq(KnownIds \ {"Separator"})
    BY <1>1, <2>1, SeqMonotonic
  <2>3. QED
    BY <2>1, <2>2 DEF Nests
<1>4. CASE x \in [id : {"StatusAttributes"}, list : Seq(StatusIds)]
  <2>1. x.id = "StatusAttributes" /\ x.list \in Seq(StatusIds)
    BY <1>4
  <2>2. x.list \in Seq(KnownIds \ {"Separator"})
    BY <1>1, <2>1, SeqMonotonic
  <2>3. QED
    BY <2>1, <2>2 DEF Nests
<1>5. QED
  BY <1>2, <1>3, <1>4 DEF GetItem

LEMMA GetRequestType ==
  ASSUME NEW items \in GetRequests
  PROVE  items \in Seq(GetItem)
<1>. DEFINE A == {[id |-> "FilterEvents"], [id |-> "InputStyle"]}
            C == Nest("PreeditAttributes", PreeditIds)
            D == Nest("StatusAttributes", StatusIds)
<1>1. A \subseteq GetItem
  BY DEF GetItem
<1>2. C \subseteq GetItem
  <2>1. SUFFICES ASSUME NEW l \in BoundedSeq(PreeditIds, MaxNested)
                 PROVE  [id |-> "PreeditAttributes", list |-> l] \in GetItem
    BY DEF Nest
  <2>2. l \in Seq(PreeditIds)
    BY BoundedIsSeq, BoundsAssumption
  <2>3. QED
    BY <2>2 DEF GetItem
<1>3. D \subseteq GetItem
  <2>1. SUFFICES ASSUME NEW l \in BoundedSeq(StatusIds, MaxNested)
                 PROVE  [id |-> "StatusAttributes", list |-> l] \in GetItem
    BY DEF Nest
  <2>2. l \in Seq(StatusIds)
    BY BoundedIsSeq, BoundsAssumption
  <2>3. QED
    BY <2>2 DEF GetItem
<1>4. items \in BoundedSeq(A \cup C \cup D, MaxGetItems)
  BY DEF GetRequests
<1>. HIDE DEF A, C, D
<1>5. items \in Seq(A \cup C \cup D)
  BY <1>4, BoundedIsSeq, BoundsAssumption
<1>6. A \cup C \cup D \subseteq GetItem
  BY <1>1, <1>2, <1>3
<1>7. QED
  BY <1>5, <1>6

LEMMA OneKnown ==
  /\ <<"Separator">> \in Seq(KnownIds)
  /\ Len(<<"Separator">>) = 1
  /\ \A x \in GetItem : x.id \in KnownIds /\ <<x.id>> \in Seq(KnownIds)
<1>1. "Separator" \in KnownIds /\ \A x \in GetItem : x.id \in KnownIds
  BY GetItemFields DEF KnownIds, KnownIdsNoSeparator, Nests
<1>2. QED
  BY <1>1

LEMMA PlainlyOn ==
  /\ MapOn(Plainly, GetItem, KnownIds)
  /\ \A x \in GetItem : Plainly[x] = IF x.id \in Nests THEN "Separator" ELSE x.id
<1>1. \A x \in GetItem : (IF x.id \in Nests THEN "Separator" ELSE x.id) \in KnownIds
  BY OneKnown DEF KnownIds
<1>2. QED
  BY <1>1 DEF MapOn, Plainly

LEMMA NestEncoded ==
  ASSUME NEW x \in GetItem, x.id \in Nests
  PROVE  /\ <<x.id>> \o x.list \in Seq(KnownIds)
         /\ <<x.id>> \o x.list \o <<"Separator">> \in Seq(KnownIds)
<1>. DEFINE h == <<x.id>>
            l == x.list
            e == <<"Separator">>
<1>1. h \in Seq(KnownIds) /\ e \in Seq(KnownIds)
  BY OneKnown
<1>2. l \in Seq(KnownIds)
  <2>1. l \in Seq(KnownIds \ {"Separator"})
    BY GetItemFields
  <2>2. QED
    BY <2>1, SeqMonotonic
<1>. HIDE DEF h, l, e
<1>3. h \o l \in Seq(KnownIds)
  BY <1>1, <1>2, ConcatProperties
<1>. DEFINE hl == h \o l
<1>4. hl \in Seq(KnownIds)
  BY <1>3
<1>. HIDE DEF hl
<1>5. hl \o e \in Seq(KnownIds)
  BY <1>1, <1>4, ConcatProperties
<1>6. QED
  BY <1>4, <1>5 DEF hl, h, l, e

LEMMA EncodedOn ==
  /\ MapOn(Encoded, GetItem, Seq(KnownIds))
  /\ \A x \in GetItem :
       Encoded[x] = IF x.id \in Nests THEN <<x.id>> \o x.list \o <<"Separator">> ELSE <<x.id>>
<1>1. ASSUME NEW x \in GetItem
      PROVE  (IF x.id \in Nests THEN <<x.id>> \o x.list \o <<"Separator">> ELSE <<x.id>>) \in Seq(KnownIds)
  BY OneKnown, NestEncoded
<1>2. QED
  BY <1>1 DEF MapOn, Encoded

LEMMA EncodeIs ==
  ASSUME NEW items \in Seq(GetItem)
  PROVE  /\ Encode(items) = FlattenSeq(Mapped(Encoded, items))
         /\ Encode(items) \in Seq(KnownIds)
<1>1. Encode(items) = FlattenSeq(Mapped(Encoded, items))
  <2>1. DOMAIN items = 1 .. Len(items)
    BY LenProperties
  <2>. DEFINE e(x) == IF x.id \in Nests THEN <<x.id>> \o x.list \o <<"Separator">> ELSE <<x.id>>
  <2>2. ASSUME NEW k \in 1 .. Len(items) PROVE e(items[k]) = Encoded[items[k]]
    BY ElementOfSeq, EncodedOn
  <2>3. Encode(items) = FlattenSeq([k \in 1 .. Len(items) |-> e(items[k])])
    BY <2>1, Zenon DEF Encode
  <2>. HIDE DEF e
  <2>4. [k \in 1 .. Len(items) |-> e(items[k])] = [k \in 1 .. Len(items) |-> Encoded[items[k]]]
    BY <2>2, Zenon
  <2>5. QED
    BY <2>3, <2>4, Zenon DEF Mapped
<1>. DEFINE m == Mapped(Encoded, items)
<1>2. m \in Seq(Seq(KnownIds))
  BY EncodedOn, MappedElements
<1>. HIDE DEF m
<1>3. FlattenSeq(m) \in Seq(KnownIds)
  BY <1>2, FlattenType
<1>4. QED
  BY <1>1, <1>3 DEF m

LEMMA EncodeEmpty == Encode(<<>>) = <<>>
<1>1. DOMAIN <<>> = {}
  OBVIOUS
<1>2. Encode(<<>>) = FlattenSeq(Mapped(Encoded, <<>>))
  BY EncodeIs, EmptySeq
<1>3. QED
  BY <1>2, MappedEmpty, FlattenEmpty

LEMMA EncodeHeadTail ==
  ASSUME NEW items \in Seq(GetItem), items # <<>>
  PROVE  /\ Head(items) \in GetItem /\ Tail(items) \in Seq(GetItem)
         /\ Encode(items) = Encoded[Head(items)] \o Encode(Tail(items))
<1>. DEFINE t == Tail(items)
            m == Mapped(Encoded, items)
<1>1. Head(items) \in GetItem /\ t \in Seq(GetItem)
  BY HeadTailProperties
<1>. HIDE DEF t
<1>2. Encode(items) = FlattenSeq(m) /\ Encode(t) = FlattenSeq(Mapped(Encoded, t))
  BY <1>1, EncodeIs
<1>3. m \in Seq(Seq(KnownIds)) /\ m # <<>> /\ Head(m) = Encoded[Head(items)] /\ Tail(m) = Mapped(Encoded, t)
  BY EncodedOn, MappedElements, MappedHeadTail DEF t
<1>. HIDE DEF m
<1>4. FlattenSeq(m) = Head(m) \o FlattenSeq(Tail(m))
  BY <1>3, FlattenHeadTail
<1>5. QED
  BY <1>1, <1>2, <1>3, <1>4 DEF t

LEMMA PlainlyHeadTail ==
  ASSUME NEW items \in Seq(GetItem), items # <<>>
  PROVE  /\ Mapped(Plainly, items) \in Seq(KnownIds)
         /\ Mapped(Plainly, Tail(items)) \in Seq(KnownIds)
         /\ Mapped(Plainly, items) = <<Plainly[Head(items)]>> \o Mapped(Plainly, Tail(items))
<1>. DEFINE m == Mapped(Plainly, items)
            t == Tail(items)
<1>1. m \in Seq(KnownIds) /\ m # <<>> /\ Head(m) = Plainly[Head(items)] /\ Tail(m) = Mapped(Plainly, t)
  BY PlainlyOn, MappedElements, MappedHeadTail
<1>. HIDE DEF m, t
<1>2. m = <<Head(m)>> \o Tail(m) /\ Tail(m) \in Seq(KnownIds)
  BY <1>1, HeadThenTail
<1>3. QED
  BY <1>1, <1>2 DEF m, t

(* The search for the separator that ends a nested list.                   *)
LEMMA FirstSeparator ==
  ASSUME NEW ids, NEW l \in Seq(KnownIds \ {"Separator"}),
         NEW n \in Nat, DOMAIN ids = 1 .. n, Len(l) + 2 <= n,
         ids[1] # "Separator",
         \A k \in 1 .. Len(l) : ids[k + 1] = l[k],
         ids[Len(l) + 2] = "Separator"
  PROVE  LET separators == {k \in DOMAIN ids : ids[k] = "Separator"} IN
         (CHOOSE k \in separators : \A j \in separators : k <= j) = Len(l) + 2
<1>. DEFINE separators == {k \in DOMAIN ids : ids[k] = "Separator"}
            m == Len(l) + 2
<1>1. Len(l) \in Nat /\ \A k \in 1 .. Len(l) : l[k] # "Separator"
  BY LenProperties, ElementOfSeq
<1>2. m \in separators /\ separators \subseteq Nat
  BY <1>1
<1>3. ASSUME NEW k \in separators PROVE m <= k
  <2>1. k \in 1 .. n /\ ids[k] = "Separator"
    OBVIOUS
  <2>2. CASE k = 1
    BY <2>1, <2>2
  <2>3. CASE k \in 2 .. Len(l) + 1
    <3>1. k - 1 \in 1 .. Len(l) /\ (k - 1) + 1 = k
      BY <1>1, <2>3
    <3>2. ids[k] = l[k - 1]
      BY <3>1
    <3>3. QED
      BY <1>1, <2>1, <3>1, <3>2
  <2>4. QED
    BY <1>1, <2>1, <2>2, <2>3
<1>4. \A k \in separators : (\A j \in separators : k <= j) => k = m
  BY <1>2, <1>3
<1>. HIDE DEF separators
<1>5. (CHOOSE k \in separators : \A j \in separators : k <= j) = m
  BY <1>2, <1>3, <1>4
<1>6. QED
  BY <1>5 DEF separators

-----------------------------------------------------------------------------
(* Reading the ids of a request.                                           *)

Found == [ic : Seq(KnownIds), pre : Seq(PreeditIds), sts : Seq(StatusIds)]

AllOf(r) ==
  [ic |-> Mapped(Plainly, r),
   pre |-> Nested(r, "PreeditAttributes"),
   sts |-> Nested(r, "StatusAttributes")]

(* Of the request r, a separator (if any) and the items rest are left to    *)
(* be read from index n on, and ls has been found before.                  *)
Left(r, n, ls, rest, sep) ==
  /\ n \in 1 .. Len(Encode(r)) + 1
  /\ Rest(Encode(r), n) = sep \o Encode(rest)
  /\ ls.ic \o sep \o Mapped(Plainly, rest) = Mapped(Plainly, r)
  /\ ls.pre \o Nested(rest, "PreeditAttributes") = Nested(r, "PreeditAttributes")
  /\ ls.sts \o Nested(rest, "StatusAttributes") = Nested(r, "StatusAttributes")

Separators == {<<>>, <<"Separator">>}

LEMMA FoundFields ==
  ASSUME NEW ls \in Found
  PROVE  /\ ls = [ic |-> ls.ic, pre |-> ls.pre, sts |-> ls.sts]
         /\ ls.ic \in Seq(KnownIds) /\ ls.pre \in Seq(PreeditIds) /\ ls.sts \in Seq(StatusIds)
BY DEF Found

LEMMA FoundUpdated ==
  ASSUME NEW ls \in Found, NEW v
  PROVE  /\ [ls EXCEPT !.ic = v] = [ic |-> v, pre |-> ls.pre, sts |-> ls.sts]
         /\ [ls EXCEPT !.pre = v] = [ic |-> ls.ic, pre |-> v, sts |-> ls.sts]
         /\ [ls EXCEPT !.sts = v] = [ic |-> ls.ic, pre |-> ls.pre, sts |-> v]
         /\ v \in Seq(KnownIds) => [ls EXCEPT !.ic = v] \in Found
         /\ v \in Seq(PreeditIds) => [ls EXCEPT !.pre = v] \in Found
         /\ v \in Seq(StatusIds) => [ls EXCEPT !.sts = v] \in Found
<1>1. /\ [ls EXCEPT !.ic = v] = [ic |-> v, pre |-> ls.pre, sts |-> ls.sts]
      /\ [ls EXCEPT !.pre = v] = [ic |-> ls.ic, pre |-> v, sts |-> ls.sts]
      /\ [ls EXCEPT !.sts = v] = [ic |-> ls.ic, pre |-> ls.pre, sts |-> v]
  BY FoundFields
<1>2. QED
  BY <1>1, FoundFields DEF Found

LEMMA GetNestedTypes ==
  ASSUME NEW items \in Seq(GetItem)
  PROVE  /\ Nested(items, "PreeditAttributes") \in Seq(PreeditIds)
         /\ Nested(items, "StatusAttributes") \in Seq(StatusIds)
<1>. DEFINE pre == "PreeditAttributes"
            sts == "StatusAttributes"
<1>1. \A x \in GetItem : (x.id = pre => x.list \in Seq(PreeditIds))
                         /\ (x.id = sts => x.list \in Seq(StatusIds))
  BY GetItemFields
<1>. HIDE DEF pre, sts
<1>2. Nested(items, pre) \in Seq(PreeditIds) /\ Nested(items, sts) \in Seq(StatusIds)
  BY <1>1, NestedIs
<1>3. QED
  BY <1>2 DEF pre, sts

LEMMA GetNestedHeadTail ==
  ASSUME NEW items \in Seq(GetItem), items # <<>>
  PROVE  /\ Nested(items, "PreeditAttributes")
              = (IF Head(items).id = "PreeditAttributes" THEN Head(items).list ELSE <<>>)
                  \o Nested(Tail(items), "PreeditAttributes")
         /\ Nested(items, "StatusAttributes")
              = (IF Head(items).id = "StatusAttributes" THEN Head(items).list ELSE <<>>)
                  \o Nested(Tail(items), "StatusAttributes")
<1>. DEFINE pre == "PreeditAttributes"
            sts == "StatusAttributes"
<1>1. \A x \in GetItem : (x.id = pre => x.list \in Seq(PreeditIds))
                         /\ (x.id = sts => x.list \in Seq(StatusIds))
  BY GetItemFields
<1>. HIDE DEF pre, sts
<1>2. /\ Nested(items, pre) = (IF Head(items).id = pre THEN Head(items).list ELSE <<>>) \o Nested(Tail(items), pre)
      /\ Nested(items, sts) = (IF Head(items).id = sts THEN Head(items).list ELSE <<>>) \o Nested(Tail(items), sts)
  BY <1>1, NestedHeadTail
<1>3. QED
  BY <1>2 DEF pre, sts

LEMMA GetNestedEmpty == \A nest : Nested(<<>>, nest) = <<>>
<1>1. ASSUME NEW nest PROVE Nested(<<>>, nest) = FlattenSeq(<<>>)
  <2>1. DOMAIN <<>> = {}
    OBVIOUS
  <2>2. QED
    BY <2>1 DEF Nested
<1>2. QED
  BY <1>1, FlattenEmpty

(* Nothing is read yet.                                                    *)
LEMMA AllLeft ==
  ASSUME NEW r \in Seq(GetItem)
  PROVE  Left(r, 1, NoIds, r, <<>>)
<1>. DEFINE A == Encode(r)
            M == Mapped(Plainly, r)
            N == Nested(r, "PreeditAttributes")
            O == Nested(r, "StatusAttributes")
<1>1. /\ A \in Seq(KnownIds) /\ M \in Seq(KnownIds)
      /\ N \in Seq(PreeditIds) /\ O \in Seq(StatusIds)
  BY EncodeIs, PlainlyOn, MappedElements, GetNestedTypes
<1>. HIDE DEF A, M, N, O
<1>2. <<>> \o A = A /\ <<>> \o M = M /\ <<>> \o N = N /\ <<>> \o O = O
  BY <1>1, ConcatEmptySeq
<1>3. Rest(A, 1) = A /\ Len(A) \in Nat
  BY <1>1, SubSeqFull, LenProperties DEF Rest
<1>4. 1 \in 1 .. Len(A) + 1
  BY <1>3
<1>5. <<>> \o <<>> = <<>>
  OBVIOUS
<1>6. QED
  BY <1>2, <1>3, <1>4, <1>5 DEF Left, NoIds, A, M, N, O

(* Everything is read.                                                     *)
LEMMA NothingLeft ==
  ASSUME NEW r \in Seq(GetItem), NEW n, NEW ls \in Found, NEW rest \in Seq(GetItem),
         NEW sep \in Separators, Left(r, n, ls, rest, sep), n > Len(Encode(r))
  PROVE  ls = AllOf(r)
<1>. DEFINE A == Encode(r)
            y == Encode(rest)
<1>1. A \in Seq(KnownIds) /\ y \in Seq(KnownIds) /\ sep \in Seq(KnownIds)
  BY EncodeIs, OneKnown, EmptySeq DEF Separators
<1>2. n \in 1 .. Len(A) + 1 /\ Rest(A, n) = sep \o y /\ n > Len(A)
  BY DEF Left
<1>. HIDE DEF A, y
<1>3. Len(A) \in Nat /\ Len(y) \in Nat /\ Len(sep) \in Nat
  BY <1>1, LenProperties
<1>4. Len(A) + 1 = n + Len(sep) + Len(y)
  <2>1. Splits(KnownIds, A, n, sep, y)
    BY <1>1, <1>2 DEF Splits
  <2>2. QED
    BY <2>1, ReadOn
<1>5. Len(sep) = 0 /\ Len(y) = 0
  BY <1>2, <1>3, <1>4
<1>6. sep = <<>> /\ y = <<>>
  BY <1>1, <1>5, EmptySeq
<1>7. rest = <<>>
  <2>1. SUFFICES ASSUME rest # <<>> PROVE FALSE
    OBVIOUS
  <2>. DEFINE h == Encoded[Head(rest)]
              u == Encode(Tail(rest))
  <2>2. Head(rest) \in GetItem /\ Tail(rest) \in Seq(GetItem) /\ y = h \o u
    BY <2>1, EncodeHeadTail DEF y
  <2>3. h \in Seq(KnownIds) /\ u \in Seq(KnownIds)
    BY <2>2, EncodedOn, EncodeIs DEF MapOn
  <2>4. Len(h) # 0
    <3>. DEFINE x == Head(rest)
                v == <<x.id>>
                l == x.list
                e == <<"Separator">>
    <3>1. h = IF x.id \in Nests THEN v \o l \o e ELSE v
      BY <2>2, EncodedOn
    <3>2. x.id \in Nests => v \o l \in Seq(KnownIds)
      BY <2>2, NestEncoded
    <3>3. e \in Seq(KnownIds) /\ Len(e) = 1 /\ Len(v) = 1
      BY OneKnown
    <3>4. ASSUME NEW w \in Seq(KnownIds) PROVE Len(w \o e) # 0
      <4>. HIDE DEF e
      <4>1. QED
        BY <3>3, ConcatProperties, LenProperties
    <3>5. x.id \in Nests => Len((v \o l) \o e) # 0
      BY <3>2, <3>4
    <3>6. QED
      BY <3>1, <3>3, <3>5
  <2>. HIDE DEF h, u
  <2>5. Len(y) = Len(h) + Len(u) /\ Len(h) \in Nat /\ Len(u) \in Nat
    BY <2>2, <2>3, ConcatProperties, LenProperties
  <2>6. Len(h) + Len(u) = 0
    BY <1>5, <2>5
  <2>7. QED
    BY <2>4, <2>5, <2>6
<1>8. /\ ls.ic \o <<>> \o Mapped(Plainly, <<>>) = Mapped(Plainly, r)
      /\ ls.pre \o Nested(<<>>, "PreeditAttributes") = Nested(r, "PreeditAttributes")
      /\ ls.sts \o Nested(<<>>, "StatusAttributes") = Nested(r, "StatusAttributes")
  BY <1>6, <1>7 DEF Left
<1>9. Mapped(Plainly, <<>>) = <<>> /\ \A nest : Nested(<<>>, nest) = <<>>
  BY MappedEmpty, GetNestedEmpty
<1>. DEFINE I == ls.ic
            P == ls.pre
            T == ls.sts
<1>10. I \in Seq(KnownIds) /\ P \in Seq(PreeditIds) /\ T \in Seq(StatusIds)
  BY FoundFields
<1>. HIDE DEF I, P, T
<1>11. I \o <<>> = I /\ P \o <<>> = P /\ T \o <<>> = T
  BY <1>10, ConcatEmptySeq
<1>12. /\ ls.ic = Mapped(Plainly, r)
       /\ ls.pre = Nested(r, "PreeditAttributes")
       /\ ls.sts = Nested(r, "StatusAttributes")
  BY <1>8, <1>9, <1>11 DEF I, P, T
<1>13. QED
  BY <1>12, FoundFields DEF AllOf

(* A separator is read.                                                    *)
LEMMA SeparatorRead ==
  ASSUME NEW r \in Seq(GetItem), NEW n, NEW ls \in Found, NEW rest \in Seq(GetItem),
         Left(r, n, ls, rest, <<"Separator">>)
  PROVE  /\ Encode(r)[n] = "Separator"
         /\ Rest(Encode(r), n)[1] = "Separator"
         /\ Left(r, n + 1, [ls EXCEPT !.ic = @ \o <<"Separator">>], rest, <<>>)
<1>. DEFINE A == Encode(r)
            y == Encode(rest)
            e == <<"Separator">>
            I == ls.ic \o e
            q == [ls EXCEPT !.ic = I]
<1>1. A \in Seq(KnownIds) /\ y \in Seq(KnownIds) /\ e \in Seq(KnownIds) /\ Len(e) = 1 /\ e[1] = "Separator"
  BY EncodeIs, OneKnown
<1>2. n \in 1 .. Len(A) + 1 /\ Rest(A, n) = e \o y
  BY DEF Left
<1>3. ls.ic \o e \in Seq(KnownIds)
  <2>. HIDE DEF e
  <2>1. QED
    BY <1>1, FoundFields, ConcatProperties
<1>4. /\ (ls.ic \o e) \o Mapped(Plainly, rest) = Mapped(Plainly, r)
      /\ ls.pre \o Nested(rest, "PreeditAttributes") = Nested(r, "PreeditAttributes")
      /\ ls.sts \o Nested(rest, "StatusAttributes") = Nested(r, "StatusAttributes")
  BY DEF Left
<1>. HIDE DEF A, y, e
<1>5. /\ n + Len(e) \in 1 .. Len(A) + 1
      /\ Rest(A, n + Len(e)) = y
      /\ \A k \in 1 .. Len(e) : A[n + k - 1] = e[k]
  <2>1. Splits(KnownIds, A, n, e, y)
    BY <1>1, <1>2 DEF Splits
  <2>2. QED
    BY <2>1, ReadOn
<1>6. A[n] = "Separator" /\ n + 1 \in 1 .. Len(A) + 1 /\ Rest(A, n + 1) = y
  BY <1>1, <1>2, <1>5
<1>7. (e \o y)[1] = "Separator"
  BY <1>1, ConcatProperties, LenProperties
<1>8. y = <<>> \o y /\ I \o <<>> = I
  <2>. HIDE DEF I
  <2>1. I \in Seq(KnownIds)
    BY <1>3 DEF I
  <2>2. QED
    BY <1>1, <2>1, ConcatEmptySeq
<1>9. q.ic = I /\ q.pre = ls.pre /\ q.sts = ls.sts
  BY FoundFields
<1>10. Left(r, n + 1, q, rest, <<>>)
  <2>. HIDE DEF I, q
  <2>1. I \o Mapped(Plainly, rest) = Mapped(Plainly, r)
    BY <1>4 DEF I
  <2>2. QED
    BY <1>4, <1>6, <1>8, <1>9, <2>1 DEF Left, A, y
<1>11. QED
  BY <1>2, <1>6, <1>7, <1>10 DEF A, e

(* Between items: there is one more.                                       *)
LEMMA ItemLeft ==
  ASSUME NEW r \in Seq(GetItem), NEW n, NEW ls, NEW rest \in Seq(GetItem),
         Left(r, n, ls, rest, <<>>), n <= Len(Encode(r))
  PROVE  /\ rest # <<>>
         /\ Encode(r) \in Seq(KnownIds)
         /\ n \in 1 .. Len(Encode(r)) + 1
         /\ Rest(Encode(r), n) = Encoded[Head(rest)] \o Encode(Tail(rest))
         /\ Head(rest) \in GetItem /\ Tail(rest) \in Seq(GetItem)
         /\ Encode(Tail(rest)) \in Seq(KnownIds)
<1>. DEFINE A == Encode(r)
            y == Encode(rest)
            none == <<>>
<1>1. A \in Seq(KnownIds) /\ y \in Seq(KnownIds) /\ none \in Seq(KnownIds) /\ Len(none) = 0
  BY EncodeIs, EmptySeq
<1>2. n \in 1 .. Len(A) + 1 /\ Rest(A, n) = none \o y /\ n <= Len(A)
  BY DEF Left
<1>3. none \o y = y
  <2>. HIDE DEF y
  <2>1. QED
    BY <1>1, ConcatEmptySeq
<1>4. rest # <<>>
  <2>1. ASSUME rest = <<>> PROVE FALSE
    <3>1. y = none
      BY <2>1, EncodeEmpty
    <3>. HIDE DEF A, y, none
    <3>2. Splits(KnownIds, A, n, none, y)
      BY <1>1, <1>2 DEF Splits
    <3>3. Len(A) + 1 = n + Len(none) + Len(y) /\ Len(A) \in Nat
      BY <1>1, <3>2, ReadOn, LenProperties
    <3>4. QED
      BY <1>1, <1>2, <3>1, <3>3
  <2>2. QED
    BY <2>1
<1>5. /\ Head(rest) \in GetItem /\ Tail(rest) \in Seq(GetItem)
      /\ y = Encoded[Head(rest)] \o Encode(Tail(rest))
  BY <1>4, EncodeHeadTail
<1>6. Encode(Tail(rest)) \in Seq(KnownIds)
  BY <1>5, EncodeIs
<1>. HIDE DEF A, y, none
<1>7. QED
  BY <1>1, <1>2, <1>3, <1>4, <1>5, <1>6 DEF A

(* The id of an attribute of the IC is read.                               *)
PlainFound(r, n, ls, rest, id) ==
  /\ Encode(r)[n] = id /\ id \in KnownIds
  /\ Rest(Encode(r), n)[1] = id
  /\ Tail(rest) \in Seq(GetItem)
  /\ Left(r, n + 1, [ls EXCEPT !.ic = @ \o <<id>>], Tail(rest), <<>>)

LEMMA PlainRead ==
  ASSUME NEW r \in Seq(GetItem), NEW n, NEW ls \in Found, NEW rest \in Seq(GetItem),
         Left(r, n, ls, rest, <<>>), n <= Len(Encode(r)), Head(rest).id \notin Nests,
         NEW id, id = Head(rest).id
  PROVE  PlainFound(r, n, ls, rest, id)
<1>. DEFINE A == Encode(r)
            t == Tail(rest)
            y == Encode(t)
            x == <<id>>
            I == ls.ic
            q == [ls EXCEPT !.ic = I \o x]
            M == Mapped(Plainly, t)
            none == <<>>
<1>1. /\ rest # <<>> /\ A \in Seq(KnownIds) /\ n \in 1 .. Len(A) + 1
      /\ Rest(A, n) = Encoded[Head(rest)] \o y
      /\ Head(rest) \in GetItem /\ t \in Seq(GetItem) /\ y \in Seq(KnownIds)
  BY ItemLeft
<1>2. Encoded[Head(rest)] = x /\ Plainly[Head(rest)] = id /\ x \in Seq(KnownIds) /\ id \in KnownIds
  BY <1>1, EncodedOn, PlainlyOn, OneKnown
<1>3. Len(x) = 1 /\ x[1] = id
  OBVIOUS
<1>4. M \in Seq(KnownIds) /\ Mapped(Plainly, rest) = x \o M
  BY <1>1, <1>2, PlainlyHeadTail
<1>5. /\ Nested(rest, "PreeditAttributes") = <<>> \o Nested(t, "PreeditAttributes")
      /\ Nested(rest, "StatusAttributes") = <<>> \o Nested(t, "StatusAttributes")
  BY <1>1, GetNestedHeadTail DEF Nests
<1>6. /\ Nested(rest, "PreeditAttributes") = Nested(t, "PreeditAttributes")
      /\ Nested(rest, "StatusAttributes") = Nested(t, "StatusAttributes")
  <2>. DEFINE u == Nested(t, "PreeditAttributes")
              v == Nested(t, "StatusAttributes")
  <2>1. u \in Seq(PreeditIds) /\ v \in Seq(StatusIds)
    BY <1>1, GetNestedTypes
  <2>. HIDE DEF u, v
  <2>2. <<>> \o u = u /\ <<>> \o v = v
    BY <2>1, ConcatEmptySeq
  <2>3. QED
    BY <1>5, <2>2 DEF u, v
<1>7. /\ I \o none \o (Mapped(Plainly, rest)) = Mapped(Plainly, r)
      /\ ls.pre \o Nested(rest, "PreeditAttributes") = Nested(r, "PreeditAttributes")
      /\ ls.sts \o Nested(rest, "StatusAttributes") = Nested(r, "StatusAttributes")
  BY DEF Left
<1>8. I \in Seq(KnownIds)
  BY FoundFields
<1>9. q = [ic |-> I \o x, pre |-> ls.pre, sts |-> ls.sts]
  <2>. DEFINE J == I \o x
  <2>. HIDE DEF J
  <2>1. [ls EXCEPT !.ic = J] = [ic |-> J, pre |-> ls.pre, sts |-> ls.sts]
    BY FoundUpdated
  <2>2. QED
    BY <2>1 DEF J
<1>10. Rest(A, n) = x \o y
  BY <1>1, <1>2
<1>. HIDE DEF A, t, y, x, I, M, q
<1>11. I \o none = I /\ I \o x \in Seq(KnownIds)
  BY <1>2, <1>8, ConcatEmptySeq, ConcatProperties
<1>12. (I \o x) \o none = I \o x
  <2>. DEFINE J == I \o x
  <2>1. J \in Seq(KnownIds)
    BY <1>11
  <2>. HIDE DEF J
  <2>2. J \o none = J
    BY <2>1, ConcatEmptySeq
  <2>3. QED
    BY <2>2 DEF J
<1>13. I \o (x \o M) = (I \o x) \o M
  BY <1>2, <1>4, <1>8, ConcatAssociative
<1>14. Splits(KnownIds, A, n, x, y)
  BY <1>1, <1>2, <1>10 DEF Splits
<1>15. /\ n + Len(x) \in 1 .. Len(A) + 1
       /\ Rest(A, n + Len(x)) = y
       /\ \A k \in 1 .. Len(x) : A[n + k - 1] = x[k]
  BY <1>14, ReadOn
<1>16. A[n] = id /\ n + 1 \in 1 .. Len(A) + 1 /\ Rest(A, n + 1) = y
  BY <1>1, <1>3, <1>15
<1>17. (x \o y)[1] = id
  <2>1. Len(y) \in Nat
    BY <1>1, LenProperties
  <2>2. \A k \in 1 .. Len(x) + Len(y) : (x \o y)[k] = IF k <= Len(x) THEN x[k] ELSE y[k - Len(x)]
    BY <1>1, <1>2, ConcatProperties
  <2>3. 1 \in 1 .. Len(x) + Len(y) /\ 1 <= Len(x)
    BY <1>3, <2>1
  <2>4. QED
    BY <1>3, <2>2, <2>3
<1>18. none \o y = y
  BY <1>1, ConcatEmptySeq
<1>19. Left(r, n + 1, q, t, none)
  <2>1. /\ q.ic \o none \o M = Mapped(Plainly, r)
        /\ q.pre = ls.pre /\ q.sts = ls.sts
    BY <1>4, <1>7, <1>9, <1>11, <1>12, <1>13
  <2>2. QED
    BY <1>6, <1>7, <1>16, <1>18, <2>1 DEF Left, A, M, y
<1>20. QED
  BY <1>1, <1>2, <1>10, <1>16, <1>17, <1>19 DEF PlainFound, A, t, x, I, q

(* A nested list is at the index, with its separator and y after it.        *)
NestAt(A, n, id, l, y) ==
  /\ A \in Seq(KnownIds) /\ n \in 1 .. Len(A) + 1
  /\ id \in KnownIds \ {"Separator"} /\ l \in Seq(KnownIds \ {"Separator"})
  /\ y \in Seq(KnownIds)
  /\ Rest(A, n) = <<id>> \o l \o <<"Separator">> \o y

(* It is found by the search for the separator.                            *)
NestFound(A, n, id, l, y) ==
  LET ids == Rest(A, n)
      separators == {k \in DOMAIN ids : ids[k] = "Separator"}
  IN  /\ A[n] = id
      /\ ids[1] = id
      /\ (CHOOSE k \in separators : \A j \in separators : k <= j) = Len(l) + 2
      /\ SubSeq(ids, 2, Len(l) + 1) = l
      /\ n + Len(l) + 1 \in 1 .. Len(A) + 1
      /\ Rest(A, n + Len(l) + 1) = <<"Separator">> \o y

LEMMA NestAhead ==
  ASSUME NEW A, NEW n, NEW id, NEW l, NEW y, NestAt(A, n, id, l, y)
  PROVE  NestFound(A, n, id, l, y)
<1>1. /\ A \in Seq(KnownIds) /\ n \in 1 .. Len(A) + 1
      /\ id \in KnownIds \ {"Separator"} /\ l \in Seq(KnownIds \ {"Separator"})
      /\ y \in Seq(KnownIds)
      /\ Rest(A, n) = <<id>> \o l \o <<"Separator">> \o y
  BY DEF NestAt
<1>. DEFINE h == <<id>>
            e == <<"Separator">>
            hl == h \o l
            ids == Rest(A, n)
            separators == {k \in DOMAIN ids : ids[k] = "Separator"}
            ey == e \o y
<1>2. h \in Seq(KnownIds) /\ Len(h) = 1 /\ h[1] = id /\ e \in Seq(KnownIds) /\ Len(e) = 1 /\ e[1] = "Separator"
  BY <1>1, OneKnown
<1>3. l \in Seq(KnownIds) /\ id # "Separator"
  BY <1>1, SeqMonotonic
<1>. HIDE DEF h, e
<1>4. hl \in Seq(KnownIds)
  BY <1>2, <1>3, ConcatProperties
<1>5. ids = (hl \o e) \o y
  BY <1>1 DEF h, e
<1>6. ey \in Seq(KnownIds) /\ Len(ey) = 1 + Len(y) /\ ey[1] = "Separator" /\ Len(y) \in Nat
  <2>1. Len(y) \in Nat
    BY LenProperties
  <2>2. /\ ey \in Seq(KnownIds) /\ Len(ey) = Len(e) + Len(y)
        /\ \A k \in 1 .. Len(e) + Len(y) : ey[k] = IF k <= Len(e) THEN e[k] ELSE y[k - Len(e)]
    BY <1>1, <1>2, ConcatProperties
  <2>. HIDE DEF ey
  <2>3. 1 \in 1 .. Len(e) + Len(y) /\ 1 <= Len(e)
    BY <1>2, <2>1
  <2>4. QED
    BY <1>2, <2>1, <2>2, <2>3
<1>7. Len(l) \in Nat /\ Len(hl) = Len(l) + 1 /\ \A k \in 1 .. Len(l) : hl[k + 1] = l[k]
  <2>1. Len(l) \in Nat
    BY <1>3, LenProperties
  <2>2. /\ Len(hl) = Len(h) + Len(l)
        /\ \A k \in 1 .. Len(h) + Len(l) : hl[k] = IF k <= Len(h) THEN h[k] ELSE l[k - Len(h)]
    BY <1>2, <1>3, ConcatProperties
  <2>. HIDE DEF hl
  <2>3. \A k \in 1 .. Len(l) : k + 1 \in 1 .. Len(h) + Len(l) /\ ~(k + 1 <= Len(h)) /\ k + 1 - Len(h) = k
    BY <1>2, <2>1
  <2>4. QED
    BY <1>2, <2>1, <2>2, <2>3
<1>8. hl[1] = id
  <2>1. \A k \in 1 .. Len(h) + Len(l) : hl[k] = IF k <= Len(h) THEN h[k] ELSE l[k - Len(h)]
    BY <1>2, <1>3, ConcatProperties
  <2>. HIDE DEF hl
  <2>2. 1 \in 1 .. Len(h) + Len(l) /\ 1 <= Len(h)
    BY <1>2, <1>7
  <2>3. QED
    BY <1>2, <2>1, <2>2
<1>. HIDE DEF hl
<1>9. ids = hl \o ey
  <2>1. (hl \o e) \o y = hl \o (e \o y)
    BY <1>4, <1>2, ConcatAssociative
  <2>2. QED
    BY <1>5, <2>1
<1>. HIDE DEF ey
<1>10. Len(l) \in Nat /\ Len(y) \in Nat /\ Len(hl) = Len(l) + 1 /\ Len(ey) = 1 + Len(y)
  BY <1>6, <1>7
<1>11. hl \in Seq(KnownIds) /\ ey \in Seq(KnownIds)
  BY <1>4, <1>6
<1>. DEFINE z == hl \o ey
<1>12. /\ z \in Seq(KnownIds) /\ Len(z) = Len(hl) + Len(ey)
       /\ \A k \in 1 .. Len(hl) + Len(ey) : z[k] = IF k <= Len(hl) THEN hl[k] ELSE ey[k - Len(hl)]
  BY <1>11, ConcatProperties
<1>13. ids = z
  BY <1>9
<1>. HIDE DEF z, ids
<1>14. Len(z) = Len(l) + 2 + Len(y) /\ DOMAIN z = 1 .. Len(z)
  BY <1>10, <1>12, LenProperties
<1>15. \A k \in 1 .. Len(l) + 1 : z[k] = hl[k]
  BY <1>10, <1>12
<1>16. z[Len(l) + 2] = "Separator"
  <2>1. /\ Len(l) + 2 \in 1 .. Len(hl) + Len(ey)
        /\ ~(Len(l) + 2 <= Len(hl))
        /\ Len(l) + 2 - Len(hl) = 1
    BY <1>10
  <2>2. z[Len(l) + 2] = ey[1]
    BY <1>12, <2>1
  <2>3. QED
    BY <1>6, <2>2
<1>17. z[1] = id /\ \A k \in 1 .. Len(l) : z[k + 1] = l[k]
  <2>1. 1 \in 1 .. Len(l) + 1 /\ \A k \in 1 .. Len(l) : k + 1 \in 1 .. Len(l) + 1
    BY <1>10
  <2>2. z[1] = hl[1] /\ \A k \in 1 .. Len(l) : z[k + 1] = hl[k + 1]
    BY <1>15, <2>1
  <2>3. QED
    BY <1>7, <1>8, <2>2
<1>18. (CHOOSE k \in separators : \A j \in separators : k <= j) = Len(l) + 2
  <2>. DEFINE m == Len(z)
  <2>1. m \in Nat /\ DOMAIN z = 1 .. m /\ Len(l) + 2 <= m
    BY <1>10, <1>14
  <2>. HIDE DEF m
  <2>2. z[1] # "Separator"
    BY <1>3, <1>17
  <2>. DEFINE seps == {k \in DOMAIN z : z[k] = "Separator"}
  <2>3. (CHOOSE k \in seps : \A j \in seps : k <= j) = Len(l) + 2
    BY <1>1, <1>16, <1>17, <2>1, <2>2, FirstSeparator
  <2>4. separators = seps
    BY <1>13
  <2>. HIDE DEF separators, seps
  <2>5. QED
    BY <2>3, <2>4
<1>19. SubSeq(ids, 2, Len(l) + 1) = l
  <2>. DEFINE b == Len(l) + 1
              c == 2
              u == SubSeq(z, c, b)
  <2>1. c \in Int /\ b \in Int /\ \A k \in c .. b : z[k] \in KnownIds
    <3>1. \A k \in c .. b : k \in 1 .. Len(z)
      BY <1>10, <1>14
    <3>2. QED
      BY <1>10, <1>12, <3>1, ElementOfSeq
  <2>. HIDE DEF b, c
  <2>2. /\ u \in Seq(KnownIds) /\ Len(u) = (IF c <= b THEN b - c + 1 ELSE 0)
        /\ \A k \in 1 .. b - c + 1 : u[k] = z[c + k - 1]
    BY <2>1, SubSeqProperties
  <2>. HIDE DEF u
  <2>3. Len(u) = Len(l) /\ \A k \in 1 .. Len(l) : k \in 1 .. b - c + 1 /\ c + k - 1 = k + 1
    BY <1>10, <2>2 DEF b, c
  <2>4. \A k \in 1 .. Len(l) : u[k] = l[k]
    BY <1>17, <2>2, <2>3
  <2>5. u = l
    BY <1>3, <2>2, <2>3, <2>4, SeqEqual
  <2>6. QED
    BY <1>13, <2>5 DEF u, b, c
<1>20. Splits(KnownIds, A, n, hl, ey)
  <2>1. Rest(A, n) = hl \o ey
    BY <1>9 DEF ids
  <2>2. QED
    BY <1>1, <1>11, <2>1 DEF Splits
<1>21. /\ n + Len(hl) \in 1 .. Len(A) + 1
       /\ Rest(A, n + Len(hl)) = ey
       /\ \A k \in 1 .. Len(hl) : A[n + k - 1] = hl[k]
  BY <1>20, ReadOn
<1>22. n \in Int /\ n + Len(hl) = n + Len(l) + 1
  BY <1>1, <1>10
<1>23. A[n] = id
  <2>1. 1 \in 1 .. Len(hl) /\ n + 1 - 1 = n
    BY <1>10, <1>22
  <2>2. A[n + 1 - 1] = hl[1]
    BY <1>21, <2>1
  <2>3. QED
    BY <1>8, <2>1, <2>2
<1>24. n + Len(l) + 1 \in 1 .. Len(A) + 1 /\ Rest(A, n + Len(l) + 1) = ey
  BY <1>21, <1>22
<1>25. ids[1] = id
  BY <1>13, <1>17
<1>26. QED
  BY <1>18, <1>19, <1>23, <1>24, <1>25 DEF NestFound, ids, ey, e

(* A nested list is read; the next index is that of its separator.          *)
LEMMA NestRead ==
  ASSUME NEW r \in Seq(GetItem), NEW n, NEW ls, NEW rest \in Seq(GetItem),
         Left(r, n, ls, rest, <<>>), n <= Len(Encode(r)), Head(rest).id \in Nests
  PROVE  NestFound(Encode(r), n, Head(rest).id, Head(rest).list, Encode(Tail(rest)))
<1>. DEFINE A == Encode(r)
            y == Encode(Tail(rest))
            id == Head(rest).id
            l == Head(rest).list
<1>1. /\ A \in Seq(KnownIds) /\ n \in 1 .. Len(A) + 1
      /\ Rest(A, n) = Encoded[Head(rest)] \o y
      /\ Head(rest) \in GetItem /\ y \in Seq(KnownIds)
  BY ItemLeft
<1>2. l \in Seq(KnownIds \ {"Separator"}) /\ id \in KnownIds \ {"Separator"}
  BY <1>1, GetItemFields, OneKnown DEF Nests
<1>3. Encoded[Head(rest)] = <<id>> \o l \o <<"Separator">>
  BY <1>1, EncodedOn
<1>. HIDE DEF A, y, id, l
<1>4. NestAt(A, n, id, l, y)
  BY <1>1, <1>2, <1>3 DEF NestAt
<1>5. NestFound(A, n, id, l, y)
  BY <1>4, NestAhead
<1>6. QED
  BY <1>5 DEF A, y, id, l

(* The ids of a nested list join those found before.                       *)
LEMMA PreeditRead ==
  ASSUME NEW r \in Seq(GetItem), NEW n, NEW ls \in Found, NEW rest \in Seq(GetItem),
         Left(r, n, ls, rest, <<>>), n <= Len(Encode(r)), Head(rest).id = "PreeditAttributes"
  PROVE  LET l == Head(rest).list IN
         /\ [ls EXCEPT !.pre = @ \o l] \in Found
         /\ Tail(rest) \in Seq(GetItem)
         /\ Left(r, n + Len(l) + 1, [ls EXCEPT !.pre = @ \o l], Tail(rest), <<"Separator">>)
<1>. DEFINE t == Tail(rest)
            l == Head(rest).list
            M == Mapped(Plainly, t)
            N == Nested(t, "PreeditAttributes")
            O == Nested(t, "StatusAttributes")
            P == ls.pre
            I == ls.ic
            e == <<"Separator">>
            J == P \o l
            q == [ls EXCEPT !.pre = J]
            n2 == n + Len(l) + 1
<1>1. rest # <<>> /\ Head(rest) \in GetItem /\ t \in Seq(GetItem)
  BY ItemLeft
<1>2. Head(rest).id \in Nests
  BY DEF Nests
<1>3. NestFound(Encode(r), n, Head(rest).id, l, Encode(t))
  BY <1>2, NestRead
<1>4. n2 \in 1 .. Len(Encode(r)) + 1 /\ Rest(Encode(r), n2) = e \o Encode(t)
  BY <1>3 DEF NestFound
<1>5. Plainly[Head(rest)] = "Separator"
  BY <1>1, <1>2, PlainlyOn
<1>6. M \in Seq(KnownIds) /\ Mapped(Plainly, rest) = e \o M
  BY <1>1, <1>5, PlainlyHeadTail
<1>7. /\ Nested(rest, "PreeditAttributes") = l \o N
      /\ Nested(rest, "StatusAttributes") = <<>> \o O
  BY <1>1, GetNestedHeadTail
<1>8. N \in Seq(PreeditIds) /\ O \in Seq(StatusIds) /\ l \in Seq(PreeditIds)
  BY <1>1, GetNestedTypes, GetItemFields
<1>9. P \in Seq(PreeditIds) /\ I \in Seq(KnownIds) /\ e \in Seq(KnownIds)
  BY FoundFields, OneKnown
<1>10. /\ I \o <<>> \o Mapped(Plainly, rest) = Mapped(Plainly, r)
       /\ P \o Nested(rest, "PreeditAttributes") = Nested(r, "PreeditAttributes")
       /\ ls.sts \o Nested(rest, "StatusAttributes") = Nested(r, "StatusAttributes")
  BY DEF Left
<1>. HIDE DEF l
<1>11. I \o <<>> = I /\ (I \o e) \o M = I \o (e \o M)
  <2>. HIDE DEF I, e, M
  <2>1. QED
    BY <1>6, <1>9, ConcatEmptySeq, ConcatAssociative
<1>12. (P \o l) \o N = P \o (l \o N) /\ <<>> \o O = O /\ J \in Seq(PreeditIds)
  <2>. HIDE DEF P, N, O
  <2>1. QED
    BY <1>8, <1>9, ConcatEmptySeq, ConcatAssociative, ConcatProperties
<1>. HIDE DEF J
<1>13. q = [[ic |-> I, pre |-> ls.pre, sts |-> ls.sts] EXCEPT !.pre = J] /\ q \in Found
  BY <1>12, FoundUpdated
<1>14. q.ic = I /\ q.pre = J /\ q.sts = ls.sts
  BY <1>13
<1>. HIDE DEF t, M, N, O, P, I, e, q, n2
<1>15. I \o e \o M = Mapped(Plainly, r)
  BY <1>6, <1>10, <1>11
<1>16. J \o N = Nested(r, "PreeditAttributes")
  BY <1>7, <1>10, <1>12 DEF J
<1>17. ls.sts \o O = Nested(r, "StatusAttributes")
  BY <1>7, <1>10, <1>12
<1>18. Left(r, n2, q, t, e)
  BY <1>4, <1>14, <1>15, <1>16, <1>17 DEF Left, M, N, O
<1>19. QED
  BY <1>1, <1>13, <1>18 DEF t, e, q, n2, J, P, l

LEMMA StatusRead ==
  ASSUME NEW r \in Seq(GetItem), NEW n, NEW ls \in Found, NEW rest \in Seq(GetItem),
         Left(r, n, ls, rest, <<>>), n <= Len(Encode(r)), Head(rest).id = "StatusAttributes"
  PROVE  LET l == Head(rest).list IN
         /\ [ls EXCEPT !.sts = @ \o l] \in Found
         /\ Tail(rest) \in Seq(GetItem)
         /\ Left(r, n + Len(l) + 1, [ls EXCEPT !.sts = @ \o l], Tail(rest), <<"Separator">>)
<1>. DEFINE t == Tail(rest)
            l == Head(rest).list
            M == Mapped(Plainly, t)
            N == Nested(t, "StatusAttributes")
            O == Nested(t, "PreeditAttributes")
            P == ls.sts
            I == ls.ic
            e == <<"Separator">>
            J == P \o l
            q == [ls EXCEPT !.sts = J]
            n2 == n + Len(l) + 1
<1>1. rest # <<>> /\ Head(rest) \in GetItem /\ t \in Seq(GetItem)
  BY ItemLeft
<1>2. Head(rest).id \in Nests
  BY DEF Nests
<1>3. NestFound(Encode(r), n, Head(rest).id, l, Encode(t))
  BY <1>2, NestRead
<1>4. n2 \in 1 .. Len(Encode(r)) + 1 /\ Rest(Encode(r), n2) = e \o Encode(t)
  BY <1>3 DEF NestFound
<1>5. Plainly[Head(rest)] = "Separator"
  BY <1>1, <1>2, PlainlyOn
<1>6. M \in Seq(KnownIds) /\ Mapped(Plainly, rest) = e \o M
  BY <1>1, <1>5, PlainlyHeadTail
<1>7. /\ Nested(rest, "StatusAttributes") = l \o N
      /\ Nested(rest, "PreeditAttributes") = <<>> \o O
  BY <1>1, GetNestedHeadTail
<1>8. N \in Seq(StatusIds) /\ O \in Seq(PreeditIds) /\ l \in Seq(StatusIds)
  BY <1>1, GetNestedTypes, GetItemFields
<1>9. P \in Seq(StatusIds) /\ I \in Seq(KnownIds) /\ e \in Seq(KnownIds)
  BY FoundFields, OneKnown
<1>10. /\ I \o <<>> \o Mapped(Plainly, rest) = Mapped(Plainly, r)
       /\ P \o Nested(rest, "StatusAttributes") = Nested(r, "StatusAttributes")
       /\ ls.pre \o Nested(rest, "PreeditAttributes") = Nested(r, "PreeditAttributes")
  BY DEF Left
<1>. HIDE DEF l
<1>11. I \o <<>> = I /\ (I \o e) \o M = I \o (e \o M)
  <2>. HIDE DEF I, e, M
  <2>1. QED
    BY <1>6, <1>9, ConcatEmptySeq, ConcatAssociative
<1>12. (P \o l) \o N = P \o (l \o N) /\ <<>> \o O = O /\ J \in Seq(StatusIds)
  <2>. HIDE DEF P, N, O
  <2>1. QED
    BY <1>8, <1>9, ConcatEmptySeq, ConcatAssociative, ConcatProperties
<1>. HIDE DEF J
<1>13. q = [[ic |-> I, pre |-> ls.pre, sts |-> ls.sts] EXCEPT !.sts = J] /\ q \in Found
  BY <1>12, FoundUpdated
<1>14. q.ic = I /\ q.sts = J /\ q.pre = ls.pre
  BY <1>13
<1>. HIDE DEF t, M, N, O, P, I, e, q, n2
<1>15. I \o e \o M = Mapped(Plainly, r)
  BY <1>6, <1>10, <1>11
<1>16. J \o N = Nested(r, "StatusAttributes")
  BY <1>7, <1>10, <1>12 DEF J
<1>17. ls.pre \o O = Nested(r, "PreeditAttributes")
  BY <1>7, <1>10, <1>12
<1>18. Left(r, n2, q, t, e)
  BY <1>4, <1>14, <1>15, <1>16, <1>17 DEF Left, M, N, O
<1>19. QED
  BY <1>1, <1>13, <1>18 DEF t, e, q, n2, J, P, l

-----------------------------------------------------------------------------
(* A GET_IC_VALUES, from the request to the reply.                         *)

AnswerOf(r, ls) ==
  [ic |-> GetPlain(ls.ic),
   pre |-> CreateNestedList(r.pre, ls.pre),
   sts |-> CreateNestedList(r.sts, ls.sts)]

Reads ==
  /\ lists \in Found
  /\ request = None => i = 1 /\ lists = NoIds /\ reply = None
  /\ request # None =>
       /\ request \in Seq(GetItem)
       /\ \E rest \in Seq(GetItem), sep \in Separators : Left(request, i, lists, rest, sep)
  /\ reply # None => lists = AllOf(request) /\ reply = AnswerOf(ic, lists)

LEMMA NoIdsFound == NoIds \in Found
<1>1. \A S : <<>> \in Seq(S)
  BY EmptySeq
<1>2. QED
  BY <1>1 DEF NoIds, Found

LEMMA GetsOne ==
  ASSUME NEW id \in KnownIds \ Nests, Rest(attrID_list, i)[1] = id
  PROVE  GetICValue = <<id>>
<1>1. GetICValue = Select(<<id>>, KnownIds)
  BY DEF GetICValue, Rest
<1>2. Select(<<id>>, KnownIds) = <<id>>
  BY SelectOne
<1>3. QED
  BY <1>1, <1>2

LEMMA GetsNest ==
  ASSUME NEW id \in Nests, NEW l, NEW y, Len(l) \in Nat, NestFound(attrID_list, i, id, l, y)
  PROVE  GetICValue = l
<1>. DEFINE ids == Rest(attrID_list, i)
            separators == {k \in DOMAIN ids : ids[k] = "Separator"}
            first == CHOOSE k \in separators : \A n \in separators : k <= n
<1>1. ids[1] = id /\ first = Len(l) + 2 /\ SubSeq(ids, 2, Len(l) + 1) = l
  BY DEF NestFound
<1>2. GetICValue = IF ids[1] \in Nests THEN SubSeq(ids, 2, first - 1) ELSE Select(<<ids[1]>>, KnownIds)
  BY Zenon DEF GetICValue, Rest
<1>. HIDE DEF ids, first
<1>3. first - 1 = Len(l) + 1
  BY <1>1
<1>4. QED
  BY <1>1, <1>2, <1>3

LEMMA ReadsInit == Init => Reads
BY NoIdsFound DEF Init, Reads

LEMMA ReadsReadIds ==
  ASSUME Reads, ReadIds
  PROVE  Reads' /\ i' > i
<1>1. PICK r, n, ls : r = request /\ n = i /\ ls = lists
  OBVIOUS
<1>2. /\ ls \in Found /\ r # None /\ r \in Seq(GetItem) /\ reply = None /\ n <= Len(Encode(r))
      /\ \E rest \in Seq(GetItem), sep \in Separators : Left(r, n, ls, rest, sep)
  BY <1>1 DEF Reads, ReadIds, Reading, attrID_list
<1>3. PICK rest \in Seq(GetItem), sep \in Separators : Left(r, n, ls, rest, sep)
  BY <1>2
<1>4. request' = r /\ reply' = None
  BY <1>1, <1>2 DEF ReadIds
<1>5. SUFFICES /\ lists' \in Found /\ i' > n
               /\ \E more \in Seq(GetItem), s \in Separators : Left(r, i', lists', more, s)
  BY <1>1, <1>2, <1>4 DEF Reads
<1>6. n \in Nat
  BY <1>3 DEF Left
<1>7. /\ \/ Encode(r)[n] = "PreeditAttributes" /\ lists' = [ls EXCEPT !.pre = @ \o GetICValue]
         \/ Encode(r)[n] = "StatusAttributes" /\ lists' = [ls EXCEPT !.sts = @ \o GetICValue]
         \/ Encode(r)[n] \notin Nests /\ lists' = [ls EXCEPT !.ic = @ \o GetICValue]
      /\ Encode(r)[n] \in Nests => i' = n + Len(GetICValue) + 1
      /\ Encode(r)[n] \notin Nests => i' = n + Len(GetICValue)
  BY <1>1 DEF ReadIds, attrID_list, AfterNested, Nests
<1>8. ASSUME NEW id \in KnownIds \ Nests, Encode(r)[n] = id, Rest(Encode(r), n)[1] = id
      PROVE  i' = n + 1 /\ lists' = [ls EXCEPT !.ic = @ \o <<id>>] /\ lists' \in Found
  <2>1. GetICValue = <<id>>
    BY <1>1, <1>8, GetsOne DEF attrID_list
  <2>2. lists' = [ls EXCEPT !.ic = @ \o <<id>>] /\ i' = n + Len(<<id>>)
    BY <1>7, <1>8, <2>1 DEF Nests
  <2>. DEFINE I == ls.ic
              x == <<id>>
              J == I \o x
  <2>3. I \in Seq(KnownIds) /\ x \in Seq(KnownIds) /\ Len(x) = 1
    BY <1>2, FoundFields
  <2>4. J \in Seq(KnownIds)
    <3>. HIDE DEF I, x
    <3>1. QED
      BY <2>3, ConcatProperties
  <2>. HIDE DEF J
  <2>5. [ls EXCEPT !.ic = J] \in Found
    BY <1>2, <2>4, FoundUpdated
  <2>6. QED
    BY <2>2, <2>3, <2>5 DEF J
<1>9. ASSUME NEW id \in Nests, NEW l, NEW y, Len(l) \in Nat, NestFound(Encode(r), n, id, l, y)
      PROVE  /\ i' = n + Len(l) + 1
             /\ id = "PreeditAttributes" => lists' = [ls EXCEPT !.pre = @ \o l]
             /\ id = "StatusAttributes" => lists' = [ls EXCEPT !.sts = @ \o l]
  <2>1. GetICValue = l
    BY <1>1, <1>9, GetsNest DEF attrID_list
  <2>2. Encode(r)[n] = id
    BY <1>9 DEF NestFound
  <2>3. QED
    BY <1>7, <1>9, <2>1, <2>2 DEF Nests
<1>10. CASE sep = <<"Separator">>
  <2>1. /\ Encode(r)[n] = "Separator" /\ Rest(Encode(r), n)[1] = "Separator"
        /\ Left(r, n + 1, [ls EXCEPT !.ic = @ \o <<"Separator">>], rest, <<>>)
    BY <1>2, <1>3, <1>10, SeparatorRead
  <2>2. "Separator" \in KnownIds \ Nests
    BY DEF KnownIds, Nests
  <2>3. i' = n + 1 /\ lists' = [ls EXCEPT !.ic = @ \o <<"Separator">>] /\ lists' \in Found
    BY <1>8, <2>1, <2>2
  <2>4. i' > n
    BY <1>6, <2>3
  <2>5. QED
    BY <2>1, <2>3, <2>4 DEF Separators
<1>11. CASE sep = <<>> /\ Head(rest).id \notin Nests
  <2>1. PICK id : id = Head(rest).id
    OBVIOUS
  <2>2. /\ Encode(r)[n] = id /\ id \in KnownIds
        /\ Rest(Encode(r), n)[1] = id
        /\ Tail(rest) \in Seq(GetItem)
        /\ Left(r, n + 1, [ls EXCEPT !.ic = @ \o <<id>>], Tail(rest), <<>>)
    <3>1. Left(r, n, ls, rest, <<>>)
      BY <1>3, <1>11
    <3>2. PlainFound(r, n, ls, rest, id)
      BY <1>2, <1>11, <2>1, <3>1, PlainRead
    <3>3. QED
      BY <3>2 DEF PlainFound
  <2>3. i' = n + 1 /\ lists' = [ls EXCEPT !.ic = @ \o <<id>>] /\ lists' \in Found
    BY <1>8, <1>11, <2>1, <2>2
  <2>4. i' > n
    BY <1>6, <2>3
  <2>5. QED
    BY <2>2, <2>3, <2>4 DEF Separators
<1>12. CASE sep = <<>> /\ Head(rest).id \in Nests
  <2>1. PICK id, l, y : id = Head(rest).id /\ l = Head(rest).list /\ y = Encode(Tail(rest))
    OBVIOUS
  <2>2. NestFound(Encode(r), n, id, l, y)
    BY <1>2, <1>3, <1>12, <2>1, NestRead
  <2>3. Len(l) \in Nat
    <3>1. Head(rest) \in GetItem
      BY <1>2, <1>3, <1>12, ItemLeft
    <3>2. l \in Seq(KnownIds \ {"Separator"})
      BY <1>12, <2>1, <3>1, GetItemFields
    <3>3. QED
      BY <3>2, LenProperties
  <2>4. /\ i' = n + Len(l) + 1
        /\ id = "PreeditAttributes" => lists' = [ls EXCEPT !.pre = @ \o l]
        /\ id = "StatusAttributes" => lists' = [ls EXCEPT !.sts = @ \o l]
    BY <1>9, <1>12, <2>1, <2>2, <2>3
  <2>5. CASE id = "PreeditAttributes"
    <3>1. /\ [ls EXCEPT !.pre = @ \o l] \in Found /\ Tail(rest) \in Seq(GetItem)
          /\ Left(r, n + Len(l) + 1, [ls EXCEPT !.pre = @ \o l], Tail(rest), <<"Separator">>)
      BY <1>2, <1>3, <1>12, <2>1, <2>5, PreeditRead
    <3>2. i' > n
      BY <1>6, <2>3, <2>4
    <3>3. QED
      BY <2>4, <2>5, <3>1, <3>2 DEF Separators
  <2>6. CASE id = "StatusAttributes"
    <3>1. /\ [ls EXCEPT !.sts = @ \o l] \in Found /\ Tail(rest) \in Seq(GetItem)
          /\ Left(r, n + Len(l) + 1, [ls EXCEPT !.sts = @ \o l], Tail(rest), <<"Separator">>)
      BY <1>2, <1>3, <1>12, <2>1, <2>6, StatusRead
    <3>2. i' > n
      BY <1>6, <2>3, <2>4
    <3>3. QED
      BY <2>4, <2>6, <3>1, <3>2 DEF Separators
  <2>7. QED
    BY <1>12, <2>1, <2>5, <2>6 DEF Nests
<1>13. QED
  BY <1>3, <1>10, <1>11, <1>12 DEF Separators

LEMMA ReadsNext == Reads /\ [Next]_vars => Reads'
<1>. SUFFICES ASSUME Reads, [Next]_vars PROVE Reads'
  OBVIOUS
<1>1. CASE ChangeIC
  BY <1>1 DEF ChangeIC, Reads
<1>2. CASE ClientGetsIC
  <2>1. request' \in Seq(GetItem)
    BY <1>2, GetRequestType DEF ClientGetsIC
  <2>2. i' = 1 /\ lists' = NoIds /\ reply' = None
    BY <1>2 DEF ClientGetsIC, Reads
  <2>3. Left(request', i', lists', request', <<>>)
    BY <2>1, <2>2, AllLeft
  <2>4. QED
    BY <2>1, <2>2, <2>3, NoIdsFound DEF Reads, Separators
<1>3. CASE ReadIds
  BY <1>3, ReadsReadIds
<1>4. CASE GetIC
  <2>1. /\ request # None /\ request \in Seq(GetItem) /\ lists \in Found
        /\ i > Len(Encode(request))
        /\ \E rest \in Seq(GetItem), sep \in Separators : Left(request, i, lists, rest, sep)
    BY <1>4 DEF GetIC, Reads, attrID_list
  <2>2. lists = AllOf(request)
    BY <2>1, NothingLeft
  <2>3. UNCHANGED <<swapped, ic, request, i, lists>>
    BY <1>4 DEF GetIC
  <2>4. reply' # None => reply' = AnswerOf(ic, lists)
    BY <1>4 DEF GetIC, AnswerOf
  <2>5. AnswerOf(ic, lists)' = AnswerOf(ic, lists)
    BY <2>3 DEF AnswerOf, CreateNestedList, GetFontAttribute, Swapped
  <2>6. QED
    BY <2>1, <2>2, <2>3, <2>4, <2>5 DEF Reads
<1>5. CASE ClientGotIC
  BY <1>5, NoIdsFound DEF ClientGotIC, Reads
<1>6. CASE UNCHANGED vars
  BY <1>6 DEF vars, Reads, AnswerOf, CreateNestedList, GetFontAttribute, Swapped
<1>7. QED
  BY <1>1, <1>2, <1>3, <1>4, <1>5, <1>6 DEF Next

(* A reply holds what was asked for, in the lists it was asked in           *)
(* (_Xi18nGetIC, GetICValue, GetIMIC).                                     *)
THEOREM AnswersTheRequest == Spec => []AnswersWhatWasAsked
<1>1. Reads => AnswersWhatWasAsked
  <2>. SUFFICES ASSUME Reads, reply # None
                PROVE  /\ Ids(reply.pre) = Nested(request, "PreeditAttributes")
                       /\ Ids(reply.sts) = Nested(request, "StatusAttributes")
                       /\ Ids(reply.ic) = [k \in DOMAIN request |->
                                             IF request[k].id \in Nests THEN "Separator" ELSE request[k].id]
    BY DEF AnswersWhatWasAsked
  <2>1. /\ request \in Seq(GetItem) /\ lists \in Found
        /\ lists = AllOf(request) /\ reply = AnswerOf(ic, lists)
    BY DEF Reads
  <2>2. \A S : \A s \in Seq(S) : DOMAIN s = 1 .. Len(s) /\ s = [k \in DOMAIN s |-> s[k]]
    BY LenProperties
  <2>3. ASSUME NEW S, NEW s \in Seq(S), NEW stored
        PROVE  Ids(CreateNestedList(stored, s)) = s /\ Ids(GetPlain(s)) = s
    BY <2>2, <2>3, Zenon DEF Ids, CreateNestedList, GetPlain
  <2>4. /\ reply.pre = CreateNestedList(ic.pre, lists.pre)
        /\ reply.sts = CreateNestedList(ic.sts, lists.sts)
        /\ reply.ic = GetPlain(lists.ic)
    BY <2>1 DEF AnswerOf
  <2>5. Ids(reply.pre) = lists.pre /\ Ids(reply.sts) = lists.sts /\ Ids(reply.ic) = lists.ic
    BY <2>1, <2>3, <2>4, FoundFields
  <2>6. Mapped(Plainly, request)
          = [k \in DOMAIN request |-> IF request[k].id \in Nests THEN "Separator" ELSE request[k].id]
    <3>1. DOMAIN request = 1 .. Len(request)
      BY <2>1, LenProperties
    <3>. DEFINE f(x) == IF x.id \in Nests THEN "Separator" ELSE x.id
    <3>2. ASSUME NEW k \in 1 .. Len(request) PROVE Plainly[request[k]] = f(request[k])
      BY <2>1, ElementOfSeq, PlainlyOn
    <3>. HIDE DEF f
    <3>3. [k \in 1 .. Len(request) |-> Plainly[request[k]]] = [k \in 1 .. Len(request) |-> f(request[k])]
      BY <3>2, Zenon
    <3>4. QED
      BY <3>1, <3>3, Zenon DEF Mapped, f
  <2>7. QED
    BY <2>1, <2>5, <2>6 DEF AllOf
<1>2. QED
  BY <1>1, ReadsInit, ReadsNext, PTL DEF Spec

(* What goes out for an attribute whose value is returned.                 *)
Returned(stored, id) ==
  CASE id = "FontSet" -> GetFontAttribute(GetNested(stored, id))
    [] id \in NeverReturned -> GetNested(stored, id)
    [] OTHER -> Swapped(GetNested(stored, id))

(* It is what was set, as the client writes it, or what is left of a font.   *)
LEMMA ReadBackHeld ==
  ASSUME swapped \in BOOLEAN, NEW id, NEW stored, NEW want, Held(id, stored[id], want[id]),
         NEW e, e = [id |-> id, value |-> Returned(stored, id)]
  PROVE  ReadBack(e, want)
<1>. DEFINE x == stored[id]
            y == want[id]
<1>1. Held(id, x, y)
  OBVIOUS
<1>2. ASSUME id = "FontSet" PROVE e.value = LeftOfFont(y)
  <2>1. x[1] = y[1]
    BY <1>1, <1>2 DEF Held, Unset, OnWire, ReadICValue, SetFontAttribute
  <2>2. GetNested(stored, id) = [length |-> <<NameLength[x[1]], FALSE>>, name |-> x[1]]
    BY <1>2 DEF GetNested, NeverReturned
  <2>. HIDE DEF x, y
  <2>3. e.value = GetFontAttribute([length |-> <<NameLength[x[1]], FALSE>>, name |-> x[1]])
    BY <1>2, <2>2 DEF Returned, NeverReturned
  <2>4. QED
    BY <2>1, <2>3 DEF GetFontAttribute, LeftOfFont, Swapped
<1>3. ASSUME id \in Readable PROVE e.value = AsSet(y, id)
  <2>1. id \in {"Area", "Foreground", "SpotLocation"} /\ (id = "SpotLocation" => ~swapped)
    BY <1>3 DEF Readable
  <2>2. GetNested(stored, id) = x
    BY <2>1 DEF GetNested, NeverReturned
  <2>. HIDE DEF x, y
  <2>3. e.value = Swapped(x)
    BY <2>1, <2>2 DEF Returned, NeverReturned
  <2>4. CASE x = Unset(id) /\ y = Unset(id)
    BY <2>1, <2>3, <2>4 DEF Unset, Swapped, AsSet, OnWire
  <2>5. CASE \E v : y = OnWire(id, v) /\ x = ReadICValue([id |-> id, value |-> y]).value
    <3>1. PICK v : y = OnWire(id, v) /\ x = ReadICValue([id |-> id, value |-> y]).value
      BY <2>5
    <3>2. y = <<v, swapped>>
      BY <2>1, <3>1 DEF OnWire
    <3>3. x = <<v, FALSE>>
      <4>1. CASE id = "SpotLocation"
        BY <2>1, <3>1, <3>2, <4>1 DEF ReadICValue, SetPointAttribute
      <4>2. CASE id \in {"Area", "Foreground"}
        <5>1. x = Swapped(y)
          BY <3>1, <4>2 DEF ReadICValue, SetRectAttribute, SetCardAttribute
        <5>2. QED
          BY <3>2, <5>1 DEF Swapped
      <4>3. QED
        BY <2>1, <4>1, <4>2
    <3>4. Swapped(x) = <<v, swapped>>
      BY <3>3 DEF Swapped
    <3>5. AsSet(y, id) = <<v, swapped>>
      BY <2>1, <3>2 DEF AsSet, Unset, OnWire
    <3>6. QED
      BY <2>3, <3>4, <3>5
  <2>6. QED
    BY <1>1, <2>4, <2>5 DEF Held
<1>4. QED
  BY <1>2, <1>3 DEF ReadBack

(* What a client reads is what it set last, in its own byte order, and of    *)
(* fonts what GetFontAttribute leaves of the name of the one set last, for   *)
(* all values and lengths of names (StoreIMIC, GetIMIC, CreateNestedList).   *)
THEOREM ReadsBackWhatWasSet == Spec => []RoundTrip
<1>1. Stored /\ Reads => RoundTrip
  <2>. SUFFICES ASSUME Stored, Reads, reply # None PROVE RoundTrip
    BY DEF RoundTrip
  <2>1. /\ swapped \in BOOLEAN
        /\ \A id \in PreeditIds : Held(id, ic.pre[id], asked.pre[id])
        /\ \A id \in StatusIds : Held(id, ic.sts[id], asked.sts[id])
        /\ lists \in Found /\ reply = AnswerOf(ic, lists)
    BY DEF Stored, Reads
  <2>2. ASSUME NEW T, NEW ids \in Seq(T), NEW stored, NEW want,
               \A id \in T : Held(id, stored[id], want[id]),
               NEW k \in DOMAIN CreateNestedList(stored, ids)
        PROVE  ReadBack(CreateNestedList(stored, ids)[k], want)
    <3>1. k \in DOMAIN ids
      BY <2>2 DEF CreateNestedList
    <3>. DEFINE id == ids[k]
    <3>2. CreateNestedList(stored, ids)[k] = [id |-> id, value |-> Returned(stored, id)]
      BY <3>1, Zenon DEF CreateNestedList, Returned
    <3>3. id \in T
      BY <3>1, ElementOfSeq, LenProperties
    <3>. HIDE DEF id
    <3>4. Held(id, stored[id], want[id])
      BY <2>2, <3>3
    <3>5. QED
      BY <2>1, <3>2, <3>4, ReadBackHeld
  <2>3. /\ reply.pre = CreateNestedList(ic.pre, lists.pre)
        /\ reply.sts = CreateNestedList(ic.sts, lists.sts)
    BY <2>1 DEF AnswerOf
  <2>4. PICK pres, stss, stp, sts, wp, ws :
          /\ pres = lists.pre /\ stss = lists.sts
          /\ stp = ic.pre /\ sts = ic.sts /\ wp = asked.pre /\ ws = asked.sts
    OBVIOUS
  <2>5. pres \in Seq(PreeditIds) /\ stss \in Seq(StatusIds)
    BY <2>1, <2>4, FoundFields
  <2>6. \A k \in DOMAIN reply.pre : ReadBack(reply.pre[k], asked.pre)
    BY <2>1, <2>2, <2>3, <2>4, <2>5
  <2>7. \A k \in DOMAIN reply.sts : ReadBack(reply.sts[k], asked.sts)
    BY <2>1, <2>2, <2>3, <2>4, <2>5
  <2>8. QED
    BY <2>6, <2>7 DEF RoundTrip
<1>2. QED
  BY <1>1, StoredInit, StoredNext, ReadsInit, ReadsNext, PTL DEF Spec

-----------------------------------------------------------------------------
(* The safety half of GetAnswered.                                         *)

(* Only a font set that was never set is found as Null, only one whose name  *)
(* has such a length overruns the reply, and with either the handler ends    *)
(* without a reply.                                                        *)
Fatal == ~alive => (UnsetFontAsked \/ LongFontAskedLast) /\ reply = None

LEMMA HeldFont ==
  ASSUME NEW x, NEW y, Held("FontSet", x, y)
  PROVE  /\ x = Unset("FontSet") => y = Unset("FontSet")
         /\ x[1] = y[1]
         /\ x = y
BY DEF Held, OnWire, ReadICValue, SetFontAttribute

(* In one of the two lists.                                                *)
LEMMA FatalList ==
  ASSUME NEW T, NEW ids \in Seq(T), NEW stored, NEW want,
         \A id \in T : Held(id, stored[id], want[id])
  PROVE  /\ Contains(ids, "FontSet") /\ stored["FontSet"] = Unset("FontSet")
              => want["FontSet"] = Unset("FontSet")
         /\ Overruns(stored, ids) => Overruns(want, ids)
<1>1. ASSUME "FontSet" \in T PROVE stored["FontSet"] = want["FontSet"]
  <2>. DEFINE x == stored["FontSet"]
              y == want["FontSet"]
  <2>1. Held("FontSet", x, y)
    BY <1>1
  <2>. HIDE DEF x, y
  <2>2. x = y
    BY <2>1, HeldFont
  <2>3. QED
    BY <2>2 DEF x, y
<1>2. Contains(ids, "FontSet") => "FontSet" \in T
  BY ElementOfSeq DEF Contains
<1>3. ids # <<>> /\ Last(ids) = "FontSet" => "FontSet" \in T
  <2>1. ids # <<>> => Len(ids) \in 1 .. Len(ids)
    BY LenProperties, EmptySeq
  <2>2. QED
    BY <2>1, ElementOfSeq DEF Last
<1>4. QED
  BY <1>1, <1>2, <1>3 DEF Overruns

LEMMA FatalNext == Stored /\ Reads /\ Fatal /\ [Next]_vars => Fatal'
<1>. SUFFICES ASSUME Stored, Reads, Fatal, [Next]_vars PROVE Fatal'
  OBVIOUS
<1>1. CASE GetIC /\ ~alive'
  <2>1. /\ request # None /\ request \in Seq(GetItem) /\ lists \in Found
        /\ i > Len(Encode(request))
        /\ \E rest \in Seq(GetItem), sep \in Separators : Left(request, i, lists, rest, sep)
        /\ reply' = None /\ UNCHANGED <<asked, request>>
        /\ FontIsNull \/ Overruns(ic.pre, lists.pre) \/ Overruns(ic.sts, lists.sts)
    BY <1>1 DEF GetIC, Reads, attrID_list
  <2>2. lists = AllOf(request)
    BY <2>1, NothingLeft
  <2>3. /\ lists.pre = Nested(request, "PreeditAttributes")
        /\ lists.sts = Nested(request, "StatusAttributes")
    BY <2>2 DEF AllOf
  <2>4. PICK pres, stss, stp, sts, wp, ws :
          /\ pres = lists.pre /\ stss = lists.sts
          /\ stp = ic.pre /\ sts = ic.sts /\ wp = asked.pre /\ ws = asked.sts
    OBVIOUS
  <2>5. pres \in Seq(PreeditIds) /\ stss \in Seq(StatusIds)
    BY <2>1, <2>4, FoundFields
  <2>6. /\ Contains(pres, "FontSet") /\ stp["FontSet"] = Unset("FontSet")
             => wp["FontSet"] = Unset("FontSet")
        /\ Overruns(stp, pres) => Overruns(wp, pres)
    BY <2>4, <2>5, FatalList DEF Stored
  <2>7. /\ Contains(stss, "FontSet") /\ sts["FontSet"] = Unset("FontSet")
             => ws["FontSet"] = Unset("FontSet")
        /\ Overruns(sts, stss) => Overruns(ws, stss)
    BY <2>4, <2>5, FatalList DEF Stored
  <2>8. UnsetFontAsked \/ LongFontAskedLast
    BY <2>1, <2>3, <2>4, <2>6, <2>7 DEF FontIsNull, UnsetFontAsked, LongFontAskedLast
  <2>9. (UnsetFontAsked \/ LongFontAskedLast)'
    BY <2>1, <2>8 DEF UnsetFontAsked, LongFontAskedLast, Overruns
  <2>10. QED
    BY <2>1, <2>9 DEF Fatal
<1>2. CASE UNCHANGED vars
  BY <1>2 DEF vars, Fatal, UnsetFontAsked, LongFontAskedLast, Overruns
<1>3. CASE [Next]_vars /\ ~(GetIC /\ ~alive') /\ ~UNCHANGED vars
  <2>1. alive'
    BY <1>3 DEF Next, ChangeIC, ClientGetsIC, ReadIds, Reading, GetIC, ClientGotIC, Fatal
  <2>2. QED
    BY <2>1 DEF Fatal
<1>4. QED
  BY <1>1, <1>2, <1>3

(* The process dies of a GET_IC_VALUES only if the client reads a font set   *)
(* that it never set, or one that overruns the reply, whatever else was set  *)
(* and asked for (GetIMIC, GetFontAttribute).                               *)
THEOREM DiesOfFontSet == Spec => [](~alive => UnsetFontAsked \/ LongFontAskedLast)
<1>1. Init => Fatal
  BY DEF Init, Fatal
<1>2. Fatal => (~alive => UnsetFontAsked \/ LongFontAskedLast)
  BY DEF Fatal
<1>3. QED
  BY <1>1, <1>2, FatalNext, StoredInit, StoredNext, ReadsInit, ReadsNext, PTL DEF Spec

(* Each call of GetICValue takes the search further in the list of ids, and   *)
(* never beyond the id after the last, so that it ends after at most as many *)
(* calls as there are ids, whatever their kinds and order (_Xi18nGetIC).     *)
THEOREM SearchAdvances == Spec => [][ReadIds => i' > i /\ i' <= Len(attrID_list) + 1]_vars
<1>1. ASSUME Reads, ReadIds PROVE i' > i /\ i' <= Len(attrID_list) + 1
  <2>1. Reads' /\ i' > i
    BY <1>1, ReadsReadIds
  <2>2. request' = request /\ request # None
    BY <1>1 DEF ReadIds, Reading
  <2>3. PICK n, r : n = i' /\ r = request'
    OBVIOUS
  <2>4. PICK ls, rest, sep : Left(r, n, ls, rest, sep)
    BY <2>1, <2>2, <2>3 DEF Reads
  <2>5. n \in 1 .. Len(Encode(r)) + 1
    BY <2>4 DEF Left
  <2>6. QED
    BY <2>1, <2>2, <2>3, <2>5 DEF attrID_list
<1>2. Reads /\ [Next]_vars => [ReadIds => i' > i /\ i' <= Len(attrID_list) + 1]_vars
  BY <1>1
<1>3. QED
  BY <1>2, ReadsInit, ReadsNext, PTL DEF Spec

=============================================================================
