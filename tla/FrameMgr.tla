------------------------------ MODULE FrameMgr ------------------------------
(***************************************************************************)
(* The frame manager (FrameMgr.c): a message is written and read token by  *)
(* token along a template, which says where lengths, lists and padding     *)
(* are.  A template is an array of items; the position in it, the lengths  *)
(* and the positions in its lists make up an instance (FrameInst), which   *)
(* the operators below map to a new one, as the functions of the same      *)
(* names change theirs.                                                    *)
(*                                                                         *)
(* Items are numbered from 1, elements of lists from 0.  The extra data of *)
(* an item is there from the beginning instead of being created when it is *)
(* first asked for.  Byte order is left out: both sides swap alike.        *)
(***************************************************************************)
EXTENDS Integers, Sequences, SequencesExt

NO_VALUE == -1
NO_VALID_FIELD == -2
NULL == -3

(* Items of templates.                                                     *)
_FRAME(type)          == [type |-> type]
_XIMPTR(frame)        == [type |-> "PTR_ITEM", frame |-> frame]
_PAD2(n)              == [type |-> "PADDING", unit |-> 2, number |-> n]
_PAD4(n)              == [type |-> "PADDING", unit |-> 4, number |-> n]
_BYTE_COUNTER(bits, offset) ==
  [type |-> "COUNTER", bits |-> bits, offset |-> offset]

Width(bits) == CASE bits = "BIT8" -> 1 [] bits = "BIT16" -> 2 [] bits = "BIT32" -> 4

IsNumber(type) == type \in {"BIT8", "BIT16", "BIT32"}

(* The next item: a list is followed by its element, a pointer by what it  *)
(* points to.  There is none after EOL.                                    *)
RECURSIVE FrameInstIncrement(_, _)
FrameInstIncrement(frame, k) ==
  CASE frame[k].type = "POINTER" -> k + 2
    [] frame[k].type = "ITER"    -> FrameInstIncrement(frame, k + 1)
    [] frame[k].type = "EOL"     -> 0
    [] OTHER                     -> k + 1

(* Variant: does not know that a list and its element are one item.        *)
FrameInstDecrementByOne(frame, k) == k - 1

(* The item before: looks at the second item back, which is POINTER or     *)
(* ITER if the item before is a group of several.                          *)
FrameInstDecrement(frame, k) ==
  IF k > 2 /\ frame[k - 2].type \in {"POINTER", "ITER"}
    THEN 1 + Max({0} \cup {j \in 1..(k - 3) : frame[j].type # "ITER"})
    ELSE k - 1

(* The positions of the items from k on.                                   *)
RECURSIVE ItemsFrom(_, _)
ItemsFrom(frame, k) ==
  IF frame[k].type = "EOL" THEN <<>>
  ELSE <<k>> \o ItemsFrom(frame, FrameInstIncrement(frame, k))

(* A list that begins at item k, of any length for now; its elements are   *)
(* numbers, or instances of frame that cm holds as far as they were used.  *)
IterInit(frame, k) ==
  [type |-> frame[k].type,
   frame |-> IF frame[k].type = "POINTER" THEN frame[k + 1].frame ELSE <<>>,
   max_count |-> 0, allow_expansion |-> TRUE,
   cur_no |-> 0, start_counter |-> FALSE, cm |-> <<>>]

(* An instance of a template; data holds what its items need: the length   *)
(* of an array, a list, or the instance pointed to.                        *)
RECURSIVE FrameInstInit(_)
FrameInstInit(frame) ==
  [template |-> frame, cur_no |-> 1,
   data |-> [k \in {j \in Range(ItemsFrom(frame, 1)) :
                      frame[j].type \in {"BARRAY", "ITER", "POINTER"}} |->
               CASE frame[k].type = "BARRAY"  -> NO_VALUE
                 [] frame[k].type = "POINTER" -> FrameInstInit(frame[k + 1].frame)
                 [] frame[k].type = "ITER"    -> IterInit(frame, k + 1)]]

(* Element i of a list of instances: cm grows as elements are touched.     *)
Elem(it, i) == IF i < Len(it.cm) THEN it.cm[i + 1] ELSE FrameInstInit(it.frame)

WithElem(it, i, fi) ==
  [it EXCEPT !.cm = [j \in 1..Max({Len(@), i + 1}) |->
                       IF j = i + 1 THEN fi ELSE Elem(it, j - 1)]]

---------------------------------------------------------------------------
(* Sizes.                                                                  *)
RECURSIVE FrameInstGetItemSize(_, _)

(* The bytes that fill the given number of items before k up to the unit.  *)
PaddingSize(fi, k) ==
  LET pad  == fi.template[k]
      back == FoldLeft(LAMBDA acc, n :
                  LET i == FrameInstDecrement(fi.template, acc.i)
                  IN  [i |-> i, size |-> acc.size + FrameInstGetItemSize(fi, i)],
                [i |-> k, size |-> 0], [n \in 1..pad.number |-> n])
  IN  (pad.unit - (back.size % pad.unit)) % pad.unit

FrameInstGetTotalSize(fi) ==
  FoldLeft(LAMBDA n, k : n + FrameInstGetItemSize(fi, k), 0,
           ItemsFrom(fi.template, 1))

IterGetTotalSize(it) ==
  CASE it.allow_expansion   -> NO_VALUE
    [] IsNumber(it.type)    -> it.max_count * Width(it.type)
    [] OTHER                ->
         LET sizes == [i \in 1..it.max_count |-> FrameInstGetTotalSize(Elem(it, i - 1))]
         IN  IF \E i \in DOMAIN sizes : sizes[i] = NO_VALUE THEN NO_VALUE
             ELSE FoldLeft(+, 0, sizes)

FrameInstGetItemSize(fi, k) ==
  LET item == fi.template[k]
  IN  CASE item.type = "BARRAY"  -> fi.data[k]
        [] item.type = "PADDING" -> PaddingSize(fi, k)
        [] item.type = "ITER"    -> IterGetTotalSize(fi.data[k])
        [] item.type = "POINTER" -> FrameInstGetTotalSize(fi.data[k])
        [] item.type = "COUNTER" -> Width(item.bits)
        [] IsNumber(item.type)   -> Width(item.type)
        [] OTHER                 -> NO_VALUE

---------------------------------------------------------------------------
(* Preparing a message to be written.                                      *)
RECURSIVE TakesSize(_)

ElemTakingSize(it) ==
  {i \in 0..(it.max_count - IF it.allow_expansion THEN 0 ELSE 1) :
     it.type = "POINTER" /\ TakesSize(Elem(it, i))}

ItemsTakingSize(fi) ==
  {k \in DOMAIN fi.data :
     CASE fi.template[k].type = "BARRAY"  -> fi.data[k] = NO_VALUE
       [] fi.template[k].type = "POINTER" -> TakesSize(fi.data[k])
       [] fi.template[k].type = "ITER"    -> ElemTakingSize(fi.data[k]) # {}}

TakesSize(fi) == ItemsTakingSize(fi) # {}

(* The first array without a length gets it; a list that may still grow    *)
(* offers one more element.                                                *)
RECURSIVE FrameInstSetSize(_, _)
FrameInstSetSize(fi, num) ==
  IF ~TakesSize(fi) THEN fi
  ELSE LET k  == Min(ItemsTakingSize(fi))
           it == fi.data[k]
           i  == Min(ElemTakingSize(it))
       IN  CASE fi.template[k].type = "BARRAY"  -> [fi EXCEPT !.data[k] = num]
             [] fi.template[k].type = "POINTER" ->
                  [fi EXCEPT !.data[k] = FrameInstSetSize(it, num)]
             [] fi.template[k].type = "ITER"    ->
                  [fi EXCEPT !.data[k] =
                     [WithElem(it, i, FrameInstSetSize(Elem(it, i), num))
                        EXCEPT !.max_count = Max({@, i + 1})]]

IterSetIterCount(it, num) == [it EXCEPT !.max_count = num, !.allow_expansion = FALSE]

(* The first list whose length is open gets it: no list is in another one. *)
FrameInstSetIterCount(fi, num) ==
  LET open == {k \in DOMAIN fi.data :
                 fi.template[k].type = "ITER" /\ fi.data[k].allow_expansion}
  IN  IF open = {} THEN fi
      ELSE [fi EXCEPT !.data[Min(open)] = IterSetIterCount(@, num)]

FirstValid(sizes) ==
  LET valid == SelectSeq(sizes, LAMBDA n : n # NO_VALID_FIELD)
  IN  IF valid = <<>> THEN NO_VALID_FIELD ELSE Head(valid)

(* The length of the next array from the current position on, or of those  *)
(* of a list's elements.                                                   *)
RECURSIVE FrameInstGetSize(_)

IterGetSize(it) ==
  IF it.type # "POINTER" THEN NO_VALID_FIELD
  ELSE FirstValid([n \in 1..(it.max_count - it.cur_no) |->
                     FrameInstGetSize(Elem(it, it.cur_no + n - 1))])

FrameInstGetSize(fi) ==
  LET SizeAt(k) ==
        CASE fi.template[k].type = "BARRAY"  -> fi.data[k]
          [] fi.template[k].type = "ITER"    -> IterGetSize(fi.data[k])
          [] fi.template[k].type = "POINTER" -> FrameInstGetSize(fi.data[k])
          [] OTHER -> NO_VALID_FIELD
      items == ItemsFrom(fi.template, fi.cur_no)
  IN  FirstValid([n \in DOMAIN items |-> SizeAt(items[n])])

---------------------------------------------------------------------------
(* Walking through the template.  A step yields the type of the token, in  *)
(* num the length of an array or padding, or the list that a number counts *)
(* (0 if none), and in of what became of the instance or list.             *)
Token(type, num, of) == [type |-> type, num |-> num, of |-> of]

RECURSIVE FrameInstGetNextType(_), IterGetNextType(_)
IterGetNextType(iter) ==
  LET Within(it, sub) ==
        IF sub.type = "EOL" THEN IterGetNextType([it EXCEPT !.cur_no = @ + 1])
        ELSE [sub EXCEPT !.of = it]
      At(it, sub) ==
        IF it.cur_no >= it.max_count THEN Token("EOL", 0, it)
        ELSE IF it.type # "POINTER" THEN Token(it.type, 0, [it EXCEPT !.cur_no = @ + 1])
        ELSE Within(WithElem(it, it.cur_no, sub.of), sub)
      Enter(it) == At(it, FrameInstGetNextType(Elem(it, it.cur_no)))
  IN  Enter([iter EXCEPT !.start_counter = FALSE,
                         !.max_count = IF iter.allow_expansion
                                         THEN Max({@, iter.cur_no + 1}) ELSE @])

FrameInstGetNextType(fi) ==
  LET k    == fi.cur_no
      item == fi.template[k]
      next == [fi EXCEPT !.cur_no = FrameInstIncrement(fi.template, k)]
      Within(sub) == IF sub.type = "EOL"
                       THEN FrameInstGetNextType([next EXCEPT !.data[k] = sub.of])
                       ELSE [sub EXCEPT !.of = [fi EXCEPT !.data[k] = sub.of]]
  IN  CASE item.type = "BARRAY"  -> Token("BARRAY", fi.data[k], next)
        [] item.type = "PADDING" -> Token("PADDING", PaddingSize(fi, k), next)
        [] item.type = "COUNTER" -> Token(item.bits, k + item.offset, next)
        [] item.type \in {"ITER", "POINTER"} ->
             Within(IF item.type = "ITER" THEN IterGetNextType(fi.data[k])
                    ELSE FrameInstGetNextType(fi.data[k]))
        [] OTHER -> Token(item.type, 0, next)

(* The type and length of the next token without moving.  At the end of a  *)
(* list or an element the code calls itself again and again.               *)
Endless(fi)         == Token("ENDLESS", 0, fi)
OrEndless(peek, fi) == IF peek.type = "EOL" THEN Endless(fi) ELSE peek

RECURSIVE FrameInstPeekNextType(_)

IterPeekNextType(it, fi) ==
  CASE ~it.allow_expansion /\ it.cur_no >= it.max_count -> Endless(fi)
    [] OTHER -> IF it.type # "POINTER" THEN Token(it.type, 0, fi)
                ELSE OrEndless(FrameInstPeekNextType(Elem(it, it.cur_no)), fi)

FrameInstPeekNextType(fi) ==
  LET k    == fi.cur_no
      item == fi.template[k]
  IN  CASE item.type = "PADDING" -> Token("PADDING", PaddingSize(fi, k), fi)
        [] item.type = "POINTER" -> OrEndless(FrameInstPeekNextType(fi.data[k]), fi)
        [] item.type = "ITER"    -> IterPeekNextType(fi.data[k], fi)
        [] OTHER                 -> Token(item.type, 0, fi)

(* Variant: stays at an element that was read to its end.                  *)
IterIsLoopEndStaying(it) ==
  [end |-> ~it.allow_expansion /\ it.cur_no = it.max_count, it |-> it]

(* Is the list finished?  Goes on to the next element if one was read to   *)
(* its end.                                                                *)
IterIsLoopEnd(it) ==
  LET over(i) == ~it.allow_expansion /\ i = it.max_count
      elem    == Elem(it, it.cur_no)
      i       == IF /\ ~over(it.cur_no) /\ it.type = "POINTER"
                    /\ elem.template[elem.cur_no].type = "EOL"
                   THEN it.cur_no + 1 ELSE it.cur_no
  IN  [end |-> over(i), it |-> [it EXCEPT !.cur_no = i]]

---------------------------------------------------------------------------
(* The frame manager: an instance, the position idx in the message, and    *)
(* the lists being read with the bytes they have and shall have.           *)
FrameMgrInit(frame) == [fi |-> FrameInstInit(frame), idx |-> 0, iters |-> <<>>]

FrameMgrSetSize(fm, num)      == [fm EXCEPT !.fi = FrameInstSetSize(@, num)]
FrameMgrSetIterCount(fm, num) == [fm EXCEPT !.fi = FrameInstSetIterCount(@, num)]
FrameMgrGetTotalSize(fm)      == FrameInstGetTotalSize(fm.fi)
FrameMgrGetSize(fm)           == LET n == FrameInstGetSize(fm.fi)
                                 IN  IF n = NO_VALID_FIELD THEN NO_VALUE ELSE n

(* The bytes that are counted: those of lists that were reached.           *)
Counting(fm, i, Reached(_, _)) ==
  LET reached == {n \in DOMAIN fm.iters :
                    fm.iters[n].counting /\ Reached(fm.iters[n].counter + i, fm.iters[n].end)}
      first   == IF reached = {} THEN Len(fm.iters) ELSE Min(reached)
      counted == [n \in DOMAIN fm.iters |->
                    IF fm.iters[n].counting /\ n <= first
                      THEN [fm.iters[n] EXCEPT !.counter = @ + i] ELSE fm.iters[n]]
  IN  IF reached = {} THEN [fm EXCEPT !.iters = counted]
      ELSE [fm EXCEPT !.iters = RemoveAt(counted, first),
                      !.fi.data[fm.iters[first].iter].allow_expansion = FALSE]

(* Variant: a list is over one byte too late.                              *)
_FrameIterCounterIncrLate(fm, i) == Counting(fm, i, LAMBDA c, end : c > end)

(* The list that has all its bytes is not expanded any more.               *)
_FrameIterCounterIncr(fm, i) == Counting(fm, i, LAMBDA c, end : c >= end)

(* A step through the template; a list that is entered is counted.         *)
Advance(fm) ==
  LET Entered(fi) == {k \in DOMAIN fi.data :
                        /\ fi.template[k].type = "ITER"
                        /\ fm.fi.data[k].start_counter /\ ~fi.data[k].start_counter}
      Step(t) == [type |-> t.type, num |-> t.num,
                  fm |-> [fm EXCEPT !.fi = t.of,
                            !.iters = [n \in DOMAIN @ |->
                              [@[n] EXCEPT !.counting = @ \/ fm.iters[n].iter \in Entered(t.of)]]]]
  IN  Step(FrameInstGetNextType(fm.fi))

(* Skips padding as well; endless if the code does not come back.          *)
RECURSIVE FrameMgrIsIterLoopEnd(_)
FrameMgrIsIterLoopEnd(fm) ==
  LET k    == fm.fi.cur_no
      Skip(step) == _FrameIterCounterIncr([step.fm EXCEPT !.idx = @ + step.num], step.num)
      Look(now, peek) ==
        CASE peek = "ENDLESS" -> [answer |-> "endless", fm |-> now]
          [] peek = "PADDING" -> FrameMgrIsIterLoopEnd(Skip(Advance(now)))
          [] OTHER            -> [answer |-> "more", fm |-> now]
      More(now) == Look(now, FrameInstPeekNextType(now.fi).type)
      InList(loop) ==
        IF loop.end
          THEN [answer |-> "end",
                fm |-> [fm EXCEPT !.fi.data[k] = loop.it,
                                  !.fi.cur_no = FrameInstIncrement(fm.fi.template, @)]]
          ELSE More([fm EXCEPT !.fi.data[k] = loop.it])
  IN  IF fm.fi.template[k].type = "ITER" THEN InList(IterIsLoopEnd(fm.fi.data[k]))
      ELSE More(fm)

(* Reads the next number, or the place and length of the next array.  What *)
(* is at no number's place is junk.                                        *)
RECURSIVE FrameMgrGetToken(_, _, _)
FrameMgrGetToken(fm, area, junk) ==
  LET Value(size) == IF fm.idx \in DOMAIN area /\ area[fm.idx].size = size
                       THEN area[fm.idx].value ELSE junk
      Begin(f, list, end) ==
        IF list = 0 THEN f
        ELSE [f EXCEPT !.iters = Append(@, [iter |-> list, counting |-> FALSE,
                                            counter |-> 0, end |-> end]),
                       !.fi.data[list].start_counter = TRUE]
      Moved(step, size, list) ==
        _FrameIterCounterIncr(Begin([step.fm EXCEPT !.idx = @ + size], list, Value(size)), size)
      Read(step, size) ==
        CASE IsNumber(step.type) -> [value |-> Value(size), fm |-> Moved(step, size, step.num)]
          [] step.type = "BARRAY" /\ size > 0 ->
               [value |-> Value(size), fm |-> Moved(step, size, 0)]
          [] step.type = "PADDING" /\ size # NO_VALUE ->
               FrameMgrGetToken(Moved(step, size, 0), area, junk)
          [] OTHER -> [value |-> NULL, fm |-> step.fm]
      Sized(step) == Read(step, IF IsNumber(step.type) THEN Width(step.type) ELSE step.num)
  IN  Sized(Advance(fm))

(* Writes the next number or array, and what the template has in front of  *)
(* it: padding, and the length in bytes of a list.                         *)
RECURSIVE FrameMgrPutToken(_, _, _)
FrameMgrPutToken(fm, area, value) ==
  LET Written(f, size, v) ==
        [fm   |-> [f EXCEPT !.idx = @ + size],
         area |-> IF v = NULL THEN area ELSE (fm.idx :> [size |-> size, value |-> v]) @@ area]
      Then(s) == FrameMgrPutToken(s.fm, s.area, value)
      Counter(f, size, bytes) ==
        IF bytes = NO_VALUE THEN [fm |-> f, area |-> area] ELSE Then(Written(f, size, bytes))
      Put(f, type, num) ==
        CASE IsNumber(type) /\ num # 0 ->
               Counter(f, Width(type), IterGetTotalSize(f.fi.data[num]))
          [] IsNumber(type) /\ num = 0 -> Written(f, Width(type), value)
          [] type = "BARRAY" /\ num > 0 -> Written(f, num, value)
          [] type = "PADDING" /\ num # NO_VALUE -> Then(Written(f, num, NULL))
          [] OTHER -> [fm |-> f, area |-> area]
      At(step) == Put(step.fm, step.type, step.num)
  IN  At(Advance(fm))
=============================================================================
