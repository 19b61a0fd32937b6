----------------------------- MODULE XimFrames -----------------------------
(***************************************************************************)
(* The handlers' use of the frame manager: how the server writes replies   *)
(* and reads requests that hold arrays and lists (i18nPtHdr.c, i18nIc.c,   *)
(* i18nClbk.c, i18nMethod.c).  A behaviour is the handling of one message. *)
(*                                                                         *)
(* What a message looks like is stated apart from templates: values one    *)
(* after the other, with ALIGN where the next one begins at a multiple of  *)
(* four bytes, as a client writes and reads them.                          *)
(***************************************************************************)
EXTENDS ImProto

CONSTANTS
  Lengths,       \* lengths of names and values
  MaxList,       \* bound on the elements of a list
  Junk           \* what may be read where no value is

ASSUME LengthsAssumption == Lengths \subseteq Nat /\ Junk \subseteq Nat
ASSUME BoundAssumption   == MaxList \in Nat

VARIABLES
  task,          \* the message and how its handler treats it
  pc,            \* "write", "header", "name", "count", "list" or "done"
  fm,            \* the frame manager
  area,          \* the bytes written so far, or those to be read
  size,          \* the bytes allocated for them, or received
  next,          \* the group of tokens to be written, or the list to be read
  got            \* the elements read, list by list

vars == <<task, pc, fm, area, size, next, got>>

Lists  == BoundedSeq(Lengths, MaxList)
Counts == BoundedSeq({0}, MaxList)

---------------------------------------------------------------------------
(* Messages on the wire.                                                   *)
ALIGN == [size |-> 0, value |-> 0]
N(width, value) == [size |-> width, value |-> value]

AlignUp(n) == 4 * ((n + 3) \div 4)

Laid(items) ==
  FoldLeft(LAMBDA at, item :
      CASE item = ALIGN  -> [at EXCEPT !.pos = AlignUp(@)]
        [] item.size = 0 -> at
        [] OTHER         -> [pos |-> at.pos + item.size, area |-> (at.pos :> item) @@ at.area],
    [pos |-> 0, area |-> <<>>], items)

Bytes(items) == Laid(items).pos

(* A list with its length in bytes in front.                               *)
Counted(list, gap) == <<N(2, Bytes(list))>> \o gap \o list

(* Tokens: numbers that tell the fields and the elements apart.            *)
IM      == 1001
IC      == 1002
Other(i) == 1002 + i
Id(i)   == 1010 + i
Kind(i) == 1020 + i
Name(i) == 1030 + i

(* What a list's elements are on the wire, for arrays of given lengths.    *)
Wire(kind, list) ==
  FlattenSeq([i \in DOMAIN list |->
    CASE kind = "id"    -> <<N(2, Id(i))>>
      [] kind = "style" -> <<N(4, Id(i))>>
      [] kind = "str"   -> <<N(1, list[i]), N(list[i], Name(i))>>
      [] kind = "info"  -> <<N(2, list[i]), N(list[i], Name(i)), ALIGN>>
      [] kind = "attr"  -> <<N(2, Id(i)), N(2, list[i]), N(list[i], Name(i)), ALIGN>>
      [] kind = "ext"   -> <<N(1, Id(i)), N(1, Kind(i)), N(2, list[i]), N(list[i], Name(i)), ALIGN>>
      [] kind = "named" -> <<N(2, Id(i)), N(2, Kind(i)), N(2, list[i]), N(list[i], Name(i)), ALIGN>>])

---------------------------------------------------------------------------
(* Replies: how a handler prepares the frame manager (calls), the groups   *)
(* of tokens it puts, the message this shall make (wire), and the one it    *)
(* does make (written).                                                    *)
SIZE == -9       \* stands for what FrameMgrGetSize says before the group

SetCount(n)    == <<[call |-> "SetIterCount", num |-> n]>>
SetSizes(list) == [i \in DOMAIN list |-> [call |-> "SetSize", num |-> list[i]]]

PutEach(list, Group(_)) == [i \in DOMAIN list |-> Group(i)]

PutNamed(list) == PutEach(list, LAMBDA i : <<Id(i), Kind(i), SIZE, Name(i)>>)
PutAttrs(list) == PutEach(list, LAMBDA i : <<Id(i), list[i], Name(i)>>)
PutIds(list)   == PutEach(list, LAMBDA i : <<Id(i)>>)

Reply(frame, calls, puts, wire) ==
  [frame |-> frame, calls |-> calls, puts |-> puts, wire |-> wire, written |-> wire]

OpenReply(ims, ics) ==
  Reply(open_reply_fr,
        SetCount(Len(ims)) \o SetSizes(ims) \o SetCount(Len(ics)) \o SetSizes(ics),
        <<<<IM>>>> \o PutNamed(ims) \o PutNamed(ics),
        <<N(2, IM)>> \o Counted(Wire("named", ims), <<>>)
                     \o Counted(Wire("named", ics), <<ALIGN>>))

(* The opcodes of an extension are one byte each in the protocol, as in     *)
(* IMExtList, but two in ext_fr.                                           *)
QueryExtensionReply(exts) ==
  [Reply(query_extension_reply_fr, SetCount(Len(exts)) \o SetSizes(exts),
         <<<<IM>>>> \o PutNamed(exts),
         <<N(2, IM)>> \o Counted(Wire("ext", exts), <<>>))
     EXCEPT !.written = <<N(2, IM)>> \o Counted(Wire("named", exts), <<>>)]

GetIMValuesReply(values) ==
  Reply(get_im_values_reply_fr, SetCount(Len(values)) \o SetSizes(values),
        <<<<IM>>>> \o PutAttrs(values),
        <<N(2, IM)>> \o Counted(Wire("attr", values), <<>>))

GetICValuesReply(values) ==
  Reply(get_ic_values_reply_fr, SetCount(Len(values)) \o SetSizes(values),
        <<<<IM, IC>>>> \o PutAttrs(values),
        <<N(2, IM), N(2, IC)>> \o Counted(Wire("attr", values), <<ALIGN>>))

(* The value of XNQueryInputStyle: the styles are counted, not their bytes.*)
InputStyles(styles) ==
  Reply(input_styles_fr, SetCount(Len(styles)),
        <<<<Len(styles)>>>> \o PutIds(styles),
        <<N(2, Len(styles)), ALIGN>> \o Wire("style", styles))

(* The text is padded together with its length.                            *)
PreeditDraw(length, feedback) ==
  LET fixed == <<Other(1), Other(2), Other(3), Other(4)>>
  IN  Reply(preedit_draw_fr,
            SetSizes(<<length>>) \o SetCount(Len(feedback)),
            <<<<IM, IC>> \o fixed \o <<length, Name(1)>>>> \o PutIds(feedback),
            <<N(2, IM), N(2, IC)>> \o [i \in DOMAIN fixed |-> N(4, fixed[i])]
              \o <<N(2, length), N(length, Name(1)), ALIGN>>
              \o Counted(Wire("style", feedback), <<ALIGN>>))

CommitChars(length) ==
  Reply(commit_chars_fr, SetSizes(<<length>>),
        <<<<IM, IC, Other(1), SIZE, Name(1)>>>>,
        <<N(2, IM), N(2, IC), N(2, Other(1)), N(2, length), N(length, Name(1)), ALIGN>>)

ResetICReply(length) ==
  Reply(reset_ic_reply_fr, SetSizes(<<length>>),
        <<<<IM, IC, length, Name(1)>>>>,
        <<N(2, IM), N(2, IC), N(2, length), N(length, Name(1)), ALIGN>>)

EncodingNegotiationReply ==
  Reply(encoding_negotiation_reply_fr, <<>>, <<<<IM, Other(1), Other(2)>>>>,
        <<N(2, IM), N(2, Other(1)), N(2, Other(2)), ALIGN>>)

Replies ==
  {OpenReply(ims, ics) : ims \in Lists, ics \in Lists}
    \cup {QueryExtensionReply(l) : l \in Lists}
    \cup {GetIMValuesReply(l) : l \in Lists}
    \cup {GetICValuesReply(l) : l \in Lists}
    \cup {InputStyles(l) : l \in Counts}
    \cup {PreeditDraw(n, l) : n \in Lengths, l \in Counts}
    \cup {CommitChars(n) : n \in Lengths}
    \cup {ResetICReply(n) : n \in Lengths}
    \cup {EncodingNegotiationReply}

---------------------------------------------------------------------------
(* Requests: the numbers in front, then lists.  A handler may look at the  *)
(* length of a list before it reads elements (guarded).                    *)
Request(frame, header, kinds, guarded, sent, wire) ==
  [frame |-> frame, header |-> header, kinds |-> kinds, guarded |-> guarded,
   sent |-> sent, wire |-> wire]

OneList(frame, header, kind, list, gap) ==
  Request(frame, Len(header), <<kind>>, FALSE, <<list>>,
          header \o Counted(Wire(kind, list), gap))

(* The name of a locale, in no list.                                       *)
Open(length) ==
  Request(open_fr, 0, <<"name">>, TRUE, <<<<length>>>>,
          Wire("str", <<length>>) \o <<ALIGN>>)

GetIMValues(ids)      == OneList(get_im_values_fr, <<N(2, IM)>>, "id", ids, <<>>)
QueryExtension(exts)  == OneList(query_extension_fr, <<N(2, IM)>>, "str", exts, <<>>)
CreateIC(values)      == OneList(create_ic_fr, <<N(2, IM)>>, "attr", values, <<>>)
SetICValues(values)   ==
  OneList(set_ic_values_fr, <<N(2, IM), N(2, IC)>>, "attr", values, <<ALIGN>>)
GetICValues(ids)      == OneList(get_ic_values_fr, <<N(2, IM), N(2, IC)>>, "id", ids, <<>>)

(* A client names at least one encoding.                                   *)
EncodingNegotiation(names, infos) ==
  Request(encoding_negotiation_fr, 1, <<"str", "info">>, TRUE, <<names, infos>>,
          <<N(2, IM)>> \o Counted(Wire("str", names), <<>>) \o <<ALIGN>>
                       \o Counted(Wire("info", infos), <<ALIGN>>))

Requests ==
  {Open(n) : n \in Lengths}
    \cup {GetIMValues(l) : l \in Counts}
    \cup {QueryExtension(l) : l \in Lists}
    \cup {CreateIC(l) : l \in Lists}
    \cup {SetICValues(l) : l \in Lists}
    \cup {GetICValues(l) : l \in Counts}
    \cup {EncodingNegotiation(l, k) : l \in Lists \ {<<>>}, k \in Lists}

---------------------------------------------------------------------------
Prepared(t) ==
  FoldLeft(LAMBDA f, c : IF c.call = "SetSize" THEN FrameMgrSetSize(f, c.num)
                         ELSE FrameMgrSetIterCount(f, c.num),
           FrameMgrInit(t.frame), t.calls)

(* A reply is written into a zeroed area of the size the frame manager     *)
(* says; a request comes with a length in units of four bytes.             *)
Init ==
  /\ next = 1 /\ got = <<>>
  /\ \/ /\ task \in Replies
        /\ pc = "write" /\ area = <<>>
        /\ fm = Prepared(task)
        /\ size = FrameMgrGetTotalSize(fm)
     \/ /\ task \in Requests
        /\ pc = "header"
        /\ fm = FrameMgrInit(task.frame)
        /\ area = Laid(task.wire).area
        /\ size = AlignUp(Bytes(task.wire))

(* One round of a handler's loop, or what it puts in front of them.        *)
PutGroup ==
  /\ pc = "write" /\ next <= Len(task.puts)
  /\ LET n   == FrameMgrGetSize(fm)
         put == FoldLeft(LAMBDA s, v : FrameMgrPutToken(s.fm, s.area, IF v = SIZE THEN n ELSE v),
                         [fm |-> fm, area |-> area], task.puts[next])
     IN  fm' = put.fm /\ area' = put.area
  /\ next' = next + 1
  /\ UNCHANGED <<task, pc, size, got>>

SendReply ==
  /\ pc = "write" /\ next > Len(task.puts)
  /\ pc' = "done"
  /\ UNCHANGED <<task, fm, area, size, next, got>>

ReadHeader ==
  /\ pc = "header"
  /\ fm' = FoldLeft(LAMBDA f, i : FrameMgrGetToken(f, area, 0).fm, fm,
                    [i \in 1..task.header |-> i])
  /\ pc' = IF task.kinds = <<"name">> THEN "name" ELSE "count"
  /\ UNCHANGED <<task, area, size, next, got>>

(* An element: an id, or numbers and an array whose length is the last one *)
(* of them.                                                                *)
ReadOne(kind, f, junk) ==
  LET Take(values, token) == [fm |-> token.fm, values |-> Append(values, token.value)]
      Number(r) == Take(r.values, FrameMgrGetToken(r.fm, area, junk))
      Array(r)  == Number([r EXCEPT !.fm = FrameMgrSetSize(@, Last(r.values))])
      first     == Number([fm |-> f, values |-> <<>>])
  IN  CASE kind = "id"   -> first
        [] kind = "attr" -> Array(Number(first))
        [] OTHER         -> Array(first)

ReadName ==
  /\ pc = "name"
  /\ LET name == ReadOne("name", fm, 0)
     IN  fm' = name.fm /\ got' = <<<<name.values>>>>
  /\ pc' = "done"
  /\ UNCHANGED <<task, area, size, next>>

(* What memset leaves of the elements of a list.                           *)
Erased(list) == [i \in DOMAIN list |-> <<0, NULL>>]

(* byte_length is read for the frame manager, and for a guard.  Before the *)
(* encoding infos are read, the names of encodings are erased instead of   *)
(* what is to hold the infos.                                              *)
ReadCount ==
  /\ pc = "count" /\ next <= Len(task.kinds)
  /\ LET count == FrameMgrGetToken(fm, area, 0)
         skip  == task.guarded /\ count.value = 0
     IN  /\ fm' = count.fm
         /\ pc' = IF skip THEN "count" ELSE "list"
         /\ next' = IF skip THEN next + 1 ELSE next
         /\ got' = Append(IF next = 2 /\ ~skip THEN <<Erased(got[1])>> ELSE got, <<>>)
  /\ UNCHANGED <<task, area, size>>

ReadElement ==
  /\ pc = "list"
  /\ LET loop == FrameMgrIsIterLoopEnd(fm)
     IN  /\ loop.answer = "more"
         /\ \E junk \in Junk :
              LET element == ReadOne(task.kinds[next], loop.fm, junk)
              IN  /\ fm' = element.fm
                  /\ got' = [got EXCEPT ![next] = Append(@, element.values)]
  /\ UNCHANGED <<task, pc, area, size, next>>

EndList ==
  /\ pc = "list"
  /\ FrameMgrIsIterLoopEnd(fm).answer = "end"
  /\ fm' = FrameMgrIsIterLoopEnd(fm).fm
  /\ pc' = "count" /\ next' = next + 1
  /\ UNCHANGED <<task, area, size, got>>

EndRequest ==
  /\ pc = "count" /\ next > Len(task.kinds)
  /\ pc' = "done"
  /\ UNCHANGED <<task, fm, area, size, next, got>>

Next ==
  \/ PutGroup
  \/ SendReply
  \/ ReadHeader
  \/ ReadName
  \/ ReadCount
  \/ ReadElement
  \/ EndList
  \/ EndRequest

Spec == Init /\ [][Next]_vars

---------------------------------------------------------------------------
Writing == "puts" \in DOMAIN task

(* The area holds this message, field by field: every field at its place   *)
(* with its value, nothing else, and zero what was not put, in as many     *)
(* bytes as the fields take.                                               *)
Holds(items) ==
  LET laid == Laid(items)
  IN  /\ size = laid.pos
      /\ DOMAIN area \subseteq DOMAIN laid.area
      /\ \A p \in DOMAIN laid.area :
           IF p \in DOMAIN area THEN area[p] = laid.area[p] ELSE laid.area[p].value = 0

(* A reply is the message of the protocol, for all lengths of its names and *)
(* lists.  One is not, XIM_QUERY_EXTENSION_REPLY: unless its list is empty, *)
(* what the server writes is laid out as if opcodes had two bytes each.    *)
(* (Templates, SetSize and SetIterCount in the handlers, _FrameMgrPutToken, *)
(* FrameMgrGetTotalSize.)                                                  *)
WrittenAsLaidOut ==
  Writing /\ pc = "done" =>
    IF task.frame = query_extension_reply_fr
      THEN Holds(task.written) /\ (Holds(task.wire) <=> Len(task.puts) = 1)
      ELSE Holds(task.wire)

(* Nothing is written outside the reply's area, and nothing is read behind *)
(* the end of a request, unless a list without elements is read by a       *)
(* handler that does not look at its length first.                         *)
InBuffer ==
  \/ fm.idx <= size
  \/ ~Writing /\ ~task.guarded /\ <<>> \in Range(task.sent)

(* A handler gets the elements that were sent, list by list.  From a list  *)
(* without elements it gets one that was not sent, unless it looks at the  *)
(* length first; and the names of encodings are gone if infos follow.      *)
Sent(l) ==
  LET list == task.sent[l]
      NameOf(i) == IF list[i] > 0 THEN Name(i) ELSE NULL
  IN  [i \in DOMAIN list |->
         CASE task.kinds[l] = "id"   -> <<Id(i)>>
           [] task.kinds[l] = "attr" -> <<Id(i), list[i], NameOf(i)>>
           [] OTHER                  -> <<list[i], NameOf(i)>>]

ReadsWhatWasSent ==
  ~Writing /\ pc = "done" =>
    \A l \in DOMAIN task.sent :
      CASE task.sent[l] = <<>> /\ ~task.guarded -> Len(got[l]) = 1
        [] l = 1 /\ Len(got) = 2 /\ Len(got[2]) > 0 -> got[1] = Erased(task.sent[1])
        [] OTHER -> got[l] = Sent(l)

(* No list is read for ever: whether it is finished can be told, and a     *)
(* handler reads no more elements than were sent, or one instead of none.  *)
EveryListEnds ==
  pc = "list" =>
    LET sent == Len(task.sent[next])
        end  == FrameMgrIsIterLoopEnd(fm).answer
    IN  /\ end # "endless"
        /\ Len(got[next]) >= Max({sent, 1}) => end = "end"
=============================================================================
