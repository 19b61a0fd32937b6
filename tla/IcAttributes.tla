----------------------------- MODULE IcAttributes -----------------------------
(***************************************************************************)
(* The attributes of one IC: how CREATE_IC, SET_IC_VALUES and              *)
(* GET_IC_VALUES are taken apart and answered (i18nIc.c), and what the IM   *)
(* server stores, gives back and tells the IME (winic.c).                  *)
(*                                                                         *)
(* A number in a message is a pair <<v, reversed>>: the value, and whether  *)
(* its bytes are in the order opposite to the server's.  A client whose     *)
(* byte order differs (swapped) writes reversed numbers and expects them.   *)
(* The bytes of a font name have no order.  The client waits for the answer *)
(* to each request, so that a request is handled before the next is made.   *)
(* How the bytes of a request are taken apart is modelled in XimFrames.     *)
(***************************************************************************)
EXTENDS Integers, SequencesExt, SequenceFolds

CONSTANTS
  Values,        \* rectangles, points, numbers and font names
  NameLength,    \* the length of a value that is a font name
  Zero,          \* what memset leaves in the record of an IC
  Null,          \* the base_font of an IC that was given none
  Windows,       \* windows of the client
  NoWindow,      \* no window
  None,          \* no request, no reply
  PreeditIds,    \* the ids a client uses in a list of preedit attributes
  StatusIds,     \* ... and in a list of status attributes
  MaxSetItems,   \* bound on the attributes of a request that sets values
  MaxGetItems,   \* bound on the ids of a request that reads values
  MaxNested      \* bound on the length of a nested list

(* The ids are in the table of the server, and a client's XIM library lets  *)
(* no spot location into a list of status attributes.                      *)
ASSUME IdsAssumption ==
  /\ PreeditIds \subseteq
       {"Area", "Foreground", "Colormap", "SpotLocation", "LineSpace", "FontSet"}
  /\ StatusIds \subseteq {"Area", "Foreground", "Colormap", "LineSpace", "FontSet"}
(* A font name has two bytes at least: of a shorter one not even the two    *)
(* lengths in front of it are returned whole (GetFontAttribute).           *)
ASSUME NameLengthAssumption == NameLength \in [Values -> Nat \ {0, 1}]
ASSUME BoundsAssumption ==
  MaxSetItems \in Nat /\ MaxGetItems \in Nat /\ MaxNested \in Nat

VARIABLES
  swapped,   \* the client has the other byte order
  ic,        \* the IMIC, with the composition window the IME was given
  asked,     \* history: what the client set last
  request,   \* the GET_IC_VALUES being handled, as the client made it
  i,         \* the index into attrID_list
  lists,     \* the ids found so far: ic_attr, pre_attr, sts_attr
  reply,     \* the GET_IC_VALUES_REPLY, once it was sent
  alive      \* FALSE once the process died of a font set

vars == <<swapped, ic, asked, request, i, lists, reply, alive>>

-----------------------------------------------------------------------------
Nests == {"PreeditAttributes", "StatusAttributes"}

(* variant: the table lacks XNSeparatorofNestedList.                       *)
KnownIdsNoSeparator ==
  Nests \cup {"InputStyle", "FocusWindow", "FilterEvents", "Area", "Foreground",
              "Colormap", "SpotLocation", "LineSpace", "FontSet"}

(* Default_ICattr.  Left out: Background, treated like Foreground;          *)
(* AreaNeeded, like Area, but no window is placed by it; StdColormap, which *)
(* overwrites what was stored for Colormap; BackgroundPixmap, never         *)
(* returned, like Colormap; and PreeditState, which is not even stored.    *)
KnownIds == KnownIdsNoSeparator \cup {"Separator"}

Unset(id) == IF id = "FontSet" THEN <<Null, FALSE>> ELSE <<Zero, FALSE>>

(* The composition window: its position, the window whose position in the  *)
(* top-level window is added to it, and whether it is added to width and   *)
(* height as well.                                                         *)
Default ==
  [place |-> "Default", at |-> <<Zero, FALSE>>, of |-> <<NoWindow, FALSE>>, grown |-> FALSE]

(* What an attribute may be, in a message or stored.                       *)
Datum ==
  (Values \cup Windows \cup {Zero, Null, NoWindow, "Callbacks", "Nothing"}) \X BOOLEAN

Attribute == [id : KnownIds \ Nests, value : Datum]

CompositionWindows ==
  [place : {"Default", "Area", "SpotLocation"}, at : Datum, of : Datum, grown : BOOLEAN]

ICs ==
  [focus : Datum,
   pre : [PreeditIds -> Datum],
   sts : [StatusIds -> Datum],
   window : CompositionWindows]

(* NewIMIC: an IC to which StoreIMIC has not stored anything.              *)
NewIC ==
  [focus |-> <<NoWindow, FALSE>>,
   pre |-> [id \in PreeditIds |-> Unset(id)],
   sts |-> [id \in StatusIds |-> Unset(id)],
   window |-> Default]

(* history: the client set nothing; moved says that it named a focus window *)
(* since it last placed the composition window.                            *)
Unplaced == [place |-> "Default", at |-> <<Zero, FALSE>>, of |-> <<NoWindow, FALSE>>]

NothingAsked ==
  [focus |-> <<NoWindow, FALSE>>,
   pre |-> [id \in PreeditIds |-> Unset(id)],
   sts |-> [id \in StatusIds |-> Unset(id)],
   window |-> Unplaced,
   moved |-> FALSE]

NoIds == [ic |-> <<>>, pre |-> <<>>, sts |-> <<>>]

Init ==
  /\ swapped \in BOOLEAN
  /\ ic = NewIC
  /\ asked = NothingAsked
  /\ request = None
  /\ i = 1
  /\ lists = NoIds
  /\ reply = None
  /\ alive = TRUE

-----------------------------------------------------------------------------
(* Requests, as the client's XIM library writes them.                      *)

OnWire(id, v) == <<v, swapped /\ id # "FontSet">>

Entry(id, vs) == {[id |-> id, value |-> OnWire(id, v)] : v \in vs}

Entries(ids) == UNION {Entry(id, Values) : id \in ids}

Nest(id, elements) == {[id |-> id, list |-> l] : l \in BoundedSeq(elements, MaxNested)}

(* A request names an attribute at least: _Xi18nChangeIC and _Xi18nGetIC     *)
(* read a first one also from an empty list (XimFrames).                    *)
SetRequests ==
  BoundedSeq(Entry("InputStyle", {"Callbacks", "Nothing"})
               \cup Entry("FocusWindow", Windows)
               \cup Nest("PreeditAttributes", Entries(PreeditIds))
               \cup Nest("StatusAttributes", Entries(StatusIds)),
             MaxSetItems) \ {<<>>}

GetRequests ==
  BoundedSeq({[id |-> "FilterEvents"], [id |-> "InputStyle"]}
               \cup Nest("PreeditAttributes", PreeditIds)
               \cup Nest("StatusAttributes", StatusIds),
             MaxGetItems) \ {<<>>}

(* A nested list of ids ends with a separator.                             *)
Encode(items) ==
  FlattenSeq([k \in DOMAIN items |->
                IF items[k].id \in Nests
                  THEN <<items[k].id>> \o items[k].list \o <<"Separator">>
                  ELSE <<items[k].id>>])

-----------------------------------------------------------------------------
(* CREATE_IC and SET_IC_VALUES: _Xi18nChangeIC and StoreIMIC.              *)

(* What FrameMgrGetToken and FrameMgrPutToken do to a number.              *)
Swapped(x) == <<x[1], x[2] # swapped>>

(* variant: the rectangle is copied as it is in the message.               *)
SetRectAttributeRaw(x) == x

SetRectAttribute(x) == Swapped(x)

(* The bytes of the message are copied over the point that was read and    *)
(* converted.                                                              *)
SetPointAttribute(x) == x

SetCardAttribute(x) == Swapped(x)

SetFontAttribute(x) == x

ReadICValue(e) ==
  [e EXCEPT !.value =
     CASE e.id = "Area" -> SetRectAttribute(@)
       [] e.id = "SpotLocation" -> SetPointAttribute(@)
       [] e.id = "FontSet" -> SetFontAttribute(@)
       [] OTHER -> SetCardAttribute(@)]

(* The nested lists of one kind, one after the other.                      *)
Nested(items, nest) ==
  FlattenSeq([k \in DOMAIN items |-> IF items[k].id = nest THEN items[k].list ELSE <<>>])

(* The attributes of the IC itself.                                        *)
Plain(items) == Select(items, Attribute)

Attributes(entries) == [k \in DOMAIN entries |-> ReadICValue(entries[k])]

StoreIcAttribute(r, e) ==
  CASE e.id = "FocusWindow" -> [r EXCEPT !.focus = e.value]
    [] e.id = "InputStyle" /\ e.value[1] = "Nothing" -> [r EXCEPT !.window = Default]
    [] OTHER -> r

(* TopLevelWindow and XTranslateCoordinates, to which width and height of   *)
(* an area are given as if they were a point; found is FALSE if the focus   *)
(* window does not exist any more.                                         *)
PlacedAt(r, e, found) ==
  LET of == IF found THEN r.focus ELSE <<NoWindow, FALSE>>
  IN  [place |-> e.id, at |-> e.value, of |-> of,
       grown |-> e.id = "Area" /\ of[1] # NoWindow]

StorePreeditAttribute(r, e, found) ==
  IF e.id \in {"Area", "SpotLocation"}
    THEN [r EXCEPT !.pre[e.id] = e.value, !.window = PlacedAt(r, e, found)]
    ELSE [r EXCEPT !.pre[e.id] = e.value]

StoreStatusAttribute(r, e) == [r EXCEPT !.sts[e.id] = e.value]

(* The attributes are stored one after the other.                          *)
StoreIcAttributes(r, ics) ==
  FoldOver([x \in ICs \X Attribute |-> StoreIcAttribute(x[1], x[2])], r, ics)

StorePreeditAttributes(r, pres, found) ==
  FoldOver([x \in ICs \X Attribute |-> StorePreeditAttribute(x[1], x[2], found)], r, pres)

StoreStatusAttributes(r, stss) ==
  FoldOver([x \in ICs \X Attribute |-> StoreStatusAttribute(x[1], x[2])], r, stss)

(* variant: the attributes of the IC itself are stored last.               *)
StoreIMICPreeditFirst(r, ics, pres, stss, found) ==
  StoreStatusAttributes(StoreIcAttributes(StorePreeditAttributes(r, pres, found), ics), stss)

(* The attributes of the IC come first, wherever they are in the request.  *)
StoreIMIC(r, ics, pres, stss, found) ==
  StoreStatusAttributes(StorePreeditAttributes(StoreIcAttributes(r, ics), pres, found), stss)

(* history: the values named last in the lists of the request.             *)
LastNamed(entries, ids) ==
  LET named == {k \in DOMAIN entries : entries[k].id \in ids}
  IN  IF named = {} THEN 0 ELSE CHOOSE k \in named : \A n \in named : n <= k

LastOr(entries, id, default) ==
  LET k == LastNamed(entries, {id})
  IN  IF k = 0 THEN default ELSE entries[k].value

Asked(items, found) ==
  LET pres == Nested(items, "PreeditAttributes")
      stss == Nested(items, "StatusAttributes")
      focus == LastOr(items, "FocusWindow", asked.focus)
      p == LastNamed(pres, {"Area", "SpotLocation"})
      nothing == \E k \in DOMAIN items :
                   items[k].id = "InputStyle" /\ items[k].value[1] = "Nothing"
  IN  [focus |-> focus,
       pre |-> [id \in PreeditIds |-> LastOr(pres, id, asked.pre[id])],
       sts |-> [id \in StatusIds |-> LastOr(stss, id, asked.sts[id])],
       window |->
         IF p # 0 THEN [place |-> pres[p].id, at |-> pres[p].value,
                        of |-> IF found THEN focus ELSE <<NoWindow, FALSE>>]
         ELSE IF nothing THEN Unplaced ELSE asked.window,
       moved |-> p = 0 /\ (asked.moved \/ LastNamed(items, {"FocusWindow"}) # 0)]

ChangeIC ==
  /\ alive
  /\ request = None
  /\ \E items \in SetRequests, found \in BOOLEAN :
       /\ ic' = StoreIMIC(ic,
                          Attributes(Plain(items)),
                          Attributes(Nested(items, "PreeditAttributes")),
                          Attributes(Nested(items, "StatusAttributes")),
                          found)
       /\ asked' = Asked(items, found)
  /\ UNCHANGED <<swapped, request, i, lists, reply, alive>>

-----------------------------------------------------------------------------
(* GET_IC_VALUES: _Xi18nGetIC and GetIMIC.                                 *)

ClientGetsIC ==
  /\ alive
  /\ request = None
  /\ request' \in GetRequests
  /\ UNCHANGED <<swapped, ic, asked, i, lists, reply, alive>>

attrID_list == Encode(request)

(* GetICValue, called with the ids from the index on; each nested list of   *)
(* the requests has its separator, so that the bound list_num is of no      *)
(* effect.                                                                 *)
GetICValue ==
  LET ids == SubSeq(attrID_list, i, Len(attrID_list))
      separators == {k \in DOMAIN ids : ids[k] = "Separator"}
      first == CHOOSE k \in separators : \A n \in separators : k <= n
  IN  IF ids[1] \in Nests THEN SubSeq(ids, 2, first - 1)
      ELSE Select(<<ids[1]>>, KnownIds)

(* variant: the separator is skipped as well.                              *)
AfterNestedAndSeparator(read) == i + Len(read) + 2

(* The index then is that of the separator, which is read as an attribute.  *)
AfterNested(read) == i + Len(read) + 1

Reading == alive /\ request # None /\ reply = None /\ i <= Len(attrID_list)

ReadIds ==
  /\ Reading
  /\ \/ /\ attrID_list[i] = "PreeditAttributes"
        /\ lists' = [lists EXCEPT !.pre = @ \o GetICValue]
        /\ i' = AfterNested(GetICValue)
     \/ /\ attrID_list[i] = "StatusAttributes"
        /\ lists' = [lists EXCEPT !.sts = @ \o GetICValue]
        /\ i' = AfterNested(GetICValue)
     \/ /\ attrID_list[i] \notin Nests
        /\ lists' = [lists EXCEPT !.ic = @ \o GetICValue]
        /\ i' = i + Len(GetICValue)
  /\ UNCHANGED <<swapped, ic, asked, request, reply, alive>>

(* strlen (base_font)                                                      *)
FontIsNull ==
  \/ Contains(lists.pre, "FontSet") /\ ic.pre["FontSet"] = Unset("FontSet")
  \/ Contains(lists.sts, "FontSet") /\ ic.sts["FontSet"] = Unset("FontSet")

(* GetIMIC: the value of a font is its length, in the server's byte order,  *)
(* and its name; the line spacing is always the same; there is no branch    *)
(* for color maps, whose value_length stays 0.                             *)
NeverReturned == {"Colormap"}

GetNested(stored, id) ==
  CASE id = "FontSet" -> [length |-> <<NameLength[stored[id][1]], FALSE>>, name |-> stored[id][1]]
    [] id = "LineSpace" -> <<"18", FALSE>>
    [] id \in NeverReturned -> <<"none", FALSE>>
    [] OTHER -> stored[id]

(* GetFontAttribute puts the length of this value, of which there are room  *)
(* and value_length for one copy only, in front of it: of the name all but  *)
(* two bytes are left within the value.                                    *)
GetFontAttribute(font) ==
  [outer |-> Swapped(<<font.length[1] + 2, FALSE>>), inner |-> font.length,
   name |-> font.name, left |-> font.length[1] - 2]

(* CreateNestedList: GetCardAttribute and its like for each value.  What is *)
(* put behind a font is padding or is overwritten by the attribute after it.*)
CreateNestedList(stored, ids) ==
  [k \in DOMAIN ids |->
     [id |-> ids[k],
      value |-> CASE ids[k] = "FontSet" -> GetFontAttribute(GetNested(stored, ids[k]))
                  [] ids[k] \in NeverReturned -> GetNested(stored, ids[k])
                  [] OTHER -> Swapped(GetNested(stored, ids[k]))]]

IMPAD(length) == (4 - (length % 4)) % 4

(* Behind the last attribute of a list there may be less padding than the   *)
(* two bytes by which a font is too long; the rest goes past the memory     *)
(* allocated for the list.                                                 *)
Overruns(stored, ids) ==
  /\ ids # <<>>
  /\ Last(ids) = "FontSet"
  /\ stored["FontSet"] # Unset("FontSet")
  /\ IMPAD(NameLength[stored["FontSet"][1]] + 2) < 2

(* Attributes of the IC go out as they are in memory; all but FilterEvents  *)
(* have no value.                                                          *)
GetPlain(ids) ==
  [k \in DOMAIN ids |->
     [id |-> ids[k],
      value |-> IF ids[k] = "FilterEvents" THEN <<"KeyMasks", FALSE>> ELSE <<"none", FALSE>>]]

(* Memory past the list that is overwritten may be nobody's, or the heap's, *)
(* which then finds itself corrupt when the handler goes on to allocate and *)
(* to free.                                                                *)
GetIC ==
  /\ alive
  /\ request # None
  /\ reply = None
  /\ i > Len(attrID_list)
  /\ \/ /\ FontIsNull \/ Overruns(ic.pre, lists.pre) \/ Overruns(ic.sts, lists.sts)
        /\ alive' = FALSE
        /\ UNCHANGED reply
     \/ /\ ~FontIsNull
        /\ reply' = [ic |-> GetPlain(lists.ic),
                     pre |-> CreateNestedList(ic.pre, lists.pre),
                     sts |-> CreateNestedList(ic.sts, lists.sts)]
        /\ UNCHANGED alive
  /\ UNCHANGED <<swapped, ic, asked, request, i, lists>>

ClientGotIC ==
  /\ reply # None
  /\ request' = None
  /\ i' = 1
  /\ lists' = NoIds
  /\ reply' = None
  /\ UNCHANGED <<swapped, ic, asked, alive>>

Next == ChangeIC \/ ClientGetsIC \/ ReadIds \/ GetIC \/ ClientGotIC

Spec == Init /\ [][Next]_vars

(* The server handles a request that it received.                          *)
FairSpec == Spec /\ WF_vars(ReadIds) /\ WF_vars(GetIC)

-----------------------------------------------------------------------------
Ids(attributes) == [k \in DOMAIN attributes |-> attributes[k].id]

(* A reply holds just the attributes that were asked for, each nested one   *)
(* in the list it was asked in, in order; a separator stands for each list  *)
(* among the attributes of the IC (_Xi18nGetIC, GetICValue).               *)
AnswersWhatWasAsked ==
  reply # None =>
    /\ Ids(reply.pre) = Nested(request, "PreeditAttributes")
    /\ Ids(reply.sts) = Nested(request, "StatusAttributes")
    /\ Ids(reply.ic) = [k \in DOMAIN request |->
                          IF request[k].id \in Nests THEN "Separator" ELSE request[k].id]

(* Line spacing and color maps are not returned.  The spot location of a    *)
(* client of the other byte order is stored as it is in the message and     *)
(* converted when it is returned.  Of fonts see LeftOfFont.                *)
Readable == {"Area", "Foreground"} \cup (IF swapped THEN {} ELSE {"SpotLocation"})

AsSet(x, id) == IF x = Unset(id) THEN OnWire(id, x[1]) ELSE x

(* What a client gets instead of the name of a font set: two lengths, of    *)
(* which the second has the server's byte order, and the name without its   *)
(* last two bytes.                                                         *)
LeftOfFont(x) ==
  LET n == NameLength[x[1]]
  IN  [outer |-> <<n + 2, swapped>>, inner |-> <<n, FALSE>>, name |-> x[1], left |-> n - 2]

ReadBack(e, want) ==
  /\ e.id \in Readable => e.value = AsSet(want[e.id], e.id)
  /\ e.id = "FontSet" => e.value = LeftOfFont(want[e.id])

(* What a client reads is what it set last, in its own byte order, whatever *)
(* else was set in between or in the same request (StoreIMIC, GetIMIC,      *)
(* CreateNestedList).  Not so for line spacing, color maps and the points   *)
(* of a client of the other byte order (Readable).  Nor is a font set read  *)
(* back: the reply holds just what is left of the name of the one set last  *)
(* (GetFontAttribute, LeftOfFont).                                         *)
RoundTrip ==
  reply # None =>
    /\ \A k \in DOMAIN reply.pre : ReadBack(reply.pre[k], asked.pre)
    /\ \A k \in DOMAIN reply.sts : ReadBack(reply.sts[k], asked.sts)

(* The IME's composition window is where the client last put it (StoreIMIC): *)
(*   at the value set, in the right byte order, but for the spot location of *)
(*   a client of the other byte order, which reaches the IME reversed;       *)
(*   relative to the client's focus window, in whatever order a request      *)
(*   lists them, but if the client named that one later, when the IME keeps  *)
(*   the place relative to the earlier one, or if its top-level window was   *)
(*   not found;                                                            *)
(*   with the size set, but for an area relative to a window, of which width *)
(*   and height are displaced like a point.                                *)
WindowWhereAsked ==
  LET w == ic.window
  IN  /\ w.place = asked.window.place
      /\ w.at = <<asked.window.at[1], swapped /\ w.place = "SpotLocation">>
      /\ \/ w.of[1] = asked.focus[1]
         \/ w.of[1] = asked.window.of[1] /\ (asked.moved \/ w.of[1] = NoWindow)
      /\ w.grown => w.place = "Area" /\ w.of[1] # NoWindow

(* The client reads a font set that it never set.                          *)
UnsetFontAsked ==
  \/ /\ Contains(Nested(request, "PreeditAttributes"), "FontSet")
     /\ asked.pre["FontSet"] = Unset("FontSet")
  \/ /\ Contains(Nested(request, "StatusAttributes"), "FontSet")
     /\ asked.sts["FontSet"] = Unset("FontSet")

(* It reads a font set as the last attribute of its list, and the length of *)
(* the name is such that two more bytes do not fit into the padding.        *)
LongFontAskedLast ==
  \/ Overruns(asked.pre, Nested(request, "PreeditAttributes"))
  \/ Overruns(asked.sts, Nested(request, "StatusAttributes"))

(* The search for nested lists ends (GetICValue need not advance on an id it *)
(* does not know): each GET_IC_VALUES is answered, unless the process dies,  *)
(* and it dies only of a client that reads a font set which it never set     *)
(* (strlen of NULL) or which overruns the reply (GetFontAttribute).          *)
GetAnswered ==
  request # None ~> reply # None \/ (~alive /\ (UnsetFontAsked \/ LongFontAskedLast))
=============================================================================
