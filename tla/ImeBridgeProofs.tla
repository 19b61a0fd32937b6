--------------------------- MODULE ImeBridgeProofs ---------------------------
(***************************************************************************)
(* Proofs of the safety properties of ImeBridge, for every set of windows   *)
(* and styles and all bounds.                                              *)
(***************************************************************************)
EXTENDS ImeBridge, SequenceTheorems, TLAPS

(* Contexts and ICs are created together and numbered alike, and whatever   *)
(* names a context names one that exists.                                  *)
IndexOK ==
  /\ Len(contexts) = Len(ics)
  /\ Len(composing) = Len(ics)
  /\ Len(preedit) = Len(ics)
  /\ Len(shown) = Len(ics)
  /\ Len(committed) = Len(ics)
  /\ \A i \in 1 .. Len(ics) : ics[i].context = i
  /\ \A n \in 1 .. Len(requests) : requests[n].context \in 1 .. Len(ics)
  /\ \A n \in 1 .. Len(events) : events[n].context \in 1 .. Len(ics)
  /\ \A w \in Windows : associated[w] \in 0 .. Len(ics)

(* The event that a call is about is still the first one.                  *)
CallOK ==
  /\ call # "none" => events # <<>>
  /\ call \in {"CompStr", "CompAttr", "Cursor"} => Head(events).kind = "CompStr"
  /\ call = "ResultStr" => Head(events).kind = "ResultStr"

Base == TypeOK /\ IndexOK /\ CallOK /\ LengthAgrees

LEMMA BaseInit == Init => Base
BY WindowsAssumption
DEF Init, Base, TypeOK, IndexOK, CallOK, LengthAgrees, Callback

-----------------------------------------------------------------------------
(* The IME.                                                                *)

LEMMA NotifyType ==
  ASSUME NEW kind \in Kinds, NEW k \in Nat
  PROVE  Notify(kind, k) \in Event
BY DEF Notify, Event

LEMMA AppendedEvent ==
  ASSUME Base, NEW kind \in Kinds, NEW k \in 1 .. Len(ics),
         events' = Append(events, Notify(kind, k))
  PROVE  /\ events' \in Seq(Event)
         /\ Len(events') = Len(events) + 1
         /\ \A n \in 1 .. Len(events) : events'[n] = events[n]
         /\ events'[Len(events) + 1] = Notify(kind, k)
         /\ \A n \in 1 .. Len(events') : events'[n].context \in 1 .. Len(ics)
         /\ events # <<>> => Head(events') = Head(events)
<1>1. events \in Seq(Event) /\ ics \in Seq(IMIC)
  BY DEF Base, TypeOK
<1>2. Notify(kind, k) \in Event
  BY <1>1, NotifyType
<1>3. /\ events' \in Seq(Event)
      /\ Len(events') = Len(events) + 1
      /\ \A n \in 1 .. Len(events) : events'[n] = events[n]
      /\ events'[Len(events) + 1] = Notify(kind, k)
  BY <1>1, <1>2, AppendProperties
<1>4. \A n \in 1 .. Len(events') : events'[n].context \in 1 .. Len(ics)
  BY <1>1, <1>3 DEF Base, IndexOK, Notify
<1>5. events # <<>> => Head(events') = Head(events)
  BY <1>1, <1>3
<1>6. QED
  BY <1>3, <1>4, <1>5

(* What a message announces in the order of the flags.                     *)
LEMMA AnnouncedType ==
  ASSUME NEW flags, NEW k \in Nat
  PROVE  /\ Announced(flags, k) \in Seq(Event)
         /\ \A n \in 1 .. Len(Announced(flags, k)) : Announced(flags, k)[n].context = k
<1> DEFINE About(kind) == IfFlagged(kind, flags, k)
           S == [kind : Kinds, context : {k}]
<1>1. ASSUME NEW kind \in Kinds
      PROVE  About(kind) \in Seq(S)
  <2>1. Notify(kind, k) \in S
    BY <1>1 DEF Notify
  <2>2. <<Notify(kind, k)>> \in Seq(S) /\ <<>> \in Seq(S)
    BY <2>1
  <2>3. QED
    BY <2>2 DEF IfFlagged
<1>2. Announced(flags, k) \in Seq(S)
  <2>1. {"CompStr", "CursorPos", "ResultStr", "CompAttr"} \subseteq Kinds
    BY DEF Kinds
  <2>2. \A kind \in {"CompStr", "CursorPos", "ResultStr", "CompAttr"} :
          About(kind) \in Seq(S)
    BY <1>1, <2>1
  <2>3. QED
    BY <2>2, ConcatProperties DEF Announced
<1>3. \A s \in Seq(S) : s \in Seq(Event) /\ \A n \in 1 .. Len(s) : s[n].context = k
  <2>1. S \subseteq Event /\ \A e \in S : e.context = k
    BY DEF Event
  <2> HIDE DEF S
  <2> TAKE s \in Seq(S)
  <2>2. \A n \in 1 .. Len(s) : s[n] \in S
    BY ElementOfSeq
  <2>3. s \in Seq(Event)
    BY <2>1, <2>2, SeqDef, LenProperties
  <2>4. QED
    BY <2>1, <2>2, <2>3
<1>4. QED
  BY <1>2, <1>3

LEMMA BaseActivate ==
  ASSUME Base, NEW w \in Windows \cup {NoWindow}, Activate(w)
  PROVE  Base'
BY DEF Activate, serverVars, clientVars, Base, TypeOK, IndexOK, CallOK, LengthAgrees

(* An IME message is about a context that exists.                          *)
LEMMA MessageAbout ==
  ASSUME Base, NEW k, ImeMessage(k)
  PROVE  /\ k \in 1 .. Len(ics)
         /\ messages' \in Nat
         /\ UNCHANGED <<active, associated, associatedWnd, requests, ics, call, reading,
                        lastCallback, preedit, shown, committed>>
BY DEF Base, TypeOK, IndexOK, ImeMessage, MessageContext, clientVars

(* The parts of Base that an IME message cannot disturb follow from those   *)
(* that it changes.                                                        *)
LEMMA BaseMessage ==
  ASSUME Base, NEW k, ImeMessage(k),
         composing' \in Seq(BOOLEAN), Len(composing') = Len(ics),
         contexts' \in Seq(Context), Len(contexts') = Len(ics),
         events' \in Seq(Event), events # <<>> => events' # <<>> /\ Head(events') = Head(events),
         \A n \in 1 .. Len(events') : events'[n].context \in 1 .. Len(ics)
  PROVE  Base'
<1>1. /\ messages' \in Nat
      /\ UNCHANGED <<active, associated, associatedWnd, requests, ics, call, reading,
                     lastCallback, preedit, shown, committed>>
  BY MessageAbout
<1>2. TypeOK'
  BY <1>1 DEF Base, TypeOK
<1>3. IndexOK' /\ LengthAgrees'
  BY <1>1 DEF Base, IndexOK, LengthAgrees
<1>4. CallOK'
  BY <1>1 DEF Base, CallOK
<1>5. QED
  BY <1>2, <1>3, <1>4 DEF Base

LEMMA BaseStartComposition ==
  ASSUME Base, NEW k, StartComposition(k)
  PROVE  Base'
<1>1. k \in 1 .. Len(ics) /\ ImeMessage(k) /\ contexts' = contexts
  BY MessageAbout DEF StartComposition
<1>2. composing' \in Seq(BOOLEAN) /\ Len(composing') = Len(ics)
  BY <1>1, ExceptSeq DEF StartComposition, Base, TypeOK, IndexOK
<1>3. /\ events' \in Seq(Event)
      /\ events # <<>> => events' # <<>> /\ Head(events') = Head(events)
      /\ \A n \in 1 .. Len(events') : events'[n].context \in 1 .. Len(ics)
  <2>1. events' = Append(events, Notify("StartComposition", k)) /\ "StartComposition" \in Kinds
    BY DEF StartComposition, Kinds
  <2>2. QED
    BY <1>1, <2>1, AppendedEvent
<1>4. contexts' \in Seq(Context) /\ Len(contexts') = Len(ics)
  BY <1>1 DEF Base, TypeOK, IndexOK
<1>5. QED
  BY <1>1, <1>2, <1>3, <1>4, BaseMessage

LEMMA BaseEndComposition ==
  ASSUME Base, NEW k, EndComposition(k)
  PROVE  Base'
<1>1. k \in 1 .. Len(ics) /\ ImeMessage(k) /\ contexts' = contexts
  BY MessageAbout DEF EndComposition
<1>2. composing' \in Seq(BOOLEAN) /\ Len(composing') = Len(ics)
  BY <1>1, ExceptSeq DEF EndComposition, Base, TypeOK, IndexOK
<1>3. /\ events' \in Seq(Event)
      /\ events # <<>> => events' # <<>> /\ Head(events') = Head(events)
      /\ \A n \in 1 .. Len(events') : events'[n].context \in 1 .. Len(ics)
  <2>1. events' = Append(events, Notify("EndComposition", k)) /\ "EndComposition" \in Kinds
    BY DEF EndComposition, Kinds
  <2>2. QED
    BY <1>1, <2>1, AppendedEvent
<1>4. contexts' \in Seq(Context) /\ Len(contexts') = Len(ics)
  BY <1>1 DEF Base, TypeOK, IndexOK
<1>5. QED
  BY <1>1, <1>2, <1>3, <1>4, BaseMessage

LEMMA CommittedContext ==
  ASSUME NEW context \in Context, NEW flags, NEW n \in Nat, NEW c \in Nat
  PROVE  CommitCompositionResult(context, flags, n, c) \in Context
<1> DEFINE Str == IF "CompStr" \in flags THEN n ELSE context.str
           Cursor == IF "CursorPos" \in flags THEN c ELSE context.cursor
           Attr == IF "CompAttr" \in flags THEN n ELSE context.attr
           Result == IF "ResultStr" \in flags THEN context.result + 1 ELSE context.result
<1>1. Str \in Nat /\ Cursor \in Nat /\ Attr \in Nat /\ Result \in Nat
  BY DEF Context
<1>2. CommitCompositionResult(context, flags, n, c) =
        [context EXCEPT !.str = Str, !.cursor = Cursor, !.attr = Attr, !.result = Result]
  BY DEF CommitCompositionResult
<1> HIDE DEF Str, Cursor, Attr, Result
<1>3. QED
  BY <1>1, <1>2 DEF Context

LEMMA CommittedText ==
  ASSUME NEW context \in Context, NEW flags, NEW n \in Nat, NEW c \in Nat
  PROVE  /\ CommitCompositionResult(context, flags, n, c).str =
              IF "CompStr" \in flags THEN n ELSE context.str
         /\ CommitCompositionResult(context, flags, n, c).attr =
              IF "CompAttr" \in flags THEN n ELSE context.attr
         /\ CommitCompositionResult(context, flags, n, c).cursor =
              IF "CursorPos" \in flags THEN c ELSE context.cursor
         /\ CommitCompositionResult(context, flags, n, c).result =
              IF "ResultStr" \in flags THEN context.result + 1 ELSE context.result
<1> DEFINE Str == IF "CompStr" \in flags THEN n ELSE context.str
           Cursor == IF "CursorPos" \in flags THEN c ELSE context.cursor
           Attr == IF "CompAttr" \in flags THEN n ELSE context.attr
           Result == IF "ResultStr" \in flags THEN context.result + 1 ELSE context.result
<1>1. CommitCompositionResult(context, flags, n, c) =
        [context EXCEPT !.str = Str, !.cursor = Cursor, !.attr = Attr, !.result = Result]
  BY DEF CommitCompositionResult
<1> HIDE DEF Str, Cursor, Attr, Result
<1>2. /\ CommitCompositionResult(context, flags, n, c).str = Str
      /\ CommitCompositionResult(context, flags, n, c).attr = Attr
      /\ CommitCompositionResult(context, flags, n, c).cursor = Cursor
      /\ CommitCompositionResult(context, flags, n, c).result = Result
  BY <1>1 DEF Context
<1>3. QED
  BY <1>2 DEF Str, Cursor, Attr, Result

LEMMA CommittedDraw ==
  ASSUME NEW context \in Context, NEW flags, NEW n, NEW c
  PROVE  CommitCompositionResult(context, flags, n, c).draw = context.draw
BY DEF CommitCompositionResult, Context

(* What Composition does, with the choices of the IME named.               *)
LEMMA CompositionStep ==
  ASSUME Base, NEW k, Composition(k)
  PROVE  /\ k \in 1 .. Len(ics) /\ ImeMessage(k) /\ composing' = composing /\ composing[k]
         /\ \E flags \in SUBSET Kinds, n \in Nat, c \in Nat :
              /\ contexts' = [contexts EXCEPT ![k] = CommitCompositionResult(@, flags, n, c)]
              /\ events' = events \o Announced(flags, k)
<1>1. PICK flags \in SUBSET Kinds, n \in 0 .. MaxLength, c \in 0 .. MaxLength :
        /\ contexts' = [contexts EXCEPT ![k] = CommitCompositionResult(@, flags, n, c)]
        /\ events' = events \o Announced(flags, k)
  <2>1. {Text, Text \cup {"ResultStr"}, {"CursorPos"}, {"ResultStr"}} \subseteq SUBSET Kinds
    BY DEF Text, Kinds
  <2>2. QED
    BY <2>1 DEF Composition
<1>2. n \in Nat /\ c \in Nat
  BY <1>1, BoundsAssumption
<1>3. ImeMessage(k) /\ composing' = composing /\ composing[k]
  BY DEF Composition
<1>4. QED
  BY <1>1, <1>2, <1>3, MessageAbout

LEMMA BaseComposition ==
  ASSUME Base, NEW k, Composition(k)
  PROVE  Base'
<1>1. k \in 1 .. Len(ics) /\ ImeMessage(k) /\ composing' = composing
  BY CompositionStep
<1>2. PICK flags \in SUBSET Kinds, n \in Nat, c \in Nat :
        /\ contexts' = [contexts EXCEPT ![k] = CommitCompositionResult(@, flags, n, c)]
        /\ events' = events \o Announced(flags, k)
  BY CompositionStep
<1>3. contexts' \in Seq(Context) /\ Len(contexts') = Len(ics)
  <2>1. contexts \in Seq(Context) /\ k \in 1 .. Len(contexts) /\ Len(contexts) = Len(ics)
    BY <1>1 DEF Base, TypeOK, IndexOK
  <2>2. CommitCompositionResult(contexts[k], flags, n, c) \in Context
    BY <2>1, CommittedContext, ElementOfSeq
  <2>3. QED
    BY <1>2, <2>1, <2>2, ExceptSeq
<1>4. /\ events' \in Seq(Event)
      /\ events # <<>> => events' # <<>> /\ Head(events') = Head(events)
      /\ \A m \in 1 .. Len(events') : events'[m].context \in 1 .. Len(ics)
  <2>1. /\ events \in Seq(Event) /\ Announced(flags, k) \in Seq(Event)
        /\ \A m \in 1 .. Len(Announced(flags, k)) : Announced(flags, k)[m].context = k
        /\ \A m \in 1 .. Len(events) : events[m].context \in 1 .. Len(ics)
    <3>1. k \in Nat /\ events \in Seq(Event)
          /\ \A m \in 1 .. Len(events) : events[m].context \in 1 .. Len(ics)
      BY <1>1 DEF Base, TypeOK, IndexOK
    <3>2. QED
      BY <3>1, AnnouncedType
  <2>2. /\ events' \in Seq(Event)
        /\ Len(events') = Len(events) + Len(Announced(flags, k))
        /\ \A m \in 1 .. Len(events') :
             events'[m] = IF m <= Len(events) THEN events[m]
                          ELSE Announced(flags, k)[m - Len(events)]
    BY <1>2, <2>1, ConcatProperties
  <2>3. Len(events) \in Nat /\ Len(Announced(flags, k)) \in Nat
    BY <2>1, LenProperties
  <2>4. ASSUME NEW m \in 1 .. Len(events')
        PROVE  events'[m].context \in 1 .. Len(ics)
    <3>1. CASE m <= Len(events)
      BY <2>1, <2>2, <2>3, <3>1
    <3>2. CASE m > Len(events)
      <4>1. /\ m - Len(events) \in 1 .. Len(Announced(flags, k))
            /\ events'[m] = Announced(flags, k)[m - Len(events)]
        BY <2>2, <2>3, <3>2
      <4>2. QED
        BY <1>1, <2>1, <4>1
    <3>3. QED
      BY <2>2, <2>3, <3>1, <3>2
  <2>5. events # <<>> => events' # <<>> /\ Head(events') = Head(events)
    <3> SUFFICES ASSUME events # <<>> PROVE events' # <<>> /\ Head(events') = Head(events)
      OBVIOUS
    <3>1. Len(events) > 0 /\ Head(events) = events[1]
      BY <2>1, <2>3, EmptySeq, HeadTailProperties
    <3>2. Len(events') > 0 /\ events'[1] = events[1]
      BY <2>2, <2>3, <3>1
    <3>3. events' # <<>> /\ Head(events') = events'[1]
      BY <2>2, <3>2, EmptySeq, HeadTailProperties
    <3>4. QED
      BY <3>1, <3>2, <3>3
  <2>6. QED
    BY <2>2, <2>4, <2>5
<1>5. composing' \in Seq(BOOLEAN) /\ Len(composing') = Len(ics)
  BY <1>1 DEF Base, TypeOK, IndexOK
<1>6. QED
  BY <1>1, <1>3, <1>4, <1>5, BaseMessage

-----------------------------------------------------------------------------
(* The X server.                                                           *)

LEMMA BaseServeRequest ==
  ASSUME Base, ServeRequest
  PROVE  Base'
<1>1. /\ requests \in Seq(Request) /\ requests # <<>> /\ requests' = Tail(requests)
      /\ Head(requests) = requests[1] /\ requests[1] \in Request
      /\ requests[1].context \in 1 .. Len(ics)
  BY HeadTailProperties, ElementOfSeq DEF ServeRequest, Base, TypeOK, IndexOK
<1>2. /\ requests' \in Seq(Request)
      /\ \A n \in 1 .. Len(requests') : requests'[n].context \in 1 .. Len(ics)
  BY <1>1, HeadTailProperties DEF Base, IndexOK
<1>3. /\ UNCHANGED <<active, composing, messages, events, ics, call, reading, lastCallback,
                     preedit, shown, committed>>
  BY DEF ServeRequest, imeVars, clientVars
<1>4. /\ associated' \in [Windows -> Nat]
      /\ \A w \in Windows : associated'[w] \in 0 .. Len(ics)
      /\ associatedWnd' \in Windows \cup {NoWindow}
      /\ contexts' \in Seq(Context) /\ Len(contexts') = Len(ics)
  <2>1. CASE SetFocus(requests[1].context, requests[1].value)
    <3>1. /\ contexts' \in Seq(Context) /\ Len(contexts') = Len(ics)
          /\ ics \in Seq(IMIC)
      BY <2>1 DEF SetFocus, Base, TypeOK, IndexOK
    <3>2. /\ Dissociated \in [Windows -> Nat]
          /\ \A w \in Windows : Dissociated[w] \in 0 .. Len(ics)
      BY <3>1 DEF Dissociated, Base, TypeOK, IndexOK
    <3>3. requests[1].context \in 0 .. Len(ics) /\ 0 .. Len(ics) \subseteq Nat
      BY <1>1, <3>1
    <3>4. active \in Windows \cup {NoWindow} /\ associated \in [Windows -> Nat]
          /\ associatedWnd \in Windows \cup {NoWindow}
          /\ \A w \in Windows : associated[w] \in 0 .. Len(ics)
      BY DEF Base, TypeOK, IndexOK
    <3>5. /\ associated' \in [Windows -> Nat]
          /\ \A w \in Windows : associated'[w] \in 0 .. Len(ics)
          /\ associatedWnd' \in Windows \cup {NoWindow}
      <4> HIDE DEF Base
      <4>1. CASE requests[1].value /\ active = NoWindow
        BY <2>1, <3>2, <3>4, <4>1 DEF SetFocus
      <4>2. CASE requests[1].value /\ active # NoWindow
        <5>1. associated' = [Dissociated EXCEPT ![active] = requests[1].context]
              /\ associatedWnd' = active /\ active \in Windows
          BY <2>1, <3>4, <4>2 DEF SetFocus
        <5>2. QED
          BY <3>2, <3>3, <3>4, <5>1
      <4>3. CASE ~requests[1].value
        BY <2>1, <3>4, <4>3 DEF SetFocus
      <4>4. QED
        BY <4>1, <4>2, <4>3
    <3>6. QED
      BY <3>1, <3>5
  <2>2. CASE SetCompositionDraw(requests[1].context, requests[1].value)
    <3>1. /\ contexts \in Seq(Context) /\ requests[1].context \in 1 .. Len(contexts)
          /\ contexts[requests[1].context] \in Context /\ requests[1].value \in BOOLEAN
      BY <1>1, ElementOfSeq DEF Base, TypeOK, IndexOK, Request
    <3>2. [contexts[requests[1].context] EXCEPT !.draw = requests[1].value] \in Context
      BY <3>1 DEF Context
    <3>3. contexts' \in Seq(Context) /\ Len(contexts') = Len(contexts)
      BY <2>2, <3>1, <3>2, ExceptSeq DEF SetCompositionDraw
    <3>4. QED
      BY <2>2, <3>3 DEF SetCompositionDraw, Base, TypeOK, IndexOK
  <2>3. QED
    BY <1>1, <2>1, <2>2 DEF ServeRequest
<1>5. TypeOK'
  BY <1>2, <1>3, <1>4 DEF Base, TypeOK
<1>6. IndexOK' /\ CallOK' /\ LengthAgrees'
  BY <1>2, <1>3, <1>4 DEF Base, IndexOK, CallOK, LengthAgrees
<1>7. QED
  BY <1>5, <1>6 DEF Base

-----------------------------------------------------------------------------
(* The IM server: requests of the client.                                  *)

LEMMA BaseChangeFocus ==
  ASSUME Base, NEW i \in DOMAIN ics, NEW focus \in BOOLEAN, ChangeFocus(i, focus)
  PROVE  Base'
<1> DEFINE r == [op |-> "SetFocus", context |-> ics[i].context, value |-> focus]
<1>1. /\ requests \in Seq(Request) /\ ics \in Seq(IMIC) /\ i \in 1 .. Len(ics)
      /\ ics[i].context = i
  BY DEF Base, TypeOK, IndexOK
<1>2. r \in Request
  BY <1>1 DEF Request
<1>3. requests' = Append(requests, r)
  BY DEF ChangeFocus
<1>4. /\ requests' \in Seq(Request)
      /\ Len(requests') = Len(requests) + 1
      /\ \A n \in 1 .. Len(requests) : requests'[n] = requests[n]
      /\ requests'[Len(requests) + 1] = r
  <2> HIDE DEF r
  <2> QED BY <1>1, <1>2, <1>3, AppendProperties
<1>5. \A n \in 1 .. Len(requests') : requests'[n].context \in 1 .. Len(ics)
  BY <1>1, <1>4 DEF Base, IndexOK
<1>6. UNCHANGED <<active, composing, messages, associated, contexts, associatedWnd, events,
                  ics, call, reading, lastCallback, preedit, shown, committed>>
  BY DEF ChangeFocus, imeVars, serverVars, clientVars
<1>7. TypeOK'
  BY <1>4, <1>6 DEF Base, TypeOK
<1>8. IndexOK' /\ CallOK' /\ LengthAgrees'
  BY <1>5, <1>6 DEF Base, IndexOK, CallOK, LengthAgrees
<1>9. QED
  BY <1>7, <1>8 DEF Base

(* What CreateIC appends.                                                  *)
NewContext == [str |-> 0, attr |-> 0, cursor |-> AnyCursor, result |-> 0, draw |-> FALSE]
NewIC(k, style) == [context |-> k, style |-> style, length |-> 0, icid |-> 0]

LEMMA CreateStep ==
  ASSUME Base, NEW style \in Styles, CreateIC(style)
  PROVE  /\ contexts' = Append(contexts, NewContext)
         /\ ics' = Append(ics, NewIC(Len(ics) + 1, style))
         /\ requests' = StyleRequests(Len(ics) + 1, style)
         /\ requests = <<>> /\ call = "none"
         /\ NewContext \in Context
         /\ NewIC(Len(ics) + 1, style) \in IMIC
         /\ contexts' \in Seq(Context) /\ Len(contexts') = Len(ics) + 1
         /\ \A j \in 1 .. Len(ics) : contexts'[j] = contexts[j]
         /\ contexts'[Len(ics) + 1] = NewContext
         /\ ics' \in Seq(IMIC) /\ Len(ics') = Len(ics) + 1
         /\ \A j \in 1 .. Len(ics) : ics'[j] = ics[j]
         /\ ics'[Len(ics) + 1] = NewIC(Len(ics) + 1, style)
<1>1. /\ contexts \in Seq(Context) /\ ics \in Seq(IMIC) /\ Len(contexts) = Len(ics)
      /\ Len(ics) \in Nat
  BY LenProperties DEF Base, TypeOK, IndexOK
<1>2. NewContext \in Context
  BY BoundsAssumption DEF NewContext, Context, AnyCursor
<1>3. NewIC(Len(ics) + 1, style) \in IMIC
  BY <1>1 DEF NewIC, IMIC
<1>4. /\ contexts' = Append(contexts, NewContext)
      /\ ics' = Append(ics, NewIC(Len(ics) + 1, style))
      /\ requests' = StyleRequests(Len(ics) + 1, style)
      /\ requests = <<>> /\ call = "none"
  BY <1>1 DEF CreateIC, Idle, NewContext, NewIC
<1>5. /\ contexts' \in Seq(Context) /\ Len(contexts') = Len(ics) + 1
      /\ \A j \in 1 .. Len(ics) : contexts'[j] = contexts[j]
      /\ contexts'[Len(ics) + 1] = NewContext
  BY <1>1, <1>2, <1>4, AppendProperties
<1>6. /\ ics' \in Seq(IMIC) /\ Len(ics') = Len(ics) + 1
      /\ \A j \in 1 .. Len(ics) : ics'[j] = ics[j]
      /\ ics'[Len(ics) + 1] = NewIC(Len(ics) + 1, style)
  BY <1>1, <1>3, <1>4, AppendProperties
<1>7. QED
  BY <1>2, <1>3, <1>4, <1>5, <1>6

LEMMA CreateClient ==
  ASSUME Base, NEW style \in Styles, CreateIC(style)
  PROVE  /\ composing' \in Seq(BOOLEAN) /\ Len(composing') = Len(ics) + 1
         /\ \A j \in 1 .. Len(ics) : composing'[j] = composing[j]
         /\ composing'[Len(ics) + 1] = FALSE
         /\ preedit' \in Seq(Nat) /\ Len(preedit') = Len(ics) + 1
         /\ \A j \in 1 .. Len(ics) : preedit'[j] = preedit[j]
         /\ preedit'[Len(ics) + 1] = 0
         /\ shown' \in Seq([feedback : Nat, caret : Nat]) /\ Len(shown') = Len(ics) + 1
         /\ committed' \in Seq(Nat) /\ Len(committed') = Len(ics) + 1
         /\ \A j \in 1 .. Len(ics) : committed'[j] = committed[j]
         /\ committed'[Len(ics) + 1] = 0
         /\ UNCHANGED <<active, messages, associated, associatedWnd, events, call, reading,
                        lastCallback>>
<1>1. /\ composing \in Seq(BOOLEAN) /\ Len(composing) = Len(ics)
      /\ preedit \in Seq(Nat) /\ Len(preedit) = Len(ics)
      /\ shown \in Seq([feedback : Nat, caret : Nat]) /\ Len(shown) = Len(ics)
      /\ committed \in Seq(Nat) /\ Len(committed) = Len(ics)
  BY DEF Base, TypeOK, IndexOK
<1>2. /\ composing' = Append(composing, FALSE)
      /\ preedit' = Append(preedit, 0)
      /\ shown' = Append(shown, [feedback |-> 0, caret |-> 0])
      /\ committed' = Append(committed, 0)
      /\ UNCHANGED <<active, messages, associated, associatedWnd, events, call, reading,
                     lastCallback>>
  BY DEF CreateIC
<1> DEFINE Feedbacks == [feedback : Nat, caret : Nat]
           nothing == [feedback |-> 0, caret |-> 0]
<1>3. nothing \in Feedbacks
  OBVIOUS
<1>4. /\ composing' \in Seq(BOOLEAN) /\ Len(composing') = Len(ics) + 1
      /\ \A j \in 1 .. Len(ics) : composing'[j] = composing[j]
      /\ composing'[Len(ics) + 1] = FALSE
  <2> DEFINE idle == FALSE
  <2>1. idle \in BOOLEAN /\ composing' = Append(composing, idle)
    BY <1>2
  <2> HIDE DEF idle
  <2>2. /\ composing' \in Seq(BOOLEAN) /\ Len(composing') = Len(composing) + 1
        /\ \A j \in 1 .. Len(composing) : composing'[j] = composing[j]
        /\ composing'[Len(composing) + 1] = idle
    BY <1>1, <2>1, AppendProperties
  <2>3. QED
    BY <1>1, <2>2 DEF idle
<1>5. /\ preedit' \in Seq(Nat) /\ Len(preedit') = Len(ics) + 1
      /\ \A j \in 1 .. Len(ics) : preedit'[j] = preedit[j]
      /\ preedit'[Len(ics) + 1] = 0
  BY <1>1, <1>2, AppendProperties
<1>6. shown' \in Seq([feedback : Nat, caret : Nat]) /\ Len(shown') = Len(ics) + 1
  <2>1. shown \in Seq(Feedbacks) /\ Len(shown) = Len(ics) /\ shown' = Append(shown, nothing)
    BY <1>1, <1>2
  <2> HIDE DEF nothing, Feedbacks
  <2>2. shown' \in Seq(Feedbacks) /\ Len(shown') = Len(ics) + 1
    BY <1>3, <2>1, AppendProperties
  <2>3. QED
    BY <2>2 DEF Feedbacks
<1>7. /\ committed' \in Seq(Nat) /\ Len(committed') = Len(ics) + 1
      /\ \A j \in 1 .. Len(ics) : committed'[j] = committed[j]
      /\ committed'[Len(ics) + 1] = 0
  BY <1>1, <1>2, AppendProperties
<1>8. QED
  BY <1>2, <1>4, <1>5, <1>6, <1>7

LEMMA StyleRequestsType ==
  ASSUME NEW k \in Nat, NEW style \in Styles
  PROVE  /\ StyleRequests(k, style) \in Seq(Request)
         /\ \A n \in 1 .. Len(StyleRequests(k, style)) :
              /\ StyleRequests(k, style)[n].op = "SetCompositionDraw"
              /\ StyleRequests(k, style)[n].context = k
              /\ StyleRequests(k, style)[n].value = (style # "callbacks")
         /\ style # "none" => Len(StyleRequests(k, style)) = 1
<1> DEFINE r == [op |-> "SetCompositionDraw", context |-> k, value |-> style # "callbacks"]
<1>1. /\ r \in Request /\ r.op = "SetCompositionDraw" /\ r.context = k
      /\ r.value = (style # "callbacks")
  BY DEF Request
<1>2. StyleRequests(k, style) = IF style = "none" THEN <<>> ELSE <<r>>
  BY DEF StyleRequests
<1> HIDE DEF r
<1>3. /\ StyleRequests(k, style) \in Seq(Request)
      /\ \A n \in 1 .. Len(StyleRequests(k, style)) : StyleRequests(k, style)[n] = r
      /\ style # "none" => Len(StyleRequests(k, style)) = 1
  BY <1>1, <1>2
<1>4. QED
  BY <1>1, <1>3

LEMMA BaseCreateIC ==
  ASSUME Base, NEW style \in Styles, CreateIC(style)
  PROVE  Base'
<1>1. ics \in Seq(IMIC) /\ Len(ics) \in Nat
  BY LenProperties DEF Base, TypeOK
<1>2. /\ requests' = StyleRequests(Len(ics) + 1, style) /\ call = "none"
      /\ contexts' \in Seq(Context) /\ Len(contexts') = Len(ics) + 1
      /\ ics' \in Seq(IMIC) /\ Len(ics') = Len(ics) + 1
      /\ \A j \in 1 .. Len(ics) : ics'[j] = ics[j]
      /\ ics'[Len(ics) + 1] = NewIC(Len(ics) + 1, style)
  BY CreateStep
<1>3. /\ composing' \in Seq(BOOLEAN) /\ Len(composing') = Len(ics) + 1
      /\ preedit' \in Seq(Nat) /\ Len(preedit') = Len(ics) + 1
      /\ \A j \in 1 .. Len(ics) : preedit'[j] = preedit[j]
      /\ preedit'[Len(ics) + 1] = 0
      /\ shown' \in Seq([feedback : Nat, caret : Nat]) /\ Len(shown') = Len(ics) + 1
      /\ committed' \in Seq(Nat) /\ Len(committed') = Len(ics) + 1
      /\ UNCHANGED <<active, messages, associated, associatedWnd, events, call, reading,
                     lastCallback>>
  BY CreateClient
<1>4. /\ requests' \in Seq(Request)
      /\ \A n \in 1 .. Len(requests') : requests'[n].context = Len(ics) + 1
  <2>1. Len(ics) + 1 \in Nat
    BY <1>1
  <2> DEFINE k == Len(ics) + 1
  <2>2. k \in Nat /\ requests' = StyleRequests(k, style)
    BY <2>1, CreateStep
  <2> HIDE DEF k
  <2>3. /\ requests' \in Seq(Request)
        /\ \A n \in 1 .. Len(requests') : requests'[n].context = k
    BY <2>2, StyleRequestsType
  <2>4. QED
    BY <2>3 DEF k
<1>5. TypeOK'
  BY <1>2, <1>3, <1>4 DEF Base, TypeOK
<1>6. \A i \in 1 .. Len(ics) : ics[i].context = i /\ ics[i].length = preedit[i]
  BY <1>1, LenProperties DEF Base, IndexOK, LengthAgrees
<1>7. \A i \in 1 .. Len(ics') : ics'[i].context = i /\ ics'[i].length = preedit'[i]
  <2> SUFFICES ASSUME NEW i \in 1 .. Len(ics')
               PROVE  ics'[i].context = i /\ ics'[i].length = preedit'[i]
    OBVIOUS
  <2>1. CASE i \in 1 .. Len(ics)
    BY <1>2, <1>3, <1>6, <2>1
  <2>2. CASE i = Len(ics) + 1
    BY <1>2, <1>3, <2>2 DEF NewIC
  <2>3. QED
    BY <1>1, <1>2, <2>1, <2>2
<1>8. IndexOK'
  <2>1. \A n \in 1 .. Len(requests') : requests'[n].context \in 1 .. Len(ics')
    BY <1>1, <1>2, <1>4
  <2>2. \A n \in 1 .. Len(events') : events'[n].context \in 1 .. Len(ics')
    BY <1>1, <1>2, <1>3 DEF Base, IndexOK
  <2>3. \A w \in Windows : associated'[w] \in 0 .. Len(ics')
    BY <1>1, <1>2, <1>3 DEF Base, IndexOK
  <2>4. QED
    BY <1>2, <1>3, <1>7, <2>1, <2>2, <2>3 DEF IndexOK
<1>9. CallOK'
  BY <1>2, <1>3 DEF CallOK
<1>10. LengthAgrees'
  BY <1>2, <1>7, LenProperties DEF LengthAgrees
<1>11. QED
  BY <1>5, <1>8, <1>9, <1>10 DEF Base

-----------------------------------------------------------------------------
(* The IM server: events.                                                  *)

(* Every step of the IM server that handles an event changes only this.     *)
LEMMA BaseImServer ==
  ASSUME Base,
         UNCHANGED <<imeVars, serverVars, requests>>,
         ics' \in Seq(IMIC), Len(ics') = Len(ics),
         preedit' \in Seq(Nat), Len(preedit') = Len(ics),
         shown' \in Seq([feedback : Nat, caret : Nat]), Len(shown') = Len(ics),
         committed' \in Seq(Nat), Len(committed') = Len(ics),
         \A i \in 1 .. Len(ics) : ics'[i].context = i /\ ics'[i].length = preedit'[i],
         lastCallback' \in Callback,
         reading' \in [str : Nat, attr : Nat],
         call' \in {"none", "CompStr", "CompAttr", "Cursor", "ResultStr"},
         events' \in Seq(Event),
         \A n \in 1 .. Len(events') : events'[n].context \in 1 .. Len(ics),
         CallOK'
  PROVE  Base'
<1>1. UNCHANGED <<active, composing, messages, associated, contexts, associatedWnd, requests>>
  BY DEF imeVars, serverVars
<1>2. TypeOK'
  BY <1>1 DEF Base, TypeOK
<1>3. IndexOK'
  BY <1>1 DEF Base, IndexOK
<1>4. LengthAgrees'
  BY LenProperties DEF LengthAgrees
<1>5. QED
  BY <1>2, <1>3, <1>4 DEF Base

(* The event that was handled is taken off the queue.                      *)
LEMMA TailEvents ==
  ASSUME Base, events # <<>>, events' = Tail(events)
  PROVE  /\ events' \in Seq(Event)
         /\ Len(events) \in Nat \ {0}
         /\ Len(events') = Len(events) - 1
         /\ \A n \in 1 .. Len(events') : events'[n] = events[n + 1]
         /\ \A n \in 1 .. Len(events') : events'[n].context \in 1 .. Len(ics)
         /\ Head(events) = events[1]
<1>1. events \in Seq(Event) /\ Len(events) \in Nat \ {0}
  BY EmptySeq DEF Base, TypeOK
<1>2. /\ events' \in Seq(Event)
      /\ Len(events') = Len(events) - 1
      /\ \A n \in 1 .. Len(events') : events'[n] = events[n + 1]
  BY <1>1, HeadTailProperties
<1>3. \A n \in 1 .. Len(events') : events'[n].context \in 1 .. Len(ics)
  BY <1>1, <1>2 DEF Base, IndexOK
<1>4. Head(events) = events[1]
  BY <1>1
<1>5. QED
  BY <1>1, <1>2, <1>3, <1>4

(* What Base says of the IM server and the client.                         *)
LEMMA BaseViews ==
  ASSUME Base
  PROVE  /\ ics \in Seq(IMIC) /\ DOMAIN ics = 1 .. Len(ics) /\ Len(ics) \in Nat
         /\ preedit \in Seq(Nat) /\ Len(preedit) = Len(ics)
         /\ shown \in Seq([feedback : Nat, caret : Nat]) /\ Len(shown) = Len(ics)
         /\ committed \in Seq(Nat) /\ Len(committed) = Len(ics)
         /\ contexts \in Seq(Context) /\ Len(contexts) = Len(ics)
         /\ \A i \in 1 .. Len(ics) :
              /\ ics[i] \in IMIC /\ ics[i].context = i /\ ics[i].length = preedit[i]
              /\ preedit[i] \in Nat /\ committed[i] \in Nat /\ contexts[i] \in Context
         /\ lastCallback \in Callback
         /\ reading \in [str : Nat, attr : Nat]
         /\ call \in {"none", "CompStr", "CompAttr", "Cursor", "ResultStr"}
         /\ events \in Seq(Event)
         /\ \A n \in 1 .. Len(events) : events[n].context \in 1 .. Len(ics)
<1>1. /\ ics \in Seq(IMIC) /\ preedit \in Seq(Nat) /\ committed \in Seq(Nat)
      /\ shown \in Seq([feedback : Nat, caret : Nat])
      /\ contexts \in Seq(Context)
      /\ lastCallback \in Callback
      /\ reading \in [str : Nat, attr : Nat]
      /\ call \in {"none", "CompStr", "CompAttr", "Cursor", "ResultStr"}
      /\ events \in Seq(Event)
  BY DEF Base, TypeOK
<1>2. /\ Len(preedit) = Len(ics) /\ Len(shown) = Len(ics) /\ Len(committed) = Len(ics)
      /\ Len(contexts) = Len(ics)
      /\ \A i \in 1 .. Len(ics) : ics[i].context = i
      /\ \A n \in 1 .. Len(events) : events[n].context \in 1 .. Len(ics)
  BY DEF Base, IndexOK
<1>3. DOMAIN ics = 1 .. Len(ics) /\ Len(ics) \in Nat
  BY <1>1, LenProperties
<1>4. \A i \in 1 .. Len(ics) :
        /\ ics[i] \in IMIC /\ ics[i].length = preedit[i]
        /\ preedit[i] \in Nat /\ committed[i] \in Nat /\ contexts[i] \in Context
  BY <1>1, <1>2, <1>3, ElementOfSeq DEF Base, LengthAgrees
<1>5. QED
  BY <1>1, <1>2, <1>3, <1>4

LEMMA CallbackType ==
  ASSUME NEW type \in {"PREEDIT_START", "PREEDIT_DRAW", "PREEDIT_DONE"},
         NEW i \in Nat, NEW icid \in Nat, CallCallback(type, i, icid)
  PROVE  /\ lastCallback' \in Callback
         /\ lastCallback'.icid = icid /\ lastCallback'.for = i
BY DEF CallCallback, Callback

DrawnIC(ic, i, length) == [ic EXCEPT !.length = length, !.icid = i]

LEMMA DrawnICType ==
  ASSUME NEW ic \in IMIC, NEW i \in Nat, NEW length \in Nat
  PROVE  /\ DrawnIC(ic, i, length) \in IMIC
         /\ DrawnIC(ic, i, length).context = ic.context
         /\ DrawnIC(ic, i, length).style = ic.style
         /\ DrawnIC(ic, i, length).length = length
         /\ DrawnIC(ic, i, length).icid = i
BY DEF IMIC, DrawnIC

(* A draw leaves the ICs numbered as they are, and the length of what was   *)
(* drawn in both the IC and the client.                                    *)
LEMMA WithLengthType ==
  ASSUME Base, NEW i \in 1 .. Len(ics), NEW length \in Nat
  PROVE  /\ WithLength(i, length) \in Seq(IMIC)
         /\ Len(WithLength(i, length)) = Len(ics)
         /\ WithLength(i, length)[i].context = ics[i].context
         /\ WithLength(i, length)[i].style = ics[i].style
         /\ WithLength(i, length)[i].length = length
         /\ WithLength(i, length)[i].icid = i
         /\ \A j \in 1 .. Len(ics) : j # i => WithLength(i, length)[j] = ics[j]
<1>1. ics \in Seq(IMIC) /\ ics[i] \in IMIC /\ Len(ics) \in Nat /\ i \in Nat
  BY BaseViews
<1>2. /\ DrawnIC(ics[i], i, length) \in IMIC
      /\ DrawnIC(ics[i], i, length).context = ics[i].context
      /\ DrawnIC(ics[i], i, length).style = ics[i].style
      /\ DrawnIC(ics[i], i, length).length = length
      /\ DrawnIC(ics[i], i, length).icid = i
  BY <1>1, DrawnICType
<1>3. WithLength(i, length) = [ics EXCEPT ![i] = DrawnIC(ics[i], i, length)]
  BY <1>1 DEF WithLength, DrawnIC
<1>4. /\ WithLength(i, length) \in Seq(IMIC)
      /\ Len(WithLength(i, length)) = Len(ics)
      /\ \A j \in 1 .. Len(ics) :
           WithLength(i, length)[j] = IF j = i THEN DrawnIC(ics[i], i, length) ELSE ics[j]
  BY <1>1, <1>2, <1>3, ExceptSeq
<1>5. QED
  BY <1>2, <1>4

LEMMA DrawnType ==
  ASSUME Base, NEW i \in 1 .. Len(ics), NEW length \in Nat
  PROVE  /\ Drawn(i, length) \in Seq(Nat)
         /\ Len(Drawn(i, length)) = Len(ics)
         /\ \A j \in 1 .. Len(ics) :
              Drawn(i, length)[j] = IF j = i THEN length ELSE preedit[j]
<1>1. /\ preedit \in Seq(Nat) /\ Len(preedit) = Len(ics)
      /\ preedit[i] \in Nat /\ ics[i].length = preedit[i]
  BY BaseViews
<1>2. Drawn(i, length) = [preedit EXCEPT ![i] = length]
  <2>1. (preedit[i] - ics[i].length) + length = length
    BY <1>1
  <2>2. QED
    BY <2>1 DEF Drawn
<1>3. QED
  BY <1>1, <1>2, ExceptSeq

LEMMA DrawBase ==
  ASSUME Base, NEW i \in 1 .. Len(ics),
         NEW length \in Nat, NEW feedback \in Nat, NEW caret \in Nat,
         Draw(i, length, feedback, caret)
  PROVE  /\ ics' \in Seq(IMIC) /\ Len(ics') = Len(ics)
         /\ ics'[i].icid = i /\ \A j \in 1 .. Len(ics) : j # i => ics'[j] = ics[j]
         /\ preedit' \in Seq(Nat) /\ Len(preedit') = Len(ics)
         /\ \A j \in 1 .. Len(ics) : preedit'[j] = IF j = i THEN length ELSE preedit[j]
         /\ shown' \in Seq([feedback : Nat, caret : Nat]) /\ Len(shown') = Len(ics)
         /\ \A j \in 1 .. Len(ics) :
              /\ ics'[j].context = j /\ ics'[j].style = ics[j].style
              /\ ics'[j].length = preedit'[j]
         /\ lastCallback' \in Callback
         /\ lastCallback'.icid = i /\ lastCallback'.for = i
<1>1. ics' = WithLength(i, length) /\ preedit' = Drawn(i, length)
  BY DEF Draw
<1>2. /\ ics' \in Seq(IMIC) /\ Len(ics') = Len(ics)
      /\ ics'[i].context = ics[i].context /\ ics'[i].style = ics[i].style
      /\ ics'[i].length = length /\ ics'[i].icid = i
      /\ \A j \in 1 .. Len(ics) : j # i => ics'[j] = ics[j]
  BY <1>1, WithLengthType
<1>3. /\ preedit' \in Seq(Nat) /\ Len(preedit') = Len(ics)
      /\ \A j \in 1 .. Len(ics) : preedit'[j] = IF j = i THEN length ELSE preedit[j]
  BY <1>1, DrawnType
<1>4. shown' \in Seq([feedback : Nat, caret : Nat]) /\ Len(shown') = Len(ics)
  <2> DEFINE Feedbacks == [feedback : Nat, caret : Nat]
             new == [feedback |-> feedback, caret |-> caret]
  <2>1. new \in Feedbacks /\ shown \in Seq(Feedbacks) /\ Len(shown) = Len(ics)
    BY BaseViews
  <2>2. shown' = [shown EXCEPT ![i] = new]
    BY DEF Draw
  <2> HIDE DEF new, Feedbacks
  <2>3. shown' \in Seq(Feedbacks) /\ Len(shown') = Len(ics)
    BY <2>1, <2>2, ExceptSeq
  <2>4. QED
    BY <2>3 DEF Feedbacks
<1>5. /\ lastCallback' \in Callback
      /\ lastCallback'.icid = i /\ lastCallback'.for = i
  <2>1. CallCallback("PREEDIT_DRAW", i, i) /\ i \in Nat
    BY <1>2, BaseViews DEF Draw
  <2>2. QED
    BY <2>1, CallbackType
<1>6. QED
  BY <1>1, <1>2, <1>3, <1>4, <1>5, BaseViews

LEMMA BaseHandleStart ==
  ASSUME Base, NEW i \in DOMAIN ics, HandleStart(i)
  PROVE  Base'
<1>1. /\ events # <<>> /\ events' = Tail(events) /\ call = "none"
      /\ UNCHANGED <<imeVars, serverVars, requests, ics, call, reading, preedit, shown, committed>>
      /\ CallCallback("PREEDIT_START", i, ics[i].icid)
  BY DEF HandleStart, Handles, Idle
<1>2. lastCallback' \in Callback
  <2>1. i \in Nat /\ ics[i].icid \in Nat
    BY BaseViews DEF IMIC
  <2>2. QED
    BY <1>1, <2>1, CallbackType
<1>3. /\ events' \in Seq(Event)
      /\ \A n \in 1 .. Len(events') : events'[n].context \in 1 .. Len(ics)
  BY <1>1, TailEvents
<1>4. CallOK'
  BY <1>1 DEF CallOK
<1>5. QED
  BY <1>1, <1>2, <1>3, <1>4, BaseViews, BaseImServer

(* The steps that only go on to the next call leave the events alone.      *)
LEMMA BaseAsks ==
  ASSUME Base,
         UNCHANGED <<imeVars, serverVars, requests, events, ics, clientVars>>,
         reading' \in [str : Nat, attr : Nat],
         call' \in {"CompStr", "CompAttr", "Cursor", "ResultStr"},
         CallOK'
  PROVE  Base'
<1>1. UNCHANGED <<lastCallback, preedit, shown, committed, events, ics>>
  BY DEF clientVars
<1>2. QED
  BY <1>1, BaseViews, BaseImServer

LEMMA BaseAskForText ==
  ASSUME Base, NEW i \in DOMAIN ics, AskForText(i)
  PROVE  Base'
<1>1. /\ events # <<>> /\ call' \in {"CompStr", "ResultStr"} /\ Head(events).kind = call'
      /\ UNCHANGED <<imeVars, serverVars, requests, events, ics, reading, clientVars>>
  BY DEF AskForText, Handles
<1>2. CallOK'
  BY <1>1 DEF CallOK
<1>3. QED
  BY <1>1, <1>2, BaseViews, BaseAsks

LEMMA BaseReadCompStr ==
  ASSUME Base, NEW i \in DOMAIN ics, ReadCompStr(i)
  PROVE  Base'
<1>1. /\ call = "CompStr" /\ call' = "CompAttr"
      /\ reading' = [reading EXCEPT !.str = contexts[ics[i].context].str]
      /\ UNCHANGED <<imeVars, serverVars, requests, events, ics, clientVars>>
  BY DEF ReadCompStr, Replied
<1>2. reading' \in [str : Nat, attr : Nat]
  <2>1. contexts[ics[i].context].str \in Nat
    BY BaseViews DEF Context
  <2>2. QED
    BY <1>1, <2>1, BaseViews
<1>3. CallOK'
  BY <1>1 DEF Base, CallOK
<1>4. QED
  BY <1>1, <1>2, <1>3, BaseAsks

LEMMA BaseReadCompAttr ==
  ASSUME Base, NEW i \in DOMAIN ics, ReadCompAttr(i)
  PROVE  Base'
<1>1. /\ call = "CompAttr" /\ call' = "Cursor"
      /\ reading' = [reading EXCEPT !.attr = contexts[ics[i].context].attr]
      /\ UNCHANGED <<imeVars, serverVars, requests, events, ics, clientVars>>
  BY DEF ReadCompAttr, Replied
<1>2. reading' \in [str : Nat, attr : Nat]
  <2>1. contexts[ics[i].context].attr \in Nat
    BY BaseViews DEF Context
  <2>2. QED
    BY <1>1, <2>1, BaseViews
<1>3. CallOK'
  BY <1>1 DEF Base, CallOK
<1>4. QED
  BY <1>1, <1>2, <1>3, BaseAsks

(* What is displayed once the text of a composition was fetched.           *)
LEMMA DrawCompStrStep ==
  ASSUME Base, NEW i \in DOMAIN ics, DrawCompStr(i)
  PROVE  /\ events # <<>> /\ events' = Tail(events) /\ call' = "none"
         /\ Head(events).kind = "CompStr" /\ Head(events).context = i
         /\ reading' = [str |-> 0, attr |-> 0]
         /\ UNCHANGED <<imeVars, serverVars, requests, committed>>
         /\ reading.str \in Nat
         /\ reading.str = 0 => UNCHANGED <<lastCallback, preedit, shown, ics>>
         /\ reading.str > 0 => \E feedback, caret \in Nat : Draw(i, reading.str, feedback, caret)
<1>1. /\ call = "Cursor" /\ events' = Tail(events) /\ call' = "none"
      /\ reading' = [str |-> 0, attr |-> 0]
      /\ ics[i].context = Head(events).context
      /\ UNCHANGED <<imeVars, serverVars, requests, committed>>
  BY DEF DrawCompStr, Replied
<1>2. events # <<>> /\ Head(events).kind = "CompStr"
  BY <1>1 DEF Base, CallOK
<1>3. reading.str \in Nat /\ reading.attr \in Nat
  BY BaseViews
<1>4. Head(events).context = i
  BY <1>1, BaseViews
<1>5. reading.str = 0 => UNCHANGED <<lastCallback, preedit, shown, ics>>
  BY <1>3 DEF DrawCompStr
<1>6. ASSUME reading.str > 0
      PROVE  \E feedback, caret \in Nat : Draw(i, reading.str, feedback, caret)
  <2>1. Feedback(reading.str, reading.attr) \in Nat
    BY <1>3 DEF Feedback
  <2>2. contexts[ics[i].context].cursor \in Nat
    BY BaseViews DEF Context
  <2>3. Draw(i, reading.str, Feedback(reading.str, reading.attr), contexts[ics[i].context].cursor)
    BY <1>6 DEF DrawCompStr
  <2>4. QED
    BY <2>1, <2>2, <2>3
<1>7. QED
  BY <1>1, <1>2, <1>3, <1>4, <1>5, <1>6

LEMMA BaseDrawCompStr ==
  ASSUME Base, NEW i \in DOMAIN ics, DrawCompStr(i)
  PROVE  Base'
<1>1. /\ events # <<>> /\ events' = Tail(events) /\ call' = "none"
      /\ reading' \in [str : Nat, attr : Nat]
      /\ UNCHANGED <<imeVars, serverVars, requests, committed>>
      /\ reading.str \in Nat
  BY DrawCompStrStep
<1>2. /\ events' \in Seq(Event)
      /\ \A n \in 1 .. Len(events') : events'[n].context \in 1 .. Len(ics)
  BY <1>1, TailEvents
<1>3. CallOK'
  BY <1>1 DEF CallOK
<1>4. CASE reading.str = 0
  <2>1. UNCHANGED <<lastCallback, preedit, shown, ics>>
    BY <1>4, DrawCompStrStep
  <2>2. QED
    BY <1>1, <1>2, <1>3, <2>1, BaseViews, BaseImServer
<1>5. CASE reading.str > 0
  <2>1. PICK feedback, caret \in Nat : Draw(i, reading.str, feedback, caret)
    BY <1>5, DrawCompStrStep
  <2>2. /\ ics' \in Seq(IMIC) /\ Len(ics') = Len(ics)
        /\ preedit' \in Seq(Nat) /\ Len(preedit') = Len(ics)
        /\ shown' \in Seq([feedback : Nat, caret : Nat]) /\ Len(shown') = Len(ics)
        /\ \A j \in 1 .. Len(ics) : ics'[j].context = j /\ ics'[j].length = preedit'[j]
        /\ lastCallback' \in Callback
    BY <1>1, <2>1, BaseViews, DrawBase
  <2>3. QED
    BY <1>1, <1>2, <1>3, <2>2, BaseViews, BaseImServer
<1>6. QED
  BY <1>1, <1>4, <1>5

LEMMA HandleResultStep ==
  ASSUME Base, NEW i \in DOMAIN ics, HandleResultStr(i)
  PROVE  /\ events # <<>> /\ events' = Tail(events) /\ call' = "none"
         /\ Head(events).kind = "ResultStr" /\ Head(events).context = i
         /\ UNCHANGED <<imeVars, serverVars, requests, reading>>
         /\ Draw(i, 0, 0, 0)
         /\ contexts[i].result \in Nat
         /\ committed' \in Seq(Nat) /\ Len(committed') = Len(ics)
         /\ \A j \in 1 .. Len(ics) :
              committed'[j] = IF j = i THEN contexts[i].result ELSE committed[j]
<1>1. /\ call = "ResultStr" /\ events' = Tail(events) /\ call' = "none"
      /\ ics[i].context = Head(events).context
      /\ UNCHANGED <<imeVars, serverVars, requests, reading>>
      /\ Draw(i, 0, 0, 0)
      /\ committed' = [committed EXCEPT ![i] = contexts[ics[i].context].result]
  BY DEF HandleResultStr, Replied, CommitString
<1>2. events # <<>> /\ Head(events).kind = "ResultStr"
  BY <1>1 DEF Base, CallOK
<1>3. /\ ics[i].context = i /\ contexts[i].result \in Nat
      /\ committed \in Seq(Nat) /\ Len(committed) = Len(ics) /\ i \in 1 .. Len(ics)
  BY BaseViews DEF Context
<1>4. /\ committed' \in Seq(Nat) /\ Len(committed') = Len(ics)
      /\ \A j \in 1 .. Len(ics) :
           committed'[j] = IF j = i THEN contexts[i].result ELSE committed[j]
  BY <1>1, <1>3, ExceptSeq
<1>5. QED
  BY <1>1, <1>2, <1>3, <1>4

LEMMA BaseHandleResultStr ==
  ASSUME Base, NEW i \in DOMAIN ics, HandleResultStr(i)
  PROVE  Base'
<1>1. /\ events # <<>> /\ events' = Tail(events) /\ call' = "none"
      /\ UNCHANGED <<imeVars, serverVars, requests, reading>>
      /\ committed' \in Seq(Nat) /\ Len(committed') = Len(ics)
      /\ Draw(i, 0, 0, 0)
  BY HandleResultStep
<1>2. /\ events' \in Seq(Event)
      /\ \A n \in 1 .. Len(events') : events'[n].context \in 1 .. Len(ics)
  BY <1>1, TailEvents
<1>3. CallOK'
  BY <1>1 DEF CallOK
<1>4. /\ ics' \in Seq(IMIC) /\ Len(ics') = Len(ics)
      /\ preedit' \in Seq(Nat) /\ Len(preedit') = Len(ics)
      /\ shown' \in Seq([feedback : Nat, caret : Nat]) /\ Len(shown') = Len(ics)
      /\ \A j \in 1 .. Len(ics) : ics'[j].context = j /\ ics'[j].length = preedit'[j]
      /\ lastCallback' \in Callback
  BY <1>1, BaseViews, DrawBase
<1>5. QED
  BY <1>1, <1>2, <1>3, <1>4, BaseViews, BaseImServer

LEMMA BaseIgnoreEvent ==
  ASSUME Base, IgnoreEvent
  PROVE  Base'
<1>1. /\ events # <<>> /\ events' = Tail(events) /\ call = "none"
      /\ UNCHANGED <<imeVars, serverVars, requests, ics, call, reading, lastCallback,
                     preedit, shown, committed>>
  BY DEF IgnoreEvent, Idle, clientVars
<1>2. /\ events' \in Seq(Event)
      /\ \A n \in 1 .. Len(events') : events'[n].context \in 1 .. Len(ics)
  BY <1>1, TailEvents
<1>3. CallOK'
  BY <1>1 DEF CallOK
<1>4. QED
  BY <1>1, <1>2, <1>3, BaseViews, BaseImServer

(* After PREEDIT_DONE nothing is displayed.                                *)
LEMMA HandleEndStep ==
  ASSUME Base, NEW i \in DOMAIN ics, HandleEnd(i)
  PROVE  /\ events # <<>> /\ events' = Tail(events) /\ call = "none"
         /\ Head(events).kind = "EndComposition" /\ Head(events).context = i
         /\ UNCHANGED <<imeVars, serverVars, requests, call, reading, committed>>
         /\ ics' \in Seq(IMIC) /\ Len(ics') = Len(ics)
         /\ ics'[i].icid \in {ics[i].icid, i} /\ (ics'[i].icid = 0 => ics' = ics)
         /\ ics'[i].style = ics[i].style
         /\ \A j \in 1 .. Len(ics) : j # i => ics'[j] = ics[j]
         /\ preedit' \in Seq(Nat) /\ Len(preedit') = Len(ics)
         /\ \A j \in 1 .. Len(ics) : preedit'[j] = IF j = i THEN 0 ELSE preedit[j]
         /\ shown' \in Seq([feedback : Nat, caret : Nat]) /\ Len(shown') = Len(ics)
         /\ \A j \in 1 .. Len(ics) : ics'[j].context = j /\ ics'[j].length = preedit'[j]
         /\ lastCallback' \in Callback
         /\ lastCallback'.icid = ics'[i].icid /\ lastCallback'.for = i
<1>1. /\ events # <<>> /\ events' = Tail(events) /\ call = "none"
      /\ Head(events).kind = "EndComposition" /\ Head(events).context = ics[i].context
      /\ UNCHANGED <<imeVars, serverVars, requests, call, reading, committed>>
      /\ CallCallback("PREEDIT_DONE", i, ics'[i].icid)
  BY DEF HandleEnd, Handles, Idle
<1>2. /\ i \in 1 .. Len(ics) /\ i \in Nat /\ ics[i] \in IMIC /\ ics[i].context = i
      /\ ics[i].icid \in Nat /\ ics[i].length \in Nat /\ ics[i].length = preedit[i]
      /\ preedit \in Seq(Nat) /\ Len(preedit) = Len(ics)
  BY BaseViews DEF IMIC
<1>3. /\ ics' \in Seq(IMIC) /\ Len(ics') = Len(ics)
      /\ ics'[i].context = i /\ ics'[i].style = ics[i].style
      /\ ics'[i].length = 0 /\ ics'[i].icid \in {ics[i].icid, i}
      /\ ics'[i].icid = 0 => ics' = ics
      /\ \A j \in 1 .. Len(ics) : j # i => ics'[j] = ics[j]
  <2>1. CASE ics[i].length > 0
    <3>1. ics' = WithLength(i, 0)
      BY <2>1 DEF HandleEnd
    <3>2. QED
      BY <1>2, <3>1, WithLengthType
  <2>2. CASE ics[i].length = 0
    <3>1. ics' = ics
      BY <2>2 DEF HandleEnd
    <3>2. QED
      BY <1>2, <2>2, <3>1, BaseViews
  <2>3. QED
    BY <1>2, <2>1, <2>2
<1>4. /\ preedit' \in Seq(Nat) /\ Len(preedit') = Len(ics)
      /\ \A j \in 1 .. Len(ics) : preedit'[j] = IF j = i THEN 0 ELSE preedit[j]
  <2>1. preedit' = [preedit EXCEPT ![i] = 0]
    <3>1. CASE ics[i].length > 0
      <4>1. Drawn(i, 0)[i] = 0
        BY <1>2, DrawnType
      <4>2. QED
        BY <3>1, <4>1 DEF HandleEnd
    <3>2. CASE ics[i].length = 0
      BY <1>2, <3>2 DEF HandleEnd
    <3>3. QED
      BY <1>2, <3>1, <3>2
  <2>2. QED
    BY <1>2, <2>1, ExceptSeq
<1>5. shown' \in Seq([feedback : Nat, caret : Nat]) /\ Len(shown') = Len(ics)
  <2> DEFINE Feedbacks == [feedback : Nat, caret : Nat]
             new == IF ics[i].length > 0 THEN [feedback |-> 0, caret |-> 0] ELSE shown[i]
  <2>1. shown \in Seq(Feedbacks) /\ Len(shown) = Len(ics)
    BY BaseViews
  <2>2. shown' = [shown EXCEPT ![i] = new]
    BY DEF HandleEnd
  <2>3. new \in Feedbacks
    <3>1. shown[i] \in Feedbacks
      <4> HIDE DEF Feedbacks
      <4> QED BY <1>2, <2>1, ElementOfSeq
    <3>2. QED
      BY <3>1
  <2> HIDE DEF new, Feedbacks
  <2>4. shown' \in Seq(Feedbacks) /\ Len(shown') = Len(ics)
    BY <1>2, <2>1, <2>2, <2>3, ExceptSeq
  <2>5. QED
    BY <2>4 DEF Feedbacks
<1>6. \A j \in 1 .. Len(ics) : ics'[j].context = j /\ ics'[j].length = preedit'[j]
  BY <1>3, <1>4, BaseViews
<1>7. /\ lastCallback' \in Callback
      /\ lastCallback'.icid = ics'[i].icid /\ lastCallback'.for = i
  <2>1. ics'[i].icid \in Nat
    BY <1>2, <1>3
  <2>2. QED
    BY <1>1, <1>2, <2>1, CallbackType
<1>8. QED
  BY <1>1, <1>2, <1>3, <1>4, <1>5, <1>6, <1>7

LEMMA BaseHandleEnd ==
  ASSUME Base, NEW i \in DOMAIN ics, HandleEnd(i)
  PROVE  Base'
<1>1. /\ events # <<>> /\ events' = Tail(events) /\ call = "none"
      /\ UNCHANGED <<imeVars, serverVars, requests, call, reading, committed>>
      /\ ics' \in Seq(IMIC) /\ Len(ics') = Len(ics)
      /\ preedit' \in Seq(Nat) /\ Len(preedit') = Len(ics)
      /\ shown' \in Seq([feedback : Nat, caret : Nat]) /\ Len(shown') = Len(ics)
      /\ \A j \in 1 .. Len(ics) : ics'[j].context = j /\ ics'[j].length = preedit'[j]
      /\ lastCallback' \in Callback
  BY HandleEndStep
<1>2. /\ events' \in Seq(Event)
      /\ \A n \in 1 .. Len(events') : events'[n].context \in 1 .. Len(ics)
  BY <1>1, TailEvents
<1>3. CallOK'
  BY <1>1 DEF CallOK
<1>4. QED
  BY <1>1, <1>2, <1>3, BaseViews, BaseImServer

-----------------------------------------------------------------------------
(* Type correctness and the agreed length.                                 *)

LEMMA BaseNext ==
  ASSUME Base, Next
  PROVE  Base'
<1>1. ASSUME NEW w \in Windows \cup {NoWindow}, Activate(w)
      PROVE  Base'
  BY <1>1, BaseActivate
<1>2. ASSUME NEW k \in DOMAIN contexts,
             StartComposition(k) \/ Composition(k) \/ EndComposition(k)
      PROVE  Base'
  BY <1>2, BaseStartComposition, BaseComposition, BaseEndComposition
<1>3. ASSUME NEW style \in Styles, CreateIC(style)
      PROVE  Base'
  BY <1>3, BaseCreateIC
<1>4. ASSUME NEW i \in DOMAIN ics, NEW focus \in BOOLEAN, ChangeFocus(i, focus)
      PROVE  Base'
  BY <1>4, BaseChangeFocus
<1>5. ASSUME NEW i \in DOMAIN ics,
             \/ HandleStart(i) \/ AskForText(i) \/ ReadCompStr(i) \/ ReadCompAttr(i)
             \/ DrawCompStr(i) \/ HandleResultStr(i) \/ HandleEnd(i)
      PROVE  Base'
  BY <1>5, BaseHandleStart, BaseAskForText, BaseReadCompStr, BaseReadCompAttr,
     BaseDrawCompStr, BaseHandleResultStr, BaseHandleEnd
<1>6. QED
  BY <1>1, <1>2, <1>3, <1>4, <1>5, BaseServeRequest, BaseIgnoreEvent
  DEF Next, Ime, ClientRequests, ImServer

LEMMA BaseStep == Base /\ [Next]_vars => Base'
<1>1. CASE Next
  BY <1>1, BaseNext
<1>2. CASE UNCHANGED vars
  BY <1>2 DEF vars, imeVars, serverVars, clientVars, Base, TypeOK, IndexOK, CallOK, LengthAgrees
<1>3. QED
  BY <1>1, <1>2

LEMMA AlwaysBase == Spec => []Base
BY BaseInit, BaseStep, PTL DEF Spec

(* Whatever windows, ICs and IME messages there are, the state of the two   *)
(* threads and of the client has its type.                                 *)
THEOREM TypeCorrect == Spec => []TypeOK
<1>1. Base => TypeOK
  BY DEF Base
<1>2. QED
  BY <1>1, AlwaysBase, PTL

(* The length from which the next PREEDIT_DRAW takes chg_length is always   *)
(* that of what the client displays.                                       *)
THEOREM LengthsAgree == Spec => []LengthAgrees
<1>1. Base => LengthAgrees
  BY DEF Base
<1>2. QED
  BY <1>1, AlwaysBase, PTL

-----------------------------------------------------------------------------
(* The association of windows and contexts.                                *)

LEMMA AssociationInit == Init => OneAssociation
BY DEF Init, OneAssociation

LEMMA OneAssociationServed ==
  ASSUME Base, OneAssociation, ServeRequest
  PROVE  OneAssociation'
<1> DEFINE r == Head(requests)
<1>1. /\ associated \in [Windows -> Nat] /\ active \in Windows \cup {NoWindow}
      /\ associatedWnd \in Windows \cup {NoWindow}
  BY DEF Base, TypeOK
<1>2. Dissociated \in [Windows -> Nat] /\ \A w \in Windows : Dissociated[w] = 0
  BY <1>1, WindowsAssumption DEF Dissociated, OneAssociation
<1>3. CASE SetFocus(r.context, r.value)
  <2>1. CASE r.value /\ active = NoWindow
    BY <1>2, <1>3, <2>1 DEF SetFocus, OneAssociation
  <2>2. CASE r.value /\ active # NoWindow
    <3>1. associated' = [Dissociated EXCEPT ![active] = r.context] /\ associatedWnd' = active
      BY <1>3, <2>2 DEF SetFocus
    <3>2. QED
      BY <1>1, <1>2, <2>2, <3>1 DEF OneAssociation
  <2>3. CASE ~r.value
    BY <1>3, <2>3 DEF SetFocus, OneAssociation
  <2>4. QED
    BY <2>1, <2>2, <2>3
<1>4. CASE SetCompositionDraw(r.context, r.value)
  BY <1>4 DEF SetCompositionDraw, OneAssociation
<1>5. QED
  BY <1>3, <1>4 DEF ServeRequest

(* Only the handler of WinIMESetFocus associates.                          *)
LEMMA AssociationKept ==
  ASSUME Next
  PROVE  ServeRequest \/ UNCHANGED <<associated, associatedWnd>>
BY DEF Next, Ime, ClientRequests, ImServer, Activate, ImeMessage, StartComposition, Composition,
       EndComposition, CreateIC, ChangeFocus, HandleStart, AskForText, ReadCompStr, ReadCompAttr,
       DrawCompStr, HandleResultStr, IgnoreEvent, HandleEnd, serverVars

LEMMA OneAssociationStep == Base /\ OneAssociation /\ [Next]_vars => OneAssociation'
<1> SUFFICES ASSUME Base, OneAssociation, [Next]_vars
             PROVE  OneAssociation'
  OBVIOUS
<1>1. CASE ServeRequest
  BY <1>1, OneAssociationServed
<1>2. CASE UNCHANGED <<associated, associatedWnd>>
  BY <1>2 DEF OneAssociation
<1>3. QED
  BY <1>1, <1>2, AssociationKept DEF vars, serverVars

(* However windows are activated and ICs get and lose the focus, at most    *)
(* one window has a context.                                               *)
THEOREM OneWindowAssociated == Spec => []OneAssociation
BY AlwaysBase, AssociationInit, OneAssociationStep, PTL DEF Spec

-----------------------------------------------------------------------------
(* What the steps do to the events and the contexts.                       *)

(* The events that were queued keep their places, and the new ones are      *)
(* about context k.                                                        *)
EventsGrow(k) ==
  /\ Len(events) \in Nat /\ Len(events') \in Nat /\ Len(events) <= Len(events')
  /\ \A n \in 1 .. Len(events) : events'[n] = events[n]
  /\ \A n \in Len(events) + 1 .. Len(events') : events'[n].context = k

(* An event other than the one that was handled is still queued.           *)
LEMMA TailKeeps ==
  ASSUME Base, events # <<>>, events' = Tail(events),
         NEW n \in 1 .. Len(events), events[n] # Head(events)
  PROVE  n > 1 /\ n - 1 \in 1 .. Len(events') /\ events'[n - 1] = events[n]
<1>1. /\ Len(events) \in Nat \ {0} /\ Len(events') = Len(events) - 1
      /\ \A m \in 1 .. Len(events') : events'[m] = events[m + 1]
      /\ Head(events) = events[1]
  BY TailEvents
<1>2. n > 1 /\ n - 1 \in 1 .. Len(events')
  BY <1>1
<1>3. QED
  BY <1>1, <1>2

LEMMA NotedStep ==
  ASSUME Base, NEW kind \in Kinds, NEW k \in 1 .. Len(ics),
         events' = Append(events, Notify(kind, k))
  PROVE  /\ EventsGrow(k)
         /\ Len(events') = Len(events) + 1 /\ events'[Len(events')] = Notify(kind, k)
<1>1. /\ events' \in Seq(Event) /\ Len(events') = Len(events) + 1
      /\ \A n \in 1 .. Len(events) : events'[n] = events[n]
      /\ events'[Len(events) + 1] = Notify(kind, k)
  BY AppendedEvent
<1>2. Len(events) \in Nat
  BY BaseViews, LenProperties
<1>3. Notify(kind, k).context = k
  BY DEF Notify
<1>4. QED
  BY <1>1, <1>2, <1>3 DEF EventsGrow

LEMMA StartStep ==
  ASSUME Base, NEW k, StartComposition(k)
  PROVE  /\ k \in 1 .. Len(ics)
         /\ UNCHANGED <<active, associated, associatedWnd, requests, contexts, ics, call,
                        reading, lastCallback, preedit, shown, committed>>
         /\ EventsGrow(k)
         /\ composing'[k] /\ \A j \in 1 .. Len(ics) : j # k => composing'[j] = composing[j]
<1>1. /\ k \in 1 .. Len(ics) /\ contexts' = contexts
      /\ UNCHANGED <<active, associated, associatedWnd, requests, ics, call, reading,
                     lastCallback, preedit, shown, committed>>
  BY MessageAbout DEF StartComposition
<1>2. EventsGrow(k)
  <2>1. events' = Append(events, Notify("StartComposition", k)) /\ "StartComposition" \in Kinds
    BY DEF StartComposition, Kinds
  <2>2. QED
    BY <1>1, <2>1, NotedStep
<1>3. composing'[k] /\ \A j \in 1 .. Len(ics) : j # k => composing'[j] = composing[j]
  BY <1>1, LenProperties DEF StartComposition, Base, TypeOK, IndexOK
<1>4. QED
  BY <1>1, <1>2, <1>3

LEMMA EndStep ==
  ASSUME Base, NEW k, EndComposition(k)
  PROVE  /\ k \in 1 .. Len(ics)
         /\ UNCHANGED <<active, associated, associatedWnd, requests, contexts, ics, call,
                        reading, lastCallback, preedit, shown, committed>>
         /\ EventsGrow(k)
         /\ Len(events') > 0 /\ events'[Len(events')] = Notify("EndComposition", k)
         /\ \A j \in 1 .. Len(ics) : j # k => composing'[j] = composing[j]
<1>1. /\ k \in 1 .. Len(ics) /\ contexts' = contexts
      /\ UNCHANGED <<active, associated, associatedWnd, requests, ics, call, reading,
                     lastCallback, preedit, shown, committed>>
  BY MessageAbout DEF EndComposition
<1>2. EventsGrow(k) /\ Len(events') > 0 /\ events'[Len(events')] = Notify("EndComposition", k)
  <2>1. events' = Append(events, Notify("EndComposition", k)) /\ "EndComposition" \in Kinds
    BY DEF EndComposition, Kinds
  <2>2. EventsGrow(k) /\ Len(events') = Len(events) + 1
        /\ events'[Len(events')] = Notify("EndComposition", k)
    BY <1>1, <2>1, NotedStep
  <2>3. QED
    BY <2>2 DEF EventsGrow
<1>3. \A j \in 1 .. Len(ics) : j # k => composing'[j] = composing[j]
  BY <1>1, LenProperties DEF EndComposition, Base, TypeOK, IndexOK
<1>4. QED
  BY <1>1, <1>2, <1>3

(* An element of one of two sequences is one of their concatenation.       *)
LEMMA InConcat ==
  ASSUME NEW s \in Seq(Event), NEW t \in Seq(Event), NEW e,
         \/ \E n \in 1 .. Len(s) : s[n] = e
         \/ \E n \in 1 .. Len(t) : t[n] = e
  PROVE  \E n \in 1 .. Len(s \o t) : (s \o t)[n] = e
<1>1. /\ Len(s) \in Nat /\ Len(t) \in Nat /\ Len(s \o t) = Len(s) + Len(t)
      /\ \A n \in 1 .. Len(s) + Len(t) :
           (s \o t)[n] = IF n <= Len(s) THEN s[n] ELSE t[n - Len(s)]
  BY LenProperties, ConcatProperties
<1>2. CASE \E n \in 1 .. Len(s) : s[n] = e
  <2>1. PICK n \in 1 .. Len(s) : s[n] = e
    BY <1>2
  <2>2. n \in 1 .. Len(s) + Len(t) /\ (s \o t)[n] = e
    BY <1>1, <2>1
  <2>3. QED
    BY <1>1, <2>2
<1>3. CASE \E n \in 1 .. Len(t) : t[n] = e
  <2>1. PICK n \in 1 .. Len(t) : t[n] = e
    BY <1>3
  <2>2. /\ n + Len(s) \in 1 .. Len(s) + Len(t) /\ ~(n + Len(s) <= Len(s))
        /\ (n + Len(s)) - Len(s) = n
    BY <1>1, <2>1
  <2>3. (s \o t)[n + Len(s)] = e
    BY <1>1, <2>1, <2>2
  <2>4. QED
    BY <1>1, <2>2, <2>3
<1>4. QED
  BY <1>2, <1>3

(* A new string and a new result are announced.                            *)
LEMMA AnnouncedEvents ==
  ASSUME NEW flags, NEW k \in Nat
  PROVE  /\ "CompStr" \in flags
              => \E n \in 1 .. Len(Announced(flags, k)) :
                   Announced(flags, k)[n] = Notify("CompStr", k)
         /\ "ResultStr" \in flags
              => \E n \in 1 .. Len(Announced(flags, k)) :
                   Announced(flags, k)[n] = Notify("ResultStr", k)
<1> DEFINE About(kind) == IfFlagged(kind, flags, k)
           Two == About("CompStr") \o About("CursorPos")
           Three == Two \o About("ResultStr")
<1>1. ASSUME NEW kind \in Kinds
      PROVE  /\ About(kind) \in Seq(Event)
             /\ kind \in flags => \E n \in 1 .. Len(About(kind)) : About(kind)[n] = Notify(kind, k)
  <2>1. Notify(kind, k) \in Event
    BY <1>1, NotifyType
  <2>2. /\ <<Notify(kind, k)>> \in Seq(Event) /\ <<>> \in Seq(Event)
        /\ Len(<<Notify(kind, k)>>) = 1 /\ <<Notify(kind, k)>>[1] = Notify(kind, k)
    BY <2>1
  <2>3. QED
    BY <2>2 DEF IfFlagged
<1>2. {"CompStr", "CursorPos", "ResultStr", "CompAttr"} \subseteq Kinds
  BY DEF Kinds
<1>3. /\ About("CompStr") \in Seq(Event) /\ About("CursorPos") \in Seq(Event)
      /\ About("ResultStr") \in Seq(Event) /\ About("CompAttr") \in Seq(Event)
  BY <1>1, <1>2
<1>4. Announced(flags, k) = Three \o About("CompAttr")
  BY DEF Announced
<1>5. "CompStr" \in flags => \E n \in 1 .. Len(About("CompStr")) : About("CompStr")[n] = Notify("CompStr", k)
  BY <1>1, <1>2
<1>6. "ResultStr" \in flags => \E n \in 1 .. Len(About("ResultStr")) : About("ResultStr")[n] = Notify("ResultStr", k)
  BY <1>1, <1>2
<1> HIDE DEF About
<1>7. Two \in Seq(Event)
  BY <1>3, ConcatProperties
<1>8. "CompStr" \in flags => \E n \in 1 .. Len(Two) : Two[n] = Notify("CompStr", k)
  BY <1>3, <1>5, InConcat
<1> HIDE DEF Two
<1>9. Three \in Seq(Event)
  BY <1>3, <1>7, ConcatProperties
<1>10. /\ "CompStr" \in flags => \E n \in 1 .. Len(Three) : Three[n] = Notify("CompStr", k)
       /\ "ResultStr" \in flags => \E n \in 1 .. Len(Three) : Three[n] = Notify("ResultStr", k)
  BY <1>3, <1>6, <1>7, <1>8, InConcat
<1> HIDE DEF Three
<1>11. QED
  BY <1>3, <1>4, <1>9, <1>10, InConcat

(* The text of a context, and what a WM_IME_COMPOSITION may do to it.      *)
LEMMA CompositionEffect ==
  ASSUME Base, NEW k, Composition(k)
  PROVE  /\ k \in 1 .. Len(ics) /\ composing[k]
         /\ UNCHANGED <<active, associated, associatedWnd, requests, composing, ics, call,
                        reading, lastCallback, preedit, shown, committed>>
         /\ EventsGrow(k)
         /\ \A j \in 1 .. Len(ics) : j # k => contexts'[j] = contexts[j]
         /\ contexts'[k].draw = contexts[k].draw
         /\ \/ contexts'[k].result = contexts[k].result
            \/ /\ contexts'[k].result = contexts[k].result + 1
               /\ \E n \in 1 .. Len(events') : events'[n] = Notify("ResultStr", k)
         /\ \/ /\ contexts'[k].str = contexts[k].str
               /\ contexts'[k].attr = contexts[k].attr
               /\ \/ contexts'[k].cursor = contexts[k].cursor
                  \/ contexts'[k].cursor <= contexts'[k].str
            \/ /\ contexts'[k].attr = contexts'[k].str
               /\ contexts'[k].cursor <= contexts'[k].str
               /\ \E n \in Len(events) + 1 .. Len(events') : events'[n] = Notify("CompStr", k)
<1>1. /\ k \in 1 .. Len(ics) /\ composing[k]
      /\ UNCHANGED <<active, associated, associatedWnd, requests, composing, ics, call,
                     reading, lastCallback, preedit, shown, committed>>
  BY MessageAbout, CompositionStep
<1>2. PICK flags \in {Text, Text \cup {"ResultStr"}, {"CursorPos"}, {"ResultStr"}},
           n \in 0 .. MaxLength, c \in 0 .. MaxLength :
        /\ c <= n
        /\ "CompStr" \notin flags => n = contexts[k].str
        /\ contexts' = [contexts EXCEPT ![k] = CommitCompositionResult(@, flags, n, c)]
        /\ events' = events \o Announced(flags, k)
  BY DEF Composition
<1>3. /\ "CompStr" \in flags => "CompAttr" \in flags /\ "CursorPos" \in flags
      /\ "CompStr" \notin flags => "CompAttr" \notin flags
      /\ n \in Nat /\ c \in Nat /\ k \in Nat
  BY <1>1, <1>2, BoundsAssumption DEF Text
<1> DEFINE new == CommitCompositionResult(contexts[k], flags, n, c)
<1>4. /\ contexts \in Seq(Context) /\ Len(contexts) = Len(ics) /\ contexts[k] \in Context
      /\ contexts[k].result \in Nat
  BY <1>1, BaseViews DEF Context
<1>5. new \in Context /\ new.draw = contexts[k].draw
  BY <1>3, <1>4, CommittedContext, CommittedDraw
<1>6. /\ new.str = IF "CompStr" \in flags THEN n ELSE contexts[k].str
      /\ new.attr = IF "CompAttr" \in flags THEN n ELSE contexts[k].attr
      /\ new.cursor = IF "CursorPos" \in flags THEN c ELSE contexts[k].cursor
      /\ new.result = IF "ResultStr" \in flags THEN contexts[k].result + 1
                                               ELSE contexts[k].result
  BY <1>3, <1>4, CommittedText
<1>7. contexts' = [contexts EXCEPT ![k] = new]
  BY <1>2
<1> HIDE DEF new
<1>8. contexts'[k] = new /\ \A j \in 1 .. Len(ics) : j # k => contexts'[j] = contexts[j]
  BY <1>1, <1>4, <1>5, <1>7, ExceptSeq
<1> DEFINE told == Announced(flags, k)
<1>9. /\ events \in Seq(Event) /\ told \in Seq(Event)
      /\ \A m \in 1 .. Len(told) : told[m].context = k
      /\ Len(events) \in Nat /\ Len(told) \in Nat
  BY <1>3, BaseViews, AnnouncedType, LenProperties
<1>10. /\ "CompStr" \in flags => \E m \in 1 .. Len(told) : told[m] = Notify("CompStr", k)
       /\ "ResultStr" \in flags => \E m \in 1 .. Len(told) : told[m] = Notify("ResultStr", k)
  BY <1>3, AnnouncedEvents
<1>11. events' = events \o told
  BY <1>2
<1> HIDE DEF told
<1>12. /\ Len(events') = Len(events) + Len(told)
       /\ \A m \in 1 .. Len(events) + Len(told) :
            events'[m] = IF m <= Len(events) THEN events[m] ELSE told[m - Len(events)]
  BY <1>9, <1>11, ConcatProperties
<1>13. EventsGrow(k)
  <2>1. ASSUME NEW m \in Len(events) + 1 .. Len(events')
        PROVE  events'[m].context = k
    <3>1. m - Len(events) \in 1 .. Len(told) /\ events'[m] = told[m - Len(events)]
      BY <1>9, <1>12
    <3>2. QED
      BY <1>9, <3>1
  <2>2. QED
    BY <1>9, <1>12, <2>1 DEF EventsGrow
<1>14. ASSUME NEW e, \E m \in 1 .. Len(told) : told[m] = e
       PROVE  \E m \in Len(events) + 1 .. Len(events') : events'[m] = e
  <2>1. PICK m \in 1 .. Len(told) : told[m] = e
    BY <1>14
  <2>2. /\ m + Len(events) \in Len(events) + 1 .. Len(events') /\ ~(m + Len(events) <= Len(events))
        /\ (m + Len(events)) - Len(events) = m /\ m + Len(events) \in 1 .. Len(events) + Len(told)
    BY <1>9, <1>12, <2>1
  <2>3. events'[m + Len(events)] = e
    BY <1>12, <2>1, <2>2
  <2>4. QED
    BY <2>2, <2>3
<1>15. \/ contexts'[k].result = contexts[k].result
       \/ /\ contexts'[k].result = contexts[k].result + 1
          /\ \E m \in 1 .. Len(events') : events'[m] = Notify("ResultStr", k)
  <2>1. CASE "ResultStr" \in flags
    <3>1. \E m \in Len(events) + 1 .. Len(events') : events'[m] = Notify("ResultStr", k)
      BY <1>10, <1>14, <2>1
    <3>2. QED
      BY <1>6, <1>8, <1>9, <2>1, <3>1
  <2>2. CASE "ResultStr" \notin flags
    BY <1>6, <1>8, <2>2
  <2>3. QED
    BY <2>1, <2>2
<1>16. CASE "CompStr" \in flags
  <2>1. \E m \in Len(events) + 1 .. Len(events') : events'[m] = Notify("CompStr", k)
    BY <1>10, <1>14, <1>16
  <2>2. contexts'[k].attr = contexts'[k].str /\ contexts'[k].cursor <= contexts'[k].str
    BY <1>2, <1>3, <1>6, <1>8, <1>16
  <2>3. QED
    BY <1>1, <1>5, <1>8, <1>13, <1>15, <2>1, <2>2
<1>17. CASE "CompStr" \notin flags
  <2>1. /\ contexts'[k].str = contexts[k].str
        /\ contexts'[k].attr = contexts[k].attr
        /\ \/ contexts'[k].cursor = contexts[k].cursor
           \/ contexts'[k].cursor <= contexts'[k].str
    BY <1>2, <1>3, <1>6, <1>8, <1>17
  <2>2. QED
    BY <1>1, <1>5, <1>8, <1>13, <1>15, <2>1
<1>18. QED
  BY <1>16, <1>17

(* A request is served: of the contexts at most fCompositionDraw changes.   *)
LEMMA ServeEffect ==
  ASSUME Base, ServeRequest
  PROVE  /\ UNCHANGED <<active, composing, messages, events, ics, call, reading, lastCallback,
                        preedit, shown, committed>>
         /\ \A j \in 1 .. Len(ics) :
              /\ contexts'[j].str = contexts[j].str
              /\ contexts'[j].attr = contexts[j].attr
              /\ contexts'[j].cursor = contexts[j].cursor
              /\ contexts'[j].result = contexts[j].result
<1> DEFINE r == Head(requests)
<1>1. UNCHANGED <<active, composing, messages, events, ics, call, reading, lastCallback,
                  preedit, shown, committed>>
  BY DEF ServeRequest, imeVars, clientVars
<1>2. ASSUME NEW j \in 1 .. Len(ics)
      PROVE  /\ contexts'[j].str = contexts[j].str
             /\ contexts'[j].attr = contexts[j].attr
             /\ contexts'[j].cursor = contexts[j].cursor
             /\ contexts'[j].result = contexts[j].result
  <2>1. CASE contexts' = contexts
    BY <2>1
  <2>2. CASE SetCompositionDraw(r.context, r.value)
    <3>1. contexts' = [contexts EXCEPT ![r.context].draw = r.value]
      BY <2>2 DEF SetCompositionDraw
    <3>2. contexts[j] \in Context /\ j \in DOMAIN contexts
      BY BaseViews, LenProperties
    <3> DEFINE d == r.value
    <3> HIDE DEF r, d
    <3>3. contexts'[j] = contexts[j] \/ contexts'[j] = [contexts[j] EXCEPT !.draw = d]
      BY <3>1, <3>2 DEF d
    <3>4. QED
      BY <3>2, <3>3 DEF Context
  <2>3. QED
    BY <2>1, <2>2 DEF ServeRequest, SetFocus
<1>3. QED
  BY <1>1, <1>2

(* The steps that neither touch what the IME stored nor what the client     *)
(* displays or got committed.                                              *)
Quiet ==
  /\ UNCHANGED <<contexts, composing, ics, preedit, shown, committed>>
  /\ \/ events' = events
     \/ /\ events # <<>> /\ events' = Tail(events)
        /\ Head(events).kind \in {"StartComposition", "CursorPos", "CompAttr"}

LEMMA Steps ==
  ASSUME Next
  PROVE  \/ \E k \in DOMAIN contexts : StartComposition(k) \/ Composition(k) \/ EndComposition(k)
         \/ ServeRequest
         \/ \E style \in Styles : CreateIC(style)
         \/ \E i \in DOMAIN ics : DrawCompStr(i) \/ HandleResultStr(i) \/ HandleEnd(i)
         \/ Quiet
<1>1. ASSUME NEW w \in Windows \cup {NoWindow}, Activate(w)
      PROVE  Quiet
  BY <1>1 DEF Activate, Quiet, serverVars, clientVars
<1>2. ASSUME NEW i \in DOMAIN ics, NEW focus \in BOOLEAN, ChangeFocus(i, focus)
      PROVE  Quiet
  BY <1>2 DEF ChangeFocus, Quiet, imeVars, serverVars, clientVars
<1>3. ASSUME NEW i \in DOMAIN ics,
             HandleStart(i) \/ AskForText(i) \/ ReadCompStr(i) \/ ReadCompAttr(i)
      PROVE  Quiet
  BY <1>3 DEF HandleStart, Handles, AskForText, ReadCompStr, ReadCompAttr, Quiet, imeVars,
              serverVars, clientVars
<1>4. ASSUME IgnoreEvent
      PROVE  Quiet
  BY <1>4 DEF IgnoreEvent, Quiet, imeVars, serverVars, clientVars
<1>5. QED
  BY <1>1, <1>2, <1>3, <1>4 DEF Next, Ime, ClientRequests, ImServer

LEMMA QuietStutter == UNCHANGED vars => Quiet
BY DEF vars, imeVars, serverVars, clientVars, Quiet

-----------------------------------------------------------------------------
(* Results.                                                                *)

ResultQueued(i) == \E n \in 1 .. Len(events) : events[n] = Notify("ResultStr", i)

NewestAt(i) ==
  /\ committed[i] <= contexts[i].result
  /\ committed[i] < contexts[i].result => ResultQueued(i)

Newest == \A i \in 1 .. Len(ics) : NewestAt(i)

LEMMA NewestIs == Base => (NewestCommitted <=> Newest)
<1> SUFFICES ASSUME Base
             PROVE  NewestCommitted <=> Newest
  OBVIOUS
<1>1. /\ DOMAIN ics = 1 .. Len(ics) /\ DOMAIN events = 1 .. Len(events)
      /\ \A i \in 1 .. Len(ics) : ics[i].context = i
  BY BaseViews, LenProperties
<1>2. QED
  BY <1>1 DEF NewestCommitted, Newest, NewestAt, ResultQueued

(* A result that is announced stays so until it is committed.              *)
LEMMA QueuedGrow ==
  ASSUME NEW k, EventsGrow(k), NEW i, ResultQueued(i)
  PROVE  ResultQueued(i)'
<1>1. PICK n \in 1 .. Len(events) : events[n] = Notify("ResultStr", i)
  BY DEF ResultQueued
<1>2. n \in 1 .. Len(events') /\ events'[n] = Notify("ResultStr", i)
  BY <1>1 DEF EventsGrow
<1>3. QED
  BY <1>2 DEF ResultQueued, Notify

LEMMA QueuedTail ==
  ASSUME Base, events # <<>>, events' = Tail(events), NEW i,
         Head(events) # Notify("ResultStr", i), ResultQueued(i)
  PROVE  ResultQueued(i)'
<1>1. PICK n \in 1 .. Len(events) : events[n] = Notify("ResultStr", i)
  BY DEF ResultQueued
<1>2. n - 1 \in 1 .. Len(events') /\ events'[n - 1] = Notify("ResultStr", i)
  BY <1>1, TailKeeps
<1>3. QED
  BY <1>2 DEF ResultQueued, Notify

LEMMA NewestStep ==
  ASSUME Base, Base', [Next]_vars, \A i \in 1 .. Len(ics) : NewestAt(i)
  PROVE  \A i \in 1 .. Len(ics') : NewestAt(i)'
<1>1. /\ \A i \in 1 .. Len(ics) : committed[i] \in Nat /\ contexts[i].result \in Nat
      /\ Len(ics) \in Nat /\ DOMAIN ics = 1 .. Len(ics) /\ DOMAIN contexts = 1 .. Len(ics)
  BY BaseViews, LenProperties DEF Context
<1>2. ASSUME NEW k, StartComposition(k) \/ EndComposition(k)
      PROVE  \A i \in 1 .. Len(ics') : NewestAt(i)'
  <2>1. UNCHANGED <<contexts, committed, ics>> /\ EventsGrow(k)
    BY <1>2, StartStep, EndStep
  <2>2. QED
    BY <2>1, QueuedGrow DEF NewestAt
<1>3. ASSUME NEW k, Composition(k)
      PROVE  \A i \in 1 .. Len(ics') : NewestAt(i)'
  <2>1. /\ k \in 1 .. Len(ics) /\ UNCHANGED <<committed, ics>> /\ EventsGrow(k)
        /\ \A j \in 1 .. Len(ics) : j # k => contexts'[j] = contexts[j]
        /\ \/ contexts'[k].result = contexts[k].result
           \/ /\ contexts'[k].result = contexts[k].result + 1
              /\ \E n \in 1 .. Len(events') : events'[n] = Notify("ResultStr", k)
    BY <1>3, CompositionEffect
  <2>2. ASSUME NEW i \in 1 .. Len(ics), i # k
        PROVE  NewestAt(i)'
    BY <2>1, <2>2, QueuedGrow DEF NewestAt
  <2>3. CASE contexts'[k].result = contexts[k].result
    <3>1. NewestAt(k)'
      BY <2>1, <2>3, QueuedGrow DEF NewestAt
    <3>2. QED
      BY <2>1, <2>2, <3>1
  <2>4. CASE /\ contexts'[k].result = contexts[k].result + 1
             /\ \E n \in 1 .. Len(events') : events'[n] = Notify("ResultStr", k)
    <3>1. ResultQueued(k)'
      BY <2>4 DEF ResultQueued, Notify
    <3>2. NewestAt(k)'
      BY <1>1, <2>1, <2>4, <3>1 DEF NewestAt
    <3>3. QED
      BY <2>1, <2>2, <3>2
  <2>5. QED
    BY <2>1, <2>3, <2>4
<1>4. CASE ServeRequest
  <2>1. /\ UNCHANGED <<committed, ics, events>>
        /\ \A j \in 1 .. Len(ics) : contexts'[j].result = contexts[j].result
    BY <1>4, ServeEffect
  <2>2. QED
    BY <2>1 DEF NewestAt, ResultQueued, Notify
<1>5. ASSUME NEW style \in Styles, CreateIC(style)
      PROVE  \A i \in 1 .. Len(ics') : NewestAt(i)'
  <2>1. /\ Len(ics') = Len(ics) + 1 /\ events' = events
        /\ \A j \in 1 .. Len(ics) : contexts'[j] = contexts[j] /\ committed'[j] = committed[j]
        /\ contexts'[Len(ics) + 1] = NewContext /\ committed'[Len(ics) + 1] = 0
    BY <1>5, CreateStep, CreateClient
  <2>2. ASSUME NEW i \in 1 .. Len(ics)
        PROVE  NewestAt(i)'
    BY <2>1 DEF NewestAt, ResultQueued, Notify
  <2>3. ASSUME NEW i, i = Len(ics) + 1
        PROVE  NewestAt(i)'
    <3>1. contexts'[i].result = 0 /\ committed'[i] = 0
      BY <2>1, <2>3 DEF NewContext
    <3>2. QED
      BY <3>1 DEF NewestAt
  <2>4. QED
    BY <1>1, <2>1, <2>2, <2>3
<1>6. ASSUME NEW i \in DOMAIN ics, HandleResultStr(i)
      PROVE  \A j \in 1 .. Len(ics') : NewestAt(j)'
  <2>1. /\ events # <<>> /\ events' = Tail(events) /\ Head(events).context = i
        /\ contexts' = contexts /\ Len(ics') = Len(ics)
        /\ \A j \in 1 .. Len(ics) :
             committed'[j] = IF j = i THEN contexts[i].result ELSE committed[j]
    <3>1. Draw(i, 0, 0, 0) /\ UNCHANGED <<imeVars, serverVars, requests, reading>>
      BY <1>6, HandleResultStep
    <3>2. Len(ics') = Len(ics) /\ contexts' = contexts
      BY <1>1, <3>1, DrawBase DEF serverVars
    <3>3. QED
      BY <1>6, <3>2, HandleResultStep
  <2>2. ASSUME NEW j \in 1 .. Len(ics), j # i
        PROVE  NewestAt(j)'
    <3>1. Head(events) # Notify("ResultStr", j)
      BY <2>1, <2>2 DEF Notify
    <3>2. QED
      BY <2>1, <2>2, <3>1, QueuedTail DEF NewestAt
  <2>3. NewestAt(i)'
    BY <1>1, <2>1 DEF NewestAt
  <2>4. QED
    BY <2>1, <2>2, <2>3
<1>7. ASSUME events # <<>>, events' = Tail(events), Head(events).kind # "ResultStr",
             contexts' = contexts, committed' = committed, Len(ics') = Len(ics)
      PROVE  \A j \in 1 .. Len(ics') : NewestAt(j)'
  <2>1. \A j : Head(events) # Notify("ResultStr", j)
    BY <1>7 DEF Notify
  <2>2. QED
    BY <1>7, <2>1, QueuedTail DEF NewestAt
<1>8. ASSUME NEW i \in DOMAIN ics, DrawCompStr(i)
      PROVE  \A j \in 1 .. Len(ics') : NewestAt(j)'
  <2>1. /\ events # <<>> /\ events' = Tail(events) /\ Head(events).kind = "CompStr"
        /\ contexts' = contexts /\ committed' = committed /\ Len(ics') = Len(ics)
    <3>1. Len(ics') = Len(ics)
      BY <1>8, DrawCompStrStep, DrawBase, <1>1
    <3>2. QED
      BY <1>8, <3>1, DrawCompStrStep DEF serverVars
  <2>2. QED
    BY <2>1, <1>7
<1>9. ASSUME NEW i \in DOMAIN ics, HandleEnd(i)
      PROVE  \A j \in 1 .. Len(ics') : NewestAt(j)'
  <2>1. /\ events # <<>> /\ events' = Tail(events) /\ Head(events).kind = "EndComposition"
        /\ contexts' = contexts /\ committed' = committed /\ Len(ics') = Len(ics)
    BY <1>9, HandleEndStep DEF serverVars
  <2>2. QED
    BY <2>1, <1>7
<1>10. CASE Quiet
  <2>1. CASE events' = events
    BY <1>10, <2>1 DEF Quiet, NewestAt, ResultQueued, Notify
  <2>2. CASE events # <<>> /\ events' = Tail(events) /\ Head(events).kind # "ResultStr"
    BY <1>7, <1>10, <2>2 DEF Quiet
  <2>3. QED
    BY <1>10, <2>1, <2>2 DEF Quiet
<1>11. QED
  BY <1>2, <1>3, <1>4, <1>5, <1>6, <1>8, <1>9, <1>10, Steps, QuietStutter

LEMMA NewestCommittedStep == Base /\ NewestCommitted /\ [Next]_vars => NewestCommitted'
<1>1. Base' => (NewestCommitted' <=> Newest')
  BY NewestIs, PTL
<1>2. Base /\ Base' /\ [Next]_vars /\ Newest => Newest'
  BY NewestStep DEF Newest
<1>3. QED
  BY <1>1, <1>2, NewestIs, BaseStep

LEMMA NewestCommittedInit == Init => NewestCommitted
BY DEF Init, NewestCommitted

(* Whatever the IME does between the announcement of a result and its being *)
(* fetched, no result is committed before its time, and the newest one is   *)
(* committed or still announced.                                           *)
THEOREM NewestResultCommitted == Spec => []NewestCommitted
BY AlwaysBase, NewestCommittedInit, NewestCommittedStep, PTL DEF Spec

(* Since the result read is the context's newest, no step commits an older  *)
(* one than the one before.                                                *)
THEOREM ResultsStayInOrder == Spec => ResultsInOrder
<1> DEFINE InOrder == \A i \in DOMAIN committed : committed'[i] >= committed[i]
<1>1. Base /\ NewestCommitted /\ [Next]_vars => [InOrder]_vars
  <2> SUFFICES ASSUME Base, NewestCommitted, [Next]_vars
               PROVE  InOrder
    OBVIOUS
  <2>1. /\ \A i \in 1 .. Len(ics) : NewestAt(i) /\ committed[i] \in Nat
        /\ DOMAIN committed = 1 .. Len(ics) /\ DOMAIN ics = 1 .. Len(ics) /\ Len(ics) \in Nat
    BY NewestIs, BaseViews, LenProperties DEF Newest
  <2>2. CASE committed' = committed
    BY <2>1, <2>2
  <2>3. ASSUME NEW style \in Styles, CreateIC(style)
        PROVE  InOrder
    <3>1. \A j \in 1 .. Len(ics) : committed'[j] = committed[j]
      BY <2>3, CreateClient
    <3>2. QED
      BY <2>1, <3>1
  <2>4. ASSUME NEW i \in DOMAIN ics, HandleResultStr(i)
        PROVE  InOrder
    <3>1. /\ contexts[i].result \in Nat
          /\ \A j \in 1 .. Len(ics) :
               committed'[j] = IF j = i THEN contexts[i].result ELSE committed[j]
      BY <2>4, HandleResultStep
    <3>2. QED
      BY <2>1, <3>1 DEF NewestAt
  <2>5. ASSUME NEW k, StartComposition(k) \/ Composition(k) \/ EndComposition(k)
        PROVE  committed' = committed
    BY <2>5, StartStep, CompositionEffect, EndStep
  <2>6. ServeRequest => committed' = committed
    BY ServeEffect
  <2>7. ASSUME NEW i \in DOMAIN ics, DrawCompStr(i) \/ HandleEnd(i)
        PROVE  committed' = committed
    BY <2>7, DrawCompStrStep, HandleEndStep
  <2>8. QED
    BY <2>2, <2>3, <2>4, <2>5, <2>6, <2>7, Steps, QuietStutter DEF Quiet
<1>2. Spec => [][InOrder]_vars
  BY <1>1, AlwaysBase, NewestResultCommitted, PTL DEF Spec
<1>3. QED
  BY <1>2 DEF ResultsInOrder

-----------------------------------------------------------------------------
(* The ids of the callback messages.                                       *)

IdAt(i) ==
  /\ ics[i].icid \in {0, i}
  /\ ics[i].icid = 0 => committed[i] = 0 /\ preedit[i] = 0

(* pCallData of an IC names it once something was drawn or committed.       *)
Named ==
  /\ lastCallback.for \in 0 .. Len(ics)
  /\ CallbackNamesIC
  /\ \A i \in 1 .. Len(ics) : IdAt(i)

LEMMA NamedInit == Init => Named
BY DEF Init, Named, CallbackNamesIC

LEMMA CalledBack ==
  ASSUME Next
  PROVE  \/ UNCHANGED <<lastCallback, ics, committed, preedit>>
         \/ \E style \in Styles : CreateIC(style)
         \/ \E i \in DOMAIN ics :
              HandleStart(i) \/ DrawCompStr(i) \/ HandleResultStr(i) \/ HandleEnd(i)
BY DEF Next, Ime, ClientRequests, ImServer, ServeRequest, Activate, ImeMessage, StartComposition,
       Composition, EndComposition, ChangeFocus, AskForText, ReadCompStr, ReadCompAttr,
       IgnoreEvent, clientVars

(* A draw enters the id.                                                   *)
LEMMA NamedByDraw ==
  ASSUME Base, Named, NEW i \in 1 .. Len(ics),
         Len(ics') = Len(ics), ics'[i].icid = i,
         \A j \in 1 .. Len(ics) :
           j # i => ics'[j] = ics[j] /\ preedit'[j] = preedit[j] /\ committed'[j] = committed[j],
         lastCallback'.icid = i, lastCallback'.for = i
  PROVE  Named'
<1>1. Len(ics) \in Nat /\ i \in Nat \ {0}
  BY BaseViews
<1>2. IdAt(i)'
  BY <1>1 DEF IdAt
<1>3. ASSUME NEW j \in 1 .. Len(ics), j # i
      PROVE  IdAt(j)'
  BY <1>3 DEF Named, IdAt
<1>4. QED
  BY <1>1, <1>2, <1>3 DEF Named, CallbackNamesIC

LEMMA NamedNext ==
  ASSUME Base, Named, Next
  PROVE  Named'
<1>1. Len(ics) \in Nat /\ DOMAIN ics = 1 .. Len(ics)
  BY BaseViews
<1>2. CASE UNCHANGED <<lastCallback, ics, committed, preedit>>
  BY <1>2 DEF Named, CallbackNamesIC, IdAt
<1>3. ASSUME NEW style \in Styles, CreateIC(style)
      PROVE  Named'
  <2>1. /\ Len(ics') = Len(ics) + 1
        /\ \A j \in 1 .. Len(ics) : ics'[j] = ics[j]
        /\ ics'[Len(ics) + 1] = NewIC(Len(ics) + 1, style)
    BY <1>3, CreateStep
  <2>2. /\ \A j \in 1 .. Len(ics) : preedit'[j] = preedit[j] /\ committed'[j] = committed[j]
        /\ preedit'[Len(ics) + 1] = 0 /\ committed'[Len(ics) + 1] = 0
        /\ lastCallback' = lastCallback
    BY <1>3, CreateClient
  <2>3. ASSUME NEW j \in 1 .. Len(ics)
        PROVE  IdAt(j)'
    BY <2>1, <2>2 DEF Named, IdAt
  <2>4. ASSUME NEW j, j = Len(ics) + 1
        PROVE  IdAt(j)'
    BY <2>1, <2>2, <2>4 DEF IdAt, NewIC
  <2>5. CallbackNamesIC'
    <3>1. lastCallback.for # 0 => lastCallback.for \in 1 .. Len(ics)
      BY <1>1 DEF Named
    <3>2. QED
      BY <2>2, <3>1 DEF Named, CallbackNamesIC
  <2>6. QED
    BY <1>1, <2>1, <2>2, <2>3, <2>4, <2>5 DEF Named
<1>4. ASSUME NEW i \in DOMAIN ics, HandleStart(i)
      PROVE  Named'
  <2>1. /\ CallCallback("PREEDIT_START", i, ics[i].icid)
        /\ UNCHANGED <<ics, preedit, committed>>
    BY <1>4 DEF HandleStart
  <2>2. lastCallback'.icid = ics[i].icid /\ lastCallback'.for = i
    BY <2>1 DEF CallCallback
  <2>3. QED
    BY <1>1, <2>1, <2>2 DEF Named, CallbackNamesIC, IdAt
<1>5. ASSUME NEW i \in DOMAIN ics, DrawCompStr(i)
      PROVE  Named'
  <2>1. /\ UNCHANGED committed /\ reading.str \in Nat
        /\ reading.str = 0 => UNCHANGED <<lastCallback, preedit, shown, ics>>
        /\ reading.str > 0 => \E feedback, caret \in Nat : Draw(i, reading.str, feedback, caret)
    BY <1>5, DrawCompStrStep
  <2>2. CASE reading.str = 0
    BY <1>2, <2>1, <2>2
  <2>3. CASE reading.str > 0
    <3>1. PICK feedback, caret \in Nat : Draw(i, reading.str, feedback, caret)
      BY <2>1, <2>3
    <3>2. /\ Len(ics') = Len(ics) /\ ics'[i].icid = i
          /\ \A j \in 1 .. Len(ics) : j # i => ics'[j] = ics[j]
          /\ \A j \in 1 .. Len(ics) : j # i => preedit'[j] = preedit[j]
          /\ lastCallback'.icid = i /\ lastCallback'.for = i
      BY <1>1, <2>1, <3>1, DrawBase
    <3>3. QED
      BY <1>1, <2>1, <3>2, NamedByDraw
  <2>4. QED
    BY <2>1, <2>2, <2>3
<1>6. ASSUME NEW i \in DOMAIN ics, HandleResultStr(i)
      PROVE  Named'
  <2>1. /\ Draw(i, 0, 0, 0)
        /\ \A j \in 1 .. Len(ics) : j # i => committed'[j] = committed[j]
    BY <1>6, HandleResultStep
  <2>2. /\ Len(ics') = Len(ics) /\ ics'[i].icid = i
        /\ \A j \in 1 .. Len(ics) : j # i => ics'[j] = ics[j]
        /\ \A j \in 1 .. Len(ics) : j # i => preedit'[j] = preedit[j]
        /\ lastCallback'.icid = i /\ lastCallback'.for = i
    BY <1>1, <2>1, DrawBase
  <2>3. QED
    BY <1>1, <2>1, <2>2, NamedByDraw
<1>7. ASSUME NEW i \in DOMAIN ics, HandleEnd(i)
      PROVE  Named'
  <2>1. /\ Len(ics') = Len(ics) /\ committed' = committed
        /\ ics'[i].icid \in {ics[i].icid, i} /\ (ics'[i].icid = 0 => ics' = ics)
        /\ \A j \in 1 .. Len(ics) : j # i => ics'[j] = ics[j]
        /\ \A j \in 1 .. Len(ics) : preedit'[j] = IF j = i THEN 0 ELSE preedit[j]
        /\ lastCallback'.icid = ics'[i].icid /\ lastCallback'.for = i
    BY <1>7, HandleEndStep
  <2>2. IdAt(i)'
    BY <1>1, <2>1 DEF Named, IdAt
  <2>3. ASSUME NEW j \in 1 .. Len(ics), j # i
        PROVE  IdAt(j)'
    BY <2>1, <2>3 DEF Named, IdAt
  <2>4. CallbackNamesIC'
    BY <2>1, <2>2 DEF CallbackNamesIC, IdAt
  <2>5. QED
    BY <1>1, <2>1, <2>2, <2>3, <2>4 DEF Named
<1>8. QED
  BY <1>2, <1>3, <1>4, <1>5, <1>6, <1>7, CalledBack

LEMMA NamedStep == Base /\ Named /\ [Next]_vars => Named'
<1>1. CASE Next
  BY <1>1, NamedNext
<1>2. CASE UNCHANGED vars
  BY <1>2 DEF vars, clientVars, Named, CallbackNamesIC, IdAt
<1>3. QED
  BY <1>1, <1>2

(* The id that pCallData holds for an IC is its own or still unset, so that *)
(* every callback names the IC it is sent for, or 0 before the first draw.  *)
THEOREM CallbacksNameIC == Spec => []CallbackNamesIC
<1>1. Named => CallbackNamesIC
  BY DEF Named
<1>2. QED
  BY <1>1, AlwaysBase, NamedInit, NamedStep, PTL DEF Spec

-----------------------------------------------------------------------------
(* The end of compositions.                                                *)

(* Event n ends the composition of context i, and none follows it.          *)
EndsAt(i, n) ==
  /\ events[n] = Notify("EndComposition", i)
  /\ \A m \in n + 1 .. Len(events) : events[m].context # i

(* When no composition goes on in a context, either nothing about it is     *)
(* queued and nothing displayed, or its last event ends the composition.    *)
EndedAt(i) ==
  ~composing[i] =>
    \/ preedit[i] = 0 /\ \A n \in 1 .. Len(events) : events[n].context # i
    \/ \E n \in 1 .. Len(events) : EndsAt(i, n)

Ended == \A i \in 1 .. Len(ics) : EndedAt(i)

LEMMA EndedImplies == Base /\ Ended => NoPreeditLeft
<1> SUFFICES ASSUME Base, Ended, NEW i \in DOMAIN ics,
                    ~composing[ics[i].context],
                    \A n \in DOMAIN events : events[n].context # ics[i].context
             PROVE  preedit[i] = 0
  BY DEF NoPreeditLeft
<1>1. i \in 1 .. Len(ics) /\ ics[i].context = i /\ DOMAIN events = 1 .. Len(events)
  BY BaseViews, LenProperties
<1>2. \A n \in 1 .. Len(events) : events[n].context # i
  BY <1>1
<1>3. \A n \in 1 .. Len(events) : ~EndsAt(i, n)
  BY <1>2 DEF EndsAt, Notify
<1>4. EndedAt(i) /\ ~composing[i]
  BY <1>1 DEF Ended
<1>5. QED
  BY <1>2, <1>3, <1>4 DEF EndedAt

LEMMA EndedInit == Init => Ended
BY DEF Init, Ended

(* An event about another context does not disturb the end of this one.     *)
LEMMA EndedGrow ==
  ASSUME NEW k, EventsGrow(k), NEW i, i # k, EndedAt(i),
         composing'[i] = composing[i], preedit'[i] = preedit[i]
  PROVE  EndedAt(i)'
<1> SUFFICES ASSUME ~composing'[i]
             PROVE  \/ /\ preedit'[i] = 0
                       /\ \A n \in 1 .. Len(events') : events'[n].context # i
                    \/ \E n \in 1 .. Len(events') : EndsAt(i, n)'
  BY DEF EndedAt
<1>1. /\ Len(events) \in Nat /\ Len(events') \in Nat /\ Len(events) <= Len(events')
      /\ \A n \in 1 .. Len(events) : events'[n] = events[n]
      /\ \A n \in Len(events) + 1 .. Len(events') : events'[n].context # i
  BY DEF EventsGrow
<1>2. CASE preedit[i] = 0 /\ \A n \in 1 .. Len(events) : events[n].context # i
  <2>1. ASSUME NEW n \in 1 .. Len(events')
        PROVE  events'[n].context # i
    <3>1. n \in 1 .. Len(events) \/ n \in Len(events) + 1 .. Len(events')
      BY <1>1
    <3>2. QED
      BY <1>1, <1>2, <3>1
  <2>2. QED
    BY <1>2, <2>1
<1>3. CASE \E n \in 1 .. Len(events) : EndsAt(i, n)
  <2>1. PICK n \in 1 .. Len(events) : EndsAt(i, n)
    BY <1>3
  <2>2. n \in 1 .. Len(events') /\ events'[n] = Notify("EndComposition", i)
    BY <1>1, <2>1 DEF EndsAt
  <2>3. ASSUME NEW m \in n + 1 .. Len(events')
        PROVE  events'[m].context # i
    <3>1. m \in n + 1 .. Len(events) \/ m \in Len(events) + 1 .. Len(events')
      BY <1>1
    <3>2. m \in n + 1 .. Len(events) => m \in 1 .. Len(events)
      BY <1>1
    <3>3. QED
      BY <1>1, <2>1, <3>1, <3>2 DEF EndsAt
  <2>4. EndsAt(i, n)'
    BY <2>2, <2>3 DEF EndsAt, Notify
  <2>5. QED
    BY <2>2, <2>4
<1>4. QED
  BY <1>2, <1>3 DEF EndedAt

(* Nor does the handling of an event, unless it is the one at the end.      *)
LEMMA EndedTail ==
  ASSUME Base, events # <<>>, events' = Tail(events), NEW i \in 1 .. Len(ics), EndedAt(i),
         composing'[i] = composing[i],
         \/ preedit'[i] = 0
         \/ /\ preedit'[i] = preedit[i] \/ Head(events).context = i
            /\ Head(events) # Notify("EndComposition", i)
  PROVE  EndedAt(i)'
<1> SUFFICES ASSUME ~composing'[i]
             PROVE  \/ /\ preedit'[i] = 0
                       /\ \A n \in 1 .. Len(events') : events'[n].context # i
                    \/ \E n \in 1 .. Len(events') : EndsAt(i, n)'
  BY DEF EndedAt
<1>1. /\ Len(events) \in Nat \ {0} /\ Len(events') = Len(events) - 1
      /\ \A n \in 1 .. Len(events') : events'[n] = events[n + 1]
      /\ Head(events) = events[1]
  BY TailEvents
<1>2. CASE preedit[i] = 0 /\ \A n \in 1 .. Len(events) : events[n].context # i
  <2>1. \A n \in 1 .. Len(events') : n + 1 \in 1 .. Len(events)
    BY <1>1
  <2>2. Head(events).context # i
    BY <1>1, <1>2
  <2>3. QED
    BY <1>1, <1>2, <2>1, <2>2
<1>3. CASE \E n \in 1 .. Len(events) : EndsAt(i, n)
  <2>1. PICK n \in 1 .. Len(events) : EndsAt(i, n)
    BY <1>3
  <2>2. CASE n = 1
    <3>1. preedit'[i] = 0
      BY <1>1, <2>1, <2>2 DEF EndsAt
    <3>2. ASSUME NEW m \in 1 .. Len(events')
          PROVE  events'[m].context # i
      <4>1. m + 1 \in n + 1 .. Len(events)
        BY <1>1, <2>2
      <4>2. QED
        BY <1>1, <2>1, <4>1 DEF EndsAt
    <3>3. QED
      BY <3>1, <3>2
  <2>3. CASE n # 1
    <3>1. n - 1 \in 1 .. Len(events') /\ (n - 1) + 1 = n
      BY <1>1, <2>3
    <3>2. events'[n - 1] = Notify("EndComposition", i)
      BY <1>1, <2>1, <3>1 DEF EndsAt
    <3>3. ASSUME NEW m \in (n - 1) + 1 .. Len(events')
          PROVE  events'[m].context # i
      <4>1. m + 1 \in n + 1 .. Len(events) /\ m \in 1 .. Len(events')
        BY <1>1, <3>1
      <4>2. QED
        BY <1>1, <2>1, <4>1 DEF EndsAt
    <3>4. EndsAt(i, n - 1)'
      BY <3>2, <3>3 DEF EndsAt, Notify
    <3>5. QED
      BY <3>1, <3>4
  <2>4. QED
    BY <2>2, <2>3
<1>4. QED
  BY <1>2, <1>3 DEF EndedAt

LEMMA EndedSame ==
  ASSUME Ended, events' = events, composing' = composing, preedit' = preedit, Len(ics') = Len(ics)
  PROVE  Ended'
<1>1. ASSUME NEW i, NEW n
      PROVE  EndsAt(i, n)' <=> EndsAt(i, n)
  BY DEF EndsAt, Notify
<1>2. ASSUME NEW i \in 1 .. Len(ics)
      PROVE  EndedAt(i)'
  BY <1>1 DEF Ended, EndedAt
<1>3. QED
  BY <1>2 DEF Ended

LEMMA EndedNext ==
  ASSUME Base, Ended, Next
  PROVE  Ended'
<1>1. Len(ics) \in Nat /\ DOMAIN ics = 1 .. Len(ics)
  BY BaseViews
<1>2. ASSUME NEW k, StartComposition(k)
      PROVE  Ended'
  <2>1. /\ k \in 1 .. Len(ics) /\ EventsGrow(k) /\ UNCHANGED <<ics, preedit>>
        /\ composing'[k] /\ \A j \in 1 .. Len(ics) : j # k => composing'[j] = composing[j]
    BY <1>2, StartStep
  <2>2. EndedAt(k)'
    BY <2>1 DEF EndedAt
  <2>3. ASSUME NEW i \in 1 .. Len(ics), i # k
        PROVE  EndedAt(i)'
    BY <2>1, <2>3, EndedGrow DEF Ended
  <2>4. QED
    BY <2>1, <2>2, <2>3 DEF Ended
<1>3. ASSUME NEW k, Composition(k)
      PROVE  Ended'
  <2>1. /\ k \in 1 .. Len(ics) /\ EventsGrow(k) /\ UNCHANGED <<ics, preedit, composing>>
        /\ composing[k]
    BY <1>3, CompositionEffect
  <2>2. EndedAt(k)'
    BY <2>1 DEF EndedAt
  <2>3. ASSUME NEW i \in 1 .. Len(ics), i # k
        PROVE  EndedAt(i)'
    BY <2>1, <2>3, EndedGrow DEF Ended
  <2>4. QED
    BY <2>1, <2>2, <2>3 DEF Ended
<1>4. ASSUME NEW k, EndComposition(k)
      PROVE  Ended'
  <2>1. /\ k \in 1 .. Len(ics) /\ EventsGrow(k) /\ UNCHANGED <<ics, preedit>>
        /\ Len(events') > 0 /\ events'[Len(events')] = Notify("EndComposition", k)
        /\ \A j \in 1 .. Len(ics) : j # k => composing'[j] = composing[j]
    BY <1>4, EndStep
  <2>2. EndedAt(k)'
    <3>1. Len(events') \in Nat /\ Len(events') \in 1 .. Len(events')
      BY <2>1 DEF EventsGrow
    <3>2. ASSUME NEW n, n = Len(events')
          PROVE  EndsAt(k, n)'
      BY <2>1, <3>1, <3>2 DEF EndsAt, Notify
    <3>3. QED
      BY <3>1, <3>2 DEF EndedAt
  <2>3. ASSUME NEW i \in 1 .. Len(ics), i # k
        PROVE  EndedAt(i)'
    BY <2>1, <2>3, EndedGrow DEF Ended
  <2>4. QED
    BY <2>1, <2>2, <2>3 DEF Ended
<1>5. CASE ServeRequest
  BY <1>5, ServeEffect, EndedSame
<1>6. ASSUME NEW style \in Styles, CreateIC(style)
      PROVE  Ended'
  <2>1. Len(ics') = Len(ics) + 1
    BY <1>6, CreateStep
  <2>2. /\ \A j \in 1 .. Len(ics) : preedit'[j] = preedit[j] /\ composing'[j] = composing[j]
        /\ preedit'[Len(ics) + 1] = 0 /\ events' = events
    BY <1>6, CreateClient
  <2>3. ASSUME NEW j \in 1 .. Len(ics)
        PROVE  EndedAt(j)'
    BY <2>2 DEF Ended, EndedAt, EndsAt, Notify
  <2>4. ASSUME NEW j, j = Len(ics) + 1
        PROVE  EndedAt(j)'
    <3>1. \A n \in 1 .. Len(events) : events[n].context # j
      BY <1>1, <2>4, BaseViews
    <3>2. QED
      BY <2>2, <2>4, <3>1 DEF EndedAt
  <2>5. QED
    BY <1>1, <2>1, <2>3, <2>4 DEF Ended
<1>7. ASSUME NEW i \in DOMAIN ics, Len(ics') = Len(ics), composing' = composing,
             events # <<>>, events' = Tail(events), Head(events).context = i,
             \/ Head(events).kind # "EndComposition"
             \/ preedit'[i] = 0,
             \A j \in 1 .. Len(ics) : j # i => preedit'[j] = preedit[j]
      PROVE  Ended'
  <2>1. EndedAt(i)'
    <3>1. Head(events) # Notify("EndComposition", i) \/ preedit'[i] = 0
      BY <1>7 DEF Notify
    <3>2. QED
      BY <1>1, <1>7, <3>1, EndedTail DEF Ended
  <2>2. ASSUME NEW j \in 1 .. Len(ics), j # i
        PROVE  EndedAt(j)'
    <3>1. Head(events) # Notify("EndComposition", j)
      BY <1>7, <2>2 DEF Notify
    <3>2. QED
      BY <1>7, <2>2, <3>1, EndedTail DEF Ended
  <2>3. QED
    BY <1>7, <2>1, <2>2 DEF Ended
<1>8. ASSUME NEW i \in DOMAIN ics, DrawCompStr(i)
      PROVE  Ended'
  <2>1. /\ events # <<>> /\ events' = Tail(events)
        /\ Head(events).kind = "CompStr" /\ Head(events).context = i
        /\ composing' = composing /\ reading.str \in Nat
        /\ reading.str = 0 => UNCHANGED <<lastCallback, preedit, shown, ics>>
        /\ reading.str > 0 => \E feedback, caret \in Nat : Draw(i, reading.str, feedback, caret)
    BY <1>8, DrawCompStrStep DEF imeVars
  <2>2. Len(ics') = Len(ics) /\ \A j \in 1 .. Len(ics) : j # i => preedit'[j] = preedit[j]
    BY <1>1, <2>1, DrawBase
  <2>3. QED
    BY <1>7, <2>1, <2>2
<1>9. ASSUME NEW i \in DOMAIN ics, HandleResultStr(i)
      PROVE  Ended'
  <2>1. /\ events # <<>> /\ events' = Tail(events)
        /\ Head(events).kind = "ResultStr" /\ Head(events).context = i
        /\ composing' = composing /\ Draw(i, 0, 0, 0)
    BY <1>9, HandleResultStep DEF imeVars
  <2>2. Len(ics') = Len(ics) /\ \A j \in 1 .. Len(ics) : j # i => preedit'[j] = preedit[j]
    BY <1>1, <2>1, DrawBase
  <2>3. QED
    BY <1>7, <2>1, <2>2
<1>10. ASSUME NEW i \in DOMAIN ics, HandleEnd(i)
       PROVE  Ended'
  <2>1. /\ events # <<>> /\ events' = Tail(events) /\ Head(events).context = i
        /\ composing' = composing /\ Len(ics') = Len(ics)
        /\ \A j \in 1 .. Len(ics) : preedit'[j] = IF j = i THEN 0 ELSE preedit[j]
    BY <1>10, HandleEndStep DEF imeVars
  <2>2. QED
    BY <1>1, <1>7, <2>1
<1>11. CASE Quiet
  <2>1. CASE events' = events
    BY <1>11, <2>1, EndedSame DEF Quiet
  <2>2. CASE events # <<>> /\ events' = Tail(events) /\ Head(events).kind # "EndComposition"
    <3>1. Len(ics') = Len(ics) /\ composing' = composing /\ preedit' = preedit
      BY <1>11 DEF Quiet
    <3>2. ASSUME NEW j \in 1 .. Len(ics)
          PROVE  EndedAt(j)'
      <4>1. Head(events) # Notify("EndComposition", j)
        BY <2>2 DEF Notify
      <4>2. QED
        BY <2>2, <3>1, <4>1, EndedTail DEF Ended
    <3>3. QED
      BY <3>1, <3>2 DEF Ended
  <2>3. QED
    BY <1>11, <2>1, <2>2 DEF Quiet
<1>12. QED
  BY <1>2, <1>3, <1>4, <1>5, <1>6, <1>8, <1>9, <1>10, <1>11, Steps

LEMMA EndedStep == Base /\ Ended /\ [Next]_vars => Ended'
<1>1. CASE Next
  BY <1>1, EndedNext
<1>2. CASE UNCHANGED vars
  BY <1>2, EndedSame DEF vars, imeVars, clientVars
<1>3. QED
  BY <1>1, <1>2

(* However late the IM server fetches the text it draws, the client is left *)
(* with no preedit once the composition and its events are over.           *)
THEOREM NothingLeft == Spec => []NoPreeditLeft
BY AlwaysBase, EndedInit, EndedStep, EndedImplies, PTL DEF Spec

-----------------------------------------------------------------------------
(* Who draws.                                                              *)

(* fCompositionDraw of context i is what the style of the IC asks for.      *)
DrawSet(i) == contexts[i].draw = (ics[i].style \notin {"callbacks", "none"})

(* Request m sets it, and no request before gives IC i the focus.           *)
DrawQueued(i, m) ==
  /\ requests[m].op = "SetCompositionDraw" /\ requests[m].context = i
  /\ \A n \in 1 .. m - 1 : requests[n].context # i

DrawAt(i) == DrawSet(i) \/ \E m \in 1 .. Len(requests) : DrawQueued(i, m)

(* What is queued asks for what the style says.                            *)
RequestOK(n) ==
  requests[n].op = "SetCompositionDraw"
    => /\ ics[requests[n].context].style # "none"
       /\ requests[n].value = (ics[requests[n].context].style # "callbacks")

Drawing ==
  /\ \A i \in 1 .. Len(ics) : DrawAt(i)
  /\ \A n \in 1 .. Len(requests) : RequestOK(n)
  /\ \A w \in Windows, i \in 1 .. Len(ics) : associated[w] = i => DrawSet(i)

LEMMA DrawingImplies == Base /\ Drawing => DrawnByOne
<1> SUFFICES ASSUME Base, Drawing, NEW w \in Windows, NEW i \in DOMAIN ics,
                    associated[w] = ics[i].context
             PROVE  contexts[ics[i].context].draw = (ics[i].style \notin {"callbacks", "none"})
  BY DEF DrawnByOne
<1>1. i \in 1 .. Len(ics) /\ ics[i].context = i
  BY BaseViews
<1>2. DrawSet(i)
  BY <1>1 DEF Drawing
<1>3. QED
  BY <1>1, <1>2 DEF DrawSet

LEMMA DrawingInit == Init => Drawing
BY DEF Init, Drawing

(* What the other steps leave alone.                                       *)
LEMMA DrawingKept ==
  ASSUME Base, Drawing,
         requests' = requests, associated' = associated, Len(ics') = Len(ics),
         \A j \in 1 .. Len(ics) :
           ics'[j].style = ics[j].style /\ contexts'[j].draw = contexts[j].draw
  PROVE  Drawing'
<1>1. ASSUME NEW i \in 1 .. Len(ics)
      PROVE  DrawSet(i)' <=> DrawSet(i)
  BY DEF DrawSet
<1>2. ASSUME NEW i \in 1 .. Len(ics)
      PROVE  DrawAt(i)'
  BY <1>1 DEF Drawing, DrawAt, DrawQueued
<1>3. ASSUME NEW n \in 1 .. Len(requests)
      PROVE  RequestOK(n)'
  <2>1. requests[n].context \in 1 .. Len(ics)
    BY DEF Base, IndexOK
  <2>2. QED
    BY <2>1 DEF Drawing, RequestOK
<1>4. QED
  BY <1>1, <1>2, <1>3 DEF Drawing

(* Serving a request moves the others up.                                  *)
LEMMA TailRequests ==
  ASSUME Base, requests # <<>>, requests' = Tail(requests)
  PROVE  /\ Len(requests) \in Nat \ {0} /\ Len(requests') = Len(requests) - 1
         /\ \A n \in 1 .. Len(requests') : requests'[n] = requests[n + 1]
         /\ Head(requests) = requests[1] /\ requests[1] \in Request
         /\ \A n \in 1 .. Len(requests) : requests[n].context \in 1 .. Len(ics)
<1>1. requests \in Seq(Request) /\ Len(requests) \in Nat \ {0}
  BY EmptySeq DEF Base, TypeOK
<1>2. /\ Len(requests') = Len(requests) - 1
      /\ \A n \in 1 .. Len(requests') : requests'[n] = requests[n + 1]
      /\ Head(requests) = requests[1]
  BY <1>1, HeadTailProperties
<1>3. requests[1] \in Request
  BY <1>1, ElementOfSeq
<1>4. QED
  BY <1>1, <1>2, <1>3 DEF Base, IndexOK

LEMMA DrawQueuedTail ==
  ASSUME Base, requests # <<>>, requests' = Tail(requests),
         NEW i, NEW m \in 1 .. Len(requests), m # 1, DrawQueued(i, m)
  PROVE  m - 1 \in 1 .. Len(requests') /\ DrawQueued(i, m - 1)'
<1>1. /\ Len(requests) \in Nat \ {0} /\ Len(requests') = Len(requests) - 1
      /\ \A n \in 1 .. Len(requests') : requests'[n] = requests[n + 1]
  BY TailRequests
<1>2. m - 1 \in 1 .. Len(requests') /\ (m - 1) + 1 = m
  BY <1>1
<1>3. requests'[m - 1] = requests[m]
  BY <1>1, <1>2
<1>4. ASSUME NEW n \in 1 .. (m - 1) - 1
      PROVE  requests'[n].context # i
  <2>1. n \in 1 .. Len(requests') /\ n + 1 \in 1 .. m - 1
    BY <1>1, <1>2
  <2>2. QED
    BY <1>1, <2>1 DEF DrawQueued
<1>5. QED
  BY <1>2, <1>3, <1>4 DEF DrawQueued

LEMMA DrawingServed ==
  ASSUME Base, Drawing, ServeRequest
  PROVE  Drawing'
<1> DEFINE r == Head(requests)
           k == r.context
<1>1. /\ requests # <<>> /\ requests' = Tail(requests) /\ ics' = ics
      /\ \/ r.op = "SetFocus" /\ SetFocus(k, r.value)
         \/ r.op = "SetCompositionDraw" /\ SetCompositionDraw(k, r.value)
  BY DEF ServeRequest
<1>2. /\ Len(requests) \in Nat \ {0} /\ Len(requests') = Len(requests) - 1
      /\ \A n \in 1 .. Len(requests') : requests'[n] = requests[n + 1]
      /\ r = requests[1] /\ r \in Request
      /\ \A n \in 1 .. Len(requests) : requests[n].context \in 1 .. Len(ics)
  BY <1>1, TailRequests
<1>3. /\ k \in 1 .. Len(ics) /\ Len(ics) \in Nat
      /\ contexts \in Seq(Context) /\ Len(contexts) = Len(ics)
  BY <1>2, BaseViews
<1>4. \A n \in 1 .. Len(requests') : RequestOK(n)'
  <2> SUFFICES ASSUME NEW n \in 1 .. Len(requests')
               PROVE  RequestOK(n)'
    OBVIOUS
  <2>1. n + 1 \in 1 .. Len(requests) /\ requests'[n] = requests[n + 1]
    BY <1>2
  <2>2. RequestOK(n + 1)
    BY <2>1 DEF Drawing
  <2>3. QED
    BY <1>1, <2>1, <2>2 DEF RequestOK
<1>5. CASE r.op = "SetFocus" /\ SetFocus(k, r.value)
  <2>1. contexts' = contexts
    BY <1>5 DEF SetFocus
  <2>2. ASSUME NEW i
        PROVE  DrawSet(i)' <=> DrawSet(i)
    BY <1>1, <2>1 DEF DrawSet
  <2>3. ASSUME NEW i \in 1 .. Len(ics), ~DrawSet(i)
        PROVE  \E m \in 1 .. Len(requests) : DrawQueued(i, m) /\ m # 1 /\ k # i
    <3>1. PICK m \in 1 .. Len(requests) : DrawQueued(i, m)
      BY <2>3 DEF Drawing, DrawAt
    <3>2. m # 1
      BY <1>2, <1>5, <3>1 DEF DrawQueued
    <3>3. 1 \in 1 .. m - 1
      BY <1>2, <3>2
    <3>4. k # i
      BY <1>2, <3>1, <3>3 DEF DrawQueued
    <3>5. QED
      BY <3>1, <3>2, <3>4
  <2>4. ASSUME NEW i \in 1 .. Len(ics)
        PROVE  DrawAt(i)'
    <3>1. CASE DrawSet(i)
      BY <2>2, <3>1 DEF DrawAt
    <3>2. CASE ~DrawSet(i)
      <4>1. PICK m \in 1 .. Len(requests) : DrawQueued(i, m) /\ m # 1
        BY <2>3, <3>2
      <4>2. m - 1 \in 1 .. Len(requests') /\ DrawQueued(i, m - 1)'
        BY <1>1, <4>1, DrawQueuedTail
      <4>3. QED
        BY <4>2 DEF DrawAt
    <3>3. QED
      BY <3>1, <3>2
  <2>5. DrawSet(k)
    BY <1>3, <2>3
  <2>6. ASSUME NEW w \in Windows, NEW i \in 1 .. Len(ics), associated'[w] = i
        PROVE  DrawSet(i)
    <3>1. associated \in [Windows -> Nat] /\ active \in Windows \cup {NoWindow} /\ i # 0
      BY <1>3 DEF Base, TypeOK
    <3>2. /\ Dissociated \in [Windows -> Nat]
          /\ Dissociated[w] = associated[w] \/ Dissociated[w] = 0
      BY <3>1 DEF Dissociated
    <3>3. associated'[w] = associated[w] \/ associated'[w] = 0 \/ associated'[w] = k
      <4> HIDE DEF k, r
      <4>1. \/ associated' = associated \/ associated' = Dissociated
            \/ associated' = [Dissociated EXCEPT ![active] = k]
        BY <1>5 DEF SetFocus
      <4>2. QED
        BY <3>1, <3>2, <4>1
    <3>4. QED
      BY <2>5, <2>6, <3>1, <3>3 DEF Drawing
  <2>7. QED
    BY <1>1, <1>4, <2>2, <2>4, <2>6 DEF Drawing
<1>6. CASE r.op = "SetCompositionDraw" /\ SetCompositionDraw(k, r.value)
  <2>1. /\ contexts' = [contexts EXCEPT ![k].draw = r.value] /\ associated' = associated
    BY <1>6 DEF SetCompositionDraw
  <2>2. contexts[k] \in Context /\ k \in DOMAIN contexts /\ r.value \in BOOLEAN
    BY <1>2, <1>3, BaseViews, LenProperties DEF Request
  <2>3. ASSUME NEW i \in 1 .. Len(ics), i = k
        PROVE  DrawSet(i)'
    <3>1. contexts'[i].draw = r.value
      <4> DEFINE v == r.value
      <4>1. contexts' = [contexts EXCEPT ![i].draw = v] /\ contexts[i] \in Context /\ i \in DOMAIN contexts
        BY <2>1, <2>2, <2>3
      <4> HIDE DEF v
      <4>2. contexts'[i] = [contexts[i] EXCEPT !.draw = v]
        BY <4>1
      <4>3. contexts'[i].draw = v
        BY <4>1, <4>2 DEF Context
      <4>4. QED
        BY <4>3 DEF v
    <3>2. RequestOK(1)
      BY <1>2 DEF Drawing
    <3>3. ics'[i].style # "none" /\ r.value = (ics'[i].style # "callbacks")
      BY <1>1, <1>2, <1>6, <2>3, <3>2 DEF RequestOK
    <3>4. QED
      BY <3>1, <3>3 DEF DrawSet
  <2>4. ASSUME NEW i \in 1 .. Len(ics), i # k
        PROVE  DrawSet(i)' <=> DrawSet(i)
    <3>1. contexts'[i] = contexts[i]
      BY <1>3, <2>1, <2>2, <2>4, LenProperties
    <3>2. QED
      BY <1>1, <3>1 DEF DrawSet
  <2>5. ASSUME NEW i \in 1 .. Len(ics)
        PROVE  DrawAt(i)'
    <3>1. CASE i = k
      BY <2>3, <3>1 DEF DrawAt
    <3>2. CASE i # k /\ DrawSet(i)
      BY <2>4, <3>2 DEF DrawAt
    <3>3. CASE i # k /\ ~DrawSet(i)
      <4>1. PICK m \in 1 .. Len(requests) : DrawQueued(i, m)
        BY <3>3 DEF Drawing, DrawAt
      <4>2. m # 1
        BY <1>2, <3>3, <4>1 DEF DrawQueued
      <4>3. m - 1 \in 1 .. Len(requests') /\ DrawQueued(i, m - 1)'
        BY <1>1, <4>1, <4>2, DrawQueuedTail
      <4>4. QED
        BY <4>3 DEF DrawAt
    <3>4. QED
      BY <3>1, <3>2, <3>3
  <2>6. ASSUME NEW w \in Windows, NEW i \in 1 .. Len(ics), associated'[w] = i
        PROVE  DrawSet(i)'
    BY <2>1, <2>3, <2>4, <2>6 DEF Drawing
  <2>7. QED
    BY <1>1, <1>4, <2>5, <2>6 DEF Drawing
<1>7. QED
  BY <1>1, <1>5, <1>6

LEMMA DrawingCreate ==
  ASSUME Base, Drawing, NEW style \in Styles, CreateIC(style)
  PROVE  Drawing'
<1> DEFINE k == Len(ics) + 1
<1>1. Len(ics) \in Nat /\ k \in Nat
  BY BaseViews
<1>2. /\ requests = <<>> /\ requests' = StyleRequests(k, style)
      /\ Len(ics') = k /\ ics'[k] = NewIC(k, style) /\ contexts'[k] = NewContext
      /\ \A j \in 1 .. Len(ics) : ics'[j] = ics[j]
      /\ \A j \in 1 .. Len(ics) : contexts'[j] = contexts[j]
  BY CreateStep
<1>3. associated' = associated
  BY CreateClient
<1>4. ics'[k].style = style /\ contexts'[k].draw = FALSE
  BY <1>2 DEF NewIC, NewContext
<1>5. /\ \A n \in 1 .. Len(StyleRequests(k, style)) :
           /\ StyleRequests(k, style)[n].op = "SetCompositionDraw"
           /\ StyleRequests(k, style)[n].context = k
           /\ StyleRequests(k, style)[n].value = (style # "callbacks")
      /\ style # "none" => Len(StyleRequests(k, style)) = 1
  <2> HIDE DEF k
  <2> QED BY <1>1, StyleRequestsType
<1> HIDE DEF k
<1>6. ASSUME NEW i \in 1 .. Len(ics)
      PROVE  DrawSet(i) /\ DrawSet(i)' /\ DrawAt(i)'
  <2>1. Len(requests) = 0
    BY <1>2
  <2>2. DrawSet(i)
    BY <2>1 DEF Drawing, DrawAt
  <2>3. QED
    BY <1>2, <2>2 DEF DrawSet, DrawAt
<1>7. ASSUME NEW i, i = k
      PROVE  DrawAt(i)'
  <2>1. CASE style = "none"
    BY <1>4, <1>7, <2>1 DEF DrawAt, DrawSet
  <2>2. CASE style # "none"
    <3>1. /\ 1 \in 1 .. Len(requests') /\ requests'[1].op = "SetCompositionDraw"
          /\ requests'[1].context = i
      BY <1>2, <1>5, <1>7, <2>2
    <3>2. DrawQueued(i, 1)'
      BY <3>1 DEF DrawQueued
    <3>3. QED
      BY <3>1, <3>2 DEF DrawAt
  <2>3. QED
    BY <2>1, <2>2
<1>8. ASSUME NEW i \in 1 .. Len(ics')
      PROVE  DrawAt(i)'
  <2>1. i \in 1 .. Len(ics) \/ i = k
    BY <1>1, <1>2 DEF k
  <2>2. QED
    BY <1>6, <1>7, <2>1
<1>9. ASSUME NEW n \in 1 .. Len(requests')
      PROVE  RequestOK(n)'
  <2>1. requests'[n].context = k /\ requests'[n].value = (style # "callbacks") /\ style # "none"
    <3>1. style # "none"
      BY <1>2, <1>9 DEF StyleRequests
    <3>2. QED
      BY <1>2, <1>5, <1>9, <3>1
  <2>2. QED
    BY <1>4, <2>1 DEF RequestOK
<1>10. ASSUME NEW w \in Windows, NEW i \in 1 .. Len(ics'), associated'[w] = i
       PROVE  DrawSet(i)'
  <2>1. associated[w] \in 0 .. Len(ics)
    BY DEF Base, IndexOK
  <2>2. i \in 1 .. Len(ics)
    BY <1>1, <1>3, <1>10, <2>1
  <2>3. QED
    BY <1>6, <2>2
<1>11. QED
  BY <1>8, <1>9, <1>10 DEF Drawing

LEMMA DrawingFocus ==
  ASSUME Base, Drawing, NEW i \in DOMAIN ics, NEW focus \in BOOLEAN, ChangeFocus(i, focus)
  PROVE  Drawing'
<1> DEFINE r == [op |-> "SetFocus", context |-> ics[i].context, value |-> focus]
<1>1. /\ requests \in Seq(Request) /\ Len(requests) \in Nat
      /\ ics[i].context \in Nat
  BY BaseViews, LenProperties DEF Base, TypeOK, IMIC
<1>2. r \in Request /\ r.op = "SetFocus"
  BY <1>1 DEF Request
<1>3. requests' = Append(requests, r) /\ UNCHANGED <<ics, contexts, associated>>
  BY DEF ChangeFocus, serverVars
<1> HIDE DEF r
<1>4. /\ Len(requests') = Len(requests) + 1
      /\ \A n \in 1 .. Len(requests) : requests'[n] = requests[n]
      /\ requests'[Len(requests) + 1].op = "SetFocus"
  BY <1>1, <1>2, <1>3, AppendProperties
<1>5. ASSUME NEW j
      PROVE  DrawSet(j)' <=> DrawSet(j)
  BY <1>3 DEF DrawSet
<1>6. ASSUME NEW j \in 1 .. Len(ics)
      PROVE  DrawAt(j)'
  <2>1. CASE DrawSet(j)
    BY <1>5, <2>1 DEF DrawAt
  <2>2. CASE ~DrawSet(j)
    <3>1. PICK m \in 1 .. Len(requests) : DrawQueued(j, m)
      BY <2>2 DEF Drawing, DrawAt
    <3>2. m \in 1 .. Len(requests') /\ requests'[m] = requests[m]
      BY <1>1, <1>4
    <3>3. ASSUME NEW n \in 1 .. m - 1
          PROVE  requests'[n].context # j
      <4>1. n \in 1 .. Len(requests)
        BY <1>1
      <4>2. QED
        BY <1>4, <3>1, <4>1 DEF DrawQueued
    <3>4. DrawQueued(j, m)'
      BY <3>1, <3>2, <3>3 DEF DrawQueued
    <3>5. QED
      BY <3>2, <3>4 DEF DrawAt
  <2>3. QED
    BY <2>1, <2>2
<1>7. ASSUME NEW n \in 1 .. Len(requests')
      PROVE  RequestOK(n)'
  <2>1. n \in 1 .. Len(requests) \/ n = Len(requests) + 1
    BY <1>1, <1>4
  <2>2. CASE n \in 1 .. Len(requests)
    BY <1>3, <1>4, <2>2 DEF Drawing, RequestOK
  <2>3. CASE n = Len(requests) + 1
    BY <1>4, <2>3 DEF RequestOK
  <2>4. QED
    BY <2>1, <2>2, <2>3
<1>8. QED
  BY <1>3, <1>5, <1>6, <1>7 DEF Drawing

(* The other steps touch neither the styles nor fCompositionDraw.           *)
LEMMA DrawingOther ==
  ASSUME Base, Next
  PROVE  \/ ServeRequest
         \/ \E style \in Styles : CreateIC(style)
         \/ \E i \in DOMAIN ics, focus \in BOOLEAN : ChangeFocus(i, focus)
         \/ /\ requests' = requests /\ associated' = associated /\ Len(ics') = Len(ics)
            /\ \A j \in 1 .. Len(ics) :
                 ics'[j].style = ics[j].style /\ contexts'[j].draw = contexts[j].draw
<1> DEFINE Same == /\ requests' = requests /\ associated' = associated /\ Len(ics') = Len(ics)
                   /\ \A j \in 1 .. Len(ics) :
                        ics'[j].style = ics[j].style /\ contexts'[j].draw = contexts[j].draw
<1>1. ASSUME NEW k, StartComposition(k) \/ EndComposition(k)
      PROVE  Same
  BY <1>1, StartStep, EndStep
<1>2. ASSUME NEW k, Composition(k)
      PROVE  Same
  <2>1. /\ UNCHANGED <<requests, associated, ics>>
        /\ \A j \in 1 .. Len(ics) : j # k => contexts'[j] = contexts[j]
        /\ contexts'[k].draw = contexts[k].draw
    BY <1>2, CompositionEffect
  <2>2. QED
    BY <2>1
<1>3. ASSUME NEW i \in 1 .. Len(ics), NEW length, NEW feedback, NEW caret,
             length \in Nat, feedback \in Nat, caret \in Nat, Draw(i, length, feedback, caret)
      PROVE  Len(ics') = Len(ics) /\ \A j \in 1 .. Len(ics) : ics'[j].style = ics[j].style
  BY <1>3, DrawBase
<1>4. ASSUME NEW i \in DOMAIN ics, DrawCompStr(i)
      PROVE  Same
  <2>1. /\ UNCHANGED <<serverVars, requests>> /\ i \in 1 .. Len(ics) /\ reading.str \in Nat
        /\ reading.str = 0 => ics' = ics
        /\ reading.str > 0 => \E feedback, caret \in Nat : Draw(i, reading.str, feedback, caret)
    BY <1>4, DrawCompStrStep, BaseViews
  <2>2. Len(ics') = Len(ics) /\ \A j \in 1 .. Len(ics) : ics'[j].style = ics[j].style
    <3>1. reading.str = 0 \/ reading.str > 0
      BY <2>1
    <3>2. QED
      BY <1>3, <2>1, <3>1
  <2>3. QED
    BY <2>1, <2>2 DEF serverVars
<1>5. ASSUME NEW i \in DOMAIN ics, HandleResultStr(i)
      PROVE  Same
  <2>1. UNCHANGED <<serverVars, requests>> /\ i \in 1 .. Len(ics) /\ Draw(i, 0, 0, 0)
    BY <1>5, HandleResultStep, BaseViews
  <2>2. QED
    BY <1>3, <2>1 DEF serverVars
<1>6. ASSUME NEW i \in DOMAIN ics, HandleEnd(i)
      PROVE  Same
  <2>1. /\ UNCHANGED <<serverVars, requests>> /\ Len(ics') = Len(ics)
        /\ ics'[i].style = ics[i].style
        /\ \A j \in 1 .. Len(ics) : j # i => ics'[j] = ics[j]
    BY <1>6, HandleEndStep
  <2>2. QED
    BY <2>1 DEF serverVars
<1>7. ASSUME UNCHANGED <<requests, associated, ics, contexts>>
      PROVE  Same
  BY <1>7
<1>8. ASSUME NEW w \in Windows \cup {NoWindow}, Activate(w)
      PROVE  Same
  BY <1>7, <1>8 DEF Activate, serverVars
<1>9. ASSUME NEW i \in DOMAIN ics,
             HandleStart(i) \/ AskForText(i) \/ ReadCompStr(i) \/ ReadCompAttr(i)
      PROVE  Same
  BY <1>7, <1>9 DEF HandleStart, AskForText, ReadCompStr, ReadCompAttr, serverVars
<1>10. IgnoreEvent => Same
  BY <1>7 DEF IgnoreEvent, serverVars
<1> HIDE DEF Same
<1>11. \/ ServeRequest
       \/ \E style \in Styles : CreateIC(style)
       \/ \E i \in DOMAIN ics, focus \in BOOLEAN : ChangeFocus(i, focus)
       \/ Same
  BY <1>1, <1>2, <1>4, <1>5, <1>6, <1>8, <1>9, <1>10 DEF Next, Ime, ClientRequests, ImServer
<1>12. QED
  BY <1>11 DEF Same

LEMMA DrawingStep == Base /\ Drawing /\ [Next]_vars => Drawing'
<1> SUFFICES ASSUME Base, Drawing, [Next]_vars
             PROVE  Drawing'
  OBVIOUS
<1>1. CASE Next
  BY <1>1, DrawingOther, DrawingServed, DrawingCreate, DrawingFocus, DrawingKept
<1>2. CASE UNCHANGED vars
  BY <1>2, DrawingKept DEF vars, serverVars
<1>3. QED
  BY <1>1, <1>2

(* Whenever the user can compose in a context, the request that says who    *)
(* draws has been served, since it was sent before any that gives the focus, *)
(* and it says what the style of the IC asks for.                          *)
THEOREM OneDraws == Spec => []DrawnByOne
BY AlwaysBase, DrawingInit, DrawingStep, DrawingImplies, PTL DEF Spec

-----------------------------------------------------------------------------
(* What the client displays.                                               *)

(* The IME tells attributes and cursor of a string with it.                 *)
TextAt(i) ==
  /\ contexts[i].attr = contexts[i].str
  /\ contexts[i].str > 0 => contexts[i].cursor <= contexts[i].str

Texts == \A i \in 1 .. Len(ics) : TextAt(i)

LEMMA TextsInit == Init => Texts
BY DEF Init, Texts

LEMMA TextsStep == Base /\ Texts /\ [Next]_vars => Texts'
<1> SUFFICES ASSUME Base, Texts, [Next]_vars
             PROVE  Texts'
  OBVIOUS
<1>1. ASSUME contexts' = contexts, Len(ics') = Len(ics)
      PROVE  Texts'
  BY <1>1 DEF Texts, TextAt
<1>2. ASSUME NEW k, Composition(k)
      PROVE  Texts'
  <2>1. /\ k \in 1 .. Len(ics) /\ ics' = ics
        /\ \A j \in 1 .. Len(ics) : j # k => contexts'[j] = contexts[j]
        /\ \/ /\ contexts'[k].str = contexts[k].str
              /\ contexts'[k].attr = contexts[k].attr
              /\ \/ contexts'[k].cursor = contexts[k].cursor
                 \/ contexts'[k].cursor <= contexts'[k].str
           \/ /\ contexts'[k].attr = contexts'[k].str
              /\ contexts'[k].cursor <= contexts'[k].str
    BY <1>2, CompositionEffect
  <2>2. TextAt(k)'
    BY <2>1 DEF Texts, TextAt
  <2>3. QED
    BY <2>1, <2>2 DEF Texts, TextAt
<1>3. CASE ServeRequest
  BY <1>3, ServeEffect DEF Texts, TextAt
<1>4. ASSUME NEW style \in Styles, CreateIC(style)
      PROVE  Texts'
  <2>1. /\ Len(ics') = Len(ics) + 1 /\ Len(ics) \in Nat
        /\ \A j \in 1 .. Len(ics) : contexts'[j] = contexts[j]
        /\ contexts'[Len(ics) + 1] = NewContext
    BY <1>4, CreateStep, BaseViews
  <2>2. ASSUME NEW j, j = Len(ics) + 1
        PROVE  TextAt(j)'
    BY <2>1, <2>2 DEF TextAt, NewContext
  <2>3. ASSUME NEW j \in 1 .. Len(ics)
        PROVE  TextAt(j)'
    BY <2>1 DEF Texts, TextAt
  <2>4. QED
    BY <2>1, <2>2, <2>3 DEF Texts
<1>5. ASSUME NEW i \in DOMAIN ics, DrawCompStr(i) \/ HandleResultStr(i) \/ HandleEnd(i)
      PROVE  Texts'
  <2>1. i \in 1 .. Len(ics)
    BY BaseViews
  <2>2. contexts' = contexts
    BY <1>5 DEF DrawCompStr, HandleResultStr, HandleEnd, serverVars
  <2>3. Len(ics') = Len(ics)
    BY <1>5, <2>1, DrawBase, DrawCompStrStep, HandleResultStep, HandleEndStep
  <2>4. QED
    BY <1>1, <2>2, <2>3
<1>6. ASSUME NEW k, StartComposition(k) \/ EndComposition(k)
      PROVE  Texts'
  BY <1>1, <1>6, StartStep, EndStep
<1>7. Quiet => Texts'
  BY <1>1 DEF Quiet
<1>8. QED
  BY <1>2, <1>3, <1>4, <1>5, <1>6, <1>7, Steps, QuietStutter

(* While the IM server reads, what it has read of the context is what is    *)
(* stored there, or a newer string has been announced.                     *)
Later(i) == \E n \in 2 .. Len(events) : events[n] = Notify("CompStr", i)

ReadAt(i) ==
  /\ call \in {"CompAttr", "Cursor"} => reading.str = contexts[i].str \/ Later(i)
  /\ call = "Cursor" => reading.attr = contexts[i].attr \/ Later(i)

Reads == \A i \in 1 .. Len(ics) : events # <<>> /\ Head(events).context = i => ReadAt(i)

LEMMA ReadsInit == Init => Reads
BY DEF Init, Reads

LEMMA LaterGrow ==
  ASSUME NEW k, EventsGrow(k), NEW i, Later(i)
  PROVE  Later(i)'
<1>1. PICK n \in 2 .. Len(events) : events[n] = Notify("CompStr", i)
  BY DEF Later
<1>2. n \in 2 .. Len(events') /\ events'[n] = Notify("CompStr", i)
  BY <1>1 DEF EventsGrow
<1>3. QED
  BY <1>2 DEF Later, Notify

(* Text that is stored meanwhile is announced.                             *)
LEMMA ReadsGrow ==
  ASSUME Base, Reads, NEW k, EventsGrow(k), ics' = ics, call' = call, reading' = reading,
         \A i \in 1 .. Len(ics) :
           \/ contexts'[i].str = contexts[i].str /\ contexts'[i].attr = contexts[i].attr
           \/ \E n \in Len(events) + 1 .. Len(events') : events'[n] = Notify("CompStr", i)
  PROVE  Reads'
<1> SUFFICES ASSUME NEW i \in 1 .. Len(ics), events' # <<>>, Head(events').context = i,
                    call # "none"
             PROVE  ReadAt(i)'
  BY DEF Reads, ReadAt
<1>1. events # <<>> /\ Len(events) \in Nat \ {0}
  BY EmptySeq, BaseViews DEF Base, CallOK
<1>2. Head(events') = Head(events)
  <2>1. Len(events') \in Nat /\ 1 \in 1 .. Len(events) /\ events'[1] = events[1]
    BY <1>1 DEF EventsGrow
  <2>2. Head(events') = events'[1] /\ Head(events) = events[1]
    OBVIOUS
  <2>3. QED
    BY <2>1, <2>2
<1>3. ReadAt(i)
  BY <1>1, <1>2 DEF Reads
<1>4. CASE contexts'[i].str = contexts[i].str /\ contexts'[i].attr = contexts[i].attr
  BY <1>3, <1>4, LaterGrow DEF ReadAt
<1>5. CASE \E n \in Len(events) + 1 .. Len(events') : events'[n] = Notify("CompStr", i)
  <2>1. PICK n \in Len(events) + 1 .. Len(events') : events'[n] = Notify("CompStr", i)
    BY <1>5
  <2>2. n \in 2 .. Len(events')
    BY <1>1, <2>1 DEF EventsGrow
  <2>3. Later(i)'
    BY <2>1, <2>2 DEF Later, Notify
  <2>4. QED
    BY <2>3 DEF ReadAt
<1>6. QED
  BY <1>4, <1>5

LEMMA ReadsSame ==
  ASSUME Reads, UNCHANGED <<events, ics, call, reading>>,
         \A i \in 1 .. Len(ics) :
           contexts'[i].str = contexts[i].str /\ contexts'[i].attr = contexts[i].attr
  PROVE  Reads'
<1>1. ASSUME NEW i \in 1 .. Len(ics), ReadAt(i)
      PROVE  ReadAt(i)'
  BY <1>1 DEF ReadAt, Later, Notify
<1>2. QED
  BY <1>1 DEF Reads

LEMMA ReadsNext ==
  ASSUME Base, Reads, Next
  PROVE  Reads'
<1>1. Len(ics) \in Nat /\ DOMAIN ics = 1 .. Len(ics) /\ \A i \in 1 .. Len(ics) : ics[i].context = i
  BY BaseViews
<1>2. ASSUME call' \in {"none", "CompStr", "ResultStr"}
      PROVE  Reads'
  BY <1>2 DEF Reads, ReadAt
<1>3. ASSUME NEW w \in Windows \cup {NoWindow}, Activate(w)
      PROVE  Reads'
  BY <1>3, ReadsSame DEF Activate, serverVars
<1>4. ASSUME NEW k, StartComposition(k) \/ EndComposition(k)
      PROVE  Reads'
  BY <1>4, StartStep, EndStep, ReadsGrow
<1>5. ASSUME NEW k, Composition(k)
      PROVE  Reads'
  <2>1. /\ EventsGrow(k) /\ ics' = ics /\ call' = call /\ reading' = reading
        /\ \A j \in 1 .. Len(ics) : j # k => contexts'[j] = contexts[j]
        /\ \/ contexts'[k].str = contexts[k].str /\ contexts'[k].attr = contexts[k].attr
           \/ \E n \in Len(events) + 1 .. Len(events') : events'[n] = Notify("CompStr", k)
    BY <1>5, CompositionEffect
  <2>2. ASSUME NEW i \in 1 .. Len(ics)
        PROVE  \/ contexts'[i].str = contexts[i].str /\ contexts'[i].attr = contexts[i].attr
               \/ \E n \in Len(events) + 1 .. Len(events') : events'[n] = Notify("CompStr", i)
    BY <2>1
  <2>3. QED
    BY <2>1, <2>2, ReadsGrow
<1>6. CASE ServeRequest
  BY <1>6, ServeEffect, ReadsSame
<1>7. ASSUME NEW style \in Styles, CreateIC(style)
      PROVE  Reads'
  BY <1>2, <1>7, CreateStep, CreateClient
<1>8. ASSUME NEW i \in DOMAIN ics, NEW focus \in BOOLEAN, ChangeFocus(i, focus)
      PROVE  Reads'
  BY <1>8, ReadsSame DEF ChangeFocus, serverVars
<1>9. ASSUME NEW i \in DOMAIN ics, HandleStart(i) \/ AskForText(i) \/ HandleEnd(i)
      PROVE  Reads'
  BY <1>2, <1>9 DEF HandleStart, HandleEnd, AskForText, Handles, Idle
<1>10. ASSUME NEW i \in DOMAIN ics, DrawCompStr(i) \/ HandleResultStr(i)
       PROVE  Reads'
  BY <1>2, <1>10 DEF DrawCompStr, HandleResultStr
<1>11. CASE IgnoreEvent
  BY <1>2, <1>11 DEF IgnoreEvent, Idle
<1>12. ASSUME NEW i \in DOMAIN ics, ReadCompStr(i)
       PROVE  Reads'
  <2>1. /\ call' = "CompAttr" /\ UNCHANGED <<events, ics, contexts>>
        /\ reading' = [reading EXCEPT !.str = contexts[ics[i].context].str]
        /\ ics[i].context = Head(events).context
    BY <1>12 DEF ReadCompStr, Replied, serverVars
  <2>2. reading'.str = contexts[i].str /\ Head(events').context = i
    BY <1>1, <2>1, BaseViews
  <2>3. QED
    BY <2>1, <2>2 DEF Reads, ReadAt
<1>13. ASSUME NEW i \in DOMAIN ics, ReadCompAttr(i)
       PROVE  Reads'
  <2>1. /\ call = "CompAttr" /\ call' = "Cursor" /\ UNCHANGED <<events, ics, contexts>>
        /\ reading' = [reading EXCEPT !.attr = contexts[ics[i].context].attr]
        /\ ics[i].context = Head(events).context
    BY <1>13 DEF ReadCompAttr, Replied, serverVars
  <2>2. /\ reading'.attr = contexts[i].attr /\ reading'.str = reading.str
        /\ Head(events').context = i
    BY <1>1, <2>1, BaseViews
  <2>3. events # <<>> => reading.str = contexts[i].str \/ Later(i)
    BY <1>1, <2>1 DEF Reads, ReadAt
  <2>4. Later(i)' <=> Later(i)
    BY <2>1 DEF Later, Notify
  <2>5. QED
    BY <2>1, <2>2, <2>3, <2>4 DEF Reads, ReadAt
<1>14. QED
  BY <1>3, <1>4, <1>5, <1>6, <1>7, <1>8, <1>9, <1>10, <1>11, <1>12, <1>13
  DEF Next, Ime, ClientRequests, ImServer

LEMMA ReadsStep == Base /\ Reads /\ [Next]_vars => Reads'
<1>1. CASE Next
  BY <1>1, ReadsNext
<1>2. CASE UNCHANGED vars
  BY <1>2, ReadsSame DEF vars, serverVars
<1>3. QED
  BY <1>1, <1>2

(* An event after which IC i is drawn anew or cleared.                      *)
Redraws == {"CompStr", "ResultStr", "EndComposition"}

Redraw(i) == \E n \in 1 .. Len(events) : events[n].context = i /\ events[n].kind \in Redraws

(* The client displays the string, with its feedback and the caret in it.   *)
Matches(i) ==
  /\ preedit[i] = contexts[i].str
  /\ shown[i].feedback = preedit[i]
  /\ shown[i].caret <= preedit[i]

RepairAt(i) == contexts[i].str = 0 \/ preedit[i] = 0 \/ Matches(i) \/ Redraw(i)

Repaired == \A i \in 1 .. Len(ics) : RepairAt(i)

LEMMA RepairedImplies == Base /\ Repaired => DrawsRepaired
<1> SUFFICES ASSUME Base, Repaired, NEW i \in DOMAIN ics,
                    contexts[ics[i].context].str > 0, preedit[i] > 0,
                    \/ preedit[i] # contexts[ics[i].context].str
                    \/ shown[i].feedback # preedit[i]
                    \/ shown[i].caret > preedit[i]
             PROVE  \E n \in DOMAIN events :
                      /\ events[n].context = ics[i].context
                      /\ events[n].kind \in {"CompStr", "ResultStr", "EndComposition"}
  BY DEF DrawsRepaired
<1>1. /\ i \in 1 .. Len(ics) /\ ics[i].context = i /\ DOMAIN events = 1 .. Len(events)
      /\ contexts[i].str \in Nat /\ preedit[i] \in Nat
  BY BaseViews, LenProperties DEF Context
<1>2. shown[i].caret \in Nat
  <2> DEFINE Feedbacks == [feedback : Nat, caret : Nat]
  <2>1. shown \in Seq(Feedbacks) /\ Len(shown) = Len(ics)
    BY BaseViews
  <2> HIDE DEF Feedbacks
  <2>2. shown[i] \in Feedbacks
    BY <1>1, <2>1, ElementOfSeq
  <2>3. QED
    BY <2>2 DEF Feedbacks
<1>3. ~Matches(i)
  BY <1>1, <1>2 DEF Matches
<1>4. Redraw(i)
  BY <1>1, <1>3 DEF Repaired, RepairAt
<1>5. QED
  BY <1>1, <1>4 DEF Redraw, Redraws

LEMMA RepairedInit == Init => Repaired
BY DEF Init, Repaired

LEMMA RedrawGrow ==
  ASSUME NEW k, EventsGrow(k), NEW i, Redraw(i)
  PROVE  Redraw(i)'
<1>1. PICK n \in 1 .. Len(events) : events[n].context = i /\ events[n].kind \in Redraws
  BY DEF Redraw
<1>2. n \in 1 .. Len(events') /\ events'[n] = events[n]
  BY <1>1 DEF EventsGrow
<1>3. QED
  BY <1>1, <1>2 DEF Redraw, Redraws

LEMMA RedrawTail ==
  ASSUME Base, events # <<>>, events' = Tail(events), NEW i,
         Head(events).context # i \/ Head(events).kind \notin Redraws, Redraw(i)
  PROVE  Redraw(i)'
<1>1. PICK n \in 1 .. Len(events) : events[n].context = i /\ events[n].kind \in Redraws
  BY DEF Redraw
<1>2. n - 1 \in 1 .. Len(events') /\ events'[n - 1] = events[n]
  BY <1>1, TailKeeps
<1>3. QED
  BY <1>1, <1>2 DEF Redraw, Redraws

LEMMA RepairSame ==
  ASSUME NEW i, RepairAt(i), contexts'[i].str = contexts[i].str,
         preedit'[i] = preedit[i], shown'[i] = shown[i], Redraw(i) => Redraw(i)'
  PROVE  RepairAt(i)'
BY DEF RepairAt, Matches

(* A PREEDIT_DRAW changes what is displayed for its IC alone.              *)
LEMMA DrawShown ==
  ASSUME Base, NEW i \in 1 .. Len(ics),
         NEW length \in Nat, NEW feedback \in Nat, NEW caret \in Nat,
         Draw(i, length, feedback, caret)
  PROVE  /\ shown'[i].feedback = feedback /\ shown'[i].caret = caret
         /\ \A j \in 1 .. Len(ics) : j # i => shown'[j] = shown[j]
<1> DEFINE new == [feedback |-> feedback, caret |-> caret]
<1>1. shown' = [shown EXCEPT ![i] = new]
  BY DEF Draw
<1>2. DOMAIN shown = 1 .. Len(ics)
  BY BaseViews, LenProperties
<1>3. new.feedback = feedback /\ new.caret = caret
  OBVIOUS
<1> HIDE DEF new
<1>4. shown'[i] = new /\ \A j \in 1 .. Len(ics) : j # i => shown'[j] = shown[j]
  BY <1>1, <1>2
<1>5. QED
  BY <1>3, <1>4

(* What is drawn once string, attributes and cursor have been read.         *)
LEMMA DrawnText ==
  ASSUME Base, Texts, Reads, NEW i \in DOMAIN ics, DrawCompStr(i)
  PROVE  RepairAt(i)'
<1>1. /\ events # <<>> /\ events' = Tail(events) /\ Head(events).context = i
      /\ contexts' = contexts /\ reading.str \in Nat
      /\ reading.str = 0 => UNCHANGED <<preedit, shown>>
  BY DrawCompStrStep DEF serverVars
<1>2. /\ i \in 1 .. Len(ics) /\ ics[i].context = i
      /\ contexts[i].str \in Nat /\ contexts[i].cursor \in Nat /\ reading.attr \in Nat
  BY BaseViews DEF Context
<1>3. call = "Cursor"
  BY DEF DrawCompStr, Replied
<1>4. /\ reading.str = contexts[i].str \/ Later(i)
      /\ reading.attr = contexts[i].attr \/ Later(i)
  BY <1>1, <1>2, <1>3 DEF Reads, ReadAt
<1>5. CASE Later(i)
  <2>1. PICK n \in 2 .. Len(events) : events[n] = Notify("CompStr", i)
    BY <1>5 DEF Later
  <2>2. /\ Len(events) \in Nat \ {0} /\ Len(events') = Len(events) - 1
        /\ \A m \in 1 .. Len(events') : events'[m] = events[m + 1]
    BY <1>1, TailEvents
  <2>3. n - 1 \in 1 .. Len(events') /\ (n - 1) + 1 = n
    BY <2>1, <2>2
  <2>4. events'[n - 1] = Notify("CompStr", i)
    BY <2>1, <2>2, <2>3
  <2>5. Redraw(i)'
    BY <2>3, <2>4 DEF Redraw, Redraws, Notify
  <2>6. QED
    BY <2>5 DEF RepairAt
<1>6. CASE reading.str = contexts[i].str /\ reading.attr = contexts[i].attr
  <2>1. CASE reading.str = 0
    BY <1>1, <1>6, <2>1 DEF RepairAt
  <2>2. CASE reading.str > 0
    <3>1. reading.attr = reading.str /\ contexts[i].cursor <= reading.str
      BY <1>2, <1>6, <2>2 DEF Texts, TextAt
    <3>2. Feedback(reading.str, reading.attr) = reading.str
      BY <1>1, <2>2, <3>1 DEF Feedback
    <3>3. Draw(i, reading.str, reading.str, contexts[i].cursor)
      BY <1>2, <2>2, <3>2 DEF DrawCompStr
    <3>4. preedit'[i] = reading.str
      BY <1>1, <1>2, <3>3, DrawBase
    <3>5. shown'[i].feedback = reading.str /\ shown'[i].caret = contexts[i].cursor
      BY <1>1, <1>2, <3>3, DrawShown
    <3>6. Matches(i)'
      BY <1>1, <1>6, <3>1, <3>4, <3>5 DEF Matches
    <3>7. QED
      BY <3>6 DEF RepairAt
  <2>3. QED
    BY <1>1, <2>1, <2>2
<1>7. QED
  BY <1>4, <1>5, <1>6

LEMMA RepairedNext ==
  ASSUME Base, Texts, Reads, Repaired, Next
  PROVE  Repaired'
<1>1. Len(ics) \in Nat /\ DOMAIN ics = 1 .. Len(ics)
  BY BaseViews
<1>2. ASSUME NEW k, StartComposition(k) \/ EndComposition(k)
      PROVE  Repaired'
  <2>1. UNCHANGED <<contexts, ics, preedit, shown>> /\ EventsGrow(k)
    BY <1>2, StartStep, EndStep
  <2>2. QED
    BY <2>1, RedrawGrow, RepairSame DEF Repaired
<1>3. ASSUME NEW k, Composition(k)
      PROVE  Repaired'
  <2>1. /\ k \in 1 .. Len(ics) /\ UNCHANGED <<ics, preedit, shown>> /\ EventsGrow(k)
        /\ \A j \in 1 .. Len(ics) : j # k => contexts'[j] = contexts[j]
        /\ \/ contexts'[k].str = contexts[k].str
           \/ \E n \in Len(events) + 1 .. Len(events') : events'[n] = Notify("CompStr", k)
    BY <1>3, CompositionEffect
  <2>2. ASSUME NEW i \in 1 .. Len(ics), contexts'[i].str = contexts[i].str
        PROVE  RepairAt(i)'
    BY <2>1, <2>2, RedrawGrow, RepairSame DEF Repaired
  <2>3. ASSUME NEW n \in Len(events) + 1 .. Len(events'), events'[n] = Notify("CompStr", k)
        PROVE  RepairAt(k)'
    <3>1. n \in 1 .. Len(events')
      BY <2>1 DEF EventsGrow
    <3>2. Redraw(k)'
      BY <2>3, <3>1 DEF Redraw, Redraws, Notify
    <3>3. QED
      BY <3>2 DEF RepairAt
  <2>4. QED
    BY <2>1, <2>2, <2>3 DEF Repaired
<1>4. CASE ServeRequest
  <2>1. /\ UNCHANGED <<ics, preedit, shown, events>>
        /\ \A j \in 1 .. Len(ics) : contexts'[j].str = contexts[j].str
    BY <1>4, ServeEffect
  <2>2. ASSUME NEW i
        PROVE  Redraw(i)' <=> Redraw(i)
    BY <2>1 DEF Redraw, Redraws
  <2>3. QED
    BY <2>1, <2>2, RepairSame DEF Repaired
<1>5. ASSUME NEW style \in Styles, CreateIC(style)
      PROVE  Repaired'
  <2>1. /\ Len(ics') = Len(ics) + 1
        /\ \A j \in 1 .. Len(ics) : contexts'[j] = contexts[j]
        /\ contexts'[Len(ics) + 1] = NewContext
    BY <1>5, CreateStep
  <2>2. events' = events /\ \A j \in 1 .. Len(ics) : preedit'[j] = preedit[j]
    BY <1>5, CreateClient
  <2>3. \A j \in 1 .. Len(ics) : shown'[j] = shown[j]
    <3> DEFINE Feedbacks == [feedback : Nat, caret : Nat]
               nothing == [feedback |-> 0, caret |-> 0]
    <3>1. /\ shown \in Seq(Feedbacks) /\ Len(shown) = Len(ics) /\ nothing \in Feedbacks
          /\ shown' = Append(shown, nothing)
      BY <1>5, BaseViews DEF CreateIC
    <3> HIDE DEF Feedbacks, nothing
    <3>2. QED
      BY <3>1, AppendProperties
  <2>4. ASSUME NEW j \in 1 .. Len(ics)
        PROVE  RepairAt(j)'
    <3>1. Redraw(j)' <=> Redraw(j)
      BY <2>2 DEF Redraw, Redraws
    <3>2. QED
      BY <2>1, <2>2, <2>3, <3>1, RepairSame DEF Repaired
  <2>5. ASSUME NEW j, j = Len(ics) + 1
        PROVE  RepairAt(j)'
    BY <2>1, <2>5 DEF RepairAt, NewContext
  <2>6. QED
    BY <1>1, <2>1, <2>4, <2>5 DEF Repaired
<1>6. ASSUME NEW i \in 1 .. Len(ics), events # <<>>, events' = Tail(events),
             Head(events).context = i, contexts' = contexts, Len(ics') = Len(ics),
             RepairAt(i)',
             \A j \in 1 .. Len(ics) : j # i => preedit'[j] = preedit[j] /\ shown'[j] = shown[j]
      PROVE  Repaired'
  <2>1. ASSUME NEW j \in 1 .. Len(ics), j # i
        PROVE  RepairAt(j)'
    <3>1. Redraw(j) => Redraw(j)'
      BY <1>6, <2>1, RedrawTail
    <3>2. QED
      BY <1>6, <2>1, <3>1, RepairSame DEF Repaired
  <2>2. QED
    BY <1>6, <2>1 DEF Repaired
<1>7. ASSUME NEW i \in DOMAIN ics, DrawCompStr(i)
      PROVE  Repaired'
  <2>1. /\ events # <<>> /\ events' = Tail(events) /\ Head(events).context = i
        /\ contexts' = contexts /\ reading.str \in Nat /\ i \in 1 .. Len(ics)
        /\ reading.str = 0 => UNCHANGED <<lastCallback, preedit, shown, ics>>
        /\ reading.str > 0 => \E feedback, caret \in Nat : Draw(i, reading.str, feedback, caret)
    BY <1>1, <1>7, DrawCompStrStep DEF serverVars
  <2>2. RepairAt(i)'
    BY <1>7, DrawnText
  <2>3. /\ Len(ics') = Len(ics)
        /\ \A j \in 1 .. Len(ics) : j # i => preedit'[j] = preedit[j] /\ shown'[j] = shown[j]
    <3>1. CASE reading.str = 0
      BY <2>1, <3>1
    <3>2. CASE reading.str > 0
      <4>1. PICK feedback, caret \in Nat : Draw(i, reading.str, feedback, caret)
        BY <2>1, <3>2
      <4>2. Len(ics') = Len(ics) /\ \A j \in 1 .. Len(ics) : j # i => preedit'[j] = preedit[j]
        BY <2>1, <4>1, DrawBase
      <4>3. \A j \in 1 .. Len(ics) : j # i => shown'[j] = shown[j]
        BY <2>1, <4>1, DrawShown
      <4>4. QED
        BY <4>2, <4>3
    <3>3. QED
      BY <2>1, <3>1, <3>2
  <2>4. QED
    BY <1>6, <2>1, <2>2, <2>3
<1>8. ASSUME NEW i \in DOMAIN ics, HandleResultStr(i)
      PROVE  Repaired'
  <2>1. /\ events # <<>> /\ events' = Tail(events) /\ Head(events).context = i
        /\ contexts' = contexts /\ i \in 1 .. Len(ics) /\ Draw(i, 0, 0, 0)
    BY <1>1, <1>8, HandleResultStep DEF serverVars
  <2>2. /\ Len(ics') = Len(ics) /\ preedit'[i] = 0
        /\ \A j \in 1 .. Len(ics) : j # i => preedit'[j] = preedit[j] /\ shown'[j] = shown[j]
    BY <2>1, DrawBase, DrawShown
  <2>3. RepairAt(i)'
    BY <2>2 DEF RepairAt
  <2>4. QED
    BY <1>6, <2>1, <2>2, <2>3
<1>9. ASSUME NEW i \in DOMAIN ics, HandleEnd(i)
      PROVE  Repaired'
  <2>1. /\ events # <<>> /\ events' = Tail(events) /\ Head(events).context = i
        /\ contexts' = contexts /\ i \in 1 .. Len(ics) /\ Len(ics') = Len(ics)
        /\ \A j \in 1 .. Len(ics) : preedit'[j] = IF j = i THEN 0 ELSE preedit[j]
    BY <1>1, <1>9, HandleEndStep DEF serverVars
  <2>2. \A j \in 1 .. Len(ics) : j # i => shown'[j] = shown[j]
    <3>1. DOMAIN shown = 1 .. Len(ics)
      BY BaseViews, LenProperties
    <3> DEFINE new == IF ics[i].length > 0 THEN [feedback |-> 0, caret |-> 0] ELSE shown[i]
    <3>2. shown' = [shown EXCEPT ![i] = new]
      BY <1>9 DEF HandleEnd
    <3> HIDE DEF new
    <3>3. QED
      BY <3>1, <3>2
  <2>3. RepairAt(i)'
    BY <2>1 DEF RepairAt
  <2>4. QED
    BY <1>6, <2>1, <2>2, <2>3
<1>10. CASE Quiet
  <2>1. UNCHANGED <<contexts, ics, preedit, shown>>
    BY <1>10 DEF Quiet
  <2>2. ASSUME NEW j, Redraw(j)
        PROVE  Redraw(j)'
    <3>1. CASE events' = events
      BY <2>2, <3>1 DEF Redraw, Redraws
    <3>2. CASE events # <<>> /\ events' = Tail(events) /\ Head(events).kind \notin Redraws
      BY <2>2, <3>2, RedrawTail
    <3>3. QED
      BY <1>10, <3>1, <3>2 DEF Quiet, Redraws
  <2>3. QED
    BY <2>1, <2>2, RepairSame DEF Repaired
<1>11. QED
  BY <1>2, <1>3, <1>4, <1>5, <1>7, <1>8, <1>9, <1>10, Steps

LEMMA RepairedStep == Base /\ Texts /\ Reads /\ Repaired /\ [Next]_vars => Repaired'
<1>1. CASE Next
  BY <1>1, RepairedNext
<1>2. CASE UNCHANGED vars
  <2>1. UNCHANGED <<contexts, ics, preedit, shown, events>>
    BY <1>2 DEF vars, serverVars, clientVars
  <2>2. ASSUME NEW j
        PROVE  Redraw(j)' <=> Redraw(j)
    BY <2>1 DEF Redraw, Redraws
  <2>3. QED
    BY <2>1, <2>2, RepairSame DEF Repaired
<1>3. QED
  BY <1>1, <1>2

(* The three round trips may mix the texts of several compositions, but     *)
(* then the newer text has been announced behind the event that is handled, *)
(* and what the client displays will be drawn anew or cleared.             *)
THEOREM MixedDrawsRepaired == Spec => []DrawsRepaired
BY AlwaysBase, TextsInit, TextsStep, ReadsInit, ReadsStep, RepairedInit, RepairedStep,
   RepairedImplies, PTL DEF Spec
=============================================================================
