------------------------------ MODULE ImeBridge ------------------------------
(***************************************************************************)
(* How the compositions of the Windows IME reach an X client.              *)
(*                                                                         *)
(* Two threads of one process take part.  The X server's thread handles    *)
(* the window messages of the IME (winIMEMessageHandler) and the requests   *)
(* of the WinIME extension (ProcWinIME...), one at a time, and keeps the    *)
(* WinIME contexts.  The IM server's thread (winimserver.c) is an X client  *)
(* of it: its requests form one FIFO, and events and replies come back in   *)
(* another.  An event says only that something in a context changed; the   *)
(* IM server reads the contents by further requests, while the IME goes on. *)
(*                                                                         *)
(* A call that waits for its reply blocks the IM server until the requests  *)
(* before it have been handled; then the request, its reply and what the    *)
(* IM server does up to its next call are one action, since none of the     *)
(* latter concerns the X server.  A composition string stands for its       *)
(* length, a result for its number.  WinIMEOpenStatus, which concerns the   *)
(* key path only, is modelled in XimServer.                                *)
(***************************************************************************)
EXTENDS Naturals, Sequences

CONSTANTS
  Windows,      \* the windows of the X server that may be active
  NoWindow,     \* no window of the X server is active
  Styles,       \* preedit styles in which the client creates ICs
  MaxICs,       \* bound: ICs created
  MaxRequests,  \* bound: requests waiting for the X server
  MaxMessages,  \* bound: WM_IME_* messages
  MaxLength     \* bound: length of a composition string

ASSUME WindowsAssumption == NoWindow \notin Windows
ASSUME StylesAssumption ==
  Styles \subseteq {"callbacks", "position", "area", "nothing", "none"}
ASSUME BoundsAssumption ==
  {MaxICs, MaxRequests, MaxMessages, MaxLength} \subseteq Nat

VARIABLES
  \* Windows and the IME
  active,         \* the window GetActiveWindow returns
  associated,     \* per window: the context of its HIMC, 0 for none
  composing,      \* per context: a composition is going on
  messages,       \* number of WM_IME_* messages so far
  \* the X server
  contexts,       \* s_pContextList: contexts[k] is the context number k
  associatedWnd,  \* s_hAssociatedWnd
  \* the connection between the two threads
  requests,       \* requests that expect no reply
  events,         \* WinIMEControllerNotify events
  \* the IM server
  ics,            \* ic_list
  call,           \* what winXIMEXEventHandler waits for, or "none"
  reading,        \* szCompositionString and szCompositionAttr
  \* the client
  lastCallback,   \* the preedit callback message sent last
  preedit,        \* per IC: length of the preedit the client displays
  shown,          \* per IC: how many characters of it have feedback, and the caret
  committed       \* per IC: the result committed last

imeVars == <<active, composing, messages>>
serverVars == <<associated, contexts, associatedWnd>>
clientVars == <<lastCallback, preedit, shown, committed>>
vars == <<imeVars, serverVars, requests, events, ics, call, reading, clientVars>>

-----------------------------------------------------------------------------
(* WIContextRec: the composition string, its attributes, the cursor and the *)
(* result last stored by winCommitCompositionResult, and fCompositionDraw.  *)
Context == [str : Nat, attr : Nat, cursor : Nat, result : Nat, draw : BOOLEAN]

(* nCursor of a new context is not initialised.                            *)
AnyCursor == MaxLength + 1

(* IMIC: icid is the one in pCallData, 0 until a message was built for it.  *)
IMIC == [context : Nat, style : Styles, length : Nat, icid : Nat]

Kinds == {"StartComposition", "CompStr", "CursorPos", "ResultStr", "CompAttr",
          "EndComposition"}

Event == [kind : Kinds, context : Nat]

Request == [op : {"SetFocus", "SetCompositionDraw"}, context : Nat, value : BOOLEAN]

(* A preedit callback message: the id it names, and the IC it is sent for.  *)
Callback == [type : {"none", "PREEDIT_START", "PREEDIT_DRAW", "PREEDIT_DONE"},
             icid : Nat, for : Nat]

Init ==
  /\ active = NoWindow
  /\ associated = [w \in Windows |-> 0]     \* ImmAssociateContext (hwnd, NULL)
  /\ composing = <<>>
  /\ messages = 0
  /\ contexts = <<>>
  /\ associatedWnd = NoWindow
  /\ requests = <<>>
  /\ events = <<>>
  /\ ics = <<>>
  /\ call = "none"
  /\ reading = [str |-> 0, attr |-> 0]
  /\ lastCallback = [type |-> "none", icid |-> 0, for |-> 0]
  /\ preedit = <<>>
  /\ shown = <<>>
  /\ committed = <<>>

-----------------------------------------------------------------------------
(* Windows and the IME (external).  The IME composes in the context of the  *)
(* active window, and a composition is suspended while its context is not   *)
(* associated with that window.                                            *)

Activate(w) ==
  /\ active # w
  /\ active' = w
  /\ UNCHANGED <<composing, messages, serverVars, requests, events, ics,
                 call, reading, clientVars>>

(* winHIMCtoContext: the context an IME message to the active window is     *)
(* about.                                                                  *)
MessageContext(k) == active # NoWindow /\ associated[active] = k /\ k # 0

ImeMessage(k) ==
  /\ messages < MaxMessages
  /\ MessageContext(k)
  /\ messages' = messages + 1
  /\ UNCHANGED <<active, associated, associatedWnd, requests, ics, call, reading, clientVars>>

Notify(kind, k) == [kind |-> kind, context |-> k]

(* winIMEMessageHandler, WM_IME_STARTCOMPOSITION.                          *)
StartComposition(k) ==
  /\ ImeMessage(k)
  /\ ~composing[k]
  /\ composing' = [composing EXCEPT ![k] = TRUE]
  /\ events' = Append(events, Notify("StartComposition", k))
  /\ UNCHANGED contexts

(* variant: the result is dropped by a message that carries none.          *)
CommitCompositionResultDropping(context, flags, n, c) ==
  [context EXCEPT !.str = IF "CompStr" \in flags THEN n ELSE @,
                  !.cursor = IF "CursorPos" \in flags THEN c ELSE @,
                  !.attr = IF "CompAttr" \in flags THEN n ELSE @,
                  !.result = IF "ResultStr" \in flags THEN @ + 1 ELSE 0]

(* variant: nAttr is not stored.                                           *)
CommitCompositionResultNoAttr(context, flags, n, c) ==
  [context EXCEPT !.str = IF "CompStr" \in flags THEN n ELSE @,
                  !.cursor = IF "CursorPos" \in flags THEN c ELSE @,
                  !.result = IF "ResultStr" \in flags THEN @ + 1 ELSE @]

(* winCommitCompositionResult on the parts of the composition that lParam   *)
(* flags: a string of n characters with an attribute each, the cursor c,    *)
(* and each result is a new one.                                           *)
CommitCompositionResult(context, flags, n, c) ==
  [context EXCEPT !.str = IF "CompStr" \in flags THEN n ELSE @,
                  !.cursor = IF "CursorPos" \in flags THEN c ELSE @,
                  !.attr = IF "CompAttr" \in flags THEN n ELSE @,
                  !.result = IF "ResultStr" \in flags THEN @ + 1 ELSE @]

IfFlagged(kind, flags, k) == IF kind \in flags THEN <<Notify(kind, k)>> ELSE <<>>

(* The order in which WM_IME_COMPOSITION looks at the flags.               *)
Announced(flags, k) ==
  IfFlagged("CompStr", flags, k) \o IfFlagged("CursorPos", flags, k)
    \o IfFlagged("ResultStr", flags, k) \o IfFlagged("CompAttr", flags, k)

Text == {"CompStr", "CursorPos", "CompAttr"}

(* winIMEMessageHandler, WM_IME_COMPOSITION: the flagged parts are stored   *)
(* and announced, all in one message.  The IME tells attributes and cursor  *)
(* of a new string with it, and moves the cursor within the string.        *)
Composition(k) ==
  /\ ImeMessage(k)
  /\ composing[k]
  /\ \E flags \in {Text, Text \cup {"ResultStr"}, {"CursorPos"}, {"ResultStr"}},
        n \in 0 .. MaxLength, c \in 0 .. MaxLength :
       /\ c <= n
       /\ "CompStr" \notin flags => n = contexts[k].str
       /\ contexts' = [contexts EXCEPT ![k] = CommitCompositionResult(@, flags, n, c)]
       /\ events' = events \o Announced(flags, k)
  /\ UNCHANGED composing

(* winIMEMessageHandler, WM_IME_ENDCOMPOSITION.                            *)
EndComposition(k) ==
  /\ ImeMessage(k)
  /\ composing[k]
  /\ composing' = [composing EXCEPT ![k] = FALSE]
  /\ events' = Append(events, Notify("EndComposition", k))
  /\ UNCHANGED contexts

-----------------------------------------------------------------------------
(* The X server handles the requests that expect no reply.                 *)

(* variant: the context is left with the window that had it.               *)
DissociatedNever == associated

Dissociated ==
  IF associatedWnd = NoWindow THEN associated
                              ELSE [associated EXCEPT ![associatedWnd] = 0]

(* ProcWinIMESetFocus: losing the focus does nothing.                      *)
SetFocus(k, focus) ==
  /\ IF focus
     THEN /\ associated' = IF active = NoWindow THEN Dissociated
                           ELSE [Dissociated EXCEPT ![active] = k]
          /\ associatedWnd' = active
     ELSE UNCHANGED <<associated, associatedWnd>>
  /\ UNCHANGED contexts

(* ProcWinIMESetCompositionDraw.                                           *)
SetCompositionDraw(k, draw) ==
  /\ contexts' = [contexts EXCEPT ![k].draw = draw]
  /\ UNCHANGED <<associated, associatedWnd>>

ServeRequest ==
  LET r == Head(requests) IN
  /\ requests # <<>>
  /\ requests' = Tail(requests)
  /\ \/ r.op = "SetFocus" /\ SetFocus(r.context, r.value)
     \/ r.op = "SetCompositionDraw" /\ SetCompositionDraw(r.context, r.value)
  /\ UNCHANGED <<imeVars, events, ics, call, reading, clientVars>>

-----------------------------------------------------------------------------
(* The IM server: handlers of the client's requests.                       *)

Idle == call = "none"

(* variant: the IME is to draw also for preedit callbacks.                 *)
StyleRequestsAlways(k, style) ==
  <<[op |-> "SetCompositionDraw", context |-> k, value |-> TRUE]>>

(* StoreIMIC on XNInputStyle: who draws the composition, the client by its  *)
(* callbacks or the IME; nobody is told when there is no preedit style.    *)
StyleRequests(k, style) ==
  IF style = "none" THEN <<>>
  ELSE <<[op |-> "SetCompositionDraw", context |-> k, value |-> style # "callbacks"]>>

(* CreateIMIC.  XWinIMECreateContext waits for its reply: by then the X     *)
(* server has handled all requests before it and ProcWinIMECreateContext.  *)
CreateIC(style) ==
  LET k == Len(contexts) + 1 IN
  /\ Idle
  /\ requests = <<>>
  /\ Len(ics) < MaxICs
  /\ contexts' = Append(contexts, [str |-> 0, attr |-> 0, cursor |-> AnyCursor,
                                 result |-> 0, draw |-> FALSE])
  /\ composing' = Append(composing, FALSE)
  /\ ics' = Append(ics, [context |-> k, style |-> style, length |-> 0, icid |-> 0])
  /\ requests' = StyleRequests(k, style)
  /\ preedit' = Append(preedit, 0)
  /\ shown' = Append(shown, [feedback |-> 0, caret |-> 0])
  /\ committed' = Append(committed, 0)
  /\ UNCHANGED <<active, messages, associated, associatedWnd, events, call, reading,
                 lastCallback>>

(* winXIMESetICFocusHandler and winXIMEUnsetICFocusHandler.                *)
ChangeFocus(i, focus) ==
  /\ Idle
  /\ Len(requests) < MaxRequests
  /\ requests' = Append(requests, [op |-> "SetFocus", context |-> ics[i].context,
                                   value |-> focus])
  /\ UNCHANGED <<imeVars, serverVars, events, ics, call, reading, clientVars>>

-----------------------------------------------------------------------------
(* The IM server: winXIMEXEventHandler.                                    *)

(* The next event is of this kind and concerns the context of IC i.        *)
Handles(kind, i) ==
  /\ Idle
  /\ events # <<>>
  /\ Head(events).kind = kind
  /\ ics[i].context = Head(events).context      \* FindIMICbyContext

(* IMCallCallback (xi18n_callCallback) on pCallData of IC i.               *)
CallCallback(type, i, icid) == lastCallback' = [type |-> type, icid |-> icid, for |-> i]

(* variant: chg_length is left 0.                                          *)
DrawnInserted(i, length) == [preedit EXCEPT ![i] = @ + length]

(* What the client displays after a PREEDIT_DRAW that replaces the first    *)
(* pIC->length characters (chg_first = 0, chg_length) by length others.    *)
Drawn(i, length) == [preedit EXCEPT ![i] = (@ - ics[i].length) + length]

(* variant: pIC->length is kept when the preedit is cleared.               *)
WithLengthKept(i, length) ==
  [ics EXCEPT ![i].length = IF length = 0 THEN @ ELSE length, ![i].icid = i]

(* variant: only the length is entered into pCallData.                     *)
WithLengthOnly(i, length) == [ics EXCEPT ![i].length = length]

(* IC i with the length that was drawn, and its id in pCallData.           *)
WithLength(i, length) == [ics EXCEPT ![i].length = length, ![i].icid = i]

(* aFeedback: one entry more than none at all, and the list ends with the   *)
(* string or with the first entry that has none.                           *)
Feedback(str, attr) ==
  IF attr = 0 THEN 1 ELSE IF attr < str THEN attr ELSE str

(* A PREEDIT_DRAW for IC i, which then holds length characters.            *)
Draw(i, length, feedback, caret) ==
  /\ preedit' = Drawn(i, length)
  /\ shown' = [shown EXCEPT ![i] = [feedback |-> feedback, caret |-> caret]]
  /\ ics' = WithLength(i, length)
  /\ CallCallback("PREEDIT_DRAW", i, ics'[i].icid)

(* pCallData.icid is whatever the last message about the IC left there.    *)
HandleStart(i) ==
  /\ Handles("StartComposition", i)
  /\ CallCallback("PREEDIT_START", i, ics[i].icid)
  /\ events' = Tail(events)
  /\ UNCHANGED <<imeVars, serverVars, requests, ics, call, reading, preedit, shown, committed>>

(* An event about new text makes the IM server ask for the text; nothing    *)
(* else is handled until the reply is there.                               *)
AskForText(i) ==
  /\ \/ Handles("CompStr", i) /\ call' = "CompStr"
     \/ Handles("ResultStr", i) /\ call' = "ResultStr"
  /\ UNCHANGED <<imeVars, serverVars, requests, events, ics, reading, clientVars>>

(* The reply to the call is there; the event is about IC i.                *)
Replied(to, i) ==
  /\ call = to
  /\ requests = <<>>
  /\ ics[i].context = Head(events).context

(* WinIMECMPCompStr: the composition string as it is now was fetched.      *)
ReadCompStr(i) ==
  /\ Replied("CompStr", i)
  /\ reading' = [reading EXCEPT !.str = contexts[ics[i].context].str]
  /\ call' = "CompAttr"
  /\ UNCHANGED <<imeVars, serverVars, requests, events, ics, clientVars>>

(* So were the attributes, by a round trip of their own.                   *)
ReadCompAttr(i) ==
  /\ Replied("CompAttr", i)
  /\ reading' = [reading EXCEPT !.attr = contexts[ics[i].context].attr]
  /\ call' = "Cursor"
  /\ UNCHANGED <<imeVars, serverVars, requests, events, ics, clientVars>>

(* A third one fetched the cursor; an empty string is not drawn.           *)
DrawCompStr(i) ==
  /\ Replied("Cursor", i)
  /\ IF reading.str > 0
     THEN Draw(i, reading.str, Feedback(reading.str, reading.attr),
               contexts[ics[i].context].cursor)
     ELSE UNCHANGED <<lastCallback, preedit, shown, ics>>
  /\ reading' = [str |-> 0, attr |-> 0]
  /\ call' = "none"
  /\ events' = Tail(events)
  /\ UNCHANGED <<imeVars, serverVars, requests, committed>>

(* variant: only the result that follows the last one is committed.        *)
CommitStringNext(i, result) ==
  [committed EXCEPT ![i] = IF result = @ + 1 THEN result ELSE @]

(* IMCommitString of the result that was read.                             *)
CommitString(i, result) == [committed EXCEPT ![i] = result]

(* WinIMECMPResultStr: the result, never empty, as it is now was fetched;   *)
(* XIM_COMMIT, and the preedit cleared.                                    *)
HandleResultStr(i) ==
  /\ Replied("ResultStr", i)
  /\ call' = "none"
  /\ committed' = CommitString(i, contexts[ics[i].context].result)
  /\ Draw(i, 0, 0, 0)
  /\ events' = Tail(events)
  /\ UNCHANGED <<imeVars, serverVars, requests, reading>>

(* The changes of cursor and attributes alone are ignored.                 *)
IgnoreEvent ==
  /\ Idle
  /\ events # <<>>
  /\ Head(events).kind \in {"CursorPos", "CompAttr"}
  /\ events' = Tail(events)
  /\ UNCHANGED <<imeVars, serverVars, requests, ics, call, reading, clientVars>>

(* What is left of the preedit is cleared, then PREEDIT_DONE.              *)
HandleEnd(i) ==
  /\ Handles("EndComposition", i)
  /\ preedit' = [preedit EXCEPT ![i] = IF ics[i].length > 0 THEN Drawn(i, 0)[i] ELSE @]
  /\ shown' = [shown EXCEPT ![i] = IF ics[i].length > 0 THEN [feedback |-> 0, caret |-> 0] ELSE @]
  /\ ics' = IF ics[i].length > 0 THEN WithLength(i, 0) ELSE ics
  /\ CallCallback("PREEDIT_DONE", i, ics'[i].icid)
  /\ events' = Tail(events)
  /\ UNCHANGED <<imeVars, serverVars, requests, call, reading, committed>>

-----------------------------------------------------------------------------
Ime ==
  \/ \E w \in Windows \cup {NoWindow} : Activate(w)
  \/ \E k \in DOMAIN contexts : \/ StartComposition(k)
                                \/ Composition(k)
                                \/ EndComposition(k)

ClientRequests ==
  \/ \E style \in Styles : CreateIC(style)
  \/ \E i \in DOMAIN ics, focus \in BOOLEAN : ChangeFocus(i, focus)

ImServer ==
  \/ \E i \in DOMAIN ics : \/ HandleStart(i)
                           \/ AskForText(i)
                           \/ ReadCompStr(i)
                           \/ ReadCompAttr(i)
                           \/ DrawCompStr(i)
                           \/ HandleResultStr(i)
                           \/ HandleEnd(i)
  \/ IgnoreEvent

Next == Ime \/ ServeRequest \/ ClientRequests \/ ImServer

Spec == Init /\ [][Next]_vars

(* The X server dispatches every request of its clients in the end, and the *)
(* IM server takes the events and the client's messages in order of         *)
(* arrival, so that no event waits for ever behind client messages.        *)
Fairness == WF_vars(ServeRequest) /\ WF_vars(ImServer)

FairSpec == Spec /\ Fairness

-----------------------------------------------------------------------------
(* Type correctness of the state of the two threads and of the client.     *)
TypeOK ==
  /\ active \in Windows \cup {NoWindow}
  /\ associated \in [Windows -> Nat]
  /\ composing \in Seq(BOOLEAN)
  /\ messages \in Nat
  /\ contexts \in Seq(Context)
  /\ associatedWnd \in Windows \cup {NoWindow}
  /\ requests \in Seq(Request)
  /\ events \in Seq(Event)
  /\ ics \in Seq(IMIC)
  /\ call \in {"none", "CompStr", "CompAttr", "Cursor", "ResultStr"}
  /\ reading \in [str : Nat, attr : Nat]
  /\ lastCallback \in Callback
  /\ preedit \in Seq(Nat)
  /\ shown \in Seq([feedback : Nat, caret : Nat])
  /\ committed \in Seq(Nat)

(* At most one window has a WinIME context: the last one that was active    *)
(* when an IC got the focus (ProcWinIMESetFocus).                          *)
OneAssociation ==
  \A w \in Windows : associated[w] # 0 => w = associatedWnd

(* When the user can compose in a context, the IME draws the composition    *)
(* exactly when the client's preedit style leaves it to the IME, because    *)
(* SetCompositionDraw overtakes no later SetFocus.                         *)
DrawnByOne ==
  \A w \in Windows, i \in DOMAIN ics :
    associated[w] = ics[i].context
      => contexts[ics[i].context].draw = (ics[i].style \notin {"callbacks", "none"})

(* pIC->length, from which chg_length of the next PREEDIT_DRAW is taken, is *)
(* the length of what the client displays.                                 *)
LengthAgrees == \A i \in DOMAIN ics : ics[i].length = preedit[i]

(* The client displays a preedit only while a composition is going on or    *)
(* events that end it are still to be handled.                             *)
NoPreeditLeft ==
  \A i \in DOMAIN ics :
    /\ ~composing[ics[i].context]
    /\ \A n \in DOMAIN events : events[n].context # ics[i].context
    => preedit[i] = 0

(* Although results are read after the event that announces them, they are  *)
(* never committed out of order, and once all events are handled the newest *)
(* result has been committed.                                              *)
NewestCommitted ==
  \A i \in DOMAIN ics :
    LET k == ics[i].context IN
    /\ committed[i] <= contexts[k].result
    /\ committed[i] < contexts[k].result
         => \E n \in DOMAIN events : events[n] = Notify("ResultStr", k)

(* No step commits an older result than the one before.                    *)
ResultsInOrder ==
  [][\A i \in DOMAIN committed : committed'[i] >= committed[i]]_vars

(* Every result of the IME is committed, or a newer one in its place.       *)
ResultsCommitted ==
  \A i \in 1 .. MaxICs, r \in 1 .. MaxMessages :
    (i \in DOMAIN ics /\ contexts[ics[i].context].result = r)
      ~> (i \in DOMAIN committed /\ committed[i] >= r)

(* String, attributes and cursor are fetched one by one, so that a draw may *)
(* mix those of several compositions.  Whenever what the client displays    *)
(* is not the IME's string with a feedback for each character and the caret *)
(* in it, an event that will have it drawn anew or cleared is still to be   *)
(* handled; an empty string is the exception, which draws nothing.          *)
DrawsRepaired ==
  \A i \in DOMAIN ics :
    LET k == ics[i].context IN
    /\ contexts[k].str > 0
    /\ preedit[i] > 0
    /\ \/ preedit[i] # contexts[k].str
       \/ shown[i].feedback # preedit[i]
       \/ shown[i].caret > preedit[i]
    => \E n \in DOMAIN events :
         /\ events[n].context = k
         /\ events[n].kind \in {"CompStr", "ResultStr", "EndComposition"}

(* A preedit callback names the IC it is sent for, or the IC 0, which no     *)
(* client has: pCallData holds what the last message about the IC left      *)
(* there, so that PREEDIT_START and PREEDIT_DONE may name 0 only while       *)
(* nothing was drawn or committed for the IC.                              *)
CallbackNamesIC ==
  /\ lastCallback.icid \in {0, lastCallback.for}
  /\ lastCallback.icid = 0 /\ lastCallback.for # 0
       => committed[lastCallback.for] = 0 /\ preedit[lastCallback.for] = 0
=============================================================================
