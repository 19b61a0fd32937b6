------------------------------ MODULE XimServer ------------------------------
(***************************************************************************)
(* The XIM protocol server of the bridge: the message handler of IMdkit    *)
(* (i18nPtHdr.c, i18nIc.c, i18nMethod.c, i18nX.c, i18nUtil.c) together     *)
(* with the callbacks winimserver.c and winic.c install in it.             *)
(*                                                                         *)
(* The server is one thread.  It takes one X event at a time, either an    *)
(* XIM message of some client or an event of the WinIME extension, and     *)
(* runs its handler to the end, so that every handler is one action.  Each *)
(* connection has a FIFO channel in each direction.  Clients are external  *)
(* programs: they wait for the reply of every request that has one, they   *)
(* name only input contexts (ICs) they hold, and they answer the messages  *)
(* that carry the synchronous flag with XIM_SYNC_REPLY.                    *)
(*                                                                         *)
(* A member of Clients is one connection: it connects once and, once it    *)
(* has disconnected, is not used again.  The server is configured as       *)
(* winimserver.c configures it, without on-keys and off-keys (static event *)
(* flow).                                                                  *)
(***************************************************************************)
EXTENDS Naturals, Sequences, FiniteSets, SequenceFolds

CONSTANTS
  Clients,        \* the connections
  IMRequests,     \* requests about the input method that clients send
  ICRequests,     \* requests about an existing IC that clients send
  MaxICs,         \* bound: ICs created in all
  MaxKeys,        \* bound: key events each client forwards
  MaxImeEvents    \* bound: events of the WinIME extension

ASSUME ClientsAssumption == Clients # {}
ASSUME RequestsAssumption ==
  /\ IMRequests \subseteq {"OPEN", "CLOSE", "QUERY_EXTENSION",
                           "GET_IM_VALUES", "ENCODING_NEGOTIATION"}
  /\ ICRequests \subseteq {"SET_IC_VALUES", "GET_IC_VALUES",
                           "DESTROY_IC", "RESET_IC"}
ASSUME BoundsAssumption == {MaxICs, MaxKeys, MaxImeEvents} \subseteq Nat

VARIABLES
  \* the server
  alive,      \* FALSE once the process died of a NULL dereference
  record,     \* per connection: its Xi18nClient record
  sync,       \* per connection: client->sync
  pending,    \* per connection: client->pending, the queued key events
  ics,        \* ic_list of winic.c: ics[id] is the IMIC number id
  imeEvents,  \* number of WinIME events handled so far
  \* the channels
  toServer, toClient,
  \* the clients
  phase,      \* per client: how far the connection has come
  waiting,    \* per client: the request whose reply it waits for, or "none"
  held,       \* per client: the ICs it holds
  masked,     \* per client: the ICs for which it was told to forward keys
  owes,       \* per client: it dispatched a synchronous message and has
              \* not sent the SYNC_REPLY yet
  keysSent    \* per client: number of key events forwarded

serverVars == <<alive, record, sync, pending, ics, imeEvents>>
clientVars == <<phase, waiting, held, masked, owes, keysSent>>
vars == <<serverVars, toServer, toClient, clientVars>>

-----------------------------------------------------------------------------
(* Messages.  ic is 0 in a message about no IC; key numbers the key events  *)
(* of a connection from 1 and is 0 in every other message.  The reply to a  *)
(* request r, XIM_<r>_REPLY, has type "REPLY" and re = r.                   *)

RequestTypes == {"XCONNECT", "CONNECT", "DISCONNECT", "CREATE_IC"}
                  \cup IMRequests \cup ICRequests

FocusTypes == {"SET_IC_FOCUS", "UNSET_IC_FOCUS"}

ToServerMsg == [type : RequestTypes \cup FocusTypes
                         \cup {"FORWARD_EVENT", "SYNC_REPLY"},
                ic : Nat, key : Nat]

ToClientMsg == [type : {"REPLY", "SET_EVENT_MASK", "FORWARD_EVENT", "COMMIT"},
                re : RequestTypes \cup {"none"}, ic : Nat, key : Nat]

IMIC == [owner : Clients, toggled : BOOLEAN, focused : BOOLEAN]

ToServer(t, i) == [type |-> t, ic |-> i, key |-> 0]

KeyEvent(i, k) == [type |-> "FORWARD_EVENT", ic |-> i, key |-> k]

Reply(r, i) == [type |-> "REPLY", re |-> r, ic |-> i, key |-> 0]

SetEventMask(i) == [type |-> "SET_EVENT_MASK", re |-> "none", ic |-> i, key |-> 0]

ForwardEvent(e) == [type |-> "FORWARD_EVENT", re |-> "none", ic |-> e.ic, key |-> e.key]

Commit(i) == [type |-> "COMMIT", re |-> "none", ic |-> i, key |-> 0]

(* Definitions marked "variant" are not part of the model.  Each is a       *)
(* plausible mistake, put in the place of the definition after it to see    *)
(* that a property fails.                                                  *)

(* variant: xi18n_forwardEvent leaves the sync bit as the client sent it.  *)
IsSyncCommitOnly(m) == m.type = "COMMIT"

(* The messages that the server sends with the synchronous flag set.       *)
IsSync(m) == m.type \in {"FORWARD_EVENT", "COMMIT"}

IsKey(m) == m.type = "FORWARD_EVENT"

(* _Xi18nSendMessage: msgs follow what is already on its way to c.          *)
SendTo(c, msgs) == toClient' = [toClient EXCEPT ![c] = @ \o msgs]

-----------------------------------------------------------------------------
(* The state in which winImServerProc enters its event loop.               *)
Init ==
  /\ alive = TRUE
  /\ record = [c \in Clients |-> "none"]
  /\ sync = [c \in Clients |-> FALSE]
  /\ pending = [c \in Clients |-> <<>>]
  /\ ics = <<>>
  /\ imeEvents = 0
  /\ toServer = [c \in Clients |-> <<>>]
  /\ toClient = [c \in Clients |-> <<>>]
  /\ phase = [c \in Clients |-> "new"]
  /\ waiting = [c \in Clients |-> "none"]
  /\ held = [c \in Clients |-> {}]
  /\ masked = [c \in Clients |-> {}]
  /\ owes = [c \in Clients |-> FALSE]
  /\ keysSent = [c \in Clients |-> 0]

-----------------------------------------------------------------------------
(* Clients (external).                                                     *)

ClientSend(c, m) ==
  /\ alive          \* the bridge lives in the X server's process
  /\ toServer' = [toServer EXCEPT ![c] = Append(@, m)]
  /\ UNCHANGED <<serverVars, toClient>>

(* A request whose reply the client then waits for.                        *)
Request(c, r, i) ==
  /\ waiting[c] = "none"
  /\ waiting' = [waiting EXCEPT ![c] = r]
  /\ ClientSend(c, ToServer(r, i))
  /\ UNCHANGED <<phase, held, masked, owes, keysSent>>

ClientXConnect(c) == phase[c] = "new" /\ Request(c, "XCONNECT", 0)

ClientConnect(c) == phase[c] = "accepted" /\ Request(c, "CONNECT", 0)

ClientAskIM(c) ==
  phase[c] = "connected" /\ \E r \in IMRequests : Request(c, r, 0)

ClientCreateIC(c) ==
  /\ phase[c] = "connected"
  /\ Len(ics) + Cardinality({d \in Clients : waiting[d] = "CREATE_IC"}) < MaxICs
  /\ Request(c, "CREATE_IC", 0)

ClientAskIC(c) ==
  /\ phase[c] = "connected"
  /\ \E r \in ICRequests, i \in held[c] : Request(c, r, i)

ClientDisconnect(c) == phase[c] = "connected" /\ Request(c, "DISCONNECT", 0)

ClientFocus(c) ==
  /\ phase[c] = "connected"
  /\ waiting[c] = "none"
  /\ \A n \in DOMAIN toServer[c] : toServer[c][n].type \notin FocusTypes  \* bound
  /\ \E i \in held[c], t \in FocusTypes : ClientSend(c, ToServer(t, i))
  /\ UNCHANGED clientVars

(* The user types into an IC whose keys the client was told to forward.    *)
ClientKey(c) ==
  /\ phase[c] = "connected"
  /\ waiting[c] = "none"
  /\ keysSent[c] < MaxKeys
  /\ \E i \in masked[c] : ClientSend(c, KeyEvent(i, keysSent[c] + 1))
  /\ keysSent' = [keysSent EXCEPT ![c] = @ + 1]
  /\ UNCHANGED <<phase, waiting, held, masked, owes>>

(* One SYNC_REPLY answers every synchronous message dispatched so far; it   *)
(* is sent also while the client waits for a reply.                        *)
ClientSyncReply(c) ==
  /\ phase[c] = "connected"
  /\ owes[c]
  /\ owes' = [owes EXCEPT ![c] = FALSE]
  /\ ClientSend(c, ToServer("SYNC_REPLY", 0))
  /\ UNCHANGED <<phase, waiting, held, masked, keysSent>>

(* The client takes the next message the server sent it.                   *)
ClientReceive(c) ==
  LET m == Head(toClient[c]) IN
  /\ alive
  /\ phase[c] # "vanished"
  /\ toClient[c] # <<>>
  /\ toClient' = [toClient EXCEPT ![c] = Tail(@)]
  /\ waiting' = [waiting EXCEPT ![c] = IF m.type = "REPLY" THEN "none" ELSE @]
  /\ phase' = [phase EXCEPT ![c] = CASE m.re = "XCONNECT"   -> "accepted"
                                     [] m.re = "CONNECT"    -> "connected"
                                     [] m.re = "DISCONNECT" -> "closed"
                                     [] OTHER               -> @]
  /\ held' = [held EXCEPT ![c] = CASE m.re = "CREATE_IC"  -> @ \cup {m.ic}
                                   [] m.re = "DESTROY_IC" -> @ \ {m.ic}
                                   [] OTHER               -> @]
  /\ masked' = [masked EXCEPT ![c] = CASE m.type = "SET_EVENT_MASK" -> @ \cup {m.ic}
                                       [] m.re = "DESTROY_IC"       -> @ \ {m.ic}
                                       [] OTHER                     -> @]
  /\ owes' = [owes EXCEPT ![c] = @ \/ IsSync(m)]
  /\ UNCHANGED <<serverVars, toServer, keysSent>>

(* The program dies without a word: what it has sent is still delivered,    *)
(* and the server is not told (winimserver.c ignores DestroyNotify).       *)
ClientVanish(c) ==
  /\ alive
  /\ phase[c] = "connected"
  /\ phase' = [phase EXCEPT ![c] = "vanished"]
  /\ UNCHANGED <<serverVars, toServer, toClient,
                 waiting, held, masked, owes, keysSent>>

-----------------------------------------------------------------------------
(* The server: one action for each message handler.                        *)

(* The next message of c is of type t, and c has a record to handle it.    *)
Receives(c, t) ==
  /\ alive
  /\ toServer[c] # <<>>
  /\ Head(toServer[c]).type = t
  /\ record[c] = "ready"

Consume(c) == toServer' = [toServer EXCEPT ![c] = Tail(@)]

(* A connection request to the server's own window: a fresh record, whose   *)
(* byte order is still unknown, and the window to send XIM messages to.    *)
ReadXConnectMessage(c) ==
  /\ alive
  /\ toServer[c] # <<>>
  /\ Head(toServer[c]).type = "XCONNECT"
  /\ record' = [record EXCEPT ![c] = "new"]
  /\ sync' = [sync EXCEPT ![c] = FALSE]
  /\ pending' = [pending EXCEPT ![c] = <<>>]
  /\ SendTo(c, <<Reply("XCONNECT", 0)>>)
  /\ Consume(c)
  /\ UNCHANGED <<alive, ics, imeEvents, clientVars>>

(* XIM_CONNECT makes the byte order known; until then every other message   *)
(* is discarded.                                                           *)
ConnectMessageProc(c) ==
  /\ alive
  /\ toServer[c] # <<>>
  /\ Head(toServer[c]).type = "CONNECT"
  /\ record[c] = "new"
  /\ record' = [record EXCEPT ![c] = "ready"]
  /\ SendTo(c, <<Reply("CONNECT", 0)>>)
  /\ Consume(c)
  /\ UNCHANGED <<alive, sync, pending, ics, imeEvents, clientVars>>

(* The reply, then the record goes to the free list with its queue.        *)
DisConnectMessageProc(c) ==
  /\ Receives(c, "DISCONNECT")
  /\ SendTo(c, <<Reply("DISCONNECT", 0)>>)
  /\ record' = [record EXCEPT ![c] = "freed"]
  /\ Consume(c)
  /\ UNCHANGED <<alive, sync, pending, ics, imeEvents, clientVars>>

(* A message for a window that was destroyed with its connection.          *)
Discard(c) ==
  /\ alive
  /\ toServer[c] # <<>>
  /\ record[c] = "freed"
  /\ Consume(c)
  /\ UNCHANGED <<serverVars, toClient, clientVars>>

(* variant: the default of winXIMEProtoHandler is False.                   *)
AnswerIfHandled(r, i) ==
  IF r \in {"CLOSE", "DESTROY_IC", "RESET_IC"} THEN <<>> ELSE <<Reply(r, i)>>

Answer(r, i) == <<Reply(r, i)>>

(* A request that is answered and changes nothing.                         *)
Answers(c, r) ==
  /\ Receives(c, r)
  /\ SendTo(c, Answer(r, Head(toServer[c]).ic))
  /\ Consume(c)
  /\ UNCHANGED <<serverVars, clientVars>>

(* No trigger keys are registered: there are neither on-keys nor off-keys.  *)
OpenMessageProc(c) == Answers(c, "OPEN")

(* The ICs of the client stay in ic_list.                                  *)
CloseMessageProc(c) == Answers(c, "CLOSE")

QueryExtensionMessageProc(c) == Answers(c, "QUERY_EXTENSION")

GetIMValuesMessageProc(c) == Answers(c, "GET_IM_VALUES")

EncodingNegotiatonMessageProc(c) == Answers(c, "ENCODING_NEGOTIATION")

(* For attributes the server knows.                                        *)
GetICValuesMessageProc(c) == Answers(c, "GET_IC_VALUES")

(* winXIMEProtoHandler does nothing: the IC stays in ic_list, and keys of   *)
(* it in client->pending.                                                  *)
DestroyICMessageProc(c) == Answers(c, "DESTROY_IC")

(* winXIMEProtoHandler does nothing: a composition goes on.                *)
ResetICMessageProc(c) == Answers(c, "RESET_IC")

AnswerRequest(c) ==
  \/ OpenMessageProc(c)
  \/ CloseMessageProc(c)
  \/ QueryExtensionMessageProc(c)
  \/ GetIMValuesMessageProc(c)
  \/ EncodingNegotiatonMessageProc(c)
  \/ GetICValuesMessageProc(c)
  \/ DestroyICMessageProc(c)
  \/ ResetICMessageProc(c)

(* variant: StoreIMIC does not record the connection.                      *)
NewIMICUnowned(c) == [owner |-> "none", toggled |-> FALSE, focused |-> FALSE]

NewIMIC(c) == [owner |-> c, toggled |-> FALSE, focused |-> FALSE]

(* variant: the event mask is sent before the reply.                       *)
CreateICMaskFirst(i) == <<SetEventMask(i), Reply("CREATE_IC", i)>>

CreateICMessages(i) == <<Reply("CREATE_IC", i), SetEventMask(i)>>

(* CreateIMIC: the next icid, and the static event flow's mask after the   *)
(* reply.                                                                  *)
CreateICMessageProc(c) ==
  LET i == Len(ics) + 1 IN
  /\ Receives(c, "CREATE_IC")
  /\ ics' = Append(ics, NewIMIC(c))
  /\ SendTo(c, CreateICMessages(i))
  /\ Consume(c)
  /\ UNCHANGED <<alive, record, sync, pending, imeEvents, clientVars>>

(* variant: ids taken to count from 0.                                     *)
FindIMICFromZero(i) == i + 1 \in DOMAIN ics

(* An IC with id i is in ic_list.                                          *)
FindIMIC(i) == i \in DOMAIN ics

(* SetIMIC: StoreIMIC records the connection that set the values.          *)
SetICValuesMessageProc(c) ==
  LET i == Head(toServer[c]).ic IN
  /\ Receives(c, "SET_IC_VALUES")
  /\ ics' = IF FindIMIC(i) THEN [ics EXCEPT ![i].owner = c] ELSE ics
  /\ SendTo(c, <<Reply("SET_IC_VALUES", i)>>)
  /\ Consume(c)
  /\ UNCHANGED <<alive, record, sync, pending, imeEvents, clientVars>>

(* The context of the IC is associated with the active window; for an IC    *)
(* that is not in ic_list the handler dereferences NULL.                   *)
SetICFocusMessageProc(c) ==
  LET i == Head(toServer[c]).ic IN
  /\ Receives(c, "SET_IC_FOCUS")
  /\ alive' = FindIMIC(i)
  /\ ics' = IF FindIMIC(i) THEN [ics EXCEPT ![i].focused = TRUE] ELSE ics
  /\ Consume(c)
  /\ UNCHANGED <<record, sync, pending, imeEvents, toClient, clientVars>>

(* The extension does nothing when the focus is given up.                  *)
UnsetICFocusMessageProc(c) ==
  /\ Receives(c, "UNSET_IC_FOCUS")
  /\ alive' = FindIMIC(Head(toServer[c]).ic)
  /\ Consume(c)
  /\ UNCHANGED <<record, sync, pending, ics, imeEvents, toClient, clientVars>>

-----------------------------------------------------------------------------
(* Key events: forwarded back one at a time, queued while sync is set.     *)

(* The handler of winimserver.c swallows a key event of an IC that was      *)
(* toggled.  In a run of key events q handled one after the other this      *)
(* happens to the first one of a toggled IC, which clears the flag.        *)
Swallows(q, n) ==
  /\ FindIMIC(q[n].ic)
  /\ ics[q[n].ic].toggled
  /\ \A m \in 1 .. n - 1 : q[m].ic # q[n].ic

(* variant: the toggled flag is not reset.                                 *)
ClearNothing(q, n) == ics

(* The ICs after the first n key events of q were handled.                 *)
ClearToggled(q, n) ==
  [i \in DOMAIN ics |->
     [ics[i] EXCEPT !.toggled = @ /\ \A m \in 1 .. n : q[m].ic # i]]

(* variant: ProcessQueue handles one key event, forwarded or not.          *)
HandleOne(c, q, n) ==
  /\ n = 1
  /\ ics' = ClearToggled(q, n)
  /\ sync' = [sync EXCEPT ![c] = ~Swallows(q, n)]
  /\ SendTo(c, IF Swallows(q, n) THEN <<>> ELSE <<ForwardEvent(q[n])>>)

(* winXIMEForwardEventHandler on the key events q of c, one after the other *)
(* until one is forwarded (which sets sync) or all are swallowed; n of      *)
(* them are used up.                                                       *)
Handle(c, q, n) ==
  /\ n \in 1 .. Len(q)
  /\ \A m \in 1 .. n - 1 : Swallows(q, m)
  /\ ics' = ClearToggled(q, n)
  /\ \/ /\ ~Swallows(q, n)
        /\ sync' = [sync EXCEPT ![c] = TRUE]
        /\ SendTo(c, <<ForwardEvent(q[n])>>)
     \/ /\ Swallows(q, n)
        /\ n = Len(q)
        /\ sync' = [sync EXCEPT ![c] = FALSE]
        /\ UNCHANGED toClient

AddQueue(q, m) == Append(q, m)

QueueKeyEvent(c) ==
  /\ Receives(c, "FORWARD_EVENT")
  /\ sync[c]
  /\ pending' = [pending EXCEPT ![c] = AddQueue(@, Head(toServer[c]))]
  /\ Consume(c)
  /\ UNCHANGED <<alive, record, sync, ics, imeEvents, toClient, clientVars>>

ForwardEventMessageProc(c) ==
  /\ Receives(c, "FORWARD_EVENT")
  /\ ~sync[c]
  /\ Handle(c, <<Head(toServer[c])>>, 1)
  /\ Consume(c)
  /\ UNCHANGED <<alive, record, pending, imeEvents, clientVars>>

(* SyncReplyMessageProc clears sync, then ProcessQueue handles the queue.  *)
SyncReplyMessageProc(c) ==
  /\ Receives(c, "SYNC_REPLY")
  /\ \/ /\ pending[c] = <<>>
        /\ sync' = [sync EXCEPT ![c] = FALSE]
        /\ UNCHANGED <<pending, ics, toClient>>
     \/ \E n \in DOMAIN pending[c] :
          /\ Handle(c, pending[c], n)
          /\ pending' = [pending EXCEPT ![c] = SubSeq(@, n + 1, Len(@))]
  /\ Consume(c)
  /\ UNCHANGED <<alive, record, imeEvents, clientVars>>

-----------------------------------------------------------------------------
(* Events of the WinIME extension; they concern contexts that have been     *)
(* associated with a window.                                               *)

(* The user opened or closed the IME of IC i.  IMPreeditStart returns at    *)
(* once, because there are no trigger keys.                                *)
ImeOpenStatus ==
  /\ alive
  /\ imeEvents < MaxImeEvents
  /\ \E i \in DOMAIN ics : ics[i].focused /\ ics' = [ics EXCEPT ![i].toggled = TRUE]
  /\ imeEvents' = imeEvents + 1
  /\ UNCHANGED <<alive, record, sync, pending, toServer, toClient, clientVars>>

(* The user accepted a result in IC i: IMCommitString to the connection     *)
(* recorded in the IC, synchronous, sync is left alone.  If that            *)
(* connection's record was freed, _Xi18nNeedSwap dereferences NULL.        *)
ImeCommit ==
  /\ alive
  /\ imeEvents < MaxImeEvents
  /\ \E i \in DOMAIN ics :
       /\ ics[i].focused
       /\ alive' = (record[ics[i].owner] # "freed")
       /\ IF alive' THEN SendTo(ics[i].owner, <<Commit(i)>>) ELSE UNCHANGED toClient
  /\ imeEvents' = imeEvents + 1
  /\ UNCHANGED <<record, sync, pending, ics, toServer, clientVars>>

-----------------------------------------------------------------------------
Client(c) ==
  \/ ClientXConnect(c)
  \/ ClientConnect(c)
  \/ ClientAskIM(c)
  \/ ClientCreateIC(c)
  \/ ClientAskIC(c)
  \/ ClientDisconnect(c)
  \/ ClientFocus(c)
  \/ ClientKey(c)
  \/ ClientSyncReply(c)
  \/ ClientReceive(c)
  \/ ClientVanish(c)

Server(c) ==
  \/ ReadXConnectMessage(c)
  \/ ConnectMessageProc(c)
  \/ DisConnectMessageProc(c)
  \/ Discard(c)
  \/ AnswerRequest(c)
  \/ CreateICMessageProc(c)
  \/ SetICValuesMessageProc(c)
  \/ SetICFocusMessageProc(c)
  \/ UnsetICFocusMessageProc(c)
  \/ QueueKeyEvent(c)
  \/ ForwardEventMessageProc(c)
  \/ SyncReplyMessageProc(c)

Ime == ImeOpenStatus \/ ImeCommit

Next == (\E c \in Clients : Client(c) \/ Server(c)) \/ Ime

Spec == Init /\ [][Next]_vars

(* The server's event loop handles every event that has arrived, in order  *)
(* of arrival, so that no connection is passed over for ever.  A running    *)
(* client dispatches what it is sent and answers synchronous messages.     *)
Fairness ==
  \A c \in Clients : /\ WF_vars(Server(c))
                     /\ WF_vars(ClientReceive(c))
                     /\ WF_vars(ClientSyncReply(c))

FairSpec == Spec /\ Fairness

-----------------------------------------------------------------------------
(* Type correctness of the server's state, of the channels and of the      *)
(* clients (Xi18nClient, IMIC and the XIM messages).                       *)
TypeOK ==
  /\ alive \in BOOLEAN
  /\ record \in [Clients -> {"none", "new", "ready", "freed"}]
  /\ sync \in [Clients -> BOOLEAN]
  /\ pending \in [Clients -> Seq(ToServerMsg)]
  /\ ics \in Seq(IMIC)
  /\ imeEvents \in Nat
  /\ toServer \in [Clients -> Seq(ToServerMsg)]
  /\ toClient \in [Clients -> Seq(ToClientMsg)]
  /\ phase \in [Clients -> {"new", "accepted", "connected", "closed", "vanished"}]
  /\ waiting \in [Clients -> RequestTypes \cup {"none"}]
  /\ held \in [Clients -> SUBSET Nat]
  /\ masked \in [Clients -> SUBSET Nat]
  /\ owes \in [Clients -> BOOLEAN]
  /\ keysSent \in [Clients -> Nat]

(* Key events wait in client->pending only while client->sync is set: the   *)
(* loop of ProcessQueue leaves none behind that nothing would wake up.     *)
SyncGatesQueue == \A c \in Clients : pending[c] # <<>> => sync[c]

SyncUnderWay(msgs) == \E n \in DOMAIN msgs : IsSync(msgs[n])

ReplyUnderWay(msgs) == \E n \in DOMAIN msgs : msgs[n].type = "SYNC_REPLY"

AckComing(c) == SyncUnderWay(toClient[c]) \/ owes[c] \/ ReplyUnderWay(toServer[c])

(* While client->sync is set, the XIM_SYNC_REPLY that will clear it is due: *)
(* a synchronous message is on its way, or dispatched but not answered, or *)
(* the answer is on its way.  Otherwise the keys of c would be held back    *)
(* for ever.                                                               *)
AckDue == \A c \in Clients : record[c] # "freed" /\ sync[c] => AckComing(c)

(* Every request is answered exactly once: while a client waits, either its *)
(* request or the one reply to it is in flight, and when it does not wait,  *)
(* neither is (each *MessageProc sends one reply on each path).            *)
OneReplyInFlight ==
  \A c \in Clients :
    Cardinality({n \in DOMAIN toServer[c] : toServer[c][n].type \in RequestTypes})
      + Cardinality({n \in DOMAIN toClient[c] : toClient[c][n].type = "REPLY"})
    = IF waiting[c] = "none" THEN 0 ELSE 1

(* A client is told to forward the keys of an IC only after it has learnt   *)
(* the IC's id and before it has given the IC up (XIM_SET_EVENT_MASK after  *)
(* XIM_CREATE_IC_REPLY in _Xi18nChangeIC).                                 *)
MaskedAreHeld == \A c \in Clients : masked[c] \subseteq held[c]

(* IC i is in ic_list and sends its events to the connection c.            *)
Serves(c, i) == i \in DOMAIN ics /\ ics[i].owner = c

(* Every IC that a client holds is in ic_list, where its results find their *)
(* way to that client (NewIMIC, StoreIMIC), whatever other clients do.     *)
HeldICsServed == \A c \in Clients : \A i \in held[c] : Serves(c, i)

(* The bridge dies only in the wake of a disconnect: some connection was    *)
(* closed whose ICs, never removed from ic_list, had had the focus.         *)
DiesOnlyAfterDisconnect ==
  ~alive => \E i \in DOMAIN ics : ics[i].focused /\ record[ics[i].owner] = "freed"

-----------------------------------------------------------------------------
(* Key events not yet disposed of, and key events on their way back.       *)

KeyMsgs == {m \in ToServerMsg \cup ToClientMsg : IsKey(m)}

KeyEvents(msgs) == Select(msgs, KeyMsgs)

Unresolved(c) ==
  IF record[c] = "freed" THEN <<>> ELSE pending[c] \o KeyEvents(toServer[c])

KeyOf(m) == [ic |-> m.ic, key |-> m.key]

KeysOf(msgs) == [n \in DOMAIN msgs |-> KeyOf(msgs[n])]

(* The abstract key path: XIM_FORWARD_EVENT messages travelling in either   *)
(* direction and client->pending are its queues, the toggled flags are its  *)
(* licence to keep a key.                                                  *)
Relay == INSTANCE KeyRelay WITH
  ICs    <- 1 .. MaxICs,
  issued <- keysSent,
  queue  <- [c \in Clients |-> KeysOf(Unresolved(c))],
  back   <- [c \in Clients |-> KeysOf(KeyEvents(toClient[c]))],
  armed  <- {i \in DOMAIN ics : ics[i].toggled},
  open   <- {c \in Clients : record[c] # "freed"}

(* The server implements the key path: it never reorders, duplicates or    *)
(* invents a key event, and keeps one only on account of a toggle          *)
(* (AddQueue, ProcessQueue, winXIMEForwardEventHandler).                   *)
RelayKeys == Relay!Spec

-----------------------------------------------------------------------------
(* Every key event that a client forwards is disposed of, unless the client *)
(* vanishes, its connection is closed or the process dies: no key is stuck  *)
(* in client->pending.                                                     *)
KeysDisposed ==
  \A c \in Clients, k \in 1 .. MaxKeys :
    LET Waits == \E n \in DOMAIN Unresolved(c) : Unresolved(c)[n].key = k IN
    Waits ~> (~Waits \/ ~alive \/ phase[c] = "vanished")

(* Every request is answered, whatever other clients do, vanishing included *)
(* (each *MessageProc sends its reply).                                    *)
RequestsAnswered ==
  \A c \in Clients :
    waiting[c] # "none" ~> (waiting[c] = "none" \/ ~alive \/ phase[c] = "vanished")

=============================================================================
