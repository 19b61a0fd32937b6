-------------------------- MODULE XimServerProofs --------------------------
(***************************************************************************)
(* Proofs of the safety properties of XimServer, for every set of          *)
(* connections and all bounds.                                             *)
(***************************************************************************)
EXTENDS XimServer, SequenceTheorems, FiniteSetTheorems, TLAPS

(* The messages that the actions build are of their types.                 *)
LEMMA MessageTypes ==
  ASSUME NEW i \in Nat, NEW k \in Nat
  PROVE  /\ \A t \in RequestTypes \cup FocusTypes \cup {"SYNC_REPLY"} :
              ToServer(t, i) \in ToServerMsg
         /\ KeyEvent(i, k) \in ToServerMsg
         /\ \A r \in RequestTypes : Reply(r, i) \in ToClientMsg
         /\ SetEventMask(i) \in ToClientMsg
         /\ Commit(i) \in ToClientMsg
         /\ \A e \in ToServerMsg : ForwardEvent(e) \in ToClientMsg
BY DEF ToServer, KeyEvent, Reply, SetEventMask, Commit, ForwardEvent,
       ToServerMsg, ToClientMsg

(* Sending extends the channel to a client and keeps its type.             *)
LEMMA SendToType ==
  ASSUME toClient \in [Clients -> Seq(ToClientMsg)],
         NEW c \in Clients, NEW msgs \in Seq(ToClientMsg), SendTo(c, msgs)
  PROVE  toClient' \in [Clients -> Seq(ToClientMsg)]
<1>1. toClient[c] \o msgs \in Seq(ToClientMsg)
  BY ConcatProperties
<1>2. QED
  BY <1>1 DEF SendTo

(* So does a client's sending.                                             *)
LEMMA ClientSendType ==
  ASSUME toServer \in [Clients -> Seq(ToServerMsg)],
         NEW c \in Clients, NEW m \in ToServerMsg, ClientSend(c, m)
  PROVE  toServer' \in [Clients -> Seq(ToServerMsg)]
<1>1. Append(toServer[c], m) \in Seq(ToServerMsg)
  BY AppendProperties
<1>2. QED
  BY <1>1 DEF ClientSend

(* Taking the head of a nonempty channel leaves a channel.                 *)
LEMMA ConsumeType ==
  ASSUME toServer \in [Clients -> Seq(ToServerMsg)],
         NEW c \in Clients, toServer[c] # <<>>, Consume(c)
  PROVE  /\ Head(toServer[c]) \in ToServerMsg
         /\ toServer' \in [Clients -> Seq(ToServerMsg)]
<1>1. Head(toServer[c]) \in ToServerMsg /\ Tail(toServer[c]) \in Seq(ToServerMsg)
  BY HeadTailProperties
<1>2. QED
  BY <1>1 DEF Consume

(* So does setting a field of an IC.                                       *)
LEMMA ICUpdateType ==
  ASSUME ics \in Seq(IMIC), NEW i, NEW c \in Clients
  PROVE  /\ [ics EXCEPT ![i].owner = c] \in Seq(IMIC)
         /\ [ics EXCEPT ![i].toggled = TRUE] \in Seq(IMIC)
         /\ [ics EXCEPT ![i].focused = TRUE] \in Seq(IMIC)
<1>1. ics \in [1 .. Len(ics) -> IMIC] /\ Len(ics) \in Nat
  BY LenProperties
<1>2. [ics EXCEPT ![i].owner = c] \in [1 .. Len(ics) -> IMIC]
  BY <1>1 DEF IMIC
<1>3. [ics EXCEPT ![i].toggled = TRUE] \in [1 .. Len(ics) -> IMIC]
  BY <1>1 DEF IMIC
<1>4. [ics EXCEPT ![i].focused = TRUE] \in [1 .. Len(ics) -> IMIC]
  BY <1>1 DEF IMIC
<1>5. QED
  BY <1>1, <1>2, <1>3, <1>4

(* Handling a run of key events keeps the types of what it changes.        *)
LEMMA HandleType ==
  ASSUME TypeOK, NEW c \in Clients, NEW q \in Seq(ToServerMsg),
         NEW n \in Nat, Handle(c, q, n)
  PROVE  /\ ics' \in Seq(IMIC)
         /\ sync' \in [Clients -> BOOLEAN]
         /\ toClient' \in [Clients -> Seq(ToClientMsg)]
<1>1. ics' \in Seq(IMIC)
  <2>1. ics \in [1 .. Len(ics) -> IMIC] /\ Len(ics) \in Nat /\ DOMAIN ics = 1 .. Len(ics)
    BY LenProperties DEF TypeOK
  <2>2. ics' \in [1 .. Len(ics) -> IMIC]
    BY <2>1 DEF Handle, ClearToggled, IMIC
  <2>3. QED
    BY <2>1, <2>2
<1>2. sync' \in [Clients -> BOOLEAN]
  BY DEF Handle, TypeOK
<1>3. toClient' \in [Clients -> Seq(ToClientMsg)]
  <2>1. q[n] \in ToServerMsg
    BY ElementOfSeq DEF Handle
  <2>2. <<ForwardEvent(q[n])>> \in Seq(ToClientMsg)
    BY <2>1, MessageTypes
  <2>3. QED
    BY <2>2, SendToType DEF Handle, TypeOK
<1>4. QED
  BY <1>1, <1>2, <1>3

(* Every step keeps the types.                                             *)
LEMMA ClientStepType ==
  ASSUME TypeOK, NEW c \in Clients, Client(c)
  PROVE  TypeOK'
<1>. USE DEF TypeOK
<1>1. ASSUME NEW r \in RequestTypes, NEW i \in Nat, Request(c, r, i)
      PROVE  TypeOK'
  <2>1. toServer' \in [Clients -> Seq(ToServerMsg)]
    BY <1>1, MessageTypes, ClientSendType DEF Request
  <2>2. QED
    BY <1>1, <2>1 DEF Request, ClientSend, serverVars
<1>2. ASSUME NEW m \in ToServerMsg, ClientSend(c, m)
      PROVE  /\ toServer' \in [Clients -> Seq(ToServerMsg)]
             /\ UNCHANGED <<serverVars, toClient>>
  BY <1>2, ClientSendType DEF ClientSend
<1>3. CASE ClientXConnect(c)
  BY <1>1, <1>3 DEF ClientXConnect, RequestTypes
<1>4. CASE ClientConnect(c)
  BY <1>1, <1>4 DEF ClientConnect, RequestTypes
<1>5. CASE ClientAskIM(c)
  BY <1>1, <1>5 DEF ClientAskIM, RequestTypes
<1>6. CASE ClientCreateIC(c)
  BY <1>1, <1>6 DEF ClientCreateIC, RequestTypes
<1>7. CASE ClientAskIC(c)
  <2>1. PICK r \in ICRequests, i \in held[c] : Request(c, r, i)
    BY <1>7 DEF ClientAskIC
  <2>2. r \in RequestTypes /\ i \in Nat
    BY DEF RequestTypes
  <2>3. QED
    BY <1>1, <2>1, <2>2
<1>8. CASE ClientDisconnect(c)
  BY <1>1, <1>8 DEF ClientDisconnect, RequestTypes
<1>9. CASE ClientFocus(c)
  <2>1. PICK i \in held[c], t \in FocusTypes : ClientSend(c, ToServer(t, i))
    BY <1>9 DEF ClientFocus
  <2>2. ToServer(t, i) \in ToServerMsg
    BY MessageTypes
  <2>3. QED
    BY <1>2, <1>9, <2>1, <2>2 DEF ClientFocus, clientVars, serverVars
<1>10. CASE ClientKey(c)
  <2>1. PICK i \in masked[c] : ClientSend(c, KeyEvent(i, keysSent[c] + 1))
    BY <1>10 DEF ClientKey
  <2>2. KeyEvent(i, keysSent[c] + 1) \in ToServerMsg
    BY MessageTypes
  <2>3. QED
    BY <1>2, <1>10, <2>1, <2>2 DEF ClientKey, serverVars
<1>11. CASE ClientSyncReply(c)
  <2>1. ToServer("SYNC_REPLY", 0) \in ToServerMsg
    BY MessageTypes
  <2>2. QED
    BY <1>2, <1>11, <2>1 DEF ClientSyncReply, serverVars
<1>12. CASE ClientReceive(c)
  <2>1. Head(toClient[c]) \in ToClientMsg /\ Tail(toClient[c]) \in Seq(ToClientMsg)
    BY <1>12, HeadTailProperties DEF ClientReceive
  <2>2. toClient' \in [Clients -> Seq(ToClientMsg)]
    BY <1>12, <2>1 DEF ClientReceive
  <2>3. waiting' \in [Clients -> RequestTypes \cup {"none"}]
    BY <1>12 DEF ClientReceive
  <2>4. phase' \in [Clients -> {"new", "accepted", "connected", "closed", "vanished"}]
    BY <1>12 DEF ClientReceive
  <2>5. Head(toClient[c]).ic \in Nat
    BY <2>1 DEF ToClientMsg
  <2>6. held' \in [Clients -> SUBSET Nat]
    BY <1>12, <2>5 DEF ClientReceive
  <2>7. masked' \in [Clients -> SUBSET Nat]
    BY <1>12, <2>5 DEF ClientReceive
  <2>8. owes' \in [Clients -> BOOLEAN]
    BY <1>12 DEF ClientReceive, IsSync
  <2>9. QED
    BY <1>12, <2>2, <2>3, <2>4, <2>6, <2>7, <2>8 DEF ClientReceive, serverVars
<1>13. CASE ClientVanish(c)
  BY <1>13 DEF ClientVanish, serverVars
<1>14. QED
  BY <1>3, <1>4, <1>5, <1>6, <1>7, <1>8, <1>9, <1>10, <1>11, <1>12, <1>13 DEF Client

(* A request that is answered changes neither the server nor the clients.   *)
LEMMA AnswerFrame ==
  ASSUME NEW c \in Clients, AnswerRequest(c)
  PROVE  /\ alive /\ toServer[c] # <<>> /\ Consume(c)
         /\ UNCHANGED <<serverVars, clientVars>>
BY DEF AnswerRequest, OpenMessageProc, CloseMessageProc, QueryExtensionMessageProc,
   GetIMValuesMessageProc, EncodingNegotiatonMessageProc, GetICValuesMessageProc,
   DestroyICMessageProc, ResetICMessageProc, Answers, Receives

(* A request that is merely answered is one of the known requests, other    *)
(* than those that the remaining handlers take.                            *)
LEMMA AnsweredRequest ==
  ASSUME TypeOK, NEW c \in Clients, AnswerRequest(c)
  PROVE  /\ \E r \in RequestTypes \ {"CREATE_IC"} :
              /\ Receives(c, r)
              /\ SendTo(c, <<Reply(r, Head(toServer[c]).ic)>>)
         /\ toServer[c] # <<>>
         /\ Consume(c)
         /\ UNCHANGED <<serverVars, clientVars>>
<1>1. PICK r : Answers(c, r) /\ r \notin FocusTypes
                 \cup {"CREATE_IC", "FORWARD_EVENT", "SYNC_REPLY"}
  BY DEF AnswerRequest, OpenMessageProc, CloseMessageProc, QueryExtensionMessageProc,
     GetIMValuesMessageProc, EncodingNegotiatonMessageProc, GetICValuesMessageProc,
     DestroyICMessageProc, ResetICMessageProc, FocusTypes
<1>2. toServer[c] # <<>> /\ Head(toServer[c]).type = r /\ Consume(c)
  BY <1>1 DEF Answers, Receives
<1>3. Head(toServer[c]) \in ToServerMsg
  BY <1>2, ConsumeType DEF TypeOK
<1>4. r \in RequestTypes \ {"CREATE_IC"}
  BY <1>1, <1>2, <1>3 DEF ToServerMsg
<1>5. QED
  BY <1>1, <1>2, <1>4 DEF Answers, Answer

LEMMA ServerStepType ==
  ASSUME TypeOK, NEW c \in Clients, Server(c)
  PROVE  TypeOK'
<1>. USE DEF TypeOK
<1>1. ASSUME toServer[c] # <<>>, Consume(c)
      PROVE  /\ Head(toServer[c]) \in ToServerMsg
             /\ Head(toServer[c]).ic \in Nat
             /\ toServer' \in [Clients -> Seq(ToServerMsg)]
  BY <1>1, ConsumeType DEF ToServerMsg
<1>2. ASSUME NEW m \in ToClientMsg, SendTo(c, <<m>>)
      PROVE  toClient' \in [Clients -> Seq(ToClientMsg)]
  <2>1. <<m>> \in Seq(ToClientMsg)
    OBVIOUS
  <2>2. QED
    BY <1>2, <2>1, SendToType
<1>3. CASE ReadXConnectMessage(c)
  <2>1. Reply("XCONNECT", 0) \in ToClientMsg
    BY MessageTypes DEF RequestTypes
  <2>2. <<>> \in Seq(ToServerMsg)
    OBVIOUS
  <2>3. QED
    BY <1>1, <1>2, <1>3, <2>1, <2>2 DEF ReadXConnectMessage, clientVars
<1>4. CASE ConnectMessageProc(c)
  <2>1. Reply("CONNECT", 0) \in ToClientMsg
    BY MessageTypes DEF RequestTypes
  <2>2. QED
    BY <1>1, <1>2, <1>4, <2>1 DEF ConnectMessageProc, clientVars
<1>5. CASE DisConnectMessageProc(c)
  <2>1. Reply("DISCONNECT", 0) \in ToClientMsg
    BY MessageTypes DEF RequestTypes
  <2>2. QED
    BY <1>1, <1>2, <1>5, <2>1 DEF DisConnectMessageProc, Receives, clientVars
<1>6. CASE Discard(c)
  BY <1>1, <1>6 DEF Discard, serverVars, clientVars
<1>7. CASE AnswerRequest(c)
  <2>1. PICK r \in RequestTypes : SendTo(c, <<Reply(r, Head(toServer[c]).ic)>>)
    BY <1>7, AnsweredRequest
  <2>2. toServer[c] # <<>> /\ Consume(c) /\ UNCHANGED <<serverVars, clientVars>>
    BY <1>7, AnsweredRequest
  <2>3. Reply(r, Head(toServer[c]).ic) \in ToClientMsg
    BY <1>1, <2>2, MessageTypes
  <2>4. QED
    BY <1>1, <1>2, <2>1, <2>2, <2>3 DEF serverVars, clientVars
<1>8. CASE CreateICMessageProc(c)
  <2>1. Len(ics) + 1 \in Nat
    BY LenProperties
  <2>2. CreateICMessages(Len(ics) + 1) \in Seq(ToClientMsg)
    BY <2>1, MessageTypes DEF CreateICMessages, RequestTypes
  <2>3. Append(ics, NewIMIC(c)) \in Seq(IMIC)
    BY AppendProperties DEF NewIMIC, IMIC
  <2>4. toClient' \in [Clients -> Seq(ToClientMsg)]
    BY <1>8, <2>2, SendToType DEF CreateICMessageProc
  <2>5. QED
    BY <1>1, <1>8, <2>3, <2>4 DEF CreateICMessageProc, Receives, clientVars
<1>9. CASE SetICValuesMessageProc(c)
  <2>. DEFINE i == Head(toServer[c]).ic
  <2>1. ics' \in Seq(IMIC)
    BY <1>9, ICUpdateType DEF SetICValuesMessageProc
  <2>2. Reply("SET_IC_VALUES", i) \in ToClientMsg
    <3>1. toServer[c] # <<>> /\ Head(toServer[c]).type = "SET_IC_VALUES" /\ Consume(c)
      BY <1>9 DEF SetICValuesMessageProc, Receives
    <3>2. "SET_IC_VALUES" \in RequestTypes
      BY <1>1, <3>1 DEF ToServerMsg, FocusTypes
    <3>3. QED
      BY <1>1, <3>1, <3>2, MessageTypes
  <2>3. QED
    BY <1>1, <1>2, <1>9, <2>1, <2>2 DEF SetICValuesMessageProc, Receives, clientVars
<1>10. CASE SetICFocusMessageProc(c)
  <2>1. ics' \in Seq(IMIC)
    BY <1>10, ICUpdateType DEF SetICFocusMessageProc
  <2>2. QED
    BY <1>1, <1>10, <2>1 DEF SetICFocusMessageProc, Receives, FindIMIC, clientVars
<1>11. CASE UnsetICFocusMessageProc(c)
  BY <1>1, <1>11 DEF UnsetICFocusMessageProc, Receives, FindIMIC, clientVars
<1>12. CASE QueueKeyEvent(c)
  <2>1. Append(pending[c], Head(toServer[c])) \in Seq(ToServerMsg)
    BY <1>1, <1>12, AppendProperties DEF QueueKeyEvent, Receives
  <2>2. QED
    BY <1>1, <1>12, <2>1 DEF QueueKeyEvent, AddQueue, Receives, clientVars
<1>13. CASE ForwardEventMessageProc(c)
  <2>1. <<Head(toServer[c])>> \in Seq(ToServerMsg)
    BY <1>1, <1>13 DEF ForwardEventMessageProc, Receives
  <2>2. QED
    BY <1>1, <1>13, <2>1, HandleType DEF ForwardEventMessageProc, Receives, clientVars
<1>14. CASE SyncReplyMessageProc(c)
  <2>1. CASE pending[c] = <<>> /\ UNCHANGED <<pending, ics, toClient>>
                /\ sync' = [sync EXCEPT ![c] = FALSE]
    BY <1>1, <1>14, <2>1 DEF SyncReplyMessageProc, Receives, clientVars
  <2>2. ASSUME NEW n \in DOMAIN pending[c], Handle(c, pending[c], n),
               pending' = [pending EXCEPT ![c] = SubSeq(@, n + 1, Len(@))]
        PROVE  TypeOK'
    <3>1. n \in Nat /\ Len(pending[c]) \in Nat
      BY LenProperties
    <3>2. SubSeq(pending[c], n + 1, Len(pending[c])) \in Seq(ToServerMsg)
      BY <3>1, SubSeqProperties, ElementOfSeq
    <3>3. QED
      BY <1>1, <1>14, <2>2, <3>1, <3>2, HandleType
      DEF SyncReplyMessageProc, Receives, clientVars
  <2>3. QED
    BY <1>14, <2>1, <2>2 DEF SyncReplyMessageProc
<1>15. QED
  BY <1>3, <1>4, <1>5, <1>6, <1>7, <1>8, <1>9, <1>10, <1>11, <1>12, <1>13, <1>14 DEF Server

LEMMA ImeStepType ==
  ASSUME TypeOK, Ime
  PROVE  TypeOK'
<1>. USE DEF TypeOK
<1>0. ics \in [1 .. Len(ics) -> IMIC] /\ Len(ics) \in Nat /\ DOMAIN ics = 1 .. Len(ics)
  BY LenProperties
<1>1. CASE ImeOpenStatus
  <2>1. PICK i \in DOMAIN ics : ics' = [ics EXCEPT ![i].toggled = TRUE]
    BY <1>1 DEF ImeOpenStatus
  <2>2. ics' \in Seq(IMIC)
    BY <2>1, ICUpdateType, ClientsAssumption
  <2>3. QED
    BY <1>1, <2>2 DEF ImeOpenStatus, clientVars
<1>2. CASE ImeCommit
  <2>1. PICK i \in DOMAIN ics :
          /\ alive' = (record[ics[i].owner] # "freed")
          /\ IF alive' THEN SendTo(ics[i].owner, <<Commit(i)>>) ELSE UNCHANGED toClient
    BY <1>2 DEF ImeCommit
  <2>2. ics[i].owner \in Clients /\ i \in Nat
    BY <1>0 DEF IMIC
  <2>3. toClient' \in [Clients -> Seq(ToClientMsg)]
    <3>1. <<Commit(i)>> \in Seq(ToClientMsg)
      BY <2>2, MessageTypes
    <3>2. QED
      BY <2>1, <2>2, <3>1, SendToType
  <2>4. alive' \in BOOLEAN
    BY <2>1
  <2>5. QED
    BY <1>2, <2>3, <2>4 DEF ImeCommit, clientVars
<1>3. QED
  BY <1>1, <1>2 DEF Ime

(* The state of the server, the channels and the clients keep their types.  *)
THEOREM TypeCorrect == Spec => []TypeOK
<1>1. Init => TypeOK
  BY DEF Init, TypeOK
<1>2. TypeOK /\ [Next]_vars => TypeOK'
  <2>1. SUFFICES ASSUME TypeOK, [Next]_vars PROVE TypeOK'
    OBVIOUS
  <2>2. CASE UNCHANGED vars
    BY <2>1, <2>2 DEF TypeOK, vars, serverVars, clientVars
  <2>3. QED
    BY <2>1, <2>2, ClientStepType, ServerStepType, ImeStepType DEF Next
<1>3. QED
  BY <1>1, <1>2, PTL DEF Spec

-----------------------------------------------------------------------------
(* What Handle does to sync: it is set when a key event was forwarded, and  *)
(* cleared when the whole run was swallowed.                               *)
LEMMA HandleSync ==
  ASSUME TypeOK, NEW c \in Clients, NEW q \in Seq(ToServerMsg),
         NEW n \in Nat, Handle(c, q, n)
  PROVE  /\ \A d \in Clients \ {c} : sync'[d] = sync[d] /\ toClient'[d] = toClient[d]
         /\ \/ /\ sync'[c] = TRUE
               /\ toClient'[c] = toClient[c] \o <<ForwardEvent(q[n])>>
            \/ /\ sync'[c] = FALSE
               /\ n = Len(q)
               /\ toClient'[c] = toClient[c]
BY DEF Handle, SendTo, TypeOK

(* The actions that touch neither sync nor pending.                        *)
LEMMA QuietStep ==
  ASSUME NEW c \in Clients,
         \/ Client(c)
         \/ ConnectMessageProc(c)
         \/ DisConnectMessageProc(c)
         \/ Discard(c)
         \/ AnswerRequest(c)
         \/ CreateICMessageProc(c)
         \/ SetICValuesMessageProc(c)
         \/ SetICFocusMessageProc(c)
         \/ UnsetICFocusMessageProc(c)
         \/ Ime
  PROVE  UNCHANGED <<sync, pending>>
<1>1. ASSUME Client(c) PROVE UNCHANGED serverVars
  BY <1>1 DEF Client, ClientXConnect, ClientConnect, ClientAskIM, ClientCreateIC,
     ClientAskIC, ClientDisconnect, ClientFocus, ClientKey, ClientSyncReply,
     ClientReceive, ClientVanish, Request, ClientSend
<1>2. QED
  BY <1>1, AnswerFrame DEF serverVars, ConnectMessageProc, DisConnectMessageProc, Discard,
     CreateICMessageProc, SetICValuesMessageProc,
     SetICFocusMessageProc, UnsetICFocusMessageProc, Ime, ImeOpenStatus, ImeCommit

LEMMA SyncGatesStep ==
  ASSUME TypeOK, SyncGatesQueue, [Next]_vars
  PROVE  SyncGatesQueue'
<1>1. CASE UNCHANGED <<sync, pending>>
  BY <1>1 DEF SyncGatesQueue
<1>2. ASSUME NEW c \in Clients, ReadXConnectMessage(c) PROVE SyncGatesQueue'
  BY <1>2 DEF ReadXConnectMessage, SyncGatesQueue, TypeOK
<1>3. ASSUME NEW c \in Clients, QueueKeyEvent(c) PROVE SyncGatesQueue'
  BY <1>3 DEF QueueKeyEvent, SyncGatesQueue, TypeOK
<1>4. ASSUME NEW c \in Clients, ForwardEventMessageProc(c) PROVE SyncGatesQueue'
  <2>1. Head(toServer[c]) \in ToServerMsg
    BY <1>4, HeadTailProperties DEF ForwardEventMessageProc, Receives, TypeOK
  <2>2. <<Head(toServer[c])>> \in Seq(ToServerMsg)
    BY <2>1
  <2>3. /\ ~sync[c] /\ pending' = pending
        /\ \A d \in Clients \ {c} : sync'[d] = sync[d]
    BY <1>4, <2>2, HandleSync DEF ForwardEventMessageProc
  <2>4. QED
    BY <2>3 DEF SyncGatesQueue
<1>5. ASSUME NEW c \in Clients, SyncReplyMessageProc(c) PROVE SyncGatesQueue'
  <2>1. CASE pending[c] = <<>> /\ UNCHANGED pending /\ sync' = [sync EXCEPT ![c] = FALSE]
    BY <2>1 DEF SyncGatesQueue, TypeOK
  <2>2. ASSUME NEW n \in DOMAIN pending[c], Handle(c, pending[c], n),
               pending' = [pending EXCEPT ![c] = SubSeq(@, n + 1, Len(@))]
        PROVE  SyncGatesQueue'
    <3>1. n \in Nat /\ Len(pending[c]) \in Nat
      BY LenProperties DEF TypeOK
    <3>2. /\ \A d \in Clients \ {c} : sync'[d] = sync[d]
          /\ sync'[c] = TRUE \/ n = Len(pending[c])
      BY <2>2, <3>1, HandleSync DEF TypeOK
    <3>3. n = Len(pending[c]) => pending'[c] = <<>>
      BY <2>2, <3>1, SubSeqEmpty DEF TypeOK
    <3>4. \A d \in Clients \ {c} : pending'[d] = pending[d]
      BY <2>2 DEF TypeOK
    <3>5. QED
      BY <3>2, <3>3, <3>4 DEF SyncGatesQueue
  <2>3. QED
    BY <1>5, <2>1, <2>2 DEF SyncReplyMessageProc
<1>6. QED
  BY <1>1, <1>2, <1>3, <1>4, <1>5, QuietStep, ClientsAssumption
  DEF Next, Server, vars, serverVars

(* Key events wait in client->pending only while client->sync is set, so    *)
(* that ProcessQueue leaves no key event behind without a wake-up.         *)
THEOREM QueueGated == Spec => []SyncGatesQueue
<1>1. Init => SyncGatesQueue
  BY DEF Init, SyncGatesQueue
<1>2. TypeOK /\ SyncGatesQueue /\ [Next]_vars => SyncGatesQueue'
  BY SyncGatesStep
<1>3. QED
  BY <1>1, <1>2, TypeCorrect, PTL DEF Spec

-----------------------------------------------------------------------------
(* What is under way in a channel stays so when the channel is extended,   *)
(* and when another message is taken from it.                              *)
LEMMA UnderWayExtended ==
  /\ \A s, t \in Seq(ToClientMsg) : SyncUnderWay(s) \/ SyncUnderWay(t) => SyncUnderWay(s \o t)
  /\ \A s, t \in Seq(ToServerMsg) : ReplyUnderWay(s) \/ ReplyUnderWay(t) => ReplyUnderWay(s \o t)
<1>1. ASSUME NEW s \in Seq(ToClientMsg), NEW t \in Seq(ToClientMsg),
             SyncUnderWay(s) \/ SyncUnderWay(t)
      PROVE  SyncUnderWay(s \o t)
  <2>1. CASE SyncUnderWay(s)
    <3>1. PICK n \in DOMAIN s : IsSync(s[n])
      BY <2>1 DEF SyncUnderWay
    <3>2. (s \o t)[n] = s[n] /\ n \in DOMAIN (s \o t)
      BY ConcatProperties, LenProperties
    <3>3. QED
      BY <3>1, <3>2 DEF SyncUnderWay
  <2>2. CASE SyncUnderWay(t)
    <3>1. PICK n \in DOMAIN t : IsSync(t[n])
      BY <2>2 DEF SyncUnderWay
    <3>2. (s \o t)[Len(s) + n] = t[n] /\ Len(s) + n \in DOMAIN (s \o t)
      BY ConcatProperties, LenProperties
    <3>3. QED
      BY <3>1, <3>2 DEF SyncUnderWay
  <2>3. QED
    BY <1>1, <2>1, <2>2
<1>2. ASSUME NEW s \in Seq(ToServerMsg), NEW t \in Seq(ToServerMsg),
             ReplyUnderWay(s) \/ ReplyUnderWay(t)
      PROVE  ReplyUnderWay(s \o t)
  <2>1. CASE ReplyUnderWay(s)
    BY <2>1, ConcatProperties, LenProperties DEF ReplyUnderWay
  <2>2. CASE ReplyUnderWay(t)
    <3>1. PICK n \in DOMAIN t : t[n].type = "SYNC_REPLY"
      BY <2>2 DEF ReplyUnderWay
    <3>2. (s \o t)[Len(s) + n] = t[n] /\ Len(s) + n \in DOMAIN (s \o t)
      BY ConcatProperties, LenProperties
    <3>3. QED
      BY <3>1, <3>2 DEF ReplyUnderWay
  <2>3. QED
    BY <1>2, <2>1, <2>2
<1>3. QED
  BY <1>1, <1>2

LEMMA UnderWayTail ==
  /\ \A s \in Seq(ToClientMsg) :
       s # <<>> /\ SyncUnderWay(s) => IsSync(Head(s)) \/ SyncUnderWay(Tail(s))
  /\ \A s \in Seq(ToServerMsg) :
       s # <<>> /\ ReplyUnderWay(s) => Head(s).type = "SYNC_REPLY" \/ ReplyUnderWay(Tail(s))
<1>1. ASSUME NEW S, NEW s \in Seq(S), s # <<>>, NEW n \in DOMAIN s
      PROVE  s[n] = Head(s) \/ \E m \in DOMAIN Tail(s) : s[n] = Tail(s)[m]
  <2>1. n = 1 \/ n - 1 \in DOMAIN Tail(s)
    BY <1>1, HeadTailProperties, LenProperties
  <2>2. n # 1 => s[n] = Tail(s)[n - 1]
    BY <1>1, <2>1, HeadTailProperties, LenProperties
  <2>3. QED
    BY <2>1, <2>2
<1>2. QED
  BY <1>1 DEF SyncUnderWay, ReplyUnderWay

(* Sending to one client leaves what is under way to any client.           *)
LEMMA SendToUnderWay ==
  ASSUME toClient \in [Clients -> Seq(ToClientMsg)],
         NEW c \in Clients, NEW msgs \in Seq(ToClientMsg), SendTo(c, msgs),
         NEW d \in Clients, SyncUnderWay(toClient[d])
  PROVE  SyncUnderWay(toClient'[d])
<1>1. CASE d = c
  <2>1. toClient'[d] = toClient[d] \o msgs
    BY <1>1 DEF SendTo
  <2>2. QED
    BY <2>1, UnderWayExtended
<1>2. CASE d # c
  BY <1>2 DEF SendTo
<1>3. QED
  BY <1>1, <1>2

(* A client's step leaves an answer that is coming on its way.             *)
LEMMA ClientKeepsAck ==
  ASSUME TypeOK, NEW c \in Clients, Client(c), NEW d \in Clients, AckComing(d)
  PROVE  AckComing(d)'
<1>. USE DEF TypeOK
<1>1. ASSUME NEW m \in ToServerMsg, ClientSend(c, m), owes'[d] = owes[d] \/ m.type = "SYNC_REPLY",
             d # c => owes'[d] = owes[d]
      PROVE  AckComing(d)'
  <2>1. toServer'[c] = toServer[c] \o <<m>> /\ <<m>> \in Seq(ToServerMsg)
    BY <1>1, AppendIsConcat DEF ClientSend
  <2>2. m.type = "SYNC_REPLY" => ReplyUnderWay(<<m>>)
    BY DEF ReplyUnderWay
  <2>3. d # c => toServer'[d] = toServer[d]
    BY <1>1 DEF ClientSend
  <2>4. toClient' = toClient
    BY <1>1 DEF ClientSend
  <2>5. QED
    BY <1>1, <2>1, <2>2, <2>3, <2>4, UnderWayExtended DEF AckComing
<1>2. ASSUME NEW r \in RequestTypes, NEW i \in Nat, Request(c, r, i)
      PROVE  AckComing(d)'
  BY <1>1, <1>2, MessageTypes DEF Request
<1>3. CASE ClientXConnect(c)
  BY <1>2, <1>3 DEF ClientXConnect, RequestTypes
<1>4. CASE ClientConnect(c)
  BY <1>2, <1>4 DEF ClientConnect, RequestTypes
<1>5. CASE ClientAskIM(c)
  BY <1>2, <1>5 DEF ClientAskIM, RequestTypes
<1>6. CASE ClientCreateIC(c)
  BY <1>2, <1>6 DEF ClientCreateIC, RequestTypes
<1>7. CASE ClientAskIC(c)
  <2>1. PICK r \in ICRequests, i \in held[c] : Request(c, r, i)
    BY <1>7 DEF ClientAskIC
  <2>2. r \in RequestTypes /\ i \in Nat
    BY DEF RequestTypes
  <2>3. QED
    BY <1>2, <2>1, <2>2
<1>8. CASE ClientDisconnect(c)
  BY <1>2, <1>8 DEF ClientDisconnect, RequestTypes
<1>9. CASE ClientFocus(c)
  <2>1. PICK i \in held[c], t \in FocusTypes : ClientSend(c, ToServer(t, i))
    BY <1>9 DEF ClientFocus
  <2>2. ToServer(t, i) \in ToServerMsg
    BY MessageTypes
  <2>3. QED
    BY <1>1, <1>9, <2>1, <2>2 DEF ClientFocus, clientVars
<1>10. CASE ClientKey(c)
  <2>1. PICK i \in masked[c] : ClientSend(c, KeyEvent(i, keysSent[c] + 1))
    BY <1>10 DEF ClientKey
  <2>2. KeyEvent(i, keysSent[c] + 1) \in ToServerMsg
    BY MessageTypes
  <2>3. QED
    BY <1>1, <1>10, <2>1, <2>2 DEF ClientKey
<1>11. CASE ClientSyncReply(c)
  <2>1. ToServer("SYNC_REPLY", 0) \in ToServerMsg /\ ToServer("SYNC_REPLY", 0).type = "SYNC_REPLY"
    BY MessageTypes DEF ToServer
  <2>2. QED
    BY <1>1, <1>11, <2>1 DEF ClientSyncReply
<1>12. CASE ClientReceive(c)
  <2>1. toClient'[c] = Tail(toClient[c]) /\ toClient[c] # <<>> /\ toServer' = toServer
    BY <1>12 DEF ClientReceive
  <2>2. owes[d] => owes'[d]
    BY <1>12 DEF ClientReceive
  <2>3. IsSync(Head(toClient[c])) => owes'[c]
    BY <1>12 DEF ClientReceive
  <2>4. d # c => toClient'[d] = toClient[d]
    BY <1>12 DEF ClientReceive
  <2>5. QED
    BY <2>1, <2>2, <2>3, <2>4, UnderWayTail DEF AckComing
<1>13. CASE ClientVanish(c)
  BY <1>13 DEF ClientVanish, AckComing
<1>14. QED
  BY <1>3, <1>4, <1>5, <1>6, <1>7, <1>8, <1>9, <1>10, <1>11, <1>12, <1>13 DEF Client

(* A handled run of key events that sets sync sends the last one back as a  *)
(* synchronous message.                                                    *)
LEMMA HandleSends ==
  ASSUME TypeOK, NEW c \in Clients, NEW q \in Seq(ToServerMsg),
         NEW n \in DOMAIN q, Handle(c, q, n), sync'[c]
  PROVE  SyncUnderWay(toClient'[c])
<1>1. n \in Nat /\ q[n] \in ToServerMsg
  BY LenProperties, ElementOfSeq
<1>2. toClient'[c] = toClient[c] \o <<ForwardEvent(q[n])>>
  BY <1>1, HandleSync
<1>3. <<ForwardEvent(q[n])>> \in Seq(ToClientMsg)
  BY <1>1, MessageTypes
<1>4. SyncUnderWay(<<ForwardEvent(q[n])>>)
  BY DEF SyncUnderWay, ForwardEvent, IsSync
<1>5. QED
  BY <1>2, <1>3, <1>4, UnderWayExtended DEF TypeOK

(* A server step after which sync is set for a connection that is not       *)
(* closed leaves an answer coming.                                         *)
LEMMA ServerKeepsAck ==
  ASSUME TypeOK, AckDue, NEW c \in Clients, Server(c),
         NEW d \in Clients, record'[d] # "freed", sync'[d]
  PROVE  AckComing(d)'
<1>. USE DEF TypeOK
<1>1. ASSUME record[d] # "freed", sync[d], owes' = owes,
             toServer[c] # <<>>, Consume(c), Head(toServer[c]).type # "SYNC_REPLY",
             toClient' = toClient \/ \E msgs \in Seq(ToClientMsg) : SendTo(c, msgs)
      PROVE  AckComing(d)'
  <2>1. AckComing(d)
    BY <1>1 DEF AckDue
  <2>2. ReplyUnderWay(toServer[d]) => ReplyUnderWay(toServer'[d])
    BY <1>1, UnderWayTail DEF Consume
  <2>3. SyncUnderWay(toClient[d]) => SyncUnderWay(toClient'[d])
    BY <1>1, SendToUnderWay
  <2>4. QED
    BY <1>1, <2>1, <2>2, <2>3 DEF AckComing
<1>2. ASSUME NEW t, t # "SYNC_REPLY", Receives(c, t)
      PROVE  toServer[c] # <<>> /\ Head(toServer[c]).type # "SYNC_REPLY"
  BY <1>2 DEF Receives
<1>3. ASSUME NEW m \in ToClientMsg, SendTo(c, <<m>>)
      PROVE  \E msgs \in Seq(ToClientMsg) : SendTo(c, msgs)
  <2>1. <<m>> \in Seq(ToClientMsg)
    OBVIOUS
  <2>2. QED
    BY <1>3, <2>1
<1>4. ASSUME NEW q \in Seq(ToServerMsg), NEW n \in DOMAIN q, Handle(c, q, n),
             d # c => /\ toServer'[d] = toServer[d]
                      /\ record'[d] = record[d]
                      /\ owes'[d] = owes[d]
      PROVE  AckComing(d)'
  <2>1. n \in Nat
    BY LenProperties
  <2>2. CASE d = c
    BY <1>4, <2>2, HandleSends DEF AckComing
  <2>3. CASE d # c
    BY <1>4, <2>1, <2>3, HandleSync DEF AckComing, AckDue
  <2>4. QED
    BY <2>2, <2>3
<1>5. ASSUME toServer[c] # <<>>, Consume(c)
      PROVE  Head(toServer[c]) \in ToServerMsg /\ Head(toServer[c]).ic \in Nat
  BY <1>5, ConsumeType DEF ToServerMsg
<1>6. CASE ReadXConnectMessage(c)
  <2>1. Reply("XCONNECT", 0) \in ToClientMsg
    BY MessageTypes DEF RequestTypes
  <2>2. d # c
    BY <1>6 DEF ReadXConnectMessage
  <2>3. record[d] # "freed" /\ sync[d]
    BY <1>6, <2>2 DEF ReadXConnectMessage
  <2>4. QED
    BY <1>1, <1>3, <1>6, <2>1, <2>3 DEF ReadXConnectMessage, clientVars
<1>7. CASE ConnectMessageProc(c)
  <2>1. Reply("CONNECT", 0) \in ToClientMsg
    BY MessageTypes DEF RequestTypes
  <2>2. record[d] # "freed" /\ sync[d]
    BY <1>7 DEF ConnectMessageProc
  <2>3. QED
    BY <1>1, <1>3, <1>7, <2>1, <2>2 DEF ConnectMessageProc, clientVars
<1>8. CASE DisConnectMessageProc(c)
  <2>1. Reply("DISCONNECT", 0) \in ToClientMsg
    BY MessageTypes DEF RequestTypes
  <2>2. record[d] # "freed" /\ sync[d]
    BY <1>8 DEF DisConnectMessageProc
  <2>3. QED
    BY <1>1, <1>2, <1>3, <1>8, <2>1, <2>2 DEF DisConnectMessageProc, clientVars
<1>9. CASE Discard(c)
  <2>1. d # c /\ record[d] # "freed" /\ sync[d]
    BY <1>9 DEF Discard, serverVars
  <2>2. AckComing(d)
    BY <2>1 DEF AckDue
  <2>3. toServer'[d] = toServer[d] /\ toClient' = toClient /\ owes' = owes
    BY <1>9, <2>1 DEF Discard, Consume, clientVars
  <2>4. QED
    BY <2>2, <2>3 DEF AckComing
<1>10. CASE AnswerRequest(c)
  <2>1. PICK r \in RequestTypes :
          Receives(c, r) /\ SendTo(c, <<Reply(r, Head(toServer[c]).ic)>>)
    BY <1>10, AnsweredRequest
  <2>2. toServer[c] # <<>> /\ Consume(c) /\ UNCHANGED <<serverVars, clientVars>>
    BY <1>10, AnsweredRequest
  <2>3. Reply(r, Head(toServer[c]).ic) \in ToClientMsg
    BY <1>5, <2>2, MessageTypes
  <2>4. r # "SYNC_REPLY"
    BY RequestsAssumption DEF RequestTypes
  <2>5. QED
    BY <1>1, <1>2, <1>3, <2>1, <2>2, <2>3, <2>4 DEF serverVars, clientVars
<1>11. CASE CreateICMessageProc(c)
  <2>1. CreateICMessages(Len(ics) + 1) \in Seq(ToClientMsg)
    BY MessageTypes, LenProperties DEF CreateICMessages, RequestTypes
  <2>2. QED
    BY <1>1, <1>2, <1>11, <2>1 DEF CreateICMessageProc, clientVars
<1>12. CASE SetICValuesMessageProc(c)
  <2>1. Head(toServer[c]).type = "SET_IC_VALUES" /\ "SET_IC_VALUES" \in RequestTypes
    BY <1>5, <1>12 DEF SetICValuesMessageProc, Receives, ToServerMsg, FocusTypes
  <2>2. Reply("SET_IC_VALUES", Head(toServer[c]).ic) \in ToClientMsg
    BY <1>2, <1>5, <1>12, <2>1, MessageTypes DEF SetICValuesMessageProc
  <2>3. QED
    BY <1>1, <1>2, <1>3, <1>12, <2>2 DEF SetICValuesMessageProc, clientVars
<1>13. CASE SetICFocusMessageProc(c)
  BY <1>1, <1>2, <1>13 DEF SetICFocusMessageProc, clientVars
<1>14. CASE UnsetICFocusMessageProc(c)
  BY <1>1, <1>2, <1>14 DEF UnsetICFocusMessageProc, clientVars
<1>15. CASE QueueKeyEvent(c)
  BY <1>1, <1>2, <1>15 DEF QueueKeyEvent, clientVars
<1>16. CASE ForwardEventMessageProc(c)
  <2>1. Head(toServer[c]) \in ToServerMsg
    BY <1>2, <1>5, <1>16 DEF ForwardEventMessageProc
  <2>2. /\ <<Head(toServer[c])>> \in Seq(ToServerMsg)
        /\ 1 \in DOMAIN <<Head(toServer[c])>>
    BY <2>1
  <2>3. QED
    BY <1>4, <1>16, <2>2 DEF ForwardEventMessageProc, Consume, clientVars
<1>17. CASE SyncReplyMessageProc(c)
  <2>1. CASE UNCHANGED toClient /\ sync' = [sync EXCEPT ![c] = FALSE]
    BY <1>17, <2>1 DEF SyncReplyMessageProc, Consume, AckDue, AckComing, clientVars
  <2>2. ASSUME NEW n \in DOMAIN pending[c], Handle(c, pending[c], n)
        PROVE  AckComing(d)'
    BY <1>4, <1>17, <2>2 DEF SyncReplyMessageProc, Consume, clientVars
  <2>3. QED
    BY <1>17, <2>1, <2>2 DEF SyncReplyMessageProc
<1>18. QED
  BY <1>6, <1>7, <1>8, <1>9, <1>10, <1>11, <1>12, <1>13, <1>14, <1>15, <1>16, <1>17 DEF Server

LEMMA ImeKeepsAck ==
  ASSUME TypeOK, Ime, NEW d \in Clients, AckComing(d)
  PROVE  AckComing(d)'
<1>1. CASE ImeOpenStatus
  BY <1>1 DEF ImeOpenStatus, AckComing, clientVars
<1>2. CASE ImeCommit
  <2>1. PICK i \in DOMAIN ics :
          IF alive' THEN SendTo(ics[i].owner, <<Commit(i)>>) ELSE UNCHANGED toClient
    BY <1>2 DEF ImeCommit
  <2>2. i \in Nat /\ ics[i].owner \in Clients
    <3>1. i \in Nat /\ ics[i] \in IMIC
      BY LenProperties, ElementOfSeq DEF TypeOK
    <3>2. QED
      BY <3>1 DEF IMIC
  <2>3. <<Commit(i)>> \in Seq(ToClientMsg)
    BY <2>2, MessageTypes
  <2>4. SyncUnderWay(toClient[d]) => SyncUnderWay(toClient'[d])
    BY <2>1, <2>2, <2>3, SendToUnderWay DEF TypeOK
  <2>5. QED
    BY <1>2, <2>4 DEF ImeCommit, AckComing, clientVars
<1>3. QED
  BY <1>1, <1>2 DEF Ime

(* While sync is set for a connection that is not closed, the SYNC_REPLY    *)
(* that will clear it is due: no key waits for an answer nobody owes.      *)
THEOREM AckIsDue == Spec => []AckDue
<1>1. Init => AckDue
  BY DEF Init, AckDue
<1>2. TypeOK /\ AckDue /\ [Next]_vars => AckDue'
  <2>1. SUFFICES ASSUME TypeOK, AckDue, [Next]_vars, NEW d \in Clients,
                        record'[d] # "freed", sync'[d]
                 PROVE  AckComing(d)'
    BY DEF AckDue
  <2>2. CASE UNCHANGED vars
    BY <2>1, <2>2 DEF AckDue, AckComing, vars, serverVars, clientVars
  <2>3. CASE Ime
    BY <2>1, <2>3, ImeKeepsAck DEF AckDue, Ime, ImeOpenStatus, ImeCommit
  <2>4. ASSUME NEW c \in Clients, Client(c) PROVE AckComing(d)'
    <3>1. UNCHANGED serverVars
      BY <2>4 DEF Client, ClientXConnect, ClientConnect, ClientAskIM, ClientCreateIC,
         ClientAskIC, ClientDisconnect, ClientFocus, ClientKey, ClientSyncReply,
         ClientReceive, ClientVanish, Request, ClientSend
    <3>2. QED
      BY <2>1, <2>4, <3>1, ClientKeepsAck DEF AckDue, serverVars
  <2>5. QED
    BY <2>1, <2>2, <2>3, <2>4, ServerKeepsAck DEF Next
<1>3. QED
  BY <1>1, <1>2, TypeCorrect, PTL DEF Spec

-----------------------------------------------------------------------------
(* The messages in a channel.                                              *)
Elems(s) == {s[n] : n \in DOMAIN s}

(* The requests whose handler reads or writes the IC they name.            *)
ICUses == FocusTypes \cup {"SET_IC_VALUES"}

(* The inductive strengthening of HeldICsServed: the ICs that a client has  *)
(* not yet learnt of, and those that messages on their way name, are in     *)
(* ic_list and belong to that client, too.                                 *)
ICsServed ==
  /\ HeldICsServed
  /\ \A c \in Clients : \A m \in Elems(toServer[c]) :
       m.type \in ICUses => Serves(c, m.ic)
  /\ \A c \in Clients : \A m \in Elems(toClient[c]) :
       m.re = "CREATE_IC" => Serves(c, m.ic)

LEMMA ElemsConcat ==
  ASSUME NEW S, NEW s \in Seq(S), NEW t \in Seq(S)
  PROVE  Elems(s \o t) \subseteq Elems(s) \cup Elems(t)
<1>1. SUFFICES ASSUME NEW n \in DOMAIN (s \o t)
               PROVE  (s \o t)[n] \in Elems(s) \cup Elems(t)
  BY DEF Elems
<1>2. CASE n <= Len(s)
  <2>1. n \in DOMAIN s /\ (s \o t)[n] = s[n]
    BY <1>2, ConcatProperties, LenProperties
  <2>2. QED
    BY <2>1 DEF Elems
<1>3. CASE ~(n <= Len(s))
  <2>1. n - Len(s) \in DOMAIN t /\ (s \o t)[n] = t[n - Len(s)]
    BY <1>3, ConcatProperties, LenProperties
  <2>2. QED
    BY <2>1 DEF Elems
<1>4. QED
  BY <1>2, <1>3

LEMMA ElemsTail ==
  ASSUME NEW S, NEW s \in Seq(S), s # <<>>
  PROVE  Head(s) \in Elems(s) /\ Elems(Tail(s)) \subseteq Elems(s)
<1>1. 1 \in DOMAIN s /\ Head(s) = s[1]
  BY HeadTailProperties, LenProperties, EmptySeq
<1>2. \A n \in DOMAIN Tail(s) : n + 1 \in DOMAIN s /\ Tail(s)[n] = s[n + 1]
  BY HeadTailProperties, LenProperties
<1>3. QED
  BY <1>1, <1>2 DEF Elems

(* What a client sends about an IC names one that it holds.                *)
LEMMA ToServerStep ==
  ASSUME TypeOK, [Next]_vars, NEW d \in Clients, NEW m \in Elems(toServer'[d]),
         m.type \in ICUses
  PROVE  m \in Elems(toServer[d]) \/ m.ic \in held[d]
<1>. USE DEF TypeOK
<1>1. ASSUME NEW c \in Clients, NEW x \in ToServerMsg, ClientSend(c, x),
             x.type \in ICUses => x.ic \in held[c]
      PROVE  m \in Elems(toServer[d]) \/ m.ic \in held[d]
  <2>1. CASE d = c
    <3>1. toServer'[d] = toServer[d] \o <<x>> /\ <<x>> \in Seq(ToServerMsg)
      BY <1>1, <2>1, AppendIsConcat DEF ClientSend
    <3>2. Elems(<<x>>) = {x}
      BY DEF Elems
    <3>3. Elems(toServer[d] \o <<x>>) \subseteq Elems(toServer[d]) \cup Elems(<<x>>)
      BY <3>1, ElemsConcat
    <3>4. m \in Elems(toServer[d]) \/ m = x
      BY <3>1, <3>2, <3>3
    <3>5. QED
      BY <1>1, <2>1, <3>4
  <2>2. CASE d # c
    BY <1>1, <2>2 DEF ClientSend
  <2>3. QED
    BY <2>1, <2>2
<1>2. ASSUME NEW c \in Clients, NEW r \in RequestTypes, NEW i \in Nat, Request(c, r, i),
             r \in ICUses => i \in held[c]
      PROVE  m \in Elems(toServer[d]) \/ m.ic \in held[d]
  <2>1. ToServer(r, i) \in ToServerMsg /\ ToServer(r, i).type = r /\ ToServer(r, i).ic = i
    BY MessageTypes DEF ToServer
  <2>2. QED
    BY <1>1, <1>2, <2>1 DEF Request
<1>3. ASSUME NEW c \in Clients, Client(c)
      PROVE  m \in Elems(toServer[d]) \/ m.ic \in held[d]
  <2>1. CASE ClientXConnect(c)
    BY <1>2, <2>1 DEF ClientXConnect, RequestTypes, ICUses, FocusTypes
  <2>2. CASE ClientConnect(c)
    BY <1>2, <2>2 DEF ClientConnect, RequestTypes, ICUses, FocusTypes
  <2>3. CASE ClientAskIM(c)
    <3>1. PICK r \in IMRequests : Request(c, r, 0)
      BY <2>3 DEF ClientAskIM
    <3>2. r \in RequestTypes /\ r \notin ICUses
      BY RequestsAssumption DEF RequestTypes, ICUses, FocusTypes
    <3>3. QED
      BY <1>2, <3>1, <3>2
  <2>4. CASE ClientCreateIC(c)
    BY <1>2, <2>4 DEF ClientCreateIC, RequestTypes, ICUses, FocusTypes
  <2>5. CASE ClientAskIC(c)
    <3>1. PICK r \in ICRequests, i \in held[c] : Request(c, r, i)
      BY <2>5 DEF ClientAskIC
    <3>2. r \in RequestTypes /\ i \in Nat
      BY DEF RequestTypes
    <3>3. QED
      BY <1>2, <3>1, <3>2
  <2>6. CASE ClientDisconnect(c)
    BY <1>2, <2>6 DEF ClientDisconnect, RequestTypes, ICUses, FocusTypes
  <2>7. CASE ClientFocus(c)
    <3>1. PICK i \in held[c], t \in FocusTypes : ClientSend(c, ToServer(t, i))
      BY <2>7 DEF ClientFocus
    <3>2. ToServer(t, i) \in ToServerMsg /\ ToServer(t, i).ic = i
      BY MessageTypes DEF ToServer
    <3>3. QED
      BY <1>1, <3>1, <3>2
  <2>8. CASE ClientKey(c)
    <3>1. PICK i \in masked[c] : ClientSend(c, KeyEvent(i, keysSent[c] + 1))
      BY <2>8 DEF ClientKey
    <3>2. /\ KeyEvent(i, keysSent[c] + 1) \in ToServerMsg
          /\ KeyEvent(i, keysSent[c] + 1).type \notin ICUses
      BY MessageTypes DEF KeyEvent, ICUses, FocusTypes
    <3>3. QED
      BY <1>1, <3>1, <3>2
  <2>9. CASE ClientSyncReply(c)
    <3>1. /\ ToServer("SYNC_REPLY", 0) \in ToServerMsg
          /\ ToServer("SYNC_REPLY", 0).type \notin ICUses
      BY MessageTypes DEF ToServer, ICUses, FocusTypes
    <3>2. QED
      BY <1>1, <2>9, <3>1 DEF ClientSyncReply
  <2>10. CASE ClientReceive(c) \/ ClientVanish(c)
    BY <2>10 DEF ClientReceive, ClientVanish
  <2>11. QED
    BY <1>3, <2>1, <2>2, <2>3, <2>4, <2>5, <2>6, <2>7, <2>8, <2>9, <2>10 DEF Client
<1>4. ASSUME NEW c \in Clients, Server(c) PROVE m \in Elems(toServer[d])
  <2>1. toServer[c] # <<>> /\ Consume(c)
    BY <1>4, AnswerFrame DEF Server, Receives, ReadXConnectMessage, ConnectMessageProc,
       DisConnectMessageProc, Discard, CreateICMessageProc,
       SetICValuesMessageProc, SetICFocusMessageProc, UnsetICFocusMessageProc,
       QueueKeyEvent, ForwardEventMessageProc, SyncReplyMessageProc
  <2>2. QED
    BY <2>1, ElemsTail DEF Consume
<1>5. CASE UNCHANGED toServer
  BY <1>5
<1>6. Ime \/ UNCHANGED vars => UNCHANGED toServer
  BY DEF Ime, ImeOpenStatus, ImeCommit, vars
<1>7. QED
  BY <1>3, <1>4, <1>5, <1>6 DEF Next

(* An IC in ic_list stays there and keeps its owner.                       *)
LEMMA ServesStep ==
  ASSUME TypeOK, ICsServed, [Next]_vars, NEW d \in Clients, NEW i, Serves(d, i)
  PROVE  Serves(d, i)'
<1>. USE DEF TypeOK
<1>0. /\ ics \in [1 .. Len(ics) -> IMIC]
      /\ Len(ics) \in Nat
      /\ DOMAIN ics = 1 .. Len(ics)
  BY LenProperties
<1>1. CASE UNCHANGED ics
  BY <1>1 DEF Serves
<1>2. ASSUME NEW c \in Clients, CreateICMessageProc(c) PROVE Serves(d, i)'
  <2>1. ics' = Append(ics, NewIMIC(c)) /\ NewIMIC(c) \in IMIC
    BY <1>2 DEF CreateICMessageProc, NewIMIC, IMIC
  <2>2. i \in DOMAIN ics' /\ ics'[i] = ics[i]
    BY <1>0, <2>1, AppendProperties DEF Serves
  <2>3. QED
    BY <2>2 DEF Serves
<1>3. ASSUME NEW c \in Clients, SetICValuesMessageProc(c) PROVE Serves(d, i)'
  <2>1. Head(toServer[c]) \in Elems(toServer[c]) /\ Head(toServer[c]).type \in ICUses
    BY <1>3, ElemsTail DEF SetICValuesMessageProc, Receives, ICUses
  <2>2. Serves(c, Head(toServer[c]).ic)
    BY <2>1 DEF ICsServed
  <2>3. QED
    BY <1>0, <1>3, <2>2 DEF SetICValuesMessageProc, Serves, IMIC
<1>4. ASSUME NEW c \in Clients, SetICFocusMessageProc(c) PROVE Serves(d, i)'
  <2>1. ics' = ics \/ \E j : ics' = [ics EXCEPT ![j].focused = TRUE]
    BY <1>4 DEF SetICFocusMessageProc
  <2>2. QED
    BY <1>0, <2>1 DEF Serves, IMIC
<1>5. ASSUME NEW c, NEW q, NEW n, Handle(c, q, n) PROVE Serves(d, i)'
  BY <1>0, <1>5 DEF Handle, ClearToggled, Serves, IMIC
<1>6. CASE ImeOpenStatus
  BY <1>0, <1>6 DEF ImeOpenStatus, Serves, IMIC
<1>7. ASSUME NEW c \in Clients, Client(c) PROVE UNCHANGED ics
  BY <1>7 DEF Client, ClientXConnect, ClientConnect, ClientAskIM, ClientCreateIC,
     ClientAskIC, ClientDisconnect, ClientFocus, ClientKey, ClientSyncReply,
     ClientReceive, ClientVanish, Request, ClientSend, serverVars
<1>8. ASSUME NEW c \in Clients, Server(c) PROVE Serves(d, i)'
  BY <1>1, <1>2, <1>3, <1>4, <1>5, <1>8, AnswerFrame
  DEF Server, ReadXConnectMessage, ConnectMessageProc, DisConnectMessageProc, Discard,
      UnsetICFocusMessageProc, QueueKeyEvent, ForwardEventMessageProc,
      SyncReplyMessageProc, serverVars
<1>9. QED
  BY <1>1, <1>6, <1>7, <1>8 DEF Next, Ime, ImeCommit, vars, serverVars

(* A reply to CREATE_IC names an IC that was created for that client.      *)
LEMMA ToClientStep ==
  ASSUME TypeOK, [Next]_vars, NEW d \in Clients, NEW m \in Elems(toClient'[d]),
         m.re = "CREATE_IC"
  PROVE  m \in Elems(toClient[d]) \/ Serves(d, m.ic)'
<1>. USE DEF TypeOK
<1>1. ASSUME NEW c \in Clients, NEW msgs \in Seq(ToClientMsg), SendTo(c, msgs),
             \A x \in Elems(msgs) : x.re = "CREATE_IC" => Serves(c, x.ic)'
      PROVE  m \in Elems(toClient[d]) \/ Serves(d, m.ic)'
  <2>1. CASE d = c
    <3>1. toClient'[d] = toClient[d] \o msgs
      BY <1>1, <2>1 DEF SendTo
    <3>2. Elems(toClient[d] \o msgs) \subseteq Elems(toClient[d]) \cup Elems(msgs)
      BY ElemsConcat
    <3>3. QED
      BY <1>1, <2>1, <3>1, <3>2
  <2>2. CASE d # c
    BY <1>1, <2>2 DEF SendTo
  <2>3. QED
    BY <2>1, <2>2
<1>2. ASSUME NEW c \in Clients, NEW x \in ToClientMsg, SendTo(c, <<x>>), x.re # "CREATE_IC"
      PROVE  m \in Elems(toClient[d]) \/ Serves(d, m.ic)'
  <2>1. <<x>> \in Seq(ToClientMsg) /\ Elems(<<x>>) = {x}
    BY DEF Elems
  <2>2. QED
    BY <1>1, <1>2, <2>1
<1>3. ASSUME NEW c \in Clients, NEW r \in RequestTypes \ {"CREATE_IC"}, NEW i \in Nat,
             SendTo(c, <<Reply(r, i)>>)
      PROVE  m \in Elems(toClient[d]) \/ Serves(d, m.ic)'
  <2>1. Reply(r, i) \in ToClientMsg /\ Reply(r, i).re # "CREATE_IC"
    BY MessageTypes DEF Reply
  <2>2. QED
    BY <1>2, <1>3, <2>1
<1>4. ASSUME NEW c \in Clients, toServer[c] # <<>>, Consume(c)
      PROVE  Head(toServer[c]) \in ToServerMsg /\ Head(toServer[c]).ic \in Nat
  BY <1>4, ConsumeType DEF ToServerMsg
<1>5. ASSUME NEW c \in Clients, NEW q \in Seq(ToServerMsg), NEW n \in DOMAIN q, Handle(c, q, n)
      PROVE  m \in Elems(toClient[d]) \/ Serves(d, m.ic)'
  <2>1. n \in Nat /\ q[n] \in ToServerMsg
    BY LenProperties, ElementOfSeq
  <2>2. ForwardEvent(q[n]) \in ToClientMsg /\ ForwardEvent(q[n]).re # "CREATE_IC"
    BY <2>1, MessageTypes DEF ForwardEvent
  <2>3. QED
    BY <1>2, <1>5, <2>2 DEF Handle
<1>6. ASSUME NEW c \in Clients, CreateICMessageProc(c)
      PROVE  m \in Elems(toClient[d]) \/ Serves(d, m.ic)'
  <2>1. PICK i \in Nat : i = Len(ics) + 1
    BY LenProperties
  <2>2. CreateICMessages(i) \in Seq(ToClientMsg)
    BY <2>1, MessageTypes DEF CreateICMessages, RequestTypes
  <2>3. \A x \in Elems(CreateICMessages(i)) : x.ic = i
    BY DEF CreateICMessages, Elems, Reply, SetEventMask
  <2>4. ics' = Append(ics, NewIMIC(c)) /\ NewIMIC(c) \in IMIC /\ NewIMIC(c).owner = c
    BY <1>6 DEF CreateICMessageProc, NewIMIC, IMIC
  <2>5. Serves(c, i)'
    BY <2>1, <2>4, AppendProperties, LenProperties DEF Serves
  <2>6. QED
    BY <1>1, <1>6, <2>1, <2>2, <2>3, <2>5 DEF CreateICMessageProc
<1>7. ASSUME NEW c \in Clients, Server(c)
      PROVE  m \in Elems(toClient[d]) \/ Serves(d, m.ic)'
  <2>1. CASE ReadXConnectMessage(c)
    BY <1>3, <2>1 DEF ReadXConnectMessage, RequestTypes
  <2>2. CASE ConnectMessageProc(c)
    BY <1>3, <2>2 DEF ConnectMessageProc, RequestTypes
  <2>3. CASE DisConnectMessageProc(c)
    BY <1>3, <2>3 DEF DisConnectMessageProc, RequestTypes
  <2>4. CASE AnswerRequest(c)
    <3>1. PICK r \in RequestTypes \ {"CREATE_IC"} :
            SendTo(c, <<Reply(r, Head(toServer[c]).ic)>>)
      BY <2>4, AnsweredRequest
    <3>2. Head(toServer[c]).ic \in Nat
      BY <1>4, <2>4, AnsweredRequest
    <3>3. QED
      BY <1>3, <3>1, <3>2
  <2>5. CASE SetICValuesMessageProc(c)
    <3>1. Head(toServer[c]) \in ToServerMsg /\ Head(toServer[c]).ic \in Nat
      BY <1>4, <2>5 DEF SetICValuesMessageProc, Receives
    <3>2. "SET_IC_VALUES" \in RequestTypes \ {"CREATE_IC"}
      BY <2>5, <3>1 DEF SetICValuesMessageProc, Receives, ToServerMsg, FocusTypes
    <3>3. QED
      BY <1>3, <2>5, <3>1, <3>2 DEF SetICValuesMessageProc
  <2>6. CASE ForwardEventMessageProc(c)
    <3>1. Head(toServer[c]) \in ToServerMsg
      BY <1>4, <2>6 DEF ForwardEventMessageProc, Receives
    <3>2. <<Head(toServer[c])>> \in Seq(ToServerMsg) /\ 1 \in DOMAIN <<Head(toServer[c])>>
      BY <3>1
    <3>3. QED
      BY <1>5, <2>6, <3>2 DEF ForwardEventMessageProc
  <2>7. CASE SyncReplyMessageProc(c)
    BY <1>5, <2>7 DEF SyncReplyMessageProc
  <2>8. CASE \/ Discard(c) \/ SetICFocusMessageProc(c) \/ UnsetICFocusMessageProc(c)
             \/ QueueKeyEvent(c)
    BY <2>8 DEF Discard, SetICFocusMessageProc, UnsetICFocusMessageProc, QueueKeyEvent
  <2>9. QED
    BY <1>6, <1>7, <2>1, <2>2, <2>3, <2>4, <2>5, <2>6, <2>7, <2>8 DEF Server
<1>8. ASSUME NEW c \in Clients, Client(c) PROVE m \in Elems(toClient[d])
  <2>1. CASE ClientReceive(c)
    BY <2>1, ElemsTail DEF ClientReceive
  <2>2. CASE UNCHANGED toClient
    BY <2>2
  <2>3. QED
    BY <1>8, <2>1, <2>2 DEF Client, ClientXConnect, ClientConnect, ClientAskIM,
       ClientCreateIC, ClientAskIC, ClientDisconnect, ClientFocus, ClientKey,
       ClientSyncReply, ClientVanish, Request, ClientSend
<1>9. CASE Ime
  <2>1. CASE ImeOpenStatus
    BY <2>1 DEF ImeOpenStatus
  <2>2. CASE ImeCommit
    <3>1. PICK i \in DOMAIN ics :
            IF alive' THEN SendTo(ics[i].owner, <<Commit(i)>>) ELSE UNCHANGED toClient
      BY <2>2 DEF ImeCommit
    <3>2. i \in Nat /\ ics[i] \in IMIC
      BY LenProperties, ElementOfSeq
    <3>3. ics[i].owner \in Clients
      BY <3>2 DEF IMIC
    <3>4. Commit(i) \in ToClientMsg /\ Commit(i).re # "CREATE_IC"
      BY <3>2, MessageTypes DEF Commit
    <3>5. QED
      BY <1>2, <3>1, <3>3, <3>4
  <2>3. QED
    BY <1>9, <2>1, <2>2 DEF Ime
<1>10. CASE UNCHANGED vars
  BY <1>10 DEF vars
<1>11. QED
  BY <1>7, <1>8, <1>9, <1>10 DEF Next

(* A client learns of an IC by the reply to CREATE_IC only.                *)
LEMMA HeldStep ==
  ASSUME TypeOK, [Next]_vars, NEW d \in Clients, NEW i \in held'[d]
  PROVE  i \in held[d] \/ \E m \in Elems(toClient[d]) : m.re = "CREATE_IC" /\ m.ic = i
<1>1. ASSUME NEW c \in Clients, ClientReceive(c)
      PROVE  i \in held[d] \/ \E m \in Elems(toClient[d]) : m.re = "CREATE_IC" /\ m.ic = i
  <2>1. Head(toClient[c]) \in Elems(toClient[c])
    BY <1>1, ElemsTail DEF ClientReceive, TypeOK
  <2>2. \/ held'[d] \subseteq held[d]
        \/ /\ d = c /\ Head(toClient[c]).re = "CREATE_IC"
           /\ held'[d] = held[d] \cup {Head(toClient[c]).ic}
    BY <1>1 DEF ClientReceive, TypeOK
  <2>3. QED
    BY <2>1, <2>2
<1>2. ASSUME NEW c \in Clients, Client(c) PROVE ClientReceive(c) \/ UNCHANGED held
  BY <1>2 DEF Client, ClientXConnect, ClientConnect, ClientAskIM, ClientCreateIC,
     ClientAskIC, ClientDisconnect, ClientFocus, ClientKey, ClientSyncReply,
     ClientVanish, Request, clientVars
<1>3. ASSUME NEW c \in Clients, Server(c) PROVE UNCHANGED held
  BY <1>3, AnswerFrame
  DEF Server, ReadXConnectMessage, ConnectMessageProc, DisConnectMessageProc,
     Discard, CreateICMessageProc, SetICValuesMessageProc,
     SetICFocusMessageProc, UnsetICFocusMessageProc, QueueKeyEvent,
     ForwardEventMessageProc, SyncReplyMessageProc, clientVars
<1>4. QED
  BY <1>1, <1>2, <1>3 DEF Next, Ime, ImeOpenStatus, ImeCommit, vars, clientVars

LEMMA ICsServedStep ==
  ASSUME TypeOK, ICsServed, [Next]_vars
  PROVE  ICsServed'
<1>1. ASSUME NEW c \in Clients, NEW i \in held'[c] PROVE Serves(c, i)'
  <2>1. Serves(c, i)
    BY <1>1, HeldStep DEF ICsServed, HeldICsServed
  <2>2. QED
    BY <2>1, ServesStep
<1>2. ASSUME NEW c \in Clients, NEW m \in Elems(toServer'[c]), m.type \in ICUses
      PROVE  Serves(c, m.ic)'
  <2>1. Serves(c, m.ic)
    BY <1>2, ToServerStep DEF ICsServed, HeldICsServed
  <2>2. QED
    BY <2>1, ServesStep
<1>3. ASSUME NEW c \in Clients, NEW m \in Elems(toClient'[c]), m.re = "CREATE_IC"
      PROVE  Serves(c, m.ic)'
  <2>1. m \in Elems(toClient[c]) => Serves(c, m.ic)
    BY <1>3 DEF ICsServed
  <2>2. QED
    BY <1>3, <2>1, ServesStep, ToClientStep
<1>4. QED
  BY <1>1, <1>2, <1>3 DEF ICsServed, HeldICsServed

LEMMA ICsServedAlways == Spec => []ICsServed
<1>1. Init => ICsServed
  BY DEF Init, ICsServed, HeldICsServed, Elems
<1>2. TypeOK /\ ICsServed /\ [Next]_vars => ICsServed'
  BY ICsServedStep
<1>3. QED
  BY <1>1, <1>2, TypeCorrect, PTL DEF Spec

(* Every IC that a client holds is in ic_list and sends its events to that  *)
(* client, whatever the other clients do.                                  *)
THEOREM HeldAreServed == Spec => []HeldICsServed
BY ICsServedAlways, PTL DEF ICsServed

(* A message about the focus never meets an IC that is not in ic_list, so   *)
(* that the process can only die in the wake of a disconnect.              *)
THEOREM DeathCause == Spec => []DiesOnlyAfterDisconnect
<1>1. Init => DiesOnlyAfterDisconnect
  BY DEF Init, DiesOnlyAfterDisconnect
<1>2. ASSUME TypeOK, ICsServed, DiesOnlyAfterDisconnect, [Next]_vars
      PROVE  DiesOnlyAfterDisconnect'
  <2>1. CASE UNCHANGED vars
    BY <1>2, <2>1 DEF DiesOnlyAfterDisconnect, vars, serverVars
  <2>2. CASE alive'
    BY <2>2 DEF DiesOnlyAfterDisconnect
  <2>3. ASSUME NEW c \in Clients, SetICFocusMessageProc(c) \/ UnsetICFocusMessageProc(c)
        PROVE  alive'
    <3>1. /\ toServer[c] # <<>> /\ Head(toServer[c]).type \in ICUses
          /\ alive' = FindIMIC(Head(toServer[c]).ic)
      BY <2>3 DEF SetICFocusMessageProc, UnsetICFocusMessageProc, Receives, ICUses, FocusTypes
    <3>2. Head(toServer[c]) \in Elems(toServer[c])
      BY <3>1, ElemsTail, <1>2 DEF TypeOK
    <3>3. QED
      BY <1>2, <3>1, <3>2 DEF ICsServed, Serves, FindIMIC
  <2>4. CASE ImeCommit
    BY <1>2, <2>4 DEF ImeCommit, DiesOnlyAfterDisconnect
  <2>5. ASSUME NEW c \in Clients, Client(c) PROVE alive'
    BY <2>5 DEF Client, ClientXConnect, ClientConnect, ClientAskIM, ClientCreateIC,
       ClientAskIC, ClientDisconnect, ClientFocus, ClientKey, ClientSyncReply,
       ClientReceive, ClientVanish, Request, ClientSend, serverVars
  <2>6. ASSUME NEW c \in Clients, Server(c) PROVE alive'
    BY <2>3, <2>6, AnswerFrame
    DEF Server, Receives, ReadXConnectMessage, ConnectMessageProc,
       DisConnectMessageProc, Discard, CreateICMessageProc,
       SetICValuesMessageProc, QueueKeyEvent, ForwardEventMessageProc,
       SyncReplyMessageProc, serverVars
  <2>7. QED
    BY <1>2, <2>1, <2>2, <2>4, <2>5, <2>6 DEF Next, Ime, ImeOpenStatus
<1>3. QED
  BY <1>1, <1>2, TypeCorrect, ICsServedAlways, PTL DEF Spec

-----------------------------------------------------------------------------
(* The order of requests, replies and event masks: each request is answered *)
(* once, and a client is told to forward the keys only of ICs that it       *)
(* holds.                                                                  *)

(* No message of s, or exactly one, has a type in T.                       *)
NoneOf(s, T) == \A n \in DOMAIN s : s[n].type \notin T
OneOf(s, T)  == \E k \in DOMAIN s : \A n \in DOMAIN s : s[n].type \in T <=> n = k

(* A message of a concatenation is in the one part or in the other.        *)
LEMMA SplitConcat ==
  ASSUME NEW S, NEW s \in Seq(S), NEW t \in Seq(S)
  PROVE  /\ DOMAIN (s \o t) = 1 .. Len(s) + Len(t)
         /\ \A n \in DOMAIN (s \o t) :
              \/ n \in DOMAIN s /\ (s \o t)[n] = s[n]
              \/ /\ n \notin DOMAIN s /\ n - Len(s) \in DOMAIN t
                 /\ (s \o t)[n] = t[n - Len(s)]
<1>1. /\ Len(s) \in Nat /\ DOMAIN s = 1 .. Len(s)
      /\ Len(t) \in Nat /\ DOMAIN t = 1 .. Len(t)
  BY LenProperties
<1>2. s \o t \in Seq(S) /\ Len(s \o t) = Len(s) + Len(t)
  BY ConcatProperties
<1>3. DOMAIN (s \o t) = 1 .. Len(s) + Len(t)
  BY <1>2, LenProperties
<1>4. QED
  BY <1>1, <1>3, ConcatProperties

(* Sending other messages changes nothing; sending one adds one.           *)
LEMMA SentNoneOf ==
  ASSUME NEW S, NEW T, NEW s \in Seq(S), NEW t \in Seq(S), NoneOf(t, T)
  PROVE  /\ NoneOf(s, T) => NoneOf(s \o t, T)
         /\ OneOf(s, T) => OneOf(s \o t, T)
<1>. DEFINE u == s \o t
<1>1. /\ Len(s) \in Nat /\ DOMAIN s = 1 .. Len(s)
      /\ Len(t) \in Nat /\ DOMAIN t = 1 .. Len(t)
  BY LenProperties
<1>2. DOMAIN u = 1 .. Len(s) + Len(t)
  BY SplitConcat
<1>3. \A n \in DOMAIN u : \/ n \in DOMAIN s /\ u[n] = s[n]
                        \/ /\ n \notin DOMAIN s /\ n - Len(s) \in DOMAIN t
                           /\ u[n] = t[n - Len(s)]
  BY SplitConcat
<1>4. \A n \in DOMAIN s : n \in DOMAIN u
  BY <1>1, <1>2
<1>. HIDE DEF u
<1>5. NoneOf(s, T) => NoneOf(u, T)
  BY <1>3 DEF NoneOf
<1>6. ASSUME OneOf(s, T) PROVE OneOf(u, T)
  <2>1. PICK k \in DOMAIN s : \A n \in DOMAIN s : s[n].type \in T <=> n = k
    BY <1>6 DEF OneOf
  <2>2. \A n \in DOMAIN u : u[n].type \in T <=> n = k
    BY <1>3, <2>1 DEF NoneOf
  <2>3. QED
    BY <1>4, <2>2 DEF OneOf
<1>7. QED
  BY <1>5, <1>6 DEF u

LEMMA SentOneOf ==
  ASSUME NEW S, NEW T, NEW s \in Seq(S), NEW t \in Seq(S), NoneOf(s, T), OneOf(t, T)
  PROVE  OneOf(s \o t, T)
<1>. DEFINE u == s \o t
<1>1. /\ Len(s) \in Nat /\ DOMAIN s = 1 .. Len(s)
      /\ Len(t) \in Nat /\ DOMAIN t = 1 .. Len(t)
  BY LenProperties
<1>2. DOMAIN u = 1 .. Len(s) + Len(t)
  BY SplitConcat
<1>3. \A n \in DOMAIN u : \/ n \in DOMAIN s /\ u[n] = s[n]
                        \/ /\ n \notin DOMAIN s /\ n - Len(s) \in DOMAIN t
                           /\ u[n] = t[n - Len(s)]
  BY SplitConcat
<1>. HIDE DEF u
<1>4. PICK k \in DOMAIN t : \A n \in DOMAIN t : t[n].type \in T <=> n = k
  BY DEF OneOf
<1>5. k + Len(s) \in DOMAIN u /\ k + Len(s) \notin DOMAIN s
  BY <1>1, <1>2
<1>6. \A n \in DOMAIN u : u[n].type \in T <=> n = k + Len(s)
  <2>1. SUFFICES ASSUME NEW n \in DOMAIN u PROVE u[n].type \in T <=> n = k + Len(s)
    OBVIOUS
  <2>2. CASE n \in DOMAIN s /\ u[n] = s[n]
    BY <1>5, <2>2 DEF NoneOf
  <2>3. CASE n - Len(s) \in DOMAIN t /\ u[n] = t[n - Len(s)]
    <3>1. u[n].type \in T <=> n - Len(s) = k
      BY <1>4, <2>3
    <3>2. n \in Nat /\ k \in Nat
      BY <1>1, <1>2
    <3>3. QED
      BY <1>1, <3>1, <3>2
  <2>4. QED
    BY <1>3, <2>2, <2>3
<1>7. QED
  BY <1>5, <1>6 DEF u, OneOf

(* Taking the head away takes away the one, or another message.            *)
LEMMA TakenOf ==
  ASSUME NEW S, NEW T, NEW s \in Seq(S), s # <<>>
  PROVE  /\ NoneOf(s, T) => NoneOf(Tail(s), T) /\ Head(s).type \notin T
         /\ OneOf(s, T) /\ Head(s).type \in T => NoneOf(Tail(s), T)
         /\ OneOf(s, T) /\ Head(s).type \notin T => OneOf(Tail(s), T)
<1>1. Len(s) \in Nat /\ DOMAIN s = 1 .. Len(s) /\ Len(s) > 0
  BY LenProperties, EmptySeq
<1>2. Tail(s) \in Seq(S) /\ Len(Tail(s)) = Len(s) - 1
  BY HeadTailProperties
<1>3. DOMAIN Tail(s) = 1 .. Len(s) - 1
  BY <1>2, LenProperties
<1>4. \A n \in DOMAIN Tail(s) : n + 1 \in DOMAIN s /\ n + 1 # 1 /\ Tail(s)[n] = s[n + 1]
  BY <1>1, <1>2, <1>3, HeadTailProperties
<1>5. Head(s) = s[1] /\ 1 \in DOMAIN s
  BY <1>1
<1>6. NoneOf(s, T) => NoneOf(Tail(s), T) /\ Head(s).type \notin T
  BY <1>4, <1>5 DEF NoneOf
<1>7. ASSUME OneOf(s, T)
      PROVE  /\ Head(s).type \in T => NoneOf(Tail(s), T)
             /\ Head(s).type \notin T => OneOf(Tail(s), T)
  <2>1. PICK k \in DOMAIN s : \A n \in DOMAIN s : s[n].type \in T <=> n = k
    BY <1>7 DEF OneOf
  <2>2. CASE Head(s).type \in T
    <3>1. k = 1
      BY <1>5, <2>1, <2>2
    <3>2. QED
      BY <1>4, <2>1, <2>2, <3>1 DEF NoneOf
  <2>3. CASE Head(s).type \notin T
    <3>1. k # 1
      BY <1>5, <2>1, <2>3
    <3>2. k - 1 \in DOMAIN Tail(s)
      BY <1>1, <1>3, <3>1
    <3>3. \A n \in DOMAIN Tail(s) : Tail(s)[n].type \in T <=> n = k - 1
      <4>1. SUFFICES ASSUME NEW n \in DOMAIN Tail(s)
                     PROVE  Tail(s)[n].type \in T <=> n = k - 1
        OBVIOUS
      <4>2. Tail(s)[n].type \in T <=> n + 1 = k
        BY <1>4, <2>1
      <4>3. n \in Nat /\ k \in Nat
        BY <1>1, <1>3
      <4>4. QED
        BY <4>2, <4>3
    <3>4. QED
      BY <2>3, <3>2, <3>3 DEF OneOf
  <2>4. QED
    BY <2>2, <2>3
<1>8. QED
  BY <1>6, <1>7

(* None and one, counted.                                                  *)
LEMMA CountedOf ==
  ASSUME NEW s, NEW T
  PROVE  /\ NoneOf(s, T) => Cardinality({n \in DOMAIN s : s[n].type \in T}) = 0
         /\ OneOf(s, T) => Cardinality({n \in DOMAIN s : s[n].type \in T}) = 1
<1>1. ASSUME NoneOf(s, T) PROVE {n \in DOMAIN s : s[n].type \in T} = {}
  BY <1>1 DEF NoneOf
<1>2. ASSUME OneOf(s, T) PROVE \E k : {n \in DOMAIN s : s[n].type \in T} = {k}
  BY <1>2 DEF OneOf
<1>3. QED
  BY <1>1, <1>2, FS_EmptySet, FS_Singleton

-----------------------------------------------------------------------------
(* What a step is for one connection d: its client sends a request or       *)
(* another message, the server answers or handles one, or sends an event on *)
(* its own account.  The remaining steps of d are ClientReceive(d).         *)

Events == {m \in ToClientMsg : m.type \in {"FORWARD_EVENT", "COMMIT"} /\ m.re = "none"}

MoreEvents(d) ==
  toClient'[d] = toClient[d] \/ \E m \in Events : toClient'[d] = toClient[d] \o <<m>>

Asks(d) ==
  \E x \in ToServerMsg :
    /\ x.type \in RequestTypes
    /\ waiting[d] = "none" /\ waiting'[d] = x.type
    /\ phase[d] \in {"new", "accepted", "connected"}
    /\ toServer'[d] = toServer[d] \o <<x>>
    /\ UNCHANGED <<toClient[d], record[d], phase[d], held[d], masked[d]>>

Speaks(d) ==
  \E x \in ToServerMsg :
    /\ x.type \notin RequestTypes
    /\ toServer'[d] = toServer[d] \o <<x>>
    /\ UNCHANGED <<toClient[d], record[d], phase[d], waiting[d], held[d], masked[d]>>

(* The messages that answer request r.                                     *)
Answering(r) ==
  {<<Reply(r, i)>> : i \in Nat}
    \cup (IF r = "CREATE_IC" THEN {CreateICMessages(i) : i \in Nat} ELSE {})

Answered(d) ==
  /\ toServer[d] # <<>> /\ toServer'[d] = Tail(toServer[d])
  /\ Head(toServer[d]).type \in RequestTypes
  /\ \E t \in Answering(Head(toServer[d]).type) : toClient'[d] = toClient[d] \o t
  /\ record'[d] = "freed" => Head(toServer[d]).type = "DISCONNECT"
  /\ UNCHANGED <<phase[d], waiting[d], held[d], masked[d]>>

Handled(d) ==
  /\ toServer[d] # <<>> /\ toServer'[d] = Tail(toServer[d])
  /\ Head(toServer[d]).type \notin RequestTypes \/ record[d] = "freed"
  /\ MoreEvents(d)
  /\ UNCHANGED <<record[d], phase[d], waiting[d], held[d], masked[d]>>

Left(d) ==
  /\ toServer'[d] = toServer[d]
  /\ MoreEvents(d)
  /\ phase'[d] \in {phase[d], "vanished"}
  /\ UNCHANGED <<record[d], waiting[d], held[d], masked[d]>>

LEMMA NotRequests ==
  /\ RequestTypes \cap (FocusTypes \cup {"FORWARD_EVENT", "SYNC_REPLY", "none"}) = {}
  /\ {"XCONNECT", "CONNECT", "DISCONNECT", "CREATE_IC"} \subseteq RequestTypes
BY RequestsAssumption DEF RequestTypes, FocusTypes

LEMMA ClientKinds ==
  ASSUME TypeOK, NEW c \in Clients, Client(c), NEW d \in Clients
  PROVE  Asks(d) \/ Speaks(d) \/ ClientReceive(d) \/ Left(d)
<1>. USE DEF TypeOK
<1>1. ASSUME NEW x \in ToServerMsg, ClientSend(c, x)
      PROVE  /\ toServer'[c] = toServer[c] \o <<x>>
             /\ \A e \in Clients \ {c} : toServer'[e] = toServer[e]
             /\ UNCHANGED <<toClient, record>>
  <2>1. Append(toServer[c], x) = toServer[c] \o <<x>>
    BY AppendIsConcat
  <2>2. QED
    BY <1>1, <2>1 DEF ClientSend, serverVars
<1>2. ASSUME NEW r \in RequestTypes, NEW i \in Nat, Request(c, r, i),
             phase[c] \in {"new", "accepted", "connected"}
      PROVE  Asks(d) \/ Left(d)
  <2>1. PICK x \in ToServerMsg : x = ToServer(r, i)
    BY MessageTypes
  <2>2. x.type = r
    BY <2>1 DEF ToServer
  <2>3. QED
    BY <1>1, <1>2, <2>1, <2>2 DEF Request, Asks, Left, MoreEvents
<1>3. ASSUME NEW x \in ToServerMsg, ClientSend(c, x), x.type \notin RequestTypes,
             UNCHANGED <<phase, waiting, held, masked>>
      PROVE  Speaks(d) \/ Left(d)
  BY <1>1, <1>3 DEF Speaks, Left, MoreEvents
<1>4. CASE ClientXConnect(c)
  BY <1>2, <1>4, NotRequests DEF ClientXConnect
<1>5. CASE ClientConnect(c)
  BY <1>2, <1>5, NotRequests DEF ClientConnect
<1>6. CASE ClientAskIM(c)
  BY <1>2, <1>6 DEF ClientAskIM, RequestTypes
<1>7. CASE ClientCreateIC(c)
  BY <1>2, <1>7, NotRequests DEF ClientCreateIC
<1>8. CASE ClientAskIC(c)
  <2>1. PICK r \in ICRequests, i \in held[c] : Request(c, r, i)
    BY <1>8 DEF ClientAskIC
  <2>2. r \in RequestTypes /\ i \in Nat
    BY DEF RequestTypes
  <2>3. QED
    BY <1>2, <1>8, <2>1, <2>2 DEF ClientAskIC
<1>9. CASE ClientDisconnect(c)
  BY <1>2, <1>9, NotRequests DEF ClientDisconnect
<1>10. CASE ClientFocus(c)
  <2>1. PICK i \in held[c], t \in FocusTypes : ClientSend(c, ToServer(t, i))
    BY <1>10 DEF ClientFocus
  <2>2. ToServer(t, i) \in ToServerMsg /\ ToServer(t, i).type = t
    BY MessageTypes DEF ToServer
  <2>3. QED
    BY <1>3, <1>10, <2>1, <2>2, NotRequests DEF ClientFocus, clientVars
<1>11. CASE ClientKey(c)
  <2>1. PICK i \in masked[c] : ClientSend(c, KeyEvent(i, keysSent[c] + 1))
    BY <1>11 DEF ClientKey
  <2>2. /\ KeyEvent(i, keysSent[c] + 1) \in ToServerMsg
        /\ KeyEvent(i, keysSent[c] + 1).type = "FORWARD_EVENT"
    BY MessageTypes DEF KeyEvent
  <2>3. QED
    BY <1>3, <1>11, <2>1, <2>2, NotRequests DEF ClientKey
<1>12. CASE ClientSyncReply(c)
  <2>1. ToServer("SYNC_REPLY", 0) \in ToServerMsg /\ ToServer("SYNC_REPLY", 0).type = "SYNC_REPLY"
    BY MessageTypes DEF ToServer
  <2>2. QED
    BY <1>3, <1>12, <2>1, NotRequests DEF ClientSyncReply
<1>13. CASE ClientReceive(c)
  BY <1>13 DEF ClientReceive, Left, MoreEvents, serverVars
<1>14. CASE ClientVanish(c)
  BY <1>14 DEF ClientVanish, Left, MoreEvents, serverVars
<1>15. QED
  BY <1>4, <1>5, <1>6, <1>7, <1>8, <1>9, <1>10, <1>11, <1>12, <1>13, <1>14 DEF Client

LEMMA ServerKinds ==
  ASSUME TypeOK, NEW c \in Clients, Server(c), NEW d \in Clients
  PROVE  Answered(d) \/ Handled(d) \/ Left(d)
<1>. USE DEF TypeOK
<1>1. ASSUME toServer[c] # <<>>, Consume(c)
      PROVE  /\ toServer'[c] = Tail(toServer[c])
             /\ \A e \in Clients \ {c} : toServer'[e] = toServer[e]
             /\ Head(toServer[c]).ic \in Nat
  BY <1>1, ConsumeType DEF Consume, ToServerMsg
<1>2. ASSUME NEW msgs, SendTo(c, msgs)
      PROVE  /\ toClient'[c] = toClient[c] \o msgs
             /\ \A e \in Clients \ {c} : toClient'[e] = toClient[e]
  BY <1>2 DEF SendTo
<1>3. ASSUME toServer[c] # <<>>, Consume(c),
             Head(toServer[c]).type \in RequestTypes,
             NEW t \in Answering(Head(toServer[c]).type), SendTo(c, t),
             record'[c] = "freed" => Head(toServer[c]).type = "DISCONNECT",
             \A e \in Clients \ {c} : record'[e] = record[e],
             UNCHANGED clientVars
      PROVE  Answered(d) \/ Left(d)
  BY <1>1, <1>2, <1>3 DEF Answered, Left, MoreEvents, clientVars
<1>4. ASSUME toServer[c] # <<>>, Consume(c),
             Head(toServer[c]).type \notin RequestTypes \/ record[c] = "freed",
             \A e \in Clients : MoreEvents(e),
             UNCHANGED <<record, clientVars>>
      PROVE  Handled(d) \/ Left(d)
  BY <1>1, <1>4 DEF Handled, Left, clientVars
<1>5. ASSUME NEW r \in RequestTypes, NEW i \in Nat
      PROVE  <<Reply(r, i)>> \in Answering(r)
  BY DEF Answering
<1>6. CASE ReadXConnectMessage(c)
  BY <1>3, <1>5, <1>6, NotRequests DEF ReadXConnectMessage
<1>7. CASE ConnectMessageProc(c)
  BY <1>3, <1>5, <1>7, NotRequests DEF ConnectMessageProc
<1>8. CASE DisConnectMessageProc(c)
  BY <1>3, <1>5, <1>8, NotRequests DEF DisConnectMessageProc, Receives
<1>9. CASE AnswerRequest(c)
  <2>1. PICK r \in RequestTypes :
          Receives(c, r) /\ SendTo(c, <<Reply(r, Head(toServer[c]).ic)>>)
    BY <1>9, AnsweredRequest
  <2>2. Consume(c) /\ UNCHANGED <<serverVars, clientVars>>
    BY <1>9, AnsweredRequest
  <2>3. QED
    BY <1>1, <1>3, <1>5, <2>1, <2>2 DEF Receives, serverVars
<1>10. CASE CreateICMessageProc(c)
  <2>1. PICK i \in Nat : i = Len(ics) + 1
    BY LenProperties
  <2>2. CreateICMessages(i) \in Answering("CREATE_IC")
    BY DEF Answering
  <2>3. QED
    BY <1>3, <1>10, <2>1, <2>2, NotRequests DEF CreateICMessageProc, Receives
<1>11. CASE SetICValuesMessageProc(c)
  <2>1. toServer[c] # <<>> /\ Head(toServer[c]).type = "SET_IC_VALUES" /\ Consume(c)
    BY <1>11 DEF SetICValuesMessageProc, Receives
  <2>2. "SET_IC_VALUES" \in RequestTypes
    BY <2>1, ConsumeType DEF ToServerMsg, FocusTypes
  <2>3. QED
    BY <1>1, <1>3, <1>5, <1>11, <2>1, <2>2 DEF SetICValuesMessageProc, Receives
<1>12. CASE SetICFocusMessageProc(c) \/ UnsetICFocusMessageProc(c) \/ QueueKeyEvent(c)
  BY <1>4, <1>12, NotRequests
  DEF SetICFocusMessageProc, UnsetICFocusMessageProc, QueueKeyEvent, Receives,
      FocusTypes, MoreEvents
<1>13. CASE Discard(c)
  BY <1>4, <1>13 DEF Discard, MoreEvents, serverVars
<1>14. ASSUME NEW q \in Seq(ToServerMsg), NEW n \in DOMAIN q, Handle(c, q, n)
       PROVE  \A e \in Clients : MoreEvents(e)
  <2>1. n \in Nat /\ q[n] \in ToServerMsg
    BY LenProperties, ElementOfSeq
  <2>2. ForwardEvent(q[n]) \in Events
    BY <2>1, MessageTypes DEF ForwardEvent, Events
  <2>3. \/ UNCHANGED toClient
        \/ toClient' = [toClient EXCEPT ![c] = @ \o <<ForwardEvent(q[n])>>]
    BY <1>14 DEF Handle, SendTo
  <2>4. QED
    BY <2>2, <2>3 DEF MoreEvents
<1>15. CASE ForwardEventMessageProc(c)
  <2>1. Head(toServer[c]) \in ToServerMsg
    BY <1>15, ConsumeType DEF ForwardEventMessageProc, Receives
  <2>2. <<Head(toServer[c])>> \in Seq(ToServerMsg) /\ 1 \in DOMAIN <<Head(toServer[c])>>
    BY <2>1
  <2>3. \A e \in Clients : MoreEvents(e)
    BY <1>14, <1>15, <2>2 DEF ForwardEventMessageProc
  <2>4. QED
    BY <1>4, <1>15, <2>3, NotRequests DEF ForwardEventMessageProc, Receives
<1>16. CASE SyncReplyMessageProc(c)
  <2>1. \A e \in Clients : MoreEvents(e)
    BY <1>14, <1>16 DEF SyncReplyMessageProc, MoreEvents
  <2>2. QED
    BY <1>4, <1>16, <2>1, NotRequests DEF SyncReplyMessageProc, Receives
<1>17. QED
  BY <1>6, <1>7, <1>8, <1>9, <1>10, <1>11, <1>12, <1>13, <1>15, <1>16 DEF Server

LEMMA StepKinds ==
  ASSUME TypeOK, [Next]_vars, NEW d \in Clients
  PROVE  \/ Asks(d) \/ Speaks(d) \/ ClientReceive(d)
         \/ Answered(d) \/ Handled(d) \/ Left(d)
<1>1. CASE UNCHANGED vars
  BY <1>1 DEF vars, serverVars, clientVars, Left, MoreEvents
<1>2. CASE ImeOpenStatus
  BY <1>2 DEF ImeOpenStatus, clientVars, Left, MoreEvents
<1>3. CASE ImeCommit
  <2>1. PICK i \in DOMAIN ics :
          IF alive' THEN SendTo(ics[i].owner, <<Commit(i)>>) ELSE UNCHANGED toClient
    BY <1>3 DEF ImeCommit
  <2>2. i \in Nat /\ ics[i] \in IMIC
    BY LenProperties, ElementOfSeq DEF TypeOK
  <2>3. ics[i].owner \in Clients
    BY <2>2 DEF IMIC
  <2>4. Commit(i) \in Events
    BY <2>2, MessageTypes DEF Commit, Events
  <2>5. MoreEvents(d)
    BY <2>1, <2>3, <2>4 DEF SendTo, MoreEvents, TypeOK
  <2>6. QED
    BY <1>3, <2>5 DEF ImeCommit, clientVars, Left
<1>4. QED
  BY <1>1, <1>2, <1>3, ClientKinds, ServerKinds DEF Next, Ime

-----------------------------------------------------------------------------
(* While client d waits, either its request is on the way to the server or *)
(* the one reply to it is on the way back; otherwise neither is.  Once the *)
(* record of d is freed, d sends no request.                               *)
Exchange(d) ==
  /\ \A m \in Elems(toServer[d]) : m.type \in RequestTypes => m.type = waiting[d]
  /\ \A m \in Elems(toClient[d]) :
       IF m.type = "REPLY" THEN m.re = waiting[d] /\ m.re # "none" ELSE m.re = "none"
  /\ \/ waiting[d] = "none"
     \/ OneOf(toServer[d], RequestTypes) /\ NoneOf(toClient[d], {"REPLY"})
     \/ NoneOf(toServer[d], RequestTypes) /\ OneOf(toClient[d], {"REPLY"})
  /\ record[d] = "freed" =>
       /\ NoneOf(toServer[d], RequestTypes)
       /\ \/ phase[d] = "vanished"
          \/ phase[d] = "closed" /\ waiting[d] = "none"
          \/ waiting[d] = "DISCONNECT"

(* Of a client that does not wait, nothing is in flight.                   *)
LEMMA Idle ==
  ASSUME TypeOK, NEW d \in Clients, Exchange(d), waiting[d] = "none"
  PROVE  NoneOf(toServer[d], RequestTypes) /\ NoneOf(toClient[d], {"REPLY"})
BY NotRequests DEF Exchange, NoneOf, Elems

LEMMA OneMessage ==
  ASSUME NEW x, NEW T
  PROVE  /\ Elems(<<x>>) = {x}
         /\ x.type \in T => OneOf(<<x>>, T)
         /\ x.type \notin T => NoneOf(<<x>>, T)
<1>1. DOMAIN <<x>> = {1} /\ <<x>>[1] = x
  OBVIOUS
<1>2. QED
  BY <1>1 DEF Elems, OneOf, NoneOf

LEMMA AsksExchange ==
  ASSUME TypeOK, NEW d \in Clients, Exchange(d), Asks(d)
  PROVE  Exchange(d)'
<1>1. PICK x \in ToServerMsg :
        /\ x.type \in RequestTypes
        /\ waiting[d] = "none" /\ waiting'[d] = x.type
        /\ phase[d] \in {"new", "accepted", "connected"}
        /\ toServer'[d] = toServer[d] \o <<x>>
        /\ UNCHANGED <<toClient[d], record[d], phase[d]>>
  BY DEF Asks
<1>2. NoneOf(toServer[d], RequestTypes) /\ NoneOf(toClient[d], {"REPLY"})
  BY <1>1, Idle
<1>3. toServer[d] \in Seq(ToServerMsg) /\ <<x>> \in Seq(ToServerMsg)
  BY DEF TypeOK
<1>4. OneOf(toServer'[d], RequestTypes)
  <2>1. OneOf(<<x>>, RequestTypes)
    BY <1>1, OneMessage
  <2>2. OneOf(toServer[d] \o <<x>>, RequestTypes)
    BY <1>2, <1>3, <2>1, SentOneOf
  <2>3. QED
    BY <1>1, <2>2
<1>5. Elems(toServer'[d]) \subseteq Elems(toServer[d]) \cup {x}
  BY <1>1, <1>3, ElemsConcat, OneMessage
<1>6. \A m \in Elems(toServer[d]) : m.type \notin RequestTypes
  BY <1>2 DEF NoneOf, Elems
<1>7. \A m \in Elems(toClient[d]) : m.type # "REPLY" /\ m.re = "none"
  BY <1>2 DEF NoneOf, Elems, Exchange
<1>8. record[d] # "freed"
  BY <1>1, NotRequests DEF Exchange
<1>9. QED
  BY <1>1, <1>2, <1>4, <1>5, <1>6, <1>7, <1>8 DEF Exchange

LEMMA SpeaksExchange ==
  ASSUME TypeOK, NEW d \in Clients, Exchange(d), Speaks(d)
  PROVE  Exchange(d)'
<1>1. PICK x \in ToServerMsg :
        /\ x.type \notin RequestTypes
        /\ toServer'[d] = toServer[d] \o <<x>>
        /\ UNCHANGED <<toClient[d], record[d], phase[d], waiting[d]>>
  BY DEF Speaks
<1>2. toServer[d] \in Seq(ToServerMsg) /\ <<x>> \in Seq(ToServerMsg)
  BY DEF TypeOK
<1>3. /\ NoneOf(toServer[d], RequestTypes) => NoneOf(toServer'[d], RequestTypes)
      /\ OneOf(toServer[d], RequestTypes) => OneOf(toServer'[d], RequestTypes)
  <2>1. NoneOf(<<x>>, RequestTypes)
    BY <1>1, OneMessage
  <2>2. /\ NoneOf(toServer[d], RequestTypes) => NoneOf(toServer[d] \o <<x>>, RequestTypes)
        /\ OneOf(toServer[d], RequestTypes) => OneOf(toServer[d] \o <<x>>, RequestTypes)
    BY <1>2, <2>1, SentNoneOf
  <2>3. QED
    BY <1>1, <2>2
<1>4. Elems(toServer'[d]) \subseteq Elems(toServer[d]) \cup {x}
  BY <1>1, <1>2, ElemsConcat, OneMessage
<1>5. QED
  BY <1>1, <1>3, <1>4 DEF Exchange

(* Events on the way to a client leave replies alone.                      *)
LEMMA MoreEventsOf ==
  ASSUME TypeOK, NEW d \in Clients, MoreEvents(d)
  PROVE  /\ NoneOf(toClient[d], {"REPLY"}) => NoneOf(toClient'[d], {"REPLY"})
         /\ OneOf(toClient[d], {"REPLY"}) => OneOf(toClient'[d], {"REPLY"})
         /\ \A m \in Elems(toClient'[d]) :
              m \in Elems(toClient[d]) \/ (m.type # "REPLY" /\ m.re = "none")
<1>1. CASE toClient'[d] = toClient[d]
  BY <1>1
<1>2. ASSUME NEW x \in Events, toClient'[d] = toClient[d] \o <<x>>
      PROVE  /\ NoneOf(toClient[d], {"REPLY"}) => NoneOf(toClient'[d], {"REPLY"})
             /\ OneOf(toClient[d], {"REPLY"}) => OneOf(toClient'[d], {"REPLY"})
             /\ Elems(toClient'[d]) \subseteq Elems(toClient[d]) \cup {x}
  <2>1. toClient[d] \in Seq(ToClientMsg) /\ <<x>> \in Seq(ToClientMsg)
    BY DEF TypeOK, Events
  <2>2. x.type \notin {"REPLY"}
    BY DEF Events
  <2>3. NoneOf(<<x>>, {"REPLY"})
    BY <2>2, OneMessage
  <2>4. /\ NoneOf(toClient[d], {"REPLY"}) => NoneOf(toClient[d] \o <<x>>, {"REPLY"})
        /\ OneOf(toClient[d], {"REPLY"}) => OneOf(toClient[d] \o <<x>>, {"REPLY"})
    BY <2>1, <2>3, SentNoneOf
  <2>5. Elems(toClient[d] \o <<x>>) \subseteq Elems(toClient[d]) \cup {x}
    BY <2>1, ElemsConcat, OneMessage
  <2>6. QED
    BY <1>2, <2>4, <2>5
<1>3. QED
  BY <1>1, <1>2 DEF MoreEvents, Events

LEMMA LeftExchange ==
  ASSUME TypeOK, NEW d \in Clients, Exchange(d), Left(d)
  PROVE  Exchange(d)'
<1>1. QED
  BY MoreEventsOf DEF Left, Exchange

LEMMA HandledExchange ==
  ASSUME TypeOK, NEW d \in Clients, Exchange(d), Handled(d)
  PROVE  Exchange(d)'
<1>1. toServer[d] \in Seq(ToServerMsg) /\ toServer[d] # <<>> /\ toServer'[d] = Tail(toServer[d])
  BY DEF TypeOK, Handled
<1>2. Elems(toServer'[d]) \subseteq Elems(toServer[d])
  BY <1>1, ElemsTail
<1>3. NoneOf(toServer[d], RequestTypes) => NoneOf(toServer'[d], RequestTypes)
  BY <1>1, TakenOf
<1>4. Head(toServer[d]).type \notin RequestTypes
  BY <1>1, TakenOf DEF Handled, Exchange
<1>5. OneOf(toServer[d], RequestTypes) => OneOf(toServer'[d], RequestTypes)
  <2>1. OneOf(toServer[d], RequestTypes) => OneOf(Tail(toServer[d]), RequestTypes)
    BY <1>1, <1>4, TakenOf
  <2>2. QED
    BY <1>1, <2>1
<1>6. QED
  BY <1>2, <1>3, <1>5, MoreEventsOf DEF Handled, Exchange

(* An answer is one reply, to that request.                                *)
LEMMA AnsweringOf ==
  ASSUME NEW r \in RequestTypes, NEW t \in Answering(r)
  PROVE  /\ t \in Seq(ToClientMsg)
         /\ OneOf(t, {"REPLY"})
         /\ \A m \in Elems(t) : IF m.type = "REPLY" THEN m.re = r ELSE m.re = "none"
<1>1. ASSUME NEW i \in Nat, t = <<Reply(r, i)>>
      PROVE  /\ t \in Seq(ToClientMsg)
             /\ OneOf(t, {"REPLY"})
             /\ \A m \in Elems(t) : IF m.type = "REPLY" THEN m.re = r ELSE m.re = "none"
  <2>1. PICK x \in ToClientMsg : x = Reply(r, i)
    BY MessageTypes
  <2>2. x.type = "REPLY" /\ x.re = r
    BY <2>1 DEF Reply
  <2>3. QED
    BY <1>1, <2>1, <2>2, OneMessage
<1>2. ASSUME NEW i \in Nat, r = "CREATE_IC", t = CreateICMessages(i)
      PROVE  /\ t \in Seq(ToClientMsg)
             /\ OneOf(t, {"REPLY"})
             /\ \A m \in Elems(t) : IF m.type = "REPLY" THEN m.re = r ELSE m.re = "none"
  <2>1. PICK x \in ToClientMsg, y \in ToClientMsg : x = Reply(r, i) /\ y = SetEventMask(i)
    BY MessageTypes
  <2>2. x.type = "REPLY" /\ x.re = r /\ y.type # "REPLY" /\ y.re = "none"
    BY <2>1 DEF Reply, SetEventMask
  <2>3. t = <<x, y>>
    BY <1>2, <2>1 DEF CreateICMessages
  <2>4. DOMAIN t = {1, 2} /\ t[1] = x /\ t[2] = y /\ t \in Seq(ToClientMsg)
    BY <2>3
  <2>5. QED
    BY <2>2, <2>4 DEF OneOf, Elems
<1>3. QED
  BY <1>1, <1>2 DEF Answering

LEMMA AnsweredExchange ==
  ASSUME TypeOK, NEW d \in Clients, Exchange(d), Answered(d)
  PROVE  Exchange(d)'
<1>1. /\ toServer[d] \in Seq(ToServerMsg) /\ toServer[d] # <<>>
      /\ toServer'[d] = Tail(toServer[d])
  BY DEF TypeOK, Answered
<1>0. PICK r \in RequestTypes : r = Head(toServer[d]).type
  BY DEF Answered
<1>2. PICK t \in Answering(r) :
        r = Head(toServer[d]).type /\ toClient'[d] = toClient[d] \o t
  BY <1>0 DEF Answered
<1>3. r = waiting[d] /\ r # "none" /\ waiting'[d] = waiting[d]
  BY <1>1, <1>2, ElemsTail, NotRequests DEF Exchange, Answered
<1>4. OneOf(toServer[d], RequestTypes) /\ NoneOf(toClient[d], {"REPLY"})
  <2>1. ~NoneOf(toServer[d], RequestTypes)
    BY <1>1, <1>2, TakenOf
  <2>2. QED
    BY <1>3, <2>1 DEF Exchange
<1>5. NoneOf(toServer'[d], RequestTypes)
  BY <1>1, <1>2, <1>4, TakenOf
<1>6. OneOf(toClient'[d], {"REPLY"})
  BY <1>2, <1>4, AnsweringOf, SentOneOf DEF TypeOK
<1>7. \A m \in Elems(toServer'[d]) : m.type \notin RequestTypes
  BY <1>5 DEF NoneOf, Elems
<1>8. Elems(toClient'[d]) \subseteq Elems(toClient[d]) \cup Elems(t)
  BY <1>2, AnsweringOf, ElemsConcat DEF TypeOK
<1>9. \A m \in Elems(toClient'[d]) :
        IF m.type = "REPLY" THEN m.re = waiting'[d] /\ m.re # "none" ELSE m.re = "none"
  BY <1>3, <1>8, AnsweringOf DEF Exchange
<1>10. record'[d] = "freed" => waiting'[d] = "DISCONNECT"
  BY <1>2, <1>3 DEF Answered
<1>11. QED
  BY <1>5, <1>6, <1>7, <1>9, <1>10 DEF Exchange

LEMMA ReceiveExchange ==
  ASSUME TypeOK, NEW d \in Clients, Exchange(d), ClientReceive(d)
  PROVE  Exchange(d)'
<1>. DEFINE m == Head(toClient[d])
<1>1. /\ toClient[d] \in Seq(ToClientMsg) /\ toClient[d] # <<>>
      /\ toClient'[d] = Tail(toClient[d])
      /\ phase[d] # "vanished"
      /\ UNCHANGED <<record[d], toServer[d]>>
  BY DEF TypeOK, ClientReceive, serverVars
<1>2. m \in Elems(toClient[d]) /\ Elems(toClient'[d]) \subseteq Elems(toClient[d])
  BY <1>1, ElemsTail
<1>3. CASE m.type = "REPLY"
  <2>1. /\ m.re = waiting[d] /\ waiting[d] # "none"
        /\ waiting'[d] = "none"
    BY <1>2, <1>3 DEF Exchange, ClientReceive, TypeOK
  <2>2. ~NoneOf(toClient[d], {"REPLY"})
    BY <1>1, <1>3, TakenOf
  <2>3. NoneOf(toServer[d], RequestTypes) /\ OneOf(toClient[d], {"REPLY"})
    BY <2>1, <2>2 DEF Exchange
  <2>4. NoneOf(toClient'[d], {"REPLY"})
    BY <1>1, <1>3, <2>3, TakenOf
  <2>5. \A x \in Elems(toServer[d]) : x.type \notin RequestTypes
    BY <2>3 DEF NoneOf, Elems
  <2>6. \A x \in Elems(toClient'[d]) : x.type # "REPLY" /\ x.re = "none"
    <3>1. \A x \in Elems(toClient'[d]) : x.type # "REPLY"
      BY <2>4 DEF NoneOf, Elems
    <3>2. QED
      BY <1>2, <3>1 DEF Exchange
  <2>7. record[d] = "freed" => phase'[d] = "closed"
    <3>1. record[d] = "freed" => m.re = "DISCONNECT"
      BY <1>1, <2>1 DEF Exchange
    <3>2. m.re = "DISCONNECT" => phase'[d] = "closed"
      BY DEF ClientReceive, TypeOK
    <3>3. QED
      BY <3>1, <3>2
  <2>8. QED
    BY <1>1, <2>1, <2>3, <2>5, <2>6, <2>7 DEF Exchange
<1>4. CASE m.type # "REPLY"
  <2>1. m.re = "none"
    BY <1>2, <1>4 DEF Exchange
  <2>2. phase'[d] = phase[d] /\ waiting'[d] = waiting[d]
    BY <1>4, <2>1 DEF ClientReceive, TypeOK
  <2>3. /\ NoneOf(toClient[d], {"REPLY"}) => NoneOf(toClient'[d], {"REPLY"})
        /\ OneOf(toClient[d], {"REPLY"}) => OneOf(toClient'[d], {"REPLY"})
    BY <1>1, <1>4, TakenOf
  <2>4. QED
    BY <1>1, <1>2, <2>2, <2>3 DEF Exchange
<1>5. QED
  BY <1>3, <1>4

LEMMA ExchangeAlways == Spec => [](\A d \in Clients : Exchange(d))
<1>1. Init => \A d \in Clients : Exchange(d)
  BY DEF Init, Exchange, Elems, NoneOf
<1>2. ASSUME TypeOK, [Next]_vars, \A d \in Clients : Exchange(d)
      PROVE  (\A d \in Clients : Exchange(d))'
  <2>1. ASSUME NEW d \in Clients PROVE Exchange(d)'
    BY <1>2, StepKinds, AsksExchange, SpeaksExchange, ReceiveExchange,
       AnsweredExchange, HandledExchange, LeftExchange
  <2>2. QED
    BY <2>1
<1>3. QED
  BY <1>1, <1>2, TypeCorrect, PTL DEF Spec

(* Every request is answered exactly once: while a client waits, either its *)
(* request or the one reply to it is in flight, and otherwise neither.     *)
THEOREM OneReply == Spec => []OneReplyInFlight
<1>1. TypeOK /\ (\A d \in Clients : Exchange(d)) => OneReplyInFlight
  <2>1. SUFFICES ASSUME TypeOK, NEW d \in Clients, Exchange(d)
                 PROVE  Cardinality({n \in DOMAIN toServer[d] : toServer[d][n].type \in RequestTypes})
                          + Cardinality({n \in DOMAIN toClient[d] : toClient[d][n].type = "REPLY"})
                        = IF waiting[d] = "none" THEN 0 ELSE 1
    BY DEF OneReplyInFlight
  <2>2. {n \in DOMAIN toClient[d] : toClient[d][n].type = "REPLY"}
          = {n \in DOMAIN toClient[d] : toClient[d][n].type \in {"REPLY"}}
    OBVIOUS
  <2>3. CASE waiting[d] = "none"
    BY <2>1, <2>2, <2>3, Idle, CountedOf
  <2>4. CASE waiting[d] # "none"
    BY <2>1, <2>2, <2>4, CountedOf DEF Exchange
  <2>5. QED
    BY <2>3, <2>4
<1>2. QED
  BY <1>1, TypeCorrect, ExchangeAlways, PTL

-----------------------------------------------------------------------------
(* An event mask on the way to a client that holds the ICs H names one of   *)
(* them, or follows the reply by which the client learns of the IC.        *)
Introduces(s, n) == n > 1 /\ s[n - 1].re = "CREATE_IC" /\ s[n - 1].ic = s[n].ic

Introduced(s, H) ==
  \A n \in DOMAIN s :
    s[n].type = "SET_EVENT_MASK" =>
      s[n].re = "none" /\ (Introduces(s, n) \/ (n = 1 /\ s[n].ic \in H))

LEMMA SentIntroduced ==
  ASSUME NEW S, NEW H, NEW s \in Seq(S), NEW t \in Seq(S),
         Introduced(s, H), Introduced(t, {})
  PROVE  Introduced(s \o t, H)
<1>. DEFINE u == s \o t
<1>1. /\ Len(s) \in Nat /\ DOMAIN s = 1 .. Len(s)
      /\ Len(t) \in Nat /\ DOMAIN t = 1 .. Len(t)
  BY LenProperties
<1>2. DOMAIN u = 1 .. Len(s) + Len(t)
  BY SplitConcat
<1>3. \A n \in DOMAIN u : \/ n \in DOMAIN s /\ u[n] = s[n]
                        \/ /\ n \notin DOMAIN s /\ n - Len(s) \in DOMAIN t
                           /\ u[n] = t[n - Len(s)]
  BY SplitConcat
<1>. HIDE DEF u
<1>4. ASSUME NEW n \in DOMAIN u, u[n].type = "SET_EVENT_MASK"
      PROVE  u[n].re = "none" /\ (Introduces(u, n) \/ (n = 1 /\ u[n].ic \in H))
  <2>1. CASE n \in DOMAIN s /\ u[n] = s[n]
    <3>1. s[n].re = "none" /\ (Introduces(s, n) \/ (n = 1 /\ s[n].ic \in H))
      BY <1>4, <2>1 DEF Introduced
    <3>2. CASE Introduces(s, n)
      <4>1. n - 1 \in DOMAIN s /\ n - 1 \in DOMAIN u
        BY <1>1, <1>2, <2>1, <3>2 DEF Introduces
      <4>2. u[n - 1] = s[n - 1]
        BY <1>3, <4>1
      <4>3. QED
        BY <2>1, <3>1, <3>2, <4>2 DEF Introduces
    <3>3. QED
      BY <2>1, <3>1, <3>2
  <2>2. CASE n \notin DOMAIN s /\ n - Len(s) \in DOMAIN t /\ u[n] = t[n - Len(s)]
    <3>1. t[n - Len(s)].re = "none" /\ Introduces(t, n - Len(s))
      BY <1>4, <2>2 DEF Introduced
    <3>2. /\ n \in Nat /\ n > 1
          /\ n - 1 \in DOMAIN u /\ n - 1 \notin DOMAIN s
      BY <1>1, <1>2, <2>2, <3>1 DEF Introduces
    <3>3. u[n - 1] = t[(n - 1) - Len(s)]
      BY <1>3, <3>2
    <3>4. (n - 1) - Len(s) = (n - Len(s)) - 1
      BY <1>1, <3>2
    <3>5. QED
      BY <2>2, <3>1, <3>2, <3>3, <3>4 DEF Introduces
  <2>3. QED
    BY <1>3, <2>1, <2>2
<1>5. QED
  BY <1>4 DEF Introduced, u

LEMMA TakenIntroduced ==
  ASSUME NEW S, NEW H, NEW G, NEW s \in Seq(S), s # <<>>, Introduced(s, H),
         Head(s).re = "CREATE_IC" => Head(s).ic \in G
  PROVE  Introduced(Tail(s), G)
<1>. DEFINE u == Tail(s)
<1>1. Len(s) \in Nat /\ DOMAIN s = 1 .. Len(s) /\ Len(s) > 0
  BY LenProperties, EmptySeq
<1>2. u \in Seq(S) /\ Len(u) = Len(s) - 1
  BY HeadTailProperties
<1>3. DOMAIN u = 1 .. Len(s) - 1
  BY <1>2, LenProperties
<1>4. \A n \in DOMAIN u : n \in Nat /\ n + 1 \in DOMAIN s /\ u[n] = s[n + 1]
  BY <1>1, <1>2, <1>3, HeadTailProperties
<1>5. Head(s) = s[1]
  OBVIOUS
<1>. HIDE DEF u
<1>6. ASSUME NEW n \in DOMAIN u, u[n].type = "SET_EVENT_MASK"
      PROVE  u[n].re = "none" /\ (Introduces(u, n) \/ (n = 1 /\ u[n].ic \in G))
  <2>1. n \in Nat /\ n + 1 \in DOMAIN s /\ u[n] = s[n + 1] /\ n >= 1
    BY <1>3, <1>4
  <2>2. s[n + 1].re = "none" /\ Introduces(s, n + 1)
    BY <1>6, <2>1 DEF Introduced
  <2>3. s[n].re = "CREATE_IC" /\ s[n].ic = s[n + 1].ic
    <3>1. (n + 1) - 1 = n
      BY <2>1
    <3>2. QED
      BY <2>2, <3>1 DEF Introduces
  <2>4. CASE n = 1
    BY <1>5, <2>1, <2>2, <2>3, <2>4
  <2>5. CASE n > 1
    <3>1. n - 1 \in DOMAIN u /\ (n - 1) + 1 = n
      BY <1>3, <2>1, <2>5
    <3>2. u[n - 1] = s[n]
      BY <1>4, <3>1
    <3>3. QED
      BY <2>1, <2>2, <2>3, <2>5, <3>2 DEF Introduces
  <2>6. QED
    BY <2>1, <2>4, <2>5
<1>7. QED
  BY <1>6 DEF Introduced, u

(* A mask on its way is introduced, and the ICs with a mask are held.      *)
MasksIntroduced(d) == Introduced(toClient[d], held[d]) /\ masked[d] \subseteq held[d]

LEMMA SentMasks ==
  ASSUME TypeOK, NEW d \in Clients, MasksIntroduced(d),
         NEW t \in Seq(ToClientMsg), Introduced(t, {}),
         toClient'[d] = toClient[d] \o t,
         UNCHANGED <<held[d], masked[d]>>
  PROVE  MasksIntroduced(d)'
<1>1. Introduced(toClient[d] \o t, held[d])
  BY SentIntroduced DEF MasksIntroduced, TypeOK
<1>2. QED
  BY <1>1 DEF MasksIntroduced

LEMMA MoreEventsMasks ==
  ASSUME TypeOK, NEW d \in Clients, MasksIntroduced(d), MoreEvents(d),
         UNCHANGED <<held[d], masked[d]>>
  PROVE  MasksIntroduced(d)'
<1>1. CASE toClient'[d] = toClient[d]
  BY <1>1 DEF MasksIntroduced
<1>2. ASSUME NEW x \in Events, toClient'[d] = toClient[d] \o <<x>>
      PROVE  MasksIntroduced(d)'
  <2>1. <<x>> \in Seq(ToClientMsg) /\ Introduced(<<x>>, {})
    BY DEF Events, Introduced
  <2>2. QED
    BY <1>2, <2>1, SentMasks
<1>3. QED
  BY <1>1, <1>2 DEF MoreEvents

LEMMA AnsweredMasks ==
  ASSUME TypeOK, NEW d \in Clients, MasksIntroduced(d), Answered(d)
  PROVE  MasksIntroduced(d)'
<1>1. PICK r \in RequestTypes : r = Head(toServer[d]).type
  BY DEF Answered
<1>2. PICK t \in Answering(r) : toClient'[d] = toClient[d] \o t
  BY <1>1 DEF Answered
<1>3. Introduced(t, {})
  <2>1. ASSUME NEW i \in Nat, t = <<Reply(r, i)>> PROVE Introduced(t, {})
    BY <2>1 DEF Introduced, Reply
  <2>2. ASSUME NEW i \in Nat, t = CreateICMessages(i) PROVE Introduced(t, {})
    <3>1. PICK x, y : x = Reply("CREATE_IC", i) /\ y = SetEventMask(i)
      OBVIOUS
    <3>2. /\ x.type # "SET_EVENT_MASK" /\ x.re = "CREATE_IC" /\ x.ic = i
          /\ y.re = "none" /\ y.ic = i
      BY <3>1 DEF Reply, SetEventMask
    <3>3. DOMAIN t = {1, 2} /\ t[1] = x /\ t[2] = y
      BY <2>2, <3>1 DEF CreateICMessages
    <3>4. QED
      BY <3>2, <3>3 DEF Introduced, Introduces
  <2>3. QED
    BY <2>1, <2>2 DEF Answering
<1>4. QED
  BY <1>2, <1>3, AnsweringOf, SentMasks DEF Answered

LEMMA ReceiveMasks ==
  ASSUME TypeOK, NEW d \in Clients, MasksIntroduced(d), ClientReceive(d)
  PROVE  MasksIntroduced(d)'
<1>. DEFINE m == Head(toClient[d])
<1>1. /\ toClient[d] \in Seq(ToClientMsg) /\ toClient[d] # <<>>
      /\ toClient'[d] = Tail(toClient[d])
  BY DEF TypeOK, ClientReceive
<1>2. m.re = "CREATE_IC" => m.ic \in held'[d]
  BY DEF ClientReceive, TypeOK
<1>3. Introduced(toClient'[d], held'[d])
  BY <1>1, <1>2, TakenIntroduced DEF MasksIntroduced
<1>4. m = toClient[d][1] /\ 1 \in DOMAIN toClient[d]
  BY <1>1, LenProperties, EmptySeq
<1>5. m.type = "SET_EVENT_MASK" => m.re = "none" /\ m.ic \in held[d]
  BY <1>4 DEF MasksIntroduced, Introduced, Introduces
<1>6. masked'[d] \subseteq held'[d]
  <2>1. CASE m.type = "SET_EVENT_MASK"
    <3>1. held'[d] = held[d] /\ masked'[d] = masked[d] \cup {m.ic}
      BY <1>5, <2>1 DEF ClientReceive, TypeOK
    <3>2. QED
      BY <1>5, <2>1, <3>1 DEF MasksIntroduced
  <2>2. CASE m.type # "SET_EVENT_MASK" /\ m.re = "DESTROY_IC"
    <3>1. held'[d] = held[d] \ {m.ic} /\ masked'[d] = masked[d] \ {m.ic}
      BY <2>2 DEF ClientReceive, TypeOK
    <3>2. QED
      BY <3>1 DEF MasksIntroduced
  <2>3. CASE m.type # "SET_EVENT_MASK" /\ m.re # "DESTROY_IC"
    <3>1. held[d] \subseteq held'[d] /\ masked'[d] = masked[d]
      BY <2>3 DEF ClientReceive, TypeOK
    <3>2. QED
      BY <3>1 DEF MasksIntroduced
  <2>4. QED
    BY <2>1, <2>2, <2>3
<1>7. QED
  BY <1>3, <1>6 DEF MasksIntroduced

LEMMA MasksAlways == Spec => [](\A d \in Clients : MasksIntroduced(d))
<1>1. Init => \A d \in Clients : MasksIntroduced(d)
  BY DEF Init, MasksIntroduced, Introduced
<1>2. ASSUME TypeOK, [Next]_vars, \A d \in Clients : MasksIntroduced(d)
      PROVE  (\A d \in Clients : MasksIntroduced(d))'
  <2>1. ASSUME NEW d \in Clients PROVE MasksIntroduced(d)'
    <3>1. CASE Asks(d) \/ Speaks(d)
      BY <1>2, <3>1 DEF Asks, Speaks, MasksIntroduced
    <3>2. CASE Handled(d) \/ Left(d)
      BY <1>2, <3>2, MoreEventsMasks DEF Handled, Left
    <3>3. QED
      BY <1>2, <3>1, <3>2, StepKinds, ReceiveMasks, AnsweredMasks
  <2>2. QED
    BY <2>1
<1>3. QED
  BY <1>1, <1>2, TypeCorrect, PTL DEF Spec

(* A client is told to forward the keys of an IC only after it has learnt   *)
(* the IC's id and before it has given the IC up.                          *)
THEOREM MasksHeld == Spec => []MaskedAreHeld
<1>1. (\A d \in Clients : MasksIntroduced(d)) => MaskedAreHeld
  BY DEF MasksIntroduced, MaskedAreHeld
<1>2. QED
  BY <1>1, MasksAlways, PTL

=============================================================================
