--------------------------- MODULE XimRelayProofs ---------------------------
(***************************************************************************)
(* Proof that XimServer implements KeyRelay, for every set of connections   *)
(* and all bounds: the server neither reorders nor duplicates nor invents  *)
(* key events, and keeps one only on account of a toggle.                  *)
(***************************************************************************)
EXTENDS XimServerProofs, SequenceInduction

(* The key events among messages.                                          *)
LEMMA KeyEventsOf ==
  ASSUME NEW S, S \subseteq ToServerMsg \cup ToClientMsg, NEW s \in Seq(S)
  PROVE  /\ KeyEvents(s) \in Seq(S)
         /\ \A t \in Seq(S) : KeyEvents(s \o t) = KeyEvents(s) \o KeyEvents(t)
         /\ \A x \in S : KeyEvents(<<x>>) = IF IsKey(x) THEN <<x>> ELSE <<>>
         /\ s # <<>> /\ IsKey(Head(s)) => KeyEvents(s) = <<Head(s)>> \o KeyEvents(Tail(s))
         /\ s # <<>> /\ ~IsKey(Head(s)) => KeyEvents(s) = KeyEvents(Tail(s))
<1>1. \A x \in S : x \in KeyMsgs <=> IsKey(x)
  BY DEF KeyMsgs
<1>2. KeyEvents(s) \in Seq(S)
  BY SelectType DEF KeyEvents
<1>3. ASSUME NEW t \in Seq(S) PROVE KeyEvents(s \o t) = KeyEvents(s) \o KeyEvents(t)
  BY SelectConcat DEF KeyEvents
<1>4. ASSUME NEW x \in S PROVE KeyEvents(<<x>>) = IF IsKey(x) THEN <<x>> ELSE <<>>
  BY <1>1, SelectOne DEF KeyEvents
<1>5. ASSUME s # <<>>
      PROVE  KeyEvents(s) = IF IsKey(Head(s)) THEN <<Head(s)>> \o KeyEvents(Tail(s))
                            ELSE KeyEvents(Tail(s))
  <2>1. Head(s) \in KeyMsgs <=> IsKey(Head(s))
    BY <1>1, <1>5, HeadTailProperties
  <2>2. QED
    BY <1>5, <2>1, SelectHeadTail DEF KeyEvents
<1>6. QED
  BY <1>2, <1>3, <1>4, <1>5

LEMMA KeyEventsConcat ==
  ASSUME NEW S, S \subseteq ToServerMsg \cup ToClientMsg, NEW s \in Seq(S), NEW t \in Seq(S)
  PROVE  KeyEvents(s \o t) = KeyEvents(s) \o KeyEvents(t)
BY KeyEventsOf, Zenon

LEMMA KeyEventsOne ==
  ASSUME NEW S, S \subseteq ToServerMsg \cup ToClientMsg, NEW x \in S
  PROVE  KeyEvents(<<x>>) = IF IsKey(x) THEN <<x>> ELSE <<>>
<1>1. PICK s \in Seq(S) : s = <<>>
  BY EmptySeq
<1>2. QED
  BY KeyEventsOf, Zenon

(* The keys of messages.                                                   *)
KeyRecords == {KeyOf(m) : m \in ToServerMsg \cup ToClientMsg}

LEMMA KeysOfType ==
  ASSUME NEW S, S \subseteq ToServerMsg \cup ToClientMsg, NEW s \in Seq(S)
  PROVE  /\ KeysOf(s) \in Seq(KeyRecords)
         /\ Len(KeysOf(s)) = Len(s)
         /\ DOMAIN KeysOf(s) = DOMAIN s
         /\ \A n \in DOMAIN s : KeysOf(s)[n] = KeyOf(s[n])
<1>1. Len(s) \in Nat /\ DOMAIN s = 1 .. Len(s) /\ \A n \in 1 .. Len(s) : s[n] \in S
  BY LenProperties, ElementOfSeq
<1>2. KeysOf(s) = [n \in 1 .. Len(s) |-> KeyOf(s[n])]
  BY <1>1 DEF KeysOf
<1>3. \A n \in 1 .. Len(s) : KeyOf(s[n]) \in KeyRecords
  BY <1>1 DEF KeyRecords
<1>4. KeysOf(s) \in [1 .. Len(s) -> KeyRecords]
  BY <1>2, <1>3
<1>. HIDE DEF KeyRecords
<1>5. KeysOf(s) \in Seq(KeyRecords)
  BY <1>1, <1>4, IsASeq
<1>6. Len(KeysOf(s)) = Len(s)
  BY <1>1, <1>4, <1>5, LenProperties
<1>7. QED
  BY <1>1, <1>2, <1>5, <1>6

LEMMA KeysOfConcat ==
  ASSUME NEW S, S \subseteq ToServerMsg \cup ToClientMsg, NEW s \in Seq(S), NEW x \in S
  PROVE  KeysOf(s \o <<x>>) = Append(KeysOf(s), KeyOf(x))
<1>. DEFINE u == s \o <<x>>
            k == KeysOf(s)
            a == Append(k, KeyOf(x))
<1>1. u = Append(s, x)
  BY AppendIsConcat
<1>2. u \in Seq(S) /\ Len(u) = Len(s) + 1 /\ u[Len(s) + 1] = x
      /\ \A n \in 1 .. Len(s) : u[n] = s[n]
  BY <1>1, AppendProperties
<1>3. k \in Seq(KeyRecords) /\ Len(k) = Len(s) /\ \A n \in DOMAIN s : k[n] = KeyOf(s[n])
  BY KeysOfType
<1>4. Len(s) \in Nat /\ DOMAIN s = 1 .. Len(s)
  BY LenProperties
<1>5. KeyOf(x) \in KeyRecords
  BY DEF KeyRecords
<1>6. /\ a \in Seq(KeyRecords) /\ Len(a) = Len(s) + 1 /\ a[Len(s) + 1] = KeyOf(x)
      /\ \A n \in 1 .. Len(s) : a[n] = KeyOf(s[n])
  <2>. HIDE DEF k
  <2>1. QED
    BY <1>3, <1>4, <1>5, AppendProperties
<1>. HIDE DEF u, k, a
<1>7. /\ KeysOf(u) \in Seq(KeyRecords) /\ Len(KeysOf(u)) = Len(u)
      /\ \A n \in DOMAIN u : KeysOf(u)[n] = KeyOf(u[n])
  BY <1>2, KeysOfType
<1>8. DOMAIN u = 1 .. Len(s) + 1
  BY <1>2, LenProperties
<1>9. \A n \in 1 .. Len(s) + 1 : KeysOf(u)[n] = a[n]
  BY <1>2, <1>4, <1>6, <1>7, <1>8
<1>10. KeysOf(u) = a
  BY <1>2, <1>6, <1>7, <1>9, SeqEqual
<1>11. QED
  BY <1>10 DEF u, a, k

(* What is left of a sequence when its first n elements are gone.          *)
LEMMA RestElements ==
  ASSUME NEW R, NEW q \in Seq(R), NEW n \in 0 .. Len(q)
  PROVE  /\ SubSeq(q, n + 1, Len(q)) \in Seq(R)
         /\ Len(SubSeq(q, n + 1, Len(q))) = Len(q) - n
         /\ \A i \in 1 .. Len(q) - n : SubSeq(q, n + 1, Len(q))[i] = q[n + i]
<1>. DEFINE v == SubSeq(q, n + 1, Len(q))
<1>1. Len(q) \in Nat /\ n \in Nat /\ n <= Len(q)
  BY LenProperties
<1>2. \A i \in n + 1 .. Len(q) : q[i] \in R
  BY <1>1, ElementOfSeq
<1>3. v = [i \in 1 .. Len(q) - n |-> q[n + i]]
  BY <1>1
<1>4. v \in [1 .. Len(q) - n -> R] /\ Len(q) - n \in Nat
  <2>1. \A i \in 1 .. Len(q) - n : q[n + i] \in R
    BY <1>1, <1>2
  <2>. HIDE DEF v
  <2>2. QED
    BY <1>1, <1>3, <2>1
<1>5. v \in Seq(R)
  BY <1>4, IsASeq
<1>6. QED
  BY <1>3, <1>4, <1>5, LenProperties

(* The keys of what is left when the first n messages of q are gone.       *)
LEMMA KeysOfRest ==
  ASSUME NEW S, S \subseteq ToServerMsg \cup ToClientMsg,
         NEW q \in Seq(S), NEW r \in Seq(S), NEW n \in 0 .. Len(q)
  PROVE  KeysOf(SubSeq(q, n + 1, Len(q)) \o r)
           = SubSeq(KeysOf(q \o r), n + 1, Len(KeysOf(q \o r)))
<1>. DEFINE u == q \o r
            v == SubSeq(q, n + 1, Len(q))
            w == v \o r
            k == KeysOf(u)
            L == Len(q) + Len(r)
<1>1. Len(q) \in Nat /\ Len(r) \in Nat /\ n \in Nat /\ n <= Len(q) /\ L \in Nat
  BY LenProperties
<1>2. u \in Seq(S) /\ Len(u) = L /\ \A i \in 1 .. L : u[i] = IF i <= Len(q) THEN q[i] ELSE r[i - Len(q)]
  BY ConcatProperties
<1>3. v \in Seq(S) /\ Len(v) = Len(q) - n /\ \A i \in 1 .. Len(q) - n : v[i] = q[n + i]
  BY RestElements
<1>4. w \in Seq(S) /\ Len(w) = L - n
      /\ \A i \in 1 .. L - n : w[i] = IF i <= Len(q) - n THEN v[i] ELSE r[i - (Len(q) - n)]
  <2>. HIDE DEF v
  <2>1. w \in Seq(S) /\ Len(w) = (Len(q) - n) + Len(r)
        /\ \A i \in 1 .. (Len(q) - n) + Len(r) :
             w[i] = IF i <= Len(q) - n THEN v[i] ELSE r[i - (Len(q) - n)]
    <3>1. v \in Seq(S)
      BY <1>3
    <3>2. w \in Seq(S) /\ Len(w) = Len(v) + Len(r)
          /\ \A i \in 1 .. Len(v) + Len(r) : w[i] = IF i <= Len(v) THEN v[i] ELSE r[i - Len(v)]
      BY <3>1, ConcatProperties
    <3>3. Len(v) = Len(q) - n
      BY <1>3
    <3>. HIDE DEF w
    <3>4. QED
      BY <3>2, <3>3
  <2>2. (Len(q) - n) + Len(r) = L - n
    BY <1>1
  <2>3. QED
    BY <2>1, <2>2
<1>. HIDE DEF u, v, w
<1>5. \A i \in 1 .. L - n : w[i] = u[n + i]
  <2>1. SUFFICES ASSUME NEW i \in 1 .. L - n PROVE w[i] = u[n + i]
    OBVIOUS
  <2>2. n + i \in 1 .. L
    BY <1>1
  <2>3. CASE i <= Len(q) - n
    BY <1>1, <1>2, <1>3, <1>4, <2>2, <2>3
  <2>4. CASE ~(i <= Len(q) - n)
    <3>1. ~(n + i <= Len(q)) /\ (n + i) - Len(q) = i - (Len(q) - n)
      BY <1>1, <2>4
    <3>2. QED
      BY <1>2, <1>4, <2>2, <2>4, <3>1
  <2>5. QED
    BY <2>3, <2>4
<1>6. k \in Seq(KeyRecords) /\ Len(k) = L /\ \A i \in 1 .. L : k[i] = KeyOf(u[i])
  BY <1>2, KeysOfType, LenProperties
<1>7. KeysOf(w) = [i \in 1 .. L - n |-> KeyOf(w[i])]
  <2>1. DOMAIN w = 1 .. L - n
    BY <1>4, LenProperties
  <2>2. QED
    BY <2>1 DEF KeysOf
<1>. HIDE DEF k
<1>8. SubSeq(k, n + 1, L) = [i \in 1 .. L - n |-> k[n + i]]
  BY <1>1, <1>6
<1>9. \A i \in 1 .. L - n : KeyOf(w[i]) = k[n + i]
  BY <1>1, <1>5, <1>6
<1>10. [i \in 1 .. L - n |-> KeyOf(w[i])] = [i \in 1 .. L - n |-> k[n + i]]
  BY <1>9, Zenon
<1>11. KeysOf(w) = SubSeq(k, n + 1, Len(k))
  BY <1>6, <1>7, <1>8, <1>10
<1>12. QED
  BY <1>11 DEF w, v, k, u

-----------------------------------------------------------------------------
(* The record of a new connection: it has an empty queue, and it is in use  *)
(* only once the client has seen the answer to its connection request.     *)
Early(d) ==
  /\ record[d] \in {"none", "new"} => pending[d] = <<>>
  /\ phase[d] = "new" \/ waiting[d] = "XCONNECT" => record[d] \in {"none", "new"}
  /\ phase[d] = "new" => waiting[d] \in {"none", "XCONNECT"}

LEMMA NotXConnect == "XCONNECT" \notin IMRequests \cup ICRequests \cup {"CREATE_IC"}
BY RequestsAssumption

LEMMA NotCreateIC == "CREATE_IC" \notin IMRequests \cup ICRequests \cup {"XCONNECT", "CONNECT", "DISCONNECT"}
BY RequestsAssumption

LEMMA ClientKeepsServer ==
  ASSUME NEW c \in Clients, Client(c)
  PROVE  UNCHANGED <<alive, record, sync, pending, ics, imeEvents>>
BY DEF Client, ClientXConnect, ClientConnect, ClientAskIM, ClientCreateIC, ClientAskIC,
   ClientDisconnect, ClientFocus, ClientKey, ClientSyncReply, ClientReceive, ClientVanish,
   Request, ClientSend, serverVars

(* What the steps of the clients do to a client's phase and waiting.       *)
LEMMA ClientWaits ==
  ASSUME TypeOK, NEW c \in Clients, Client(c), NEW d \in Clients
  PROVE  \/ waiting'[d] = waiting[d] /\ (phase'[d] = "new" => phase[d] = "new")
         \/ waiting'[d] = "none" /\ (phase'[d] = "new" => phase[d] = "new")
         \/ waiting'[d] = "XCONNECT" /\ phase[d] = "new" /\ phase'[d] = phase[d]
         \/ ClientCreateIC(d) /\ waiting'[d] = "CREATE_IC" /\ phase[d] # "new" /\ phase'[d] = phase[d]
         \/ waiting'[d] \notin {"XCONNECT", "CREATE_IC"} /\ phase[d] # "new" /\ phase'[d] = phase[d]
<1>. USE DEF TypeOK
<1>1. ASSUME NEW r, NEW i, Request(c, r, i)
      PROVE  /\ waiting'[c] = r
             /\ \A e \in Clients \ {c} : waiting'[e] = waiting[e]
             /\ phase' = phase
  BY <1>1 DEF Request
<1>2. CASE ClientXConnect(c)
  BY <1>1, <1>2 DEF ClientXConnect
<1>3. CASE ClientConnect(c) \/ ClientDisconnect(c)
  BY <1>1, <1>3 DEF ClientConnect, ClientDisconnect
<1>4. CASE ClientAskIM(c)
  BY <1>1, <1>4, NotXConnect, NotCreateIC DEF ClientAskIM
<1>5. CASE ClientAskIC(c)
  BY <1>1, <1>5, NotXConnect, NotCreateIC DEF ClientAskIC
<1>6. CASE ClientCreateIC(c)
  <2>1. Request(c, "CREATE_IC", 0) /\ phase[c] # "new"
    BY <1>6 DEF ClientCreateIC
  <2>2. CASE d = c
    BY <1>1, <1>6, <2>1, <2>2
  <2>3. CASE d # c
    BY <1>1, <2>1, <2>3
  <2>4. QED
    BY <2>2, <2>3
<1>7. CASE ClientFocus(c) \/ ClientKey(c) \/ ClientSyncReply(c) \/ ClientVanish(c)
  BY <1>7 DEF ClientFocus, ClientKey, ClientSyncReply, ClientVanish, clientVars
<1>8. CASE ClientReceive(c)
  BY <1>8 DEF ClientReceive
<1>9. QED
  BY <1>2, <1>3, <1>4, <1>5, <1>6, <1>7, <1>8 DEF Client

(* A request at the head of a queue is the one that the client waits for.  *)
LEMMA HeadAwaited ==
  ASSUME TypeOK, NEW c \in Clients, Exchange(c), toServer[c] # <<>>,
         Head(toServer[c]).type \in RequestTypes
  PROVE  Head(toServer[c]).type = waiting[c]
BY ElemsTail DEF Exchange, TypeOK

LEMMA EarlyStep ==
  ASSUME TypeOK, [Next]_vars, NEW d \in Clients, Exchange(d), Early(d)
  PROVE  Early(d)'
<1>1. ASSUME NEW c \in Clients, Client(c) PROVE Early(d)'
  <2>1. UNCHANGED <<record, pending>>
    BY <1>1, ClientKeepsServer
  <2>2. QED
    BY <1>1, <2>1, ClientWaits DEF Early
<1>2. ASSUME NEW c \in Clients, ReadXConnectMessage(c) PROVE Early(d)'
  BY <1>2 DEF ReadXConnectMessage, clientVars, Early, TypeOK
<1>3. ASSUME NEW c \in Clients, ConnectMessageProc(c) PROVE Early(d)'
  <2>1. c = d => waiting[d] = "CONNECT"
    BY <1>3, HeadAwaited, NotRequests DEF ConnectMessageProc
  <2>2. QED
    BY <1>3, <2>1 DEF ConnectMessageProc, clientVars, Early, TypeOK
<1>4. ASSUME NEW c \in Clients, DisConnectMessageProc(c) PROVE Early(d)'
  <2>1. c = d => waiting[d] = "DISCONNECT"
    BY <1>4, HeadAwaited, NotRequests DEF DisConnectMessageProc, Receives
  <2>2. QED
    BY <1>4, <2>1 DEF DisConnectMessageProc, clientVars, Early, TypeOK
<1>5. ASSUME NEW c \in Clients, QueueKeyEvent(c) \/ SyncReplyMessageProc(c) PROVE Early(d)'
  <2>1. record[c] = "ready" /\ \A e \in Clients \ {c} : pending'[e] = pending[e]
    BY <1>5 DEF QueueKeyEvent, SyncReplyMessageProc, Receives, TypeOK
  <2>2. UNCHANGED <<record, clientVars>>
    BY <1>5 DEF QueueKeyEvent, SyncReplyMessageProc
  <2>3. QED
    BY <2>1, <2>2 DEF clientVars, Early
<1>6. ASSUME NEW c \in Clients, \/ Discard(c) \/ AnswerRequest(c) \/ CreateICMessageProc(c)
                                \/ SetICValuesMessageProc(c) \/ SetICFocusMessageProc(c)
                                \/ UnsetICFocusMessageProc(c) \/ ForwardEventMessageProc(c)
      PROVE  Early(d)'
  <2>1. UNCHANGED <<record, pending, clientVars>>
    BY <1>6, AnswerFrame
    DEF Discard, CreateICMessageProc, SetICValuesMessageProc, SetICFocusMessageProc,
        UnsetICFocusMessageProc, ForwardEventMessageProc, serverVars
  <2>2. QED
    BY <2>1 DEF clientVars, Early
<1>7. CASE Ime \/ UNCHANGED vars
  BY <1>7 DEF Ime, ImeOpenStatus, ImeCommit, vars, serverVars, clientVars, Early
<1>8. QED
  BY <1>1, <1>2, <1>3, <1>4, <1>5, <1>6, <1>7 DEF Next, Server

LEMMA EarlyAlways == Spec => [](\A d \in Clients : Early(d))
<1>1. Init => \A d \in Clients : Early(d)
  BY DEF Init, Early
<1>2. ASSUME TypeOK, [Next]_vars, \A d \in Clients : Exchange(d), \A d \in Clients : Early(d)
      PROVE  (\A d \in Clients : Early(d))'
  <2>1. ASSUME NEW d \in Clients PROVE Early(d)'
    BY <1>2, EarlyStep
  <2>2. QED
    BY <2>1
<1>3. QED
  BY <1>1, <1>2, TypeCorrect, ExchangeAlways, PTL DEF Spec

-----------------------------------------------------------------------------
(* There are never more ICs than the bound allows, those included that are  *)
(* about to be created.                                                    *)
Waiters == {d \in Clients : waiting[d] = "CREATE_IC"}

Creating == {d \in Clients : \E m \in Elems(toServer[d]) : m.type = "CREATE_IC"}

Bounded == IsFiniteSet(Waiters) /\ Len(ics) + Cardinality(Creating) <= MaxICs

LEMMA CreatingWait ==
  ASSUME \A d \in Clients : Exchange(d)
  PROVE  Creating \subseteq Waiters
BY NotRequests DEF Creating, Waiters, Exchange

LEMMA CreatingStep ==
  ASSUME TypeOK, [Next]_vars, NEW d \in Clients, d \in Creating'
  PROVE  d \in Creating \/ (d \notin Waiters /\ d \in Waiters')
<1>1. PICK m \in Elems(toServer'[d]) : m.type = "CREATE_IC"
  BY DEF Creating
<1>2. toServer[d] \in Seq(ToServerMsg)
  BY DEF TypeOK
<1>3. ASSUME NEW x \in ToServerMsg, toServer'[d] = toServer[d] \o <<x>>
      PROVE  m \in Elems(toServer[d]) \/ m = x
  <2>1. <<x>> \in Seq(ToServerMsg) /\ Elems(<<x>>) = {x}
    BY OneMessage
  <2>2. Elems(toServer[d] \o <<x>>) \subseteq Elems(toServer[d]) \cup Elems(<<x>>)
    BY <1>2, <2>1, ElemsConcat
  <2>3. m \in Elems(toServer[d] \o <<x>>)
    BY <1>3
  <2>4. QED
    BY <2>1, <2>2, <2>3
<1>4. ASSUME toServer[d] # <<>>, toServer'[d] = Tail(toServer[d])
      PROVE  m \in Elems(toServer[d])
  BY <1>2, <1>4, ElemsTail
<1>5. CASE Asks(d)
  <2>1. PICK x \in ToServerMsg : waiting[d] = "none" /\ waiting'[d] = x.type
                                 /\ toServer'[d] = toServer[d] \o <<x>>
    BY <1>5 DEF Asks
  <2>2. QED
    BY <1>1, <1>3, <2>1 DEF Creating, Waiters
<1>6. CASE Speaks(d)
  <2>1. PICK x \in ToServerMsg : x.type \notin RequestTypes /\ toServer'[d] = toServer[d] \o <<x>>
    BY <1>6 DEF Speaks
  <2>2. QED
    BY <1>1, <1>3, <2>1, NotRequests DEF Creating
<1>7. CASE Answered(d) \/ Handled(d)
  BY <1>1, <1>4, <1>7 DEF Answered, Handled, Creating
<1>8. CASE ClientReceive(d) \/ Left(d)
  BY <1>1, <1>8 DEF ClientReceive, Left, Creating
<1>9. QED
  BY <1>5, <1>6, <1>7, <1>8, StepKinds

LEMMA WaitersStep ==
  ASSUME TypeOK, [Next]_vars, NEW d \in Clients, d \notin Waiters, d \in Waiters'
  PROVE  ClientCreateIC(d)
<1>1. waiting[d] # "CREATE_IC" /\ waiting'[d] = "CREATE_IC"
  BY DEF Waiters
<1>2. ASSUME NEW c \in Clients, Server(c) PROVE waiting' = waiting
  BY <1>2, AnswerFrame
  DEF Server, ReadXConnectMessage, ConnectMessageProc, DisConnectMessageProc, Discard,
      CreateICMessageProc, SetICValuesMessageProc, SetICFocusMessageProc,
      UnsetICFocusMessageProc, QueueKeyEvent, ForwardEventMessageProc, SyncReplyMessageProc,
      clientVars
<1>3. CASE Ime \/ UNCHANGED vars
  BY <1>1, <1>3 DEF Ime, ImeOpenStatus, ImeCommit, vars, clientVars
<1>4. QED
  BY <1>1, <1>2, <1>3, ClientWaits DEF Next

(* Only CreateICMessageProc changes the number of ICs.                     *)
LEMMA ICsStep ==
  ASSUME TypeOK, [Next]_vars
  PROVE  Len(ics') = Len(ics) \/ \E c \in Clients : CreateICMessageProc(c)
<1>1. /\ Len(ics) \in Nat /\ DOMAIN ics = 1 .. Len(ics)
  BY LenProperties DEF TypeOK
<1>2. ASSUME DOMAIN ics' = DOMAIN ics, ics' \in Seq(IMIC) PROVE Len(ics') = Len(ics)
  <2>1. Len(ics') \in Nat /\ DOMAIN ics' = 1 .. Len(ics')
    BY <1>2, LenProperties
  <2>2. QED
    BY <1>1, <1>2, <2>1
<1>3. ASSUME NEW c \in Clients, NEW q, NEW n, Handle(c, q, n)
      PROVE  DOMAIN ics' = DOMAIN ics
  BY <1>3 DEF Handle, ClearToggled
<1>4. ics' \in Seq(IMIC)
  <2>1. CASE UNCHANGED vars
    BY <2>1 DEF vars, serverVars, TypeOK
  <2>2. CASE Next
    <3>1. TypeOK'
      BY <2>2, ClientStepType, ServerStepType, ImeStepType DEF Next
    <3>2. QED
      BY <3>1 DEF TypeOK
  <2>3. QED
    BY <2>1, <2>2
<1>5. ASSUME NEW c \in Clients, Client(c) PROVE ics' = ics
  BY <1>5, ClientKeepsServer
<1>6. ASSUME NEW c \in Clients, Server(c), ~CreateICMessageProc(c) PROVE DOMAIN ics' = DOMAIN ics
  <2>1. CASE ForwardEventMessageProc(c) \/ SyncReplyMessageProc(c)
    BY <1>3, <2>1 DEF ForwardEventMessageProc, SyncReplyMessageProc
  <2>2. CASE SetICValuesMessageProc(c) \/ SetICFocusMessageProc(c)
    BY <2>2 DEF SetICValuesMessageProc, SetICFocusMessageProc
  <2>3. CASE AnswerRequest(c)
    BY <2>3, AnswerFrame DEF serverVars
  <2>4. CASE \/ ReadXConnectMessage(c) \/ ConnectMessageProc(c) \/ DisConnectMessageProc(c)
             \/ Discard(c) \/ UnsetICFocusMessageProc(c) \/ QueueKeyEvent(c)
    BY <2>4 DEF ReadXConnectMessage, ConnectMessageProc, DisConnectMessageProc, Discard,
                UnsetICFocusMessageProc, QueueKeyEvent, serverVars
  <2>5. QED
    BY <1>6, <2>1, <2>2, <2>3, <2>4 DEF Server
<1>7. CASE Ime \/ UNCHANGED vars
  <2>1. DOMAIN ics' = DOMAIN ics
    BY <1>7 DEF Ime, ImeOpenStatus, ImeCommit, vars, serverVars
  <2>2. QED
    BY <1>2, <1>4, <2>1
<1>8. QED
  BY <1>2, <1>4, <1>5, <1>6, <1>7 DEF Next

LEMMA BoundedStep ==
  ASSUME TypeOK, [Next]_vars, \A d \in Clients : Exchange(d), Bounded
  PROVE  Bounded'
<1>1. Creating \subseteq Waiters /\ IsFiniteSet(Waiters) /\ IsFiniteSet(Creating)
  BY CreatingWait, FS_Subset DEF Bounded
<1>2. /\ Len(ics) \in Nat /\ Cardinality(Creating) \in Nat /\ Cardinality(Waiters) \in Nat
      /\ Cardinality(Creating) <= Cardinality(Waiters) /\ MaxICs \in Nat
      /\ Len(ics) + Cardinality(Creating) <= MaxICs
  BY <1>1, FS_CardinalityType, FS_Subset, LenProperties, BoundsAssumption DEF TypeOK, Bounded
<1>3. CASE \E c \in Clients : ClientCreateIC(c)
  <2>1. PICK c \in Clients : ClientCreateIC(c)
    BY <1>3
  <2>2. /\ ics' = ics
        /\ \A d \in Clients \ {c} : waiting'[d] = waiting[d]
        /\ Len(ics) + Cardinality(Waiters) < MaxICs
    BY <2>1 DEF ClientCreateIC, Request, ClientSend, serverVars, Waiters
  <2>3. Waiters' \subseteq Waiters \cup {c}
    BY <2>2 DEF Waiters
  <2>4. Creating' \subseteq Creating \cup {c}
    <3>1. ASSUME NEW d \in Creating', d # c PROVE d \in Creating
      <4>1. d \in Clients
        BY DEF Creating
      <4>2. d \in Waiters' => d \in Waiters
        BY <2>3, <3>1
      <4>3. QED
        BY <4>1, <4>2, CreatingStep
    <3>2. QED
      BY <3>1
  <2>5. IsFiniteSet(Waiters')
    BY <1>1, <2>3, FS_AddElement, FS_Subset
  <2>6. IsFiniteSet(Creating \cup {c}) /\ Cardinality(Creating \cup {c}) <= Cardinality(Creating) + 1
        /\ Cardinality(Creating \cup {c}) \in Nat
    <3>1. /\ IsFiniteSet(Creating \cup {c})
          /\ Cardinality(Creating \cup {c}) = IF c \in Creating THEN Cardinality(Creating)
                                              ELSE Cardinality(Creating) + 1
      BY <1>1, FS_AddElement
    <3>2. QED
      BY <1>2, <3>1
  <2>7. Cardinality(Creating') <= Cardinality(Creating \cup {c}) /\ Cardinality(Creating') \in Nat
    BY <2>4, <2>6, FS_Subset, FS_CardinalityType
  <2>8. QED
    BY <1>2, <2>2, <2>5, <2>6, <2>7 DEF Bounded
<1>4. CASE ~\E c \in Clients : ClientCreateIC(c)
  <2>1. Waiters' \subseteq Waiters
    <3>1. ASSUME NEW d \in Waiters' PROVE d \in Waiters
      <4>1. d \in Clients
        BY DEF Waiters
      <4>2. QED
        BY <1>4, <4>1, WaitersStep
    <3>2. QED
      BY <3>1
  <2>2. Creating' \subseteq Creating
    <3>1. ASSUME NEW d \in Creating' PROVE d \in Creating
      <4>1. d \in Clients
        BY DEF Creating
      <4>2. QED
        BY <2>1, <4>1, CreatingStep
    <3>2. QED
      BY <3>1
  <2>3. IsFiniteSet(Waiters') /\ IsFiniteSet(Creating') /\ Cardinality(Creating') \in Nat
        /\ Cardinality(Creating') <= Cardinality(Creating)
    BY <1>1, <2>1, <2>2, FS_Subset, FS_CardinalityType
  <2>4. CASE Len(ics') = Len(ics)
    BY <1>2, <2>3, <2>4 DEF Bounded
  <2>5. ASSUME NEW c \in Clients, CreateICMessageProc(c) PROVE Bounded'
    <3>1. /\ toServer[c] \in Seq(ToServerMsg) /\ toServer[c] # <<>>
          /\ Head(toServer[c]).type = "CREATE_IC" /\ toServer'[c] = Tail(toServer[c])
      BY <2>5 DEF CreateICMessageProc, Receives, Consume, TypeOK
    <3>2. c \in Creating
      BY <3>1, ElemsTail DEF Creating
    <3>3. c \notin Creating'
      <4>1. Head(toServer[c]).type \in RequestTypes
        BY <3>1, NotRequests
      <4>2. ~NoneOf(toServer[c], RequestTypes) /\ waiting[c] # "none"
        BY <3>1, <4>1, TakenOf, HeadAwaited
      <4>3. OneOf(toServer[c], RequestTypes)
        BY <4>2 DEF Exchange
      <4>4. NoneOf(toServer'[c], RequestTypes)
        BY <3>1, <4>1, <4>3, TakenOf
      <4>5. QED
        BY <4>4, NotRequests DEF NoneOf, Creating, Elems
    <3>4. Creating' \subseteq Creating \ {c}
      BY <2>2, <3>3
    <3>5. IsFiniteSet(Creating \ {c}) /\ Cardinality(Creating \ {c}) = Cardinality(Creating) - 1
      BY <1>1, <3>2, FS_RemoveElement
    <3>6. Cardinality(Creating') <= Cardinality(Creating) - 1
      BY <3>4, <3>5, FS_Subset
    <3>7. Len(ics') = Len(ics) + 1
      <4>1. ics' = Append(ics, NewIMIC(c)) /\ NewIMIC(c) \in IMIC /\ ics \in Seq(IMIC)
        BY <2>5 DEF CreateICMessageProc, NewIMIC, IMIC, TypeOK
      <4>2. QED
        BY <4>1, AppendProperties
    <3>8. QED
      BY <1>2, <2>3, <3>6, <3>7 DEF Bounded
  <2>6. QED
    BY <2>4, <2>5, ICsStep
<1>5. QED
  BY <1>3, <1>4

LEMMA BoundedAlways == Spec => []Bounded
<1>1. Init => Bounded
  <2>1. SUFFICES ASSUME Init PROVE Bounded
    OBVIOUS
  <2>2. Waiters = {} /\ Creating = {} /\ Len(ics) = 0
    BY <2>1 DEF Init, Waiters, Creating, Elems
  <2>3. QED
    BY <2>2, FS_EmptySet, BoundsAssumption DEF Bounded
<1>2. TypeOK /\ [Next]_vars /\ (\A d \in Clients : Exchange(d)) /\ Bounded => Bounded'
  BY BoundedStep
<1>3. QED
  BY <1>1, <1>2, TypeCorrect, ExchangeAlways, PTL DEF Spec

-----------------------------------------------------------------------------
(* The state of the key path.                                              *)
Queue == [c \in Clients |-> KeysOf(Unresolved(c))]
Back  == [c \in Clients |-> KeysOf(KeyEvents(toClient[c]))]
Armed == {i \in DOMAIN ics : ics[i].toggled}
Open  == {c \in Clients : record[c] # "freed"}

SameQueue(d) == Unresolved(d)' = Unresolved(d)

SameBack(d) == KeyEvents(toClient[d])' = KeyEvents(toClient[d])

SameOpen(d) == record'[d] = "freed" <=> record[d] = "freed"

LEMMA UnresolvedType ==
  ASSUME TypeOK, NEW d \in Clients
  PROVE  /\ pending[d] \in Seq(ToServerMsg)
         /\ toServer[d] \in Seq(ToServerMsg)
         /\ KeyEvents(toServer[d]) \in Seq(ToServerMsg)
         /\ Unresolved(d) \in Seq(ToServerMsg)
         /\ toClient[d] \in Seq(ToClientMsg)
         /\ KeyEvents(toClient[d]) \in Seq(ToClientMsg)
<1>1. pending[d] \in Seq(ToServerMsg) /\ toServer[d] \in Seq(ToServerMsg)
      /\ toClient[d] \in Seq(ToClientMsg)
  BY DEF TypeOK
<1>2. KeyEvents(toServer[d]) \in Seq(ToServerMsg) /\ KeyEvents(toClient[d]) \in Seq(ToClientMsg)
  BY <1>1, KeyEventsOf
<1>3. pending[d] \o KeyEvents(toServer[d]) \in Seq(ToServerMsg)
  BY <1>1, <1>2, ConcatProperties
<1>4. <<>> \in Seq(ToServerMsg)
  BY EmptySeq
<1>5. QED
  BY <1>1, <1>2, <1>3, <1>4 DEF Unresolved

(* What happens at the two ends of a channel.                              *)
LEMMA SentToServer ==
  ASSUME TypeOK, NEW d \in Clients, NEW x \in ToServerMsg,
         toServer'[d] = toServer[d] \o <<x>>, pending'[d] = pending[d], SameOpen(d)
  PROVE  /\ ~IsKey(x) => SameQueue(d)
         /\ IsKey(x) /\ record[d] # "freed" => Unresolved(d)' = Unresolved(d) \o <<x>>
         /\ record[d] = "freed" => SameQueue(d)
<1>. DEFINE s == toServer[d]
            k == KeyEvents(s)
            p == pending[d]
            y == <<x>>
<1>1. p \in Seq(ToServerMsg) /\ s \in Seq(ToServerMsg) /\ k \in Seq(ToServerMsg)
      /\ y \in Seq(ToServerMsg)
  BY UnresolvedType
<1>2. KeyEvents(s \o y) = k \o KeyEvents(y) /\ KeyEvents(y) = IF IsKey(x) THEN y ELSE <<>>
  <2>1. s \in Seq(ToServerMsg) /\ y \in Seq(ToServerMsg)
    BY <1>1
  <2>2. KeyEvents(y) = IF IsKey(x) THEN y ELSE <<>>
    BY <2>1, KeyEventsOf
  <2>. HIDE DEF y, s
  <2>3. KeyEvents(s \o y) = KeyEvents(s) \o KeyEvents(y)
    BY <2>1, KeyEventsOf
  <2>4. QED
    BY <2>2, <2>3
<1>3. Unresolved(d)' = IF record[d] = "freed" THEN <<>> ELSE p \o KeyEvents(s \o y)
  BY DEF Unresolved, SameOpen
<1>4. Unresolved(d) = IF record[d] = "freed" THEN <<>> ELSE p \o k
  BY DEF Unresolved
<1>. HIDE DEF s, k, p, y
<1>5. k \o <<>> = k /\ p \o (k \o y) = (p \o k) \o y
  BY <1>1, ConcatEmptySeq, ConcatAssociative
<1>6. CASE record[d] = "freed"
  BY <1>3, <1>4, <1>6 DEF SameQueue
<1>7. CASE record[d] # "freed" /\ IsKey(x)
  BY <1>2, <1>3, <1>4, <1>5, <1>7 DEF y
<1>8. CASE record[d] # "freed" /\ ~IsKey(x)
  BY <1>2, <1>3, <1>4, <1>5, <1>8 DEF SameQueue
<1>9. QED
  BY <1>6, <1>7, <1>8

LEMMA TakenByServer ==
  ASSUME TypeOK, NEW d \in Clients, toServer[d] # <<>>, toServer'[d] = Tail(toServer[d]),
         pending'[d] = pending[d], SameOpen(d),
         ~IsKey(Head(toServer[d])) \/ record[d] = "freed"
  PROVE  SameQueue(d)
<1>1. ~IsKey(Head(toServer[d])) => KeyEvents(toServer'[d]) = KeyEvents(toServer[d])
  BY UnresolvedType, KeyEventsOf
<1>2. QED
  BY <1>1 DEF SameQueue, SameOpen, Unresolved

LEMMA LeftToServer ==
  ASSUME NEW d \in Clients, toServer'[d] = toServer[d],
         pending'[d] = pending[d], SameOpen(d)
  PROVE  SameQueue(d)
BY DEF SameQueue, SameOpen, Unresolved

LEMMA SentToClient ==
  ASSUME TypeOK, NEW d \in Clients, NEW x \in ToClientMsg,
         toClient'[d] = toClient[d] \o <<x>>
  PROVE  /\ ~IsKey(x) => SameBack(d)
         /\ IsKey(x) => KeyEvents(toClient[d])' = KeyEvents(toClient[d]) \o <<x>>
<1>. DEFINE s == toClient[d]
            k == KeyEvents(s)
            y == <<x>>
<1>1. s \in Seq(ToClientMsg) /\ k \in Seq(ToClientMsg) /\ y \in Seq(ToClientMsg)
  BY UnresolvedType
<1>2. KeyEvents(y) = IF IsKey(x) THEN y ELSE <<>>
  BY <1>1, KeyEventsOf
<1>3. KeyEvents(s \o y) = k \o KeyEvents(y)
  <2>1. s \in Seq(ToClientMsg) /\ y \in Seq(ToClientMsg)
    BY <1>1
  <2>. HIDE DEF y, s
  <2>2. QED
    BY <2>1, KeyEventsOf
<1>4. KeyEvents(toClient[d])' = KeyEvents(s \o y)
  OBVIOUS
<1>5. k \o <<>> = k
  <2>. HIDE DEF k
  <2>1. QED
    BY <1>1, ConcatEmptySeq
<1>. HIDE DEF s, k, y
<1>6. KeyEvents(toClient[d])' = IF IsKey(x) THEN k \o y ELSE k
  BY <1>2, <1>3, <1>4, <1>5
<1>7. QED
  BY <1>6 DEF SameBack, s, k, y

(* A step that leaves the key path alone.                                  *)
LEMMA RelayStutter ==
  ASSUME \A d \in Clients : SameQueue(d) /\ SameBack(d) /\ SameOpen(d),
         keysSent' = keysSent, Armed' = Armed
  PROVE  UNCHANGED Relay!relayVars
<1>1. Queue' = Queue /\ Back' = Back
  BY Zenon DEF Queue, Back, SameQueue, SameBack
<1>2. Open' = Open
  BY DEF Open, SameOpen
<1>3. QED
  BY <1>1, <1>2 DEF Relay!relayVars, Queue, Back, Open, Armed

LEMMA QueueChange ==
  ASSUME NEW c \in Clients, \A d \in Clients \ {c} : SameQueue(d),
         NEW k, KeysOf(Unresolved(c))' = k
  PROVE  Queue' = [Queue EXCEPT ![c] = k]
<1>1. \A d \in Clients : KeysOf(Unresolved(d))' = IF d = c THEN k ELSE Queue[d]
  BY DEF SameQueue, Queue
<1>2. Queue' = [d \in Clients |-> IF d = c THEN k ELSE Queue[d]]
  BY <1>1, Zenon DEF Queue
<1>3. [Queue EXCEPT ![c] = k] = [d \in Clients |-> IF d = c THEN k ELSE Queue[d]]
  BY DEF Queue
<1>4. QED
  BY <1>2, <1>3

LEMMA BackChange ==
  ASSUME NEW c \in Clients, \A d \in Clients \ {c} : SameBack(d),
         NEW k, KeysOf(KeyEvents(toClient[c]))' = k
  PROVE  Back' = [Back EXCEPT ![c] = k]
<1>1. \A d \in Clients : KeysOf(KeyEvents(toClient[d]))' = IF d = c THEN k ELSE Back[d]
  BY DEF SameBack, Back
<1>2. Back' = [d \in Clients |-> IF d = c THEN k ELSE Back[d]]
  BY <1>1, Zenon DEF Back
<1>3. [Back EXCEPT ![c] = k] = [d \in Clients |-> IF d = c THEN k ELSE Back[d]]
  BY DEF Back
<1>4. QED
  BY <1>2, <1>3

LEMMA Unchanged ==
  /\ (\A d \in Clients : SameQueue(d)) => Queue' = Queue
  /\ (\A d \in Clients : SameBack(d)) => Back' = Back
  /\ (\A d \in Clients : SameOpen(d)) => Open' = Open
<1>1. (\A d \in Clients : SameQueue(d)) => Queue' = Queue
  BY Zenon DEF SameQueue, Queue
<1>2. (\A d \in Clients : SameBack(d)) => Back' = Back
  BY Zenon DEF SameBack, Back
<1>3. (\A d \in Clients : SameOpen(d)) => Open' = Open
  BY DEF SameOpen, Open
<1>4. QED
  BY <1>1, <1>2, <1>3

(* The ICs whose keys a client was told to forward are among those of the  *)
(* abstract key path.                                                      *)
LEMMA MaskedBounded ==
  ASSUME TypeOK, Bounded, \A d \in Clients : Exchange(d), MaskedAreHeld, HeldICsServed,
         NEW c \in Clients, NEW i \in masked[c]
  PROVE  i \in 1 .. MaxICs
<1>1. i \in DOMAIN ics
  BY DEF MaskedAreHeld, HeldICsServed, Serves
<1>2. DOMAIN ics = 1 .. Len(ics) /\ Len(ics) \in Nat
  BY LenProperties DEF TypeOK
<1>3. Cardinality(Creating) \in Nat
  BY CreatingWait, FS_Subset, FS_CardinalityType DEF Bounded
<1>4. QED
  BY <1>1, <1>2, <1>3, BoundsAssumption DEF Bounded

LEMMA ServedBounded ==
  ASSUME TypeOK, Bounded, \A d \in Clients : Exchange(d), NEW i \in DOMAIN ics
  PROVE  i \in 1 .. MaxICs
<1>2. DOMAIN ics = 1 .. Len(ics) /\ Len(ics) \in Nat
  BY LenProperties DEF TypeOK
<1>3. Cardinality(Creating) \in Nat
  BY CreatingWait, FS_Subset, FS_CardinalityType DEF Bounded
<1>4. QED
  BY <1>2, <1>3, BoundsAssumption DEF Bounded

(* ClientKey is Submit.                                                    *)
LEMMA KeySubmitted ==
  ASSUME TypeOK, Bounded, \A d \in Clients : Exchange(d), MaskedAreHeld, HeldICsServed,
         NEW c \in Clients, ClientKey(c)
  PROVE  \E i \in 1 .. MaxICs : Relay!Submit(c, i)
<1>1. PICK i \in masked[c] : ClientSend(c, KeyEvent(i, keysSent[c] + 1))
  BY DEF ClientKey
<1>2. i \in 1 .. MaxICs
  BY MaskedBounded
<1>3. PICK x : x = KeyEvent(i, keysSent[c] + 1)
  OBVIOUS
<1>4. x \in ToServerMsg /\ IsKey(x) /\ KeyOf(x) = [ic |-> i, key |-> keysSent[c] + 1]
  <2>1. i \in Nat /\ keysSent[c] + 1 \in Nat
    BY <1>2 DEF TypeOK
  <2>2. KeyEvent(i, keysSent[c] + 1) \in ToServerMsg
    BY <2>1, MessageTypes
  <2>3. QED
    BY <1>3, <2>2 DEF KeyEvent, IsKey, KeyOf
<1>5. /\ toServer'[c] = toServer[c] \o <<x>>
      /\ \A d \in Clients \ {c} : toServer'[d] = toServer[d]
      /\ UNCHANGED <<pending, record, ics, toClient>>
  <2>1. toServer' = [toServer EXCEPT ![c] = Append(@, x)]
    BY <1>1, <1>3 DEF ClientSend
  <2>2. Append(toServer[c], x) = toServer[c] \o <<x>>
    BY <1>4, AppendIsConcat DEF TypeOK
  <2>3. QED
    BY <1>1, <2>1, <2>2 DEF ClientSend, serverVars, TypeOK
<1>6. \A d \in Clients : SameOpen(d) /\ SameBack(d)
  BY <1>5 DEF SameOpen, SameBack
<1>7. \A d \in Clients \ {c} : SameQueue(d)
  BY <1>5, <1>6, LeftToServer
<1>8. Back' = Back /\ Open' = Open /\ Armed' = Armed
  BY <1>5, <1>6, Unchanged DEF Armed
<1>9. keysSent[c] < MaxKeys /\ keysSent' = [keysSent EXCEPT ![c] = @ + 1]
      /\ keysSent'[c] = keysSent[c] + 1
  BY DEF ClientKey, TypeOK
<1>10. Queue' = IF c \in Open THEN [Queue EXCEPT ![c] = Append(@, [ic |-> i, key |-> keysSent'[c]])]
                ELSE Queue
  <2>1. CASE record[c] = "freed"
    <3>1. SameQueue(c)
      BY <1>4, <1>5, <1>6, <2>1, SentToServer
    <3>2. Queue' = Queue
      BY <1>7, <3>1, Unchanged
    <3>3. QED
      BY <2>1, <3>2 DEF Open
  <2>2. CASE record[c] # "freed"
    <3>1. Unresolved(c)' = Unresolved(c) \o <<x>>
      BY <1>4, <1>5, <1>6, <2>2, SentToServer
    <3>2. PICK u \in Seq(ToServerMsg) : u = Unresolved(c)
      BY UnresolvedType
    <3>3. KeysOf(u \o <<x>>) = Append(KeysOf(u), KeyOf(x))
      BY <1>4, KeysOfConcat
    <3>4. KeysOf(Unresolved(c))' = Append(KeysOf(u), KeyOf(x))
      BY <3>1, <3>2, <3>3
    <3>5. Queue' = [Queue EXCEPT ![c] = Append(KeysOf(u), KeyOf(x))]
      BY <1>7, <3>4, QueueChange
    <3>6. Queue[c] = KeysOf(u) /\ c \in Open
      BY <2>2, <3>2 DEF Queue, Open
    <3>7. QED
      BY <1>4, <1>9, <3>5, <3>6
  <2>3. QED
    BY <2>1, <2>2
<1>11. Relay!Submit(c, i)
  BY <1>8, <1>9, <1>10 DEF Relay!Submit, Queue, Back, Open, Armed
<1>12. QED
  BY <1>2, <1>11

(* ClientReceive of a key event is Deliver; of another message it leaves    *)
(* the key path alone.                                                     *)
LEMMA KeyDelivered ==
  ASSUME TypeOK, NEW c \in Clients, ClientReceive(c)
  PROVE  Relay!Deliver(c) \/ UNCHANGED Relay!relayVars
<1>1. /\ toClient[c] # <<>> /\ toClient'[c] = Tail(toClient[c])
      /\ \A d \in Clients \ {c} : toClient'[d] = toClient[d]
      /\ UNCHANGED <<pending, record, ics, toServer, keysSent>>
  BY DEF ClientReceive, serverVars, TypeOK
<1>2. \A d \in Clients : SameOpen(d)
  BY <1>1 DEF SameOpen
<1>3. \A d \in Clients : SameQueue(d)
  BY <1>1, <1>2, LeftToServer
<1>4. \A d \in Clients \ {c} : SameBack(d)
  BY <1>1 DEF SameBack
<1>5. Armed' = Armed
  BY <1>1 DEF Armed
<1>6. CASE ~IsKey(Head(toClient[c]))
  <2>1. SameBack(c)
    BY <1>1, <1>6, UnresolvedType, KeyEventsOf DEF SameBack
  <2>2. QED
    BY <1>1, <1>2, <1>3, <1>4, <1>5, <2>1, RelayStutter
<1>7. CASE IsKey(Head(toClient[c]))
  <2>. DEFINE h == Head(toClient[c])
              b == KeyEvents(toClient[c])
              t == KeyEvents(Tail(toClient[c]))
  <2>1. h \in ToClientMsg /\ t \in Seq(ToClientMsg) /\ b = <<h>> \o t /\ b \in Seq(ToClientMsg)
    <3>1. Tail(toClient[c]) \in Seq(ToClientMsg) /\ h \in ToClientMsg
      BY <1>1, UnresolvedType, HeadTailProperties
    <3>2. QED
      BY <1>1, <1>7, <3>1, UnresolvedType, KeyEventsOf
  <2>2. KeyEvents(toClient[c])' = t
    BY <1>1
  <2>. HIDE DEF h, b, t
  <2>3. Tail(KeysOf(b)) = KeysOf(t) /\ KeysOf(b) # <<>>
    <3>. DEFINE k == KeysOf(b)
    <3>1. Len(t) \in Nat /\ DOMAIN t = 1 .. Len(t)
      BY <2>1, LenProperties
    <3>2. Len(b) = Len(t) + 1 /\ \A i \in 1 .. Len(t) : b[i + 1] = t[i]
      <4>. DEFINE y == <<h>>
      <4>1. y \in Seq(ToClientMsg) /\ Len(y) = 1
        BY <2>1
      <4>. HIDE DEF y
      <4>2. Len(y \o t) = 1 + Len(t)
            /\ \A i \in 1 .. 1 + Len(t) : (y \o t)[i] = IF i <= 1 THEN y[i] ELSE t[i - 1]
        <5>1. Len(y \o t) = Len(y) + Len(t)
              /\ \A i \in 1 .. Len(y) + Len(t) :
                   (y \o t)[i] = IF i <= Len(y) THEN y[i] ELSE t[i - Len(y)]
          BY <2>1, <4>1, ConcatProperties
        <5>2. QED
          BY <4>1, <5>1
      <4>3. b = y \o t
        BY <2>1 DEF y
      <4>4. \A i \in 1 .. Len(t) : i + 1 \in 1 .. 1 + Len(t) /\ ~(i + 1 <= 1) /\ (i + 1) - 1 = i
        BY <3>1
      <4>5. QED
        BY <3>1, <4>2, <4>3, <4>4
    <3>3. k \in Seq(KeyRecords) /\ Len(k) = Len(b) /\ \A i \in DOMAIN b : k[i] = KeyOf(b[i])
      BY <2>1, KeysOfType
    <3>4. DOMAIN b = 1 .. Len(t) + 1
      BY <2>1, <3>2, LenProperties
    <3>5. \A i \in 1 .. Len(t) : k[i + 1] = KeyOf(t[i])
      <4>1. \A i \in 1 .. Len(t) : i + 1 \in 1 .. Len(t) + 1
        BY <3>1
      <4>2. QED
        BY <3>2, <3>3, <3>4, <4>1
    <3>. DEFINE r == KeysOf(t)
    <3>6. r \in Seq(KeyRecords) /\ Len(r) = Len(t) /\ \A i \in 1 .. Len(t) : r[i] = KeyOf(t[i])
      BY <2>1, <3>1, KeysOfType
    <3>. HIDE DEF k, r
    <3>7. Len(k) = Len(t) + 1 /\ Len(k) # 0
      BY <3>1, <3>2, <3>3
    <3>8. k # <<>>
      BY <3>7, EmptySeq
    <3>9. Tail(k) \in Seq(KeyRecords) /\ Len(Tail(k)) = Len(k) - 1
          /\ \A i \in 1 .. Len(Tail(k)) : Tail(k)[i] = k[i + 1]
      BY <3>3, <3>8, HeadTailProperties
    <3>10. Len(Tail(k)) = Len(r) /\ \A i \in 1 .. Len(r) : Tail(k)[i] = r[i]
      BY <3>1, <3>5, <3>6, <3>7, <3>9
    <3>11. Tail(k) = r
      BY <3>6, <3>9, <3>10, SeqEqual
    <3>12. QED
      BY <3>8, <3>11 DEF k, r
  <2>4. Back' = [Back EXCEPT ![c] = KeysOf(t)]
    <3>1. KeysOf(KeyEvents(toClient[c]))' = KeysOf(t)
      BY <2>2
    <3>2. QED
      BY <1>4, <3>1, BackChange
  <2>5. Back[c] = KeysOf(b)
    BY DEF Back, b
  <2>6. Back[c] # <<>> /\ Back' = [Back EXCEPT ![c] = Tail(@)]
    BY <2>3, <2>4, <2>5
  <2>7. Queue' = Queue /\ Open' = Open
    BY <1>2, <1>3, Unchanged
  <2>8. Relay!Deliver(c)
    BY <1>1, <1>5, <2>6, <2>7 DEF Relay!Deliver, Queue, Back, Open, Armed
  <2>9. QED
    BY <2>8
<1>8. QED
  BY <1>6, <1>7

(* The handler on the key events q, which are the oldest of c, disposes of  *)
(* the first n of them.                                                    *)
LEMMA HandleKeeps ==
  ASSUME TypeOK, NEW c \in Clients, NEW q \in Seq(ToServerMsg), NEW n \in DOMAIN q,
         Handle(c, q, n), NEW k \in Seq(KeyRecords), Len(q) <= Len(k),
         \A m \in DOMAIN q : k[m] = KeyOf(q[m]), Queue[c] = k
  PROVE  /\ ~Swallows(q, n) => Relay!Keep(c, n - 1)
         /\ Swallows(q, n) => Relay!Keep(c, n)
<1>1. Len(q) \in Nat /\ DOMAIN q = 1 .. Len(q) /\ n \in 1 .. Len(q)
  BY LenProperties
<1>2. \A m \in 1 .. n : k[m].ic = q[m].ic
  <2>1. \A m \in 1 .. n : m \in DOMAIN q
    BY <1>1
  <2>2. \A m \in 1 .. n : k[m] = KeyOf(q[m])
    BY <2>1
  <2>3. \A m \in 1 .. n : KeyOf(q[m]).ic = q[m].ic
    BY DEF KeyOf
  <2>4. QED
    BY <2>2, <2>3
<1>3. \A m \in 1 .. n : Swallows(q, m) =>
        q[m].ic \in Armed /\ \A l \in 1 .. m - 1 : q[l].ic # q[m].ic
  BY DEF Swallows, FindIMIC, Armed
<1>4. \A m \in 1 .. n - 1 : Swallows(q, m)
  BY DEF Handle
<1>5. Armed' = {i \in Armed : \A m \in 1 .. n : q[m].ic # i}
  <2>1. ics' = ClearToggled(q, n) /\ DOMAIN ics = 1 .. Len(ics) /\ \A i \in DOMAIN ics : ics[i] \in IMIC
    BY LenProperties, ElementOfSeq DEF Handle, TypeOK
  <2>2. DOMAIN ics' = DOMAIN ics
    BY <2>1 DEF ClearToggled
  <2>3. \A i \in DOMAIN ics : ics'[i].toggled <=> ics[i].toggled /\ \A m \in 1 .. n : q[m].ic # i
    BY <2>1 DEF ClearToggled, IMIC
  <2>4. QED
    BY <2>2, <2>3 DEF Armed
<1>6. ASSUME NEW j \in 0 .. n, \A m \in 1 .. j : Swallows(q, m)
      PROVE  /\ \A m1, m2 \in 1 .. j : m1 # m2 => k[m1].ic # k[m2].ic
             /\ Relay!ICsOf(k, j) = {q[m].ic : m \in 1 .. j}
             /\ Relay!ICsOf(k, j) \subseteq Armed
  <2>1. \A m \in 1 .. j : m \in 1 .. n
    BY <1>1
  <2>2. ASSUME NEW m1 \in 1 .. j, NEW m2 \in 1 .. j, m1 # m2 PROVE k[m1].ic # k[m2].ic
    <3>1. m1 \in 1 .. m2 - 1 \/ m2 \in 1 .. m1 - 1
      BY <1>1, <2>2
    <3>2. QED
      BY <1>2, <1>3, <1>6, <2>1, <3>1
  <2>3. Relay!ICsOf(k, j) = {q[m].ic : m \in 1 .. j}
    BY <1>2, <2>1 DEF Relay!ICsOf
  <2>4. \A m \in 1 .. j : q[m].ic \in Armed
    BY <1>3, <1>6, <2>1
  <2>5. QED
    BY <2>2, <2>3, <2>4
<1>7. ASSUME NEW j \in 0 .. n, \A m \in 1 .. j : Swallows(q, m),
             Armed' = Armed \ {q[m].ic : m \in 1 .. j}
      PROVE  Relay!Keep(c, j)
  <2>1. /\ \A m1, m2 \in 1 .. j : m1 # m2 => Queue[c][m1].ic # Queue[c][m2].ic
        /\ Relay!ICsOf(Queue[c], j) \subseteq Armed
        /\ Armed' = Armed \ Relay!ICsOf(Queue[c], j)
    BY <1>6, <1>7
  <2>2. QED
    BY <2>1 DEF Relay!Keep, Queue, Armed
<1>8. ASSUME ~Swallows(q, n) PROVE Relay!Keep(c, n - 1)
  <2>1. n - 1 \in 0 .. n /\ \A m \in 1 .. n - 1 : m \in 1 .. n
    BY <1>1
  <2>2. q[n].ic \in Armed => \E m \in 1 .. n - 1 : q[m].ic = q[n].ic
    BY <1>8 DEF Swallows, FindIMIC, Armed
  <2>3. Armed' = Armed \ {q[m].ic : m \in 1 .. n - 1}
    <3>1. \A m \in 1 .. n : m \in 1 .. n - 1 \/ m = n
      BY <1>1
    <3>2. QED
      BY <1>5, <2>1, <2>2, <3>1
  <2>4. QED
    BY <1>4, <1>7, <2>1, <2>3
<1>9. ASSUME Swallows(q, n) PROVE Relay!Keep(c, n)
  <2>1. n \in 0 .. n /\ \A m \in 1 .. n : m \in 1 .. n - 1 \/ m = n
    BY <1>1
  <2>2. \A m \in 1 .. n : Swallows(q, m)
    BY <1>4, <1>9, <2>1
  <2>3. Armed' = Armed \ {q[m].ic : m \in 1 .. n}
    BY <1>5
  <2>4. QED
    BY <1>7, <2>1, <2>2, <2>3
<1>10. QED
  BY <1>8, <1>9

LEMMA HandleDisposes ==
  ASSUME TypeOK, NEW c \in Clients, NEW q \in Seq(ToServerMsg), NEW r \in Seq(ToServerMsg),
         NEW n \in DOMAIN q, Handle(c, q, n),
         Unresolved(c) = q \o r, Unresolved(c)' = SubSeq(q, n + 1, Len(q)) \o r,
         \A d \in Clients \ {c} : SameQueue(d), UNCHANGED <<record, keysSent>>
  PROVE  Relay!Dispose(c)
<1>. DEFINE u == q \o r
            k == KeysOf(u)
<1>1. Len(q) \in Nat /\ Len(r) \in Nat /\ DOMAIN q = 1 .. Len(q) /\ n \in 1 .. Len(q)
      /\ n \in 0 .. Len(q) /\ q[n] \in ToServerMsg
  BY LenProperties, ElementOfSeq
<1>2. /\ u \in Seq(ToServerMsg) /\ Len(u) = Len(q) + Len(r)
      /\ \A m \in DOMAIN q : u[m] = q[m] /\ m \in DOMAIN u
  <2>1. u \in Seq(ToServerMsg) /\ Len(u) = Len(q) + Len(r)
        /\ \A m \in 1 .. Len(q) + Len(r) : u[m] = IF m <= Len(q) THEN q[m] ELSE r[m - Len(q)]
    BY ConcatProperties
  <2>2. DOMAIN u = 1 .. Len(q) + Len(r)
    BY <2>1, LenProperties
  <2>3. QED
    BY <1>1, <2>1, <2>2
<1>. HIDE DEF u
<1>3. k \in Seq(KeyRecords) /\ Len(k) = Len(q) + Len(r) /\ \A m \in DOMAIN q : k[m] = KeyOf(q[m])
  BY <1>2, KeysOfType
<1>4. Queue[c] = k
  BY DEF Queue, u
<1>5. KeysOf(Unresolved(c))' = SubSeq(k, n + 1, Len(k))
  BY <1>1, KeysOfRest DEF u
<1>. HIDE DEF k
<1>6. Queue' = [Queue EXCEPT ![c] = SubSeq(@, n + 1, Len(@))]
  <2>1. Queue' = [Queue EXCEPT ![c] = SubSeq(k, n + 1, Len(k))]
    BY <1>5, QueueChange
  <2>2. QED
    BY <1>4, <2>1
<1>7. Open' = Open
  BY DEF Open
<1>8. Len(q) <= Len(k) /\ Len(k) \in Nat
  BY <1>1, <1>3
<1>9. CASE ~Swallows(q, n)
  <2>1. PICK x : x = ForwardEvent(q[n])
    OBVIOUS
  <2>2. x \in ToClientMsg /\ IsKey(x) /\ KeyOf(x) = k[n]
    <3>1. q[n].ic \in Nat /\ q[n].key \in Nat
      BY <1>1 DEF ToServerMsg
    <3>2. ForwardEvent(q[n]) \in ToClientMsg
      BY <1>1, MessageTypes
    <3>3. QED
      BY <1>3, <2>1, <3>2 DEF ForwardEvent, IsKey, KeyOf
  <2>3. SendTo(c, <<x>>)
    BY <1>9, <2>1 DEF Handle
  <2>4. toClient'[c] = toClient[c] \o <<x>> /\ \A d \in Clients \ {c} : toClient'[d] = toClient[d]
    BY <2>3 DEF SendTo, TypeOK
  <2>5. KeyEvents(toClient[c])' = KeyEvents(toClient[c]) \o <<x>>
    BY <2>2, <2>4, SentToClient
  <2>6. PICK b \in Seq(ToClientMsg) : b = KeyEvents(toClient[c])
    BY UnresolvedType
  <2>7. KeysOf(b \o <<x>>) = Append(KeysOf(b), KeyOf(x))
    BY <2>2, KeysOfConcat
  <2>8. KeysOf(KeyEvents(toClient[c]))' = Append(KeysOf(b), k[n])
    BY <2>2, <2>5, <2>6, <2>7
  <2>9. Back' = [Back EXCEPT ![c] = Append(KeysOf(b), k[n])]
    <3>1. \A d \in Clients \ {c} : SameBack(d)
      BY <2>4 DEF SameBack
    <3>2. QED
      BY <2>8, <3>1, BackChange
  <2>10. Back[c] = KeysOf(b)
    BY <2>6 DEF Back
  <2>11. PICK j \in 0 .. Len(Queue[c]) : j = n - 1
    BY <1>1, <1>4, <1>8
  <2>12. j < Len(Queue[c]) /\ j + 1 = n /\ j + 2 = n + 1
    BY <1>1, <1>4, <1>8, <2>11
  <2>13. /\ Back' = [Back EXCEPT ![c] = Append(@, Queue[c][j + 1])]
         /\ Queue' = [Queue EXCEPT ![c] = SubSeq(@, j + 2, Len(@))]
    BY <1>4, <1>6, <2>9, <2>10, <2>12
  <2>14. Relay!Keep(c, j)
    BY <1>3, <1>4, <1>8, <1>9, <2>11, HandleKeeps
  <2>15. QED
    BY <1>7, <2>12, <2>13, <2>14 DEF Relay!Dispose, Queue, Back, Open
<1>10. CASE Swallows(q, n)
  <2>1. toClient' = toClient
    BY <1>10 DEF Handle
  <2>2. Back' = Back
    BY <2>1 DEF Back
  <2>3. PICK j \in 0 .. Len(Queue[c]) : j = n
    BY <1>1, <1>4, <1>8
  <2>4. j > 0 /\ Queue' = [Queue EXCEPT ![c] = SubSeq(@, j + 1, Len(@))]
    BY <1>1, <1>6, <2>3
  <2>5. Relay!Keep(c, j)
    BY <1>3, <1>4, <1>8, <1>10, <2>3, HandleKeeps
  <2>6. QED
    BY <1>7, <2>2, <2>4, <2>5 DEF Relay!Dispose, Queue, Back, Open
<1>11. QED
  BY <1>9, <1>10

(* A key event that meets an empty queue, and the queue after the answer    *)
(* to the last one sent back, are Dispose.                                 *)
LEMMA EventDisposed ==
  ASSUME TypeOK, SyncGatesQueue, NEW c \in Clients, ForwardEventMessageProc(c)
  PROVE  Relay!Dispose(c)
<1>1. /\ toServer[c] # <<>> /\ IsKey(Head(toServer[c])) /\ record[c] # "freed"
      /\ toServer'[c] = Tail(toServer[c])
      /\ \A d \in Clients \ {c} : toServer'[d] = toServer[d]
      /\ UNCHANGED <<record, pending, keysSent>>
  BY DEF ForwardEventMessageProc, Receives, Consume, IsKey, clientVars, TypeOK
<1>2. pending[c] = <<>>
  BY DEF ForwardEventMessageProc, SyncGatesQueue
<1>. DEFINE h == Head(toServer[c])
            q == <<h>>
            r == KeyEvents(Tail(toServer[c]))
<1>3. h \in ToServerMsg /\ q \in Seq(ToServerMsg) /\ r \in Seq(ToServerMsg)
      /\ 1 \in DOMAIN q /\ Len(q) = 1 /\ Handle(c, q, 1)
  <2>1. h \in ToServerMsg /\ Tail(toServer[c]) \in Seq(ToServerMsg)
    BY <1>1, UnresolvedType, HeadTailProperties
  <2>2. r \in Seq(ToServerMsg)
    BY <2>1, KeyEventsOf
  <2>3. QED
    BY <2>1, <2>2 DEF ForwardEventMessageProc
<1>4. KeyEvents(toServer[c]) = q \o r
  BY <1>1, UnresolvedType, KeyEventsOf
<1>5. KeyEvents(toServer'[c]) = r
  BY <1>1
<1>6. SubSeq(q, 2, 1) = <<>>
  BY SubSeqEmpty
<1>. HIDE DEF h, q, r
<1>7. <<>> \o (q \o r) = q \o r /\ <<>> \o r = r
  BY <1>3, ConcatProperties, ConcatEmptySeq
<1>8. Unresolved(c) = q \o r
  BY <1>1, <1>2, <1>4, <1>7 DEF Unresolved
<1>9. Unresolved(c)' = SubSeq(q, 1 + 1, Len(q)) \o r
  BY <1>1, <1>2, <1>3, <1>5, <1>6, <1>7 DEF Unresolved
<1>10. \A d \in Clients \ {c} : SameQueue(d)
  BY <1>1, LeftToServer DEF SameOpen
<1>11. QED
  BY <1>1, <1>3, <1>8, <1>9, <1>10, HandleDisposes

LEMMA QueueDisposed ==
  ASSUME TypeOK, NEW c \in Clients, SyncReplyMessageProc(c)
  PROVE  Relay!Dispose(c) \/ UNCHANGED Relay!relayVars
<1>1. /\ toServer[c] # <<>> /\ ~IsKey(Head(toServer[c])) /\ record[c] # "freed"
      /\ toServer'[c] = Tail(toServer[c])
      /\ \A d \in Clients \ {c} : toServer'[d] = toServer[d] /\ pending'[d] = pending[d]
      /\ UNCHANGED <<record, keysSent>>
  BY DEF SyncReplyMessageProc, Receives, Consume, IsKey, clientVars, TypeOK
<1>2. \A d \in Clients : SameOpen(d)
  BY <1>1 DEF SameOpen
<1>3. \A d \in Clients \ {c} : SameQueue(d)
  BY <1>1, <1>2, LeftToServer
<1>4. CASE UNCHANGED <<pending, ics, toClient>>
  <2>1. SameQueue(c)
    BY <1>1, <1>2, <1>4, TakenByServer
  <2>2. \A d \in Clients : SameBack(d)
    BY <1>4 DEF SameBack
  <2>3. Armed' = Armed
    BY <1>4 DEF Armed
  <2>4. QED
    BY <1>1, <1>2, <1>3, <2>1, <2>2, <2>3, RelayStutter
<1>5. ASSUME NEW n \in DOMAIN pending[c], Handle(c, pending[c], n),
             pending' = [pending EXCEPT ![c] = SubSeq(@, n + 1, Len(@))]
      PROVE  Relay!Dispose(c)
  <2>1. PICK q \in Seq(ToServerMsg) : q = pending[c]
    BY UnresolvedType
  <2>2. PICK r \in Seq(ToServerMsg) : r = KeyEvents(toServer[c])
    BY UnresolvedType
  <2>3. KeyEvents(toServer'[c]) = r
    BY <1>1, <2>2, UnresolvedType, KeyEventsOf
  <2>4. Unresolved(c) = q \o r
    BY <1>1, <2>1, <2>2 DEF Unresolved
  <2>5. Unresolved(c)' = SubSeq(q, n + 1, Len(q)) \o r
    BY <1>1, <1>5, <2>1, <2>3 DEF Unresolved, TypeOK
  <2>6. QED
    BY <1>1, <1>3, <1>5, <2>1, <2>4, <2>5, HandleDisposes
<1>6. QED
  BY <1>4, <1>5 DEF SyncReplyMessageProc

(* QueueKeyEvent moves a key event within the abstract queue.              *)
LEMMA EventQueued ==
  ASSUME TypeOK, NEW c \in Clients, QueueKeyEvent(c)
  PROVE  UNCHANGED Relay!relayVars
<1>1. /\ toServer[c] # <<>> /\ IsKey(Head(toServer[c])) /\ record[c] # "freed"
      /\ toServer'[c] = Tail(toServer[c])
      /\ pending'[c] = Append(pending[c], Head(toServer[c]))
      /\ \A d \in Clients \ {c} : toServer'[d] = toServer[d] /\ pending'[d] = pending[d]
      /\ UNCHANGED <<record, ics, toClient, keysSent>>
  BY DEF QueueKeyEvent, Receives, Consume, AddQueue, IsKey, clientVars, TypeOK
<1>2. \A d \in Clients : SameOpen(d) /\ SameBack(d)
  BY <1>1 DEF SameOpen, SameBack
<1>3. \A d \in Clients \ {c} : SameQueue(d)
  BY <1>1, <1>2, LeftToServer
<1>4. Armed' = Armed
  BY <1>1 DEF Armed
<1>5. SameQueue(c)
  <2>. DEFINE h == Head(toServer[c])
              y == <<h>>
              p == pending[c]
              r == KeyEvents(Tail(toServer[c]))
  <2>1. h \in ToServerMsg /\ y \in Seq(ToServerMsg) /\ p \in Seq(ToServerMsg)
        /\ r \in Seq(ToServerMsg)
    <3>1. h \in ToServerMsg /\ Tail(toServer[c]) \in Seq(ToServerMsg)
      BY <1>1, UnresolvedType, HeadTailProperties
    <3>2. r \in Seq(ToServerMsg)
      BY <3>1, KeyEventsOf
    <3>3. p \in Seq(ToServerMsg)
      BY UnresolvedType
    <3>4. QED
      BY <3>1, <3>2, <3>3
  <2>2. KeyEvents(toServer[c]) = y \o r
    BY <1>1, UnresolvedType, KeyEventsOf
  <2>3. KeyEvents(toServer'[c]) = r
    BY <1>1
  <2>4. Append(p, h) = p \o y
    BY <2>1, AppendIsConcat
  <2>5. Unresolved(c) = p \o (y \o r)
    BY <1>1, <2>2 DEF Unresolved
  <2>6. Unresolved(c)' = (p \o y) \o r
    BY <1>1, <2>3, <2>4 DEF Unresolved
  <2>. HIDE DEF h, y, p, r
  <2>7. (p \o y) \o r = p \o (y \o r)
    BY <2>1, ConcatAssociative
  <2>8. QED
    BY <2>5, <2>6, <2>7 DEF SameQueue
<1>6. QED
  BY <1>1, <1>2, <1>3, <1>4, <1>5, RelayStutter

(* DisConnectMessageProc is HangUp.                                        *)
LEMMA HungUp ==
  ASSUME TypeOK, NEW c \in Clients, DisConnectMessageProc(c)
  PROVE  Relay!HangUp(c)
<1>1. /\ record' = [record EXCEPT ![c] = "freed"]
      /\ toServer' = [toServer EXCEPT ![c] = Tail(@)]
      /\ toClient' = [toClient EXCEPT ![c] = @ \o <<Reply("DISCONNECT", 0)>>]
      /\ UNCHANGED <<pending, ics, keysSent>>
  BY DEF DisConnectMessageProc, Consume, SendTo, clientVars
<1>2. record'[c] = "freed" /\ \A d \in Clients \ {c} : SameOpen(d)
  BY <1>1 DEF SameOpen, TypeOK
<1>3. \A d \in Clients \ {c} : SameQueue(d)
  BY <1>1, <1>2, LeftToServer DEF TypeOK
<1>4. \A d \in Clients : SameBack(d)
  <2>1. PICK x : x = Reply("DISCONNECT", 0)
    OBVIOUS
  <2>2. x \in ToClientMsg /\ ~IsKey(x)
    <3>1. Reply("DISCONNECT", 0) \in ToClientMsg
      BY MessageTypes, NotRequests
    <3>2. QED
      BY <2>1, <3>1 DEF Reply, IsKey
  <2>3. toClient'[c] = toClient[c] \o <<x>> /\ \A d \in Clients \ {c} : toClient'[d] = toClient[d]
    BY <1>1, <2>1 DEF TypeOK
  <2>4. QED
    BY <2>2, <2>3, SentToClient DEF SameBack
<1>5. Back' = Back
  BY <1>4, Unchanged
<1>6. Queue' = [Queue EXCEPT ![c] = <<>>]
  <2>1. Unresolved(c)' = <<>>
    BY <1>2 DEF Unresolved
  <2>2. KeysOf(<<>>) = <<>>
    BY DEF KeysOf
  <2>3. KeysOf(Unresolved(c))' = <<>>
    BY <2>1, <2>2
  <2>4. QED
    BY <1>3, <2>3, QueueChange
<1>7. Open' = Open \ {c}
  BY <1>2 DEF Open, SameOpen
<1>8. Armed' = Armed
  BY <1>1 DEF Armed
<1>9. QED
  BY <1>1, <1>5, <1>6, <1>7, <1>8 DEF Relay!HangUp, Queue, Back, Open, Armed

(* Messages that are no key events leave the key path alone.               *)
LEMMA QuietSend ==
  ASSUME TypeOK, NEW c \in Clients, NEW t \in Seq(ToClientMsg), KeyEvents(t) = <<>>, SendTo(c, t)
  PROVE  \A d \in Clients : SameBack(d)
<1>. DEFINE s == toClient[c]
            k == KeyEvents(s)
<1>1. s \in Seq(ToClientMsg) /\ k \in Seq(ToClientMsg)
  BY UnresolvedType
<1>2. toClient'[c] = s \o t /\ \A d \in Clients \ {c} : toClient'[d] = toClient[d]
  BY DEF SendTo, TypeOK
<1>3. KeyEvents(s \o t) = k \o <<>>
  <2>1. s \in Seq(ToClientMsg)
    BY <1>1
  <2>. HIDE DEF s
  <2>2. KeyEvents(s \o t) = KeyEvents(s) \o KeyEvents(t)
    BY <2>1, KeyEventsConcat
  <2>3. QED
    BY <2>2
<1>4. k \o <<>> = k
  <2>. HIDE DEF k
  <2>1. QED
    BY <1>1, ConcatEmptySeq
<1>5. QED
  BY <1>2, <1>3, <1>4 DEF SameBack

LEMMA NoKeyEvents ==
  /\ \A x \in ToClientMsg : ~IsKey(x) => <<x>> \in Seq(ToClientMsg) /\ KeyEvents(<<x>>) = <<>>
  /\ \A x, y \in ToClientMsg :
       ~IsKey(x) /\ ~IsKey(y) => <<x, y>> \in Seq(ToClientMsg) /\ KeyEvents(<<x, y>>) = <<>>
<1>1. ASSUME NEW x \in ToClientMsg, ~IsKey(x)
      PROVE  <<x>> \in Seq(ToClientMsg) /\ KeyEvents(<<x>>) = <<>>
  <2>1. KeyEvents(<<x>>) = IF IsKey(x) THEN <<x>> ELSE <<>>
    BY KeyEventsOne
  <2>2. <<x>> \in Seq(ToClientMsg)
    OBVIOUS
  <2>3. QED
    BY <1>1, <2>1, <2>2
<1>2. ASSUME NEW x \in ToClientMsg, NEW y \in ToClientMsg, ~IsKey(x), ~IsKey(y)
      PROVE  <<x, y>> \in Seq(ToClientMsg) /\ KeyEvents(<<x, y>>) = <<>>
  <2>. DEFINE a == <<x>>
              b == <<y>>
  <2>1. a \in Seq(ToClientMsg) /\ b \in Seq(ToClientMsg)
        /\ KeyEvents(a) = <<>> /\ KeyEvents(b) = <<>>
    BY <1>1, <1>2
  <2>2. <<x, y>> = a \o b
    <3>1. <<x, y>> = Append(a, y)
      OBVIOUS
    <3>2. Append(a, y) = a \o b
      BY <2>1, AppendIsConcat
    <3>3. QED
      BY <3>1, <3>2
  <2>. HIDE DEF a, b
  <2>3. KeyEvents(a \o b) = KeyEvents(a) \o KeyEvents(b)
    BY <2>1, KeyEventsConcat
  <2>4. <<>> \o <<>> = <<>>
    BY EmptySeq, ConcatEmptySeq
  <2>5. KeyEvents(<<x, y>>) = <<>>
    BY <2>1, <2>2, <2>3, <2>4
  <2>6. <<x, y>> \in Seq(ToClientMsg)
    OBVIOUS
  <2>7. QED
    BY <2>5, <2>6
<1>3. QED
  BY <1>1, <1>2

LEMMA QuietClient ==
  ASSUME TypeOK, NEW c \in Clients, NEW x \in ToServerMsg, ~IsKey(x),
         ClientSend(c, x), keysSent' = keysSent
  PROVE  UNCHANGED Relay!relayVars
<1>1. /\ toServer'[c] = toServer[c] \o <<x>>
      /\ \A d \in Clients \ {c} : toServer'[d] = toServer[d]
      /\ UNCHANGED <<pending, record, ics, toClient>>
  <2>1. Append(toServer[c], x) = toServer[c] \o <<x>>
    BY AppendIsConcat DEF TypeOK
  <2>2. QED
    BY <2>1 DEF ClientSend, serverVars, TypeOK
<1>2. \A d \in Clients : SameOpen(d) /\ SameBack(d)
  BY <1>1 DEF SameOpen, SameBack
<1>3. \A d \in Clients : SameQueue(d)
  BY <1>1, <1>2, SentToServer, LeftToServer
<1>4. Armed' = Armed
  BY <1>1 DEF Armed
<1>5. QED
  BY <1>2, <1>3, <1>4, RelayStutter

(* Every step of a client is one of the key path or leaves it alone.       *)
LEMMA ClientRelays ==
  ASSUME TypeOK, Bounded, \A d \in Clients : Exchange(d), MaskedAreHeld, HeldICsServed,
         NEW c \in Clients, Client(c)
  PROVE  [Relay!Next]_Relay!relayVars
<1>. USE DEF TypeOK
<1>1. ASSUME NEW r \in RequestTypes, NEW i \in Nat, Request(c, r, i)
      PROVE  UNCHANGED Relay!relayVars
  <2>1. PICK x \in ToServerMsg : x = ToServer(r, i)
    BY MessageTypes
  <2>2. ~IsKey(x)
    BY <2>1, NotRequests DEF ToServer, IsKey
  <2>3. ClientSend(c, x) /\ keysSent' = keysSent
    BY <1>1, <2>1 DEF Request
  <2>. HIDE DEF TypeOK
  <2>4. QED
    BY <2>2, <2>3, QuietClient
<1>2. CASE ClientXConnect(c) \/ ClientConnect(c) \/ ClientDisconnect(c) \/ ClientCreateIC(c)
  BY <1>1, <1>2, NotRequests DEF ClientXConnect, ClientConnect, ClientDisconnect, ClientCreateIC
<1>3. CASE ClientAskIM(c)
  BY <1>1, <1>3 DEF ClientAskIM, RequestTypes
<1>4. CASE ClientAskIC(c)
  BY <1>1, <1>4 DEF ClientAskIC, RequestTypes
<1>5. CASE ClientFocus(c)
  <2>1. PICK i \in held[c], t \in FocusTypes : ClientSend(c, ToServer(t, i))
    BY <1>5 DEF ClientFocus
  <2>2. PICK x \in ToServerMsg : x = ToServer(t, i)
    BY MessageTypes
  <2>3. ~IsKey(x)
    BY <2>2 DEF ToServer, IsKey, FocusTypes
  <2>4. ClientSend(c, x) /\ keysSent' = keysSent
    BY <1>5, <2>1, <2>2 DEF ClientFocus, clientVars
  <2>. HIDE DEF TypeOK
  <2>5. QED
    BY <2>3, <2>4, QuietClient
<1>6. CASE ClientSyncReply(c)
  <2>1. PICK x \in ToServerMsg : x = ToServer("SYNC_REPLY", 0)
    BY MessageTypes
  <2>2. ~IsKey(x)
    BY <2>1 DEF ToServer, IsKey
  <2>3. ClientSend(c, x) /\ keysSent' = keysSent
    BY <1>6, <2>1 DEF ClientSyncReply
  <2>. HIDE DEF TypeOK
  <2>4. QED
    BY <2>2, <2>3, QuietClient
<1>7. CASE ClientVanish(c)
  <2>1. UNCHANGED <<record, pending, ics, toServer, toClient, keysSent>>
    BY <1>7 DEF ClientVanish, serverVars
  <2>2. QED
    BY <2>1, RelayStutter DEF SameQueue, SameBack, SameOpen, Armed, Unresolved
<1>. HIDE DEF TypeOK
<1>8. CASE ClientKey(c)
  <2>1. \E i \in 1 .. MaxICs : Relay!Submit(c, i)
    BY <1>8, KeySubmitted
  <2>2. QED
    BY <2>1 DEF Relay!Next
<1>9. CASE ClientReceive(c)
  <2>1. Relay!Deliver(c) \/ UNCHANGED Relay!relayVars
    BY <1>9, KeyDelivered
  <2>2. QED
    BY <2>1 DEF Relay!Next
<1>10. QED
  BY <1>2, <1>3, <1>4, <1>5, <1>6, <1>7, <1>8, <1>9 DEF Client

-----------------------------------------------------------------------------
(* A handler of another message.                                           *)
LEMMA QuietServer ==
  ASSUME TypeOK, NEW c \in Clients, toServer[c] # <<>>, Consume(c),
         ~IsKey(Head(toServer[c])) \/ record[c] = "freed",
         pending' = pending, \A d \in Clients : SameOpen(d) /\ SameBack(d),
         keysSent' = keysSent, Armed' = Armed
  PROVE  UNCHANGED Relay!relayVars
<1>1. toServer'[c] = Tail(toServer[c]) /\ \A d \in Clients \ {c} : toServer'[d] = toServer[d]
  BY DEF Consume, TypeOK
<1>2. \A d \in Clients : SameQueue(d)
  BY <1>1, TakenByServer, LeftToServer
<1>3. QED
  BY <1>2, RelayStutter

LEMMA QuietReply ==
  ASSUME TypeOK, NEW c \in Clients, NEW r \in RequestTypes, NEW i \in Nat, SendTo(c, <<Reply(r, i)>>)
  PROVE  \A d \in Clients : SameBack(d)
<1>1. PICK x \in ToClientMsg : x = Reply(r, i)
  BY MessageTypes
<1>2. ~IsKey(x)
  BY <1>1 DEF Reply, IsKey
<1>3. PICK t \in Seq(ToClientMsg) : t = <<x>> /\ KeyEvents(t) = <<>>
  BY <1>2, NoKeyEvents
<1>4. QED
  BY <1>1, <1>3, QuietSend

LEMMA XConnectRelays ==
  ASSUME TypeOK, NEW c \in Clients, Exchange(c), Early(c), ReadXConnectMessage(c)
  PROVE  UNCHANGED Relay!relayVars
<1>1. waiting[c] = "XCONNECT"
  BY HeadAwaited, NotRequests DEF ReadXConnectMessage
<1>2. record[c] # "freed" /\ pending[c] = <<>>
  BY <1>1 DEF Early
<1>3. pending' = pending /\ \A d \in Clients : SameOpen(d)
  <2>1. pending' = [pending EXCEPT ![c] = <<>>] /\ record' = [record EXCEPT ![c] = "new"]
    BY DEF ReadXConnectMessage
  <2>2. pending' = pending
    BY <1>2, <2>1 DEF TypeOK
  <2>3. QED
    BY <1>2, <2>1, <2>2 DEF SameOpen, TypeOK
<1>4. \A d \in Clients : SameBack(d)
  BY QuietReply, NotRequests DEF ReadXConnectMessage
<1>5. Armed' = Armed /\ keysSent' = keysSent
  BY DEF ReadXConnectMessage, Armed, clientVars
<1>6. toServer[c] # <<>> /\ Consume(c) /\ ~IsKey(Head(toServer[c]))
  BY DEF ReadXConnectMessage, IsKey
<1>7. QED
  BY <1>3, <1>4, <1>5, <1>6, QuietServer

LEMMA ConnectRelays ==
  ASSUME TypeOK, NEW c \in Clients, ConnectMessageProc(c)
  PROVE  UNCHANGED Relay!relayVars
<1>1. \A d \in Clients : SameOpen(d)
  BY DEF ConnectMessageProc, SameOpen, TypeOK
<1>2. \A d \in Clients : SameBack(d)
  BY QuietReply, NotRequests DEF ConnectMessageProc
<1>3. Armed' = Armed /\ keysSent' = keysSent /\ pending' = pending
  BY DEF ConnectMessageProc, Armed, clientVars
<1>4. toServer[c] # <<>> /\ Consume(c) /\ ~IsKey(Head(toServer[c]))
  BY DEF ConnectMessageProc, IsKey
<1>5. QED
  BY <1>1, <1>2, <1>3, <1>4, QuietServer

LEMMA AnswerRelays ==
  ASSUME TypeOK, NEW c \in Clients, AnswerRequest(c)
  PROVE  UNCHANGED Relay!relayVars
<1>1. PICK r \in RequestTypes : Receives(c, r) /\ SendTo(c, <<Reply(r, Head(toServer[c]).ic)>>)
  BY AnsweredRequest
<1>2. toServer[c] # <<>> /\ Consume(c) /\ UNCHANGED <<serverVars, clientVars>>
  BY AnswerFrame
<1>3. Head(toServer[c]).ic \in Nat
  BY <1>2, ConsumeType DEF TypeOK, ToServerMsg
<1>4. \A d \in Clients : SameBack(d)
  BY <1>1, <1>3, QuietReply
<1>5. \A d \in Clients : SameOpen(d)
  BY <1>2 DEF SameOpen, serverVars
<1>6. ~IsKey(Head(toServer[c]))
  BY <1>1, NotRequests DEF Receives, IsKey
<1>7. Armed' = Armed /\ keysSent' = keysSent /\ pending' = pending
  BY <1>2 DEF Armed, serverVars, clientVars
<1>8. QED
  BY <1>2, <1>4, <1>5, <1>6, <1>7, QuietServer

LEMMA CreateRelays ==
  ASSUME TypeOK, NEW c \in Clients, CreateICMessageProc(c)
  PROVE  UNCHANGED Relay!relayVars
<1>1. PICK i \in Nat : i = Len(ics) + 1
  BY LenProperties DEF TypeOK
<1>2. SendTo(c, CreateICMessages(i)) /\ ics' = Append(ics, NewIMIC(c))
  BY <1>1 DEF CreateICMessageProc
<1>3. \A d \in Clients : SameBack(d)
  <2>1. PICK x \in ToClientMsg, y \in ToClientMsg : x = Reply("CREATE_IC", i) /\ y = SetEventMask(i)
    BY MessageTypes, NotRequests
  <2>2. ~IsKey(x) /\ ~IsKey(y)
    BY <2>1 DEF Reply, SetEventMask, IsKey
  <2>3. PICK t \in Seq(ToClientMsg) : t = <<x, y>> /\ KeyEvents(t) = <<>>
    BY <2>2, NoKeyEvents
  <2>4. SendTo(c, t)
    BY <1>2, <2>1, <2>3 DEF CreateICMessages
  <2>5. QED
    BY <2>3, <2>4, QuietSend
<1>4. \A d \in Clients : SameOpen(d)
  BY DEF CreateICMessageProc, SameOpen
<1>5. Armed' = Armed
  <2>1. PICK x \in IMIC : x = NewIMIC(c)
    BY DEF NewIMIC, IMIC
  <2>2. /\ ics' \in Seq(IMIC) /\ Len(ics') = Len(ics) + 1 /\ ics'[Len(ics) + 1] = x
        /\ \A n \in 1 .. Len(ics) : ics'[n] = ics[n]
    BY <1>2, <2>1, AppendProperties DEF TypeOK
  <2>3. DOMAIN ics = 1 .. Len(ics) /\ Len(ics) \in Nat /\ DOMAIN ics' = 1 .. Len(ics) + 1
    BY <2>2, LenProperties DEF TypeOK
  <2>4. ~x.toggled
    BY <2>1 DEF NewIMIC
  <2>5. \A n \in 1 .. Len(ics) + 1 : n \in 1 .. Len(ics) \/ n = Len(ics) + 1
    BY <2>3
  <2>6. \A n \in 1 .. Len(ics) : n \in 1 .. Len(ics) + 1
    BY <2>3
  <2>7. QED
    BY <2>2, <2>3, <2>4, <2>5, <2>6 DEF Armed
<1>6. /\ toServer[c] # <<>> /\ Consume(c) /\ ~IsKey(Head(toServer[c]))
      /\ keysSent' = keysSent /\ pending' = pending
  BY DEF CreateICMessageProc, Receives, IsKey, clientVars
<1>7. QED
  BY <1>3, <1>4, <1>5, <1>6, QuietServer

(* The values and the focus of an IC do not arm it.                        *)
LEMMA ICUpdateArms ==
  ASSUME TypeOK, NEW i, NEW c
  PROVE  /\ ics' = [ics EXCEPT ![i].owner = c] => Armed' = Armed
         /\ ics' = [ics EXCEPT ![i].focused = TRUE] => Armed' = Armed
<1>1. \A n \in DOMAIN ics : ics[n] \in IMIC
  BY ElementOfSeq, LenProperties DEF TypeOK
<1>2. ASSUME ics' = [ics EXCEPT ![i].owner = c] PROVE Armed' = Armed
  <2>1. DOMAIN ics' = DOMAIN ics
    BY <1>2
  <2>2. \A n \in DOMAIN ics : ics'[n].toggled = ics[n].toggled
    BY <1>1, <1>2 DEF IMIC
  <2>3. QED
    BY <2>1, <2>2 DEF Armed
<1>3. ASSUME ics' = [ics EXCEPT ![i].focused = TRUE] PROVE Armed' = Armed
  <2>1. DOMAIN ics' = DOMAIN ics
    BY <1>3
  <2>2. \A n \in DOMAIN ics : ics'[n].toggled = ics[n].toggled
    BY <1>1, <1>3 DEF IMIC
  <2>3. QED
    BY <2>1, <2>2 DEF Armed
<1>4. QED
  BY <1>2, <1>3

LEMMA SetICRelays ==
  ASSUME TypeOK, NEW c \in Clients,
         \/ SetICValuesMessageProc(c) \/ SetICFocusMessageProc(c)
         \/ UnsetICFocusMessageProc(c) \/ Discard(c)
  PROVE  UNCHANGED Relay!relayVars
<1>1. /\ toServer[c] # <<>> /\ Consume(c)
      /\ ~IsKey(Head(toServer[c])) \/ record[c] = "freed"
      /\ UNCHANGED <<record, pending, keysSent>>
  BY DEF SetICValuesMessageProc, SetICFocusMessageProc, UnsetICFocusMessageProc, Discard,
         Receives, IsKey, serverVars, clientVars
<1>2. \A d \in Clients : SameOpen(d)
  BY <1>1 DEF SameOpen
<1>3. Armed' = Armed
  <2>1. CASE ics' = ics
    BY <2>1 DEF Armed
  <2>2. CASE ics' # ics
    BY <2>2, ICUpdateArms
    DEF SetICValuesMessageProc, SetICFocusMessageProc, UnsetICFocusMessageProc, Discard, serverVars
  <2>3. QED
    BY <2>1, <2>2
<1>4. \A d \in Clients : SameBack(d)
  <2>1. CASE SetICValuesMessageProc(c)
    <3>1. Head(toServer[c]) \in ToServerMsg /\ Head(toServer[c]).type = "SET_IC_VALUES"
      BY <1>1, <2>1, ConsumeType DEF SetICValuesMessageProc, Receives, TypeOK
    <3>2. Head(toServer[c]).ic \in Nat /\ "SET_IC_VALUES" \in RequestTypes
      BY <3>1 DEF ToServerMsg, FocusTypes
    <3>3. QED
      BY <2>1, <3>2, QuietReply DEF SetICValuesMessageProc
  <2>2. CASE ~SetICValuesMessageProc(c)
    BY <2>2 DEF SetICFocusMessageProc, UnsetICFocusMessageProc, Discard, SameBack
  <2>3. QED
    BY <2>1, <2>2
<1>5. QED
  BY <1>1, <1>2, <1>3, <1>4, QuietServer

LEMMA ServerRelays ==
  ASSUME TypeOK, SyncGatesQueue, \A d \in Clients : Exchange(d), \A d \in Clients : Early(d),
         NEW c \in Clients, Server(c)
  PROVE  [Relay!Next]_Relay!relayVars
<1>1. CASE ForwardEventMessageProc(c) \/ SyncReplyMessageProc(c)
  <2>1. Relay!Dispose(c) \/ UNCHANGED Relay!relayVars
    BY <1>1, EventDisposed, QueueDisposed
  <2>2. QED
    BY <2>1 DEF Relay!Next
<1>2. CASE DisConnectMessageProc(c)
  <2>1. Relay!HangUp(c)
    BY <1>2, HungUp
  <2>2. QED
    BY <2>1 DEF Relay!Next
<1>3. CASE \/ ReadXConnectMessage(c) \/ ConnectMessageProc(c) \/ Discard(c)
           \/ AnswerRequest(c) \/ CreateICMessageProc(c) \/ SetICValuesMessageProc(c)
           \/ SetICFocusMessageProc(c) \/ UnsetICFocusMessageProc(c) \/ QueueKeyEvent(c)
  BY <1>3, XConnectRelays, ConnectRelays, AnswerRelays, CreateRelays, SetICRelays, EventQueued
<1>4. QED
  BY <1>1, <1>2, <1>3 DEF Server

LEMMA ImeRelays ==
  ASSUME TypeOK, Bounded, \A d \in Clients : Exchange(d), Ime
  PROVE  [Relay!Next]_Relay!relayVars
<1>1. CASE ImeOpenStatus
  <2>1. PICK i \in DOMAIN ics : ics' = [ics EXCEPT ![i].toggled = TRUE]
    BY <1>1 DEF ImeOpenStatus
  <2>2. i \in 1 .. MaxICs
    BY ServedBounded
  <2>3. \A n \in DOMAIN ics : ics[n] \in IMIC
    BY ElementOfSeq, LenProperties DEF TypeOK
  <2>4. DOMAIN ics' = DOMAIN ics /\ \A n \in DOMAIN ics : ics'[n].toggled <=> ics[n].toggled \/ n = i
    BY <2>1, <2>3 DEF IMIC
  <2>5. Armed' = Armed \cup {i}
    BY <2>4 DEF Armed
  <2>6. UNCHANGED <<keysSent, record, pending, toServer, toClient>>
    BY <1>1 DEF ImeOpenStatus, clientVars
  <2>7. \A d \in Clients : SameQueue(d) /\ SameBack(d) /\ SameOpen(d)
    BY <2>6 DEF SameQueue, SameBack, SameOpen, Unresolved
  <2>8. Queue' = Queue /\ Back' = Back /\ Open' = Open
    BY <2>7, Unchanged
  <2>9. Relay!Arm(i)
    BY <2>5, <2>6, <2>8 DEF Relay!Arm, Queue, Back, Open, Armed
  <2>10. QED
    BY <2>2, <2>9 DEF Relay!Next
<1>2. CASE ImeCommit
  <2>1. UNCHANGED <<keysSent, record, pending, toServer, ics>>
    BY <1>2 DEF ImeCommit, clientVars
  <2>2. \A d \in Clients : SameQueue(d) /\ SameOpen(d)
    BY <2>1 DEF SameQueue, SameOpen, Unresolved
  <2>3. \A d \in Clients : SameBack(d)
    <3>1. PICK i \in DOMAIN ics :
            IF alive' THEN SendTo(ics[i].owner, <<Commit(i)>>) ELSE UNCHANGED toClient
      BY <1>2 DEF ImeCommit
    <3>2. i \in Nat /\ ics[i] \in IMIC
      BY LenProperties, ElementOfSeq DEF TypeOK
    <3>3. ics[i].owner \in Clients
      BY <3>2 DEF IMIC
    <3>4. PICK x \in ToClientMsg : x = Commit(i)
      BY <3>2, MessageTypes
    <3>5. ~IsKey(x)
      BY <3>4 DEF Commit, IsKey
    <3>6. PICK t \in Seq(ToClientMsg) : t = <<x>> /\ KeyEvents(t) = <<>>
      BY <3>5, NoKeyEvents
    <3>7. CASE SendTo(ics[i].owner, t)
      BY <3>3, <3>6, <3>7, QuietSend
    <3>8. CASE UNCHANGED toClient
      BY <3>8 DEF SameBack
    <3>9. QED
      BY <3>1, <3>4, <3>6, <3>7, <3>8
  <2>4. Armed' = Armed
    BY <2>1 DEF Armed
  <2>5. QED
    BY <2>1, <2>2, <2>3, <2>4, RelayStutter
<1>3. QED
  BY <1>1, <1>2 DEF Ime

(* The server implements the key path: it never reorders, duplicates or    *)
(* invents a key event, and keeps one only on account of a toggle (AddQueue, *)
(* ProcessQueue, winXIMEForwardEventHandler).                              *)
THEOREM KeysRelayed == Spec => RelayKeys
<1>1. Init => Relay!Init
  <2>1. SUFFICES ASSUME Init PROVE Relay!Init
    OBVIOUS
  <2>2. KeyEvents(<<>>) = <<>> /\ <<>> \o <<>> = <<>> /\ KeysOf(<<>>) = <<>>
    BY SelectEmpty, EmptySeq, ConcatEmptySeq DEF KeyEvents, KeysOf
  <2>3. \A d \in Clients : KeysOf(Unresolved(d)) = <<>> /\ KeysOf(KeyEvents(toClient[d])) = <<>>
    BY <2>1, <2>2 DEF Init, Unresolved
  <2>4. Queue = [c \in Clients |-> <<>>] /\ Back = [c \in Clients |-> <<>>]
    BY <2>3, Zenon DEF Queue, Back
  <2>5. Armed = {} /\ Open = Clients /\ keysSent = [c \in Clients |-> 0]
    BY <2>1 DEF Init, Armed, Open
  <2>6. QED
    BY <2>4, <2>5 DEF Relay!Init, Queue, Back, Armed, Open
<1>2. ASSUME TypeOK, SyncGatesQueue, \A d \in Clients : Exchange(d), \A d \in Clients : Early(d),
             Bounded, MaskedAreHeld, HeldICsServed, [Next]_vars
      PROVE  [Relay!Next]_Relay!relayVars
  <2>1. CASE UNCHANGED vars
    <3>1. UNCHANGED <<keysSent, record, pending, toServer, toClient, ics>>
      BY <2>1 DEF vars, serverVars, clientVars
    <3>2. QED
      BY <3>1, RelayStutter DEF SameQueue, SameBack, SameOpen, Armed, Unresolved
  <2>2. CASE Next
    BY <1>2, <2>2, ClientRelays, ServerRelays, ImeRelays DEF Next
  <2>3. QED
    BY <1>2, <2>1, <2>2
<1>3. QED
  BY <1>1, <1>2, TypeCorrect, QueueGated, ExchangeAlways, EarlyAlways, BoundedAlways,
     MasksHeld, HeldAreServed, PTL DEF Spec, RelayKeys, Relay!Spec

-----------------------------------------------------------------------------
(* What follows from the key path: the order of the key events.            *)

(* The keys of s are among the first n that were forwarded, in order.       *)
Ordered(s, n) ==
  /\ \A m \in 1 .. Len(s) : s[m].key \in 1 .. n
  /\ \A j, k \in 1 .. Len(s) : j < k => s[j].key < s[k].key

(* Element m of two sequences, one after the other.                        *)
InPair(b, q, m) == IF m <= Len(b) THEN b[m] ELSE q[m - Len(b)]

(* Taking d elements away after the first a ones keeps the order.          *)
LEMMA OrderedCut ==
  ASSUME NEW R, NEW b \in Seq(R), NEW q \in Seq(R), NEW b2 \in Seq(R), NEW q2 \in Seq(R),
         NEW n, NEW a \in Nat, NEW d \in Nat, Ordered(b \o q, n),
         Len(b2) + Len(q2) + d = Len(b) + Len(q), a <= Len(b2) + Len(q2),
         \A m \in 1 .. Len(b2) + Len(q2) :
           InPair(b2, q2, m) = InPair(b, q, IF m <= a THEN m ELSE m + d)
  PROVE  Ordered(b2 \o q2, n)
<1>1. /\ Len(b) \in Nat /\ Len(q) \in Nat /\ Len(b2) \in Nat /\ Len(q2) \in Nat
      /\ Len(b \o q) = Len(b) + Len(q)
      /\ Len(b2 \o q2) = Len(b2) + Len(q2)
      /\ \A m \in 1 .. Len(b) + Len(q) : (b \o q)[m] = InPair(b, q, m)
      /\ \A m \in 1 .. Len(b2) + Len(q2) : (b2 \o q2)[m] = InPair(b2, q2, m)
  BY ConcatProperties, LenProperties DEF InPair
<1>. DEFINE s == b \o q
            t == b2 \o q2
            N == Len(b2) + Len(q2)
            f(m) == IF m <= a THEN m ELSE m + d
<1>2. N \in Nat /\ Len(s) = N + d /\ Len(t) = N /\ Ordered(s, n)
  BY <1>1
<1>3. \A m \in 1 .. N : f(m) \in 1 .. N + d
  BY <1>2
<1>4. \A m \in 1 .. N : t[m] = s[f(m)]
  BY <1>1, <1>3
<1>5. \A j, k \in 1 .. N : j < k => f(j) < f(k)
  BY <1>2
<1>. HIDE DEF s, t, f, N
<1>6. \A m \in 1 .. N : t[m].key \in 1 .. n
  BY <1>2, <1>3, <1>4 DEF Ordered
<1>7. \A j, k \in 1 .. N : j < k => t[j].key < t[k].key
  BY <1>2, <1>3, <1>4, <1>5 DEF Ordered
<1>8. Ordered(t, n)
  BY <1>2, <1>6, <1>7 DEF Ordered
<1>9. QED
  BY <1>8 DEF t

(* The next key event is later than those before it.                       *)
LEMMA OrderedSubmit ==
  ASSUME NEW R, NEW b \in Seq(R), NEW q \in Seq(R), NEW n \in Nat, NEW e \in R,
         Ordered(b \o q, n), e.key = n + 1
  PROVE  Ordered(b \o Append(q, e), n + 1)
<1>. DEFINE q2 == Append(q, e)
            s == b \o q
            t == b \o q2
<1>1. /\ q2 \in Seq(R) /\ Len(q2) = Len(q) + 1 /\ q2[Len(q) + 1] = e
      /\ \A m \in 1 .. Len(q) : q2[m] = q[m]
  BY AppendProperties
<1>2. /\ Len(b) \in Nat /\ Len(q) \in Nat /\ Len(s) = Len(b) + Len(q)
      /\ \A m \in 1 .. Len(b) + Len(q) : s[m] = InPair(b, q, m)
  BY ConcatProperties, LenProperties DEF InPair
<1>. HIDE DEF q2
<1>3. Len(t) = Len(b) + Len(q2)
      /\ \A m \in 1 .. Len(b) + Len(q2) : t[m] = InPair(b, q2, m)
  BY <1>1, ConcatProperties DEF InPair
<1>4. Ordered(s, n)
  OBVIOUS
<1>. HIDE DEF s, t
<1>5. Len(t) = Len(s) + 1 /\ Len(s) \in Nat
  BY <1>1, <1>2, <1>3
<1>6. t[Len(s) + 1] = e
  <2>1. Len(s) + 1 \in 1 .. Len(b) + Len(q2) /\ ~(Len(s) + 1 <= Len(b))
        /\ (Len(s) + 1) - Len(b) = Len(q) + 1
    BY <1>1, <1>2
  <2>2. t[Len(s) + 1] = q2[Len(q) + 1]
    BY <1>3, <2>1 DEF InPair
  <2>3. QED
    BY <1>1, <2>2
<1>7. ASSUME NEW m \in 1 .. Len(s) PROVE t[m] = s[m]
  <2>1. m \in 1 .. Len(b) + Len(q) /\ m \in 1 .. Len(b) + Len(q2)
    BY <1>1, <1>2
  <2>2. CASE m <= Len(b)
    BY <1>2, <1>3, <2>1, <2>2 DEF InPair
  <2>3. CASE ~(m <= Len(b))
    <3>1. m - Len(b) \in 1 .. Len(q)
      BY <1>2, <2>1, <2>3
    <3>2. q2[m - Len(b)] = q[m - Len(b)]
      BY <1>1, <3>1
    <3>3. QED
      BY <1>2, <1>3, <2>1, <2>3, <3>2 DEF InPair
  <2>4. QED
    BY <2>2, <2>3
<1>8. \A m \in 1 .. Len(t) : t[m].key \in 1 .. n + 1
  BY <1>4, <1>5, <1>6, <1>7 DEF Ordered
<1>9. \A j, k \in 1 .. Len(t) : j < k => t[j].key < t[k].key
  <2>1. SUFFICES ASSUME NEW j \in 1 .. Len(t), NEW k \in 1 .. Len(t), j < k
                 PROVE  t[j].key < t[k].key
    OBVIOUS
  <2>2. j \in 1 .. Len(s) /\ (k \in 1 .. Len(s) \/ k = Len(s) + 1)
    BY <1>5, <2>1
  <2>3. CASE k \in 1 .. Len(s)
    BY <1>4, <1>7, <2>1, <2>2, <2>3 DEF Ordered
  <2>4. CASE k = Len(s) + 1
    BY <1>4, <1>6, <1>7, <2>2, <2>4 DEF Ordered
  <2>5. QED
    BY <2>2, <2>3, <2>4
<1>10. Ordered(t, n + 1)
  BY <1>8, <1>9 DEF Ordered
<1>11. QED
  BY <1>10 DEF t, q2

(* Key events on their way back are older than those not disposed of.       *)
KeysOrdered == \A c \in Clients : Ordered(Back[c] \o Queue[c], keysSent[c])

QueuesTyped ==
  \A c \in Clients :
    Back[c] \in Seq(KeyRecords) /\ Queue[c] \in Seq(KeyRecords) /\ keysSent[c] \in Nat

LEMMA QueuesType == TypeOK => QueuesTyped
BY UnresolvedType, KeysOfType DEF QueuesTyped, Back, Queue, TypeOK

(* What the step of the key path does to the keys of d.                    *)
LEMMA OrderedStep ==
  ASSUME TypeOK, TypeOK', QueuesTyped, QueuesTyped', KeysOrdered, Relay!Next, NEW d \in Clients
  PROVE  Ordered(Back'[d] \o Queue'[d], keysSent'[d])
<1>1. PICK b, q, n, b2, q2, n2 :
        /\ b = Back[d] /\ q = Queue[d] /\ n = keysSent[d]
        /\ b2 = Back'[d] /\ q2 = Queue'[d] /\ n2 = keysSent'[d]
  OBVIOUS
<1>2. /\ b \in Seq(KeyRecords) /\ q \in Seq(KeyRecords) /\ n \in Nat
      /\ b2 \in Seq(KeyRecords) /\ q2 \in Seq(KeyRecords) /\ n2 \in Nat
      /\ Len(b) \in Nat /\ Len(q) \in Nat
  <2>1. Back'[d] \in Seq(KeyRecords) /\ Queue'[d] \in Seq(KeyRecords) /\ keysSent'[d] \in Nat
    BY DEF QueuesTyped
  <2>2. QED
    BY <1>1, <2>1, LenProperties DEF QueuesTyped
<1>3. Ordered(b \o q, n)
  BY <1>1 DEF KeysOrdered
<1>4. DOMAIN Back = Clients /\ DOMAIN Queue = Clients /\ DOMAIN keysSent = Clients
  BY DEF Back, Queue, TypeOK
<1>5. SUFFICES Ordered(b2 \o q2, n2)
  BY <1>1
<1>6. CASE b2 = b /\ q2 = q /\ n2 = n
  BY <1>3, <1>6
<1>7. ASSUME NEW c \in Clients, NEW i \in 1 .. MaxICs, Relay!Submit(c, i)
      PROVE  Ordered(b2 \o q2, n2)
  <2>1. /\ keysSent' = [keysSent EXCEPT ![c] = @ + 1]
        /\ \/ Queue' = [Queue EXCEPT ![c] = Append(@, [ic |-> i, key |-> keysSent'[c]])]
           \/ Queue' = Queue
        /\ Back' = Back
    BY <1>7 DEF Relay!Submit, Queue, Back
  <2>2. CASE c # d
    <3>1. b2 = b /\ q2 = q /\ n2 = n
      BY <1>1, <1>4, <2>1, <2>2
    <3>2. QED
      BY <1>6, <3>1
  <2>3. CASE c = d
    <3>1. n2 = n + 1 /\ b2 = b
      BY <1>1, <1>4, <2>1, <2>3
    <3>2. CASE Queue' = Queue
      <4>1. q2 = q
        BY <1>1, <3>2
      <4>2. QED
        BY <1>2, <1>3, <3>1, <4>1 DEF Ordered
    <3>3. CASE Queue' = [Queue EXCEPT ![c] = Append(@, [ic |-> i, key |-> keysSent'[c]])]
      <4>1. PICK e : e = [ic |-> i, key |-> n + 1]
        OBVIOUS
      <4>2. q2 = Append(q, e)
        BY <1>1, <1>4, <2>3, <3>1, <3>3, <4>1
      <4>3. e \in KeyRecords /\ e.key = n + 1
        <5>1. i \in Nat
          BY BoundsAssumption
        <5>2. KeyEvent(i, n + 1) \in ToServerMsg
          BY <1>2, <5>1 DEF KeyEvent, ToServerMsg
        <5>3. KeyOf(KeyEvent(i, n + 1)) = e
          BY <4>1 DEF KeyOf, KeyEvent
        <5>4. QED
          BY <4>1, <5>2, <5>3 DEF KeyRecords
      <4>4. Ordered(b \o Append(q, e), n + 1)
        BY <1>2, <1>3, <4>3, OrderedSubmit
      <4>5. QED
        BY <3>1, <4>2, <4>4
    <3>4. QED
      BY <2>1, <3>2, <3>3
  <2>4. QED
    BY <2>2, <2>3
<1>8. ASSUME NEW c \in Clients, Relay!Dispose(c) PROVE Ordered(b2 \o q2, n2)
  <2>1. PICK m \in 0 .. Len(Queue[c]) :
          /\ \/ /\ m < Len(Queue[c])
                /\ Back' = [Back EXCEPT ![c] = Append(@, Queue[c][m + 1])]
                /\ Queue' = [Queue EXCEPT ![c] = SubSeq(@, m + 2, Len(@))]
             \/ /\ Back' = Back
                /\ Queue' = [Queue EXCEPT ![c] = SubSeq(@, m + 1, Len(@))]
          /\ keysSent' = keysSent
    BY <1>8, Zenon DEF Relay!Dispose, Queue, Back
  <2>2. CASE c # d
    <3>1. b2 = b /\ q2 = q /\ n2 = n
      BY <1>1, <1>4, <2>1, <2>2
    <3>2. QED
      BY <1>6, <3>1
  <2>3. CASE c = d
    <3>1. /\ \/ m < Len(q) /\ b2 = Append(b, q[m + 1]) /\ q2 = SubSeq(q, m + 2, Len(q))
             \/ b2 = b /\ q2 = SubSeq(q, m + 1, Len(q))
          /\ n2 = n /\ m \in 0 .. Len(q) /\ m \in Nat
      BY <1>1, <1>2, <1>4, <2>1, <2>3
    <3>2. CASE m < Len(q) /\ b2 = Append(b, q[m + 1]) /\ q2 = SubSeq(q, m + 2, Len(q))
      <4>1. /\ m + 1 \in 0 .. Len(q) /\ m + 2 = (m + 1) + 1 /\ q[m + 1] \in KeyRecords
        BY <1>2, <3>1, <3>2, ElementOfSeq
      <4>2. Len(q2) = Len(q) - (m + 1) /\ \A j \in 1 .. Len(q) - (m + 1) : q2[j] = q[(m + 1) + j]
        BY <1>2, <3>2, <4>1, RestElements
      <4>3. /\ Len(b2) = Len(b) + 1 /\ b2[Len(b) + 1] = q[m + 1]
            /\ \A j \in 1 .. Len(b) : b2[j] = b[j]
        BY <1>2, <3>2, <4>1, AppendProperties
      <4>4. /\ Len(b) \in Nat /\ Len(q) \in Nat /\ m \in Nat /\ m < Len(q)
            /\ Len(b2) = Len(b) + 1 /\ Len(q2) = Len(q) - (m + 1)
        BY <1>2, <3>1, <3>2, <4>2, <4>3
      <4>5. Len(b2) + Len(q2) + m = Len(b) + Len(q) /\ Len(b) <= Len(b2) + Len(q2)
        BY <4>4
      <4>6. ASSUME NEW j \in 1 .. Len(b2) + Len(q2)
            PROVE  InPair(b2, q2, j) = InPair(b, q, IF j <= Len(b) THEN j ELSE j + m)
        <5>1. CASE j <= Len(b)
          BY <1>2, <4>3, <5>1 DEF InPair
        <5>2. CASE j = Len(b) + 1
          <6>1. ~(j + m <= Len(b)) /\ (j + m) - Len(b) = m + 1 /\ ~(j <= Len(b)) /\ j <= Len(b2)
            BY <1>2, <3>1, <4>3, <5>2
          <6>2. QED
            BY <4>3, <5>2, <6>1 DEF InPair
        <5>3. CASE j > Len(b) + 1
          <6>1. PICK k : k = j - (Len(b) + 1)
            OBVIOUS
          <6>2. /\ ~(j <= Len(b)) /\ ~(j + m <= Len(b)) /\ (j + m) - Len(b) = (m + 1) + k
                /\ ~(j <= Len(b2)) /\ j - Len(b2) = k /\ k \in 1 .. Len(q) - (m + 1)
            BY <4>4, <5>3, <6>1
          <6>3. q2[k] = q[(m + 1) + k]
            BY <4>2, <6>2
          <6>4. QED
            BY <6>2, <6>3 DEF InPair
        <5>4. QED
          BY <4>4, <5>1, <5>2, <5>3
      <4>7. Ordered(b2 \o q2, n)
        BY <1>2, <1>3, <3>1, <4>5, <4>6, OrderedCut
      <4>8. QED
        BY <3>1, <4>7
    <3>3. CASE b2 = b /\ q2 = SubSeq(q, m + 1, Len(q))
      <4>1. Len(q2) = Len(q) - m /\ \A j \in 1 .. Len(q) - m : q2[j] = q[m + j]
        BY <1>2, <3>1, <3>3, RestElements
      <4>2. /\ Len(b2) + Len(q2) + m = Len(b) + Len(q) /\ Len(b) <= Len(b2) + Len(q2)
            /\ \A j \in 1 .. Len(b2) + Len(q2) :
                 InPair(b2, q2, j) = InPair(b, q, IF j <= Len(b) THEN j ELSE j + m)
        BY <1>2, <3>1, <3>3, <4>1 DEF InPair
      <4>3. Ordered(b2 \o q2, n)
        BY <1>2, <1>3, <3>1, <4>2, OrderedCut
      <4>4. QED
        BY <3>1, <4>3
    <3>4. QED
      BY <3>1, <3>2, <3>3
  <2>4. QED
    BY <2>2, <2>3
<1>9. ASSUME NEW c \in Clients, Relay!Deliver(c) PROVE Ordered(b2 \o q2, n2)
  <2>1. /\ Back[c] # <<>> /\ Back' = [Back EXCEPT ![c] = Tail(@)]
        /\ Queue' = Queue /\ keysSent' = keysSent
    BY <1>9 DEF Relay!Deliver, Queue, Back
  <2>2. CASE c # d
    <3>1. b2 = b /\ q2 = q /\ n2 = n
      BY <1>1, <1>4, <2>1, <2>2
    <3>2. QED
      BY <1>6, <3>1
  <2>3. CASE c = d
    <3>1. b # <<>> /\ b2 = Tail(b) /\ q2 = q /\ n2 = n
      BY <1>1, <1>4, <2>1, <2>3
    <3>2. Len(b2) = Len(b) - 1 /\ Len(b) >= 1 /\ \A j \in 1 .. Len(b) - 1 : b2[j] = b[j + 1]
      BY <1>2, <3>1, HeadTailProperties, EmptySeq
    <3>3. /\ Len(b2) + Len(q2) + 1 = Len(b) + Len(q) /\ 0 <= Len(b2) + Len(q2)
          /\ \A j \in 1 .. Len(b2) + Len(q2) :
               InPair(b2, q2, j) = InPair(b, q, IF j <= 0 THEN j ELSE j + 1)
      BY <1>2, <3>1, <3>2 DEF InPair
    <3>4. Ordered(b2 \o q2, n)
      BY <1>2, <1>3, <3>3, OrderedCut
    <3>5. QED
      BY <3>1, <3>4
  <2>4. QED
    BY <2>2, <2>3
<1>10. ASSUME NEW c \in Clients, Relay!HangUp(c) PROVE Ordered(b2 \o q2, n2)
  <2>1. Back' = Back /\ Queue' = [Queue EXCEPT ![c] = <<>>] /\ keysSent' = keysSent
    BY <1>10 DEF Relay!HangUp, Queue, Back
  <2>2. CASE c # d
    <3>1. b2 = b /\ q2 = q /\ n2 = n
      BY <1>1, <1>4, <2>1, <2>2
    <3>2. QED
      BY <1>6, <3>1
  <2>3. CASE c = d
    <3>1. b2 = b /\ q2 = <<>> /\ n2 = n
      BY <1>1, <1>4, <2>1, <2>3
    <3>2. /\ Len(b2) + Len(q2) + Len(q) = Len(b) + Len(q) /\ Len(b) <= Len(b2) + Len(q2)
          /\ \A j \in 1 .. Len(b2) + Len(q2) :
               InPair(b2, q2, j) = InPair(b, q, IF j <= Len(b) THEN j ELSE j + Len(q))
      <4>1. Len(q2) = 0
        BY <3>1, EmptySeq
      <4>2. QED
        BY <1>2, <3>1, <4>1 DEF InPair
    <3>3. Ordered(b2 \o q2, n)
      BY <1>2, <1>3, <3>2, OrderedCut
    <3>4. QED
      BY <3>1, <3>3
  <2>4. QED
    BY <2>2, <2>3
<1>11. ASSUME NEW i \in 1 .. MaxICs, Relay!Arm(i) PROVE Ordered(b2 \o q2, n2)
  <2>1. Back' = Back /\ Queue' = Queue /\ keysSent' = keysSent
    BY <1>11 DEF Relay!Arm, Queue, Back
  <2>2. QED
    BY <1>1, <1>6, <2>1
<1>12. QED
  BY <1>7, <1>8, <1>9, <1>10, <1>11 DEF Relay!Next

(* The key events of a client, those on their way back and then those that   *)
(* wait or travel to the server, are in the order in which the client        *)
(* forwarded them, each once (AddQueue, ProcessQueue).                      *)
THEOREM KeysInOrder == Spec => []Relay!InOrder
<1>1. Relay!Init /\ TypeOK => KeysOrdered
  <2>1. SUFFICES ASSUME Relay!Init, TypeOK, NEW c \in Clients
                 PROVE  Ordered(Back[c] \o Queue[c], keysSent[c])
    BY DEF KeysOrdered
  <2>2. Back[c] = <<>> /\ Queue[c] = <<>>
    BY <2>1, Zenon DEF Relay!Init, Back, Queue
  <2>3. <<>> \o <<>> = <<>> /\ Len(<<>>) = 0
    BY EmptySeq, ConcatEmptySeq
  <2>4. QED
    BY <2>2, <2>3 DEF Ordered
<1>2. TypeOK /\ TypeOK' /\ QueuesTyped /\ QueuesTyped' /\ KeysOrdered /\ [Relay!Next]_Relay!relayVars => KeysOrdered'
  <2>1. SUFFICES ASSUME TypeOK, TypeOK', QueuesTyped, QueuesTyped', KeysOrdered,
                        [Relay!Next]_Relay!relayVars
                 PROVE  KeysOrdered'
    OBVIOUS
  <2>2. CASE UNCHANGED Relay!relayVars
    <3>1. Back' = Back /\ Queue' = Queue /\ keysSent' = keysSent
      BY <2>2 DEF Relay!relayVars, Back, Queue
    <3>2. QED
      BY <2>1, <3>1 DEF KeysOrdered
  <2>3. CASE Relay!Next
    BY <2>1, <2>3, OrderedStep DEF KeysOrdered
  <2>4. QED
    BY <2>1, <2>2, <2>3
<1>3. TypeOK /\ KeysOrdered => Relay!InOrder
  <2>1. SUFFICES ASSUME TypeOK, KeysOrdered, NEW c \in Clients, NEW keys, keys = Back[c] \o Queue[c],
                        NEW m \in DOMAIN keys, NEW n \in DOMAIN keys, m < n
                 PROVE  keys[m].key < keys[n].key
    BY Zenon DEF Relay!InOrder, Back, Queue
  <2>2. DOMAIN keys = 1 .. Len(keys)
    BY <2>1, QueuesType, ConcatProperties, LenProperties DEF QueuesTyped
  <2>3. QED
    BY <2>1, <2>2 DEF KeysOrdered, Ordered
<1>4. QED
  BY <1>1, <1>2, <1>3, QueuesType, KeysRelayed, TypeCorrect, PTL DEF RelayKeys, Relay!Spec

-----------------------------------------------------------------------------
(* The safety halves of KeysDisposed and RequestsAnswered.                 *)

(* Nothing is under way between c and the server.                          *)
Quiet(c) == toServer[c] = <<>> /\ toClient[c] = <<>> /\ ~owes[c]

(* No key event is stuck and no client waits in vain: when nothing is under  *)
(* way between a client and the server, no key event of it is queued, and   *)
(* it does not wait for a reply.  Both are safe to count on although         *)
(* client->pending is emptied, and each reply sent, only by the handler of  *)
(* a message (ProcessQueue, *MessageProc).                                  *)
THEOREM NothingStuck ==
  Spec => [](\A c \in Clients : Quiet(c) => Unresolved(c) = <<>> /\ waiting[c] = "none")
<1>1. ASSUME TypeOK, SyncGatesQueue, AckDue, OneReplyInFlight, NEW c \in Clients, Quiet(c)
      PROVE  Unresolved(c) = <<>> /\ waiting[c] = "none"
  <2>1. DOMAIN toServer[c] = {} /\ DOMAIN toClient[c] = {}
    BY <1>1, EmptySeq DEF Quiet
  <2>2. record[c] # "freed" => ~sync[c]
    BY <1>1, <2>1 DEF Quiet, AckDue, AckComing, SyncUnderWay, ReplyUnderWay
  <2>3. record[c] # "freed" => pending[c] = <<>>
    BY <1>1, <2>2 DEF SyncGatesQueue
  <2>4. KeyEvents(toServer[c]) = <<>>
    BY <1>1, SelectEmpty DEF Quiet, KeyEvents
  <2>5. <<>> \o <<>> = <<>>
    BY EmptySeq, ConcatEmptySeq
  <2>6. Unresolved(c) = <<>>
    BY <2>3, <2>4, <2>5 DEF Unresolved
  <2>. DEFINE A == Cardinality({n \in DOMAIN toServer[c] : toServer[c][n].type \in RequestTypes})
              B == Cardinality({n \in DOMAIN toClient[c] : toClient[c][n].type = "REPLY"})
  <2>7. A = 0 /\ B = 0
    <3>1. {n \in DOMAIN toServer[c] : toServer[c][n].type \in RequestTypes} = {}
          /\ {n \in DOMAIN toClient[c] : toClient[c][n].type = "REPLY"} = {}
      BY <2>1
    <3>2. QED
      BY <3>1, FS_EmptySet
  <2>8. A + B = IF waiting[c] = "none" THEN 0 ELSE 1
    BY <1>1 DEF OneReplyInFlight
  <2>. HIDE DEF A, B
  <2>9. waiting[c] = "none"
    BY <2>7, <2>8
  <2>10. QED
    BY <2>6, <2>9
<1>2. TypeOK /\ SyncGatesQueue /\ AckDue /\ OneReplyInFlight
        => \A c \in Clients : Quiet(c) => Unresolved(c) = <<>> /\ waiting[c] = "none"
  BY <1>1
<1>3. QED
  BY <1>2, TypeCorrect, QueueGated, AckIsDue, OneReply, PTL

=============================================================================
