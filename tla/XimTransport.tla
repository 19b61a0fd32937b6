---------------------------- MODULE XimTransport ----------------------------
(***************************************************************************)
(* How XIM messages travel between the IM server and its clients (i18nX.c). *)
(*                                                                         *)
(* A short message is put into a ClientMessage event.  A longer one is      *)
(* appended to a property of the receiver's window, and the event tells the *)
(* name of the property and the length.  The X server keeps the events for  *)
(* a receiver in order, and the properties besides them; a receiver may be  *)
(* many events behind, and the names are used again after a while.          *)
(*                                                                         *)
(* The two directions have nothing in common but the form of the events, so *)
(* a behaviour is about one of them.  A message is the sequence of its      *)
(* bytes, each of which stands for the receiver and the number of the        *)
(* message among those that it is sent.                                     *)
(***************************************************************************)
EXTENDS Integers, SequencesExt, SequenceFolds

CONSTANTS
  Connections,    \* connect_ids of connected clients
  DataLimit,      \* XCM_DATA_LIMIT
  LastName,       \* the sequence number after which MakeNewAtom starts again
  Lengths,        \* lengths of messages
  MaxMessages     \* bound: messages of a behaviour

ASSUME ConnectionsAssumption == 0 \notin Connections
ASSUME NumbersAssumption ==
  /\ DataLimit \in Nat \ {0}
  /\ LastName \in Nat
  /\ Lengths \subseteq Nat \ {0}
  /\ MaxMessages \in Nat

VARIABLES
  toServer,     \* whether the behaviour is about requests or about replies
  sequence,     \* static in MakeNewAtom, of all connections together
  sending,      \* the long message that was put into a property and not announced
  properties,   \* per connection: the bytes in the properties of its window
  events,       \* per connection: the events that wait for the receiver
  sent,         \* history: per connection, the messages announced
  received,     \* history: per connection, the messages that were handled
  crowded       \* history: connections where a name in use was used again

vars == <<toServer, sequence, sending, properties, events, sent, received, crowded>>

-----------------------------------------------------------------------------
Names == 0 .. LastName

Nobody == [connect_id |-> 0, atom |-> 0, message |-> <<>>]

Init ==
  /\ toServer \in BOOLEAN
  /\ sequence = 0
  /\ sending = Nobody
  /\ properties = [c \in Connections |-> [a \in Names |-> <<>>]]
  /\ events = [c \in Connections |-> <<>>]
  /\ sent = [c \in Connections |-> <<>>]
  /\ received = [c \in Connections |-> <<>>]
  /\ crowded = {}

(* An event with the message in it, and one that tells where it is.        *)
Short(message) == [format |-> 8, message |-> message]
Long(length, atom) == [format |-> 32, length |-> length, atom |-> atom]

Count == FoldFunction(LAMBDA s, n : Len(s) + n, 0, sent)

Bytes == Connections \X Nat

Message(c, length) == [k \in 1 .. length |-> <<c, Len(sent[c]) + 1>>]

-----------------------------------------------------------------------------
(* The sender.                                                             *)

(* The number that MakeNewAtom puts into the name; when it starts again, it *)
(* gives the number 0 and does not advance.                                *)
MakeNewAtom == IF sequence > LastName THEN 0 ELSE sequence

NextSequence == IF sequence > LastName THEN 0 ELSE sequence + 1

(* variant: what the property holds is replaced.                           *)
XChangePropertyReplaced(property, message) == message

(* PropModeAppend                                                          *)
XChangeProperty(property, message) == property \o message

InUse(c, a) == \E n \in DOMAIN events[c] : events[c][n].format = 32 /\ events[c][n].atom = a

PutInProperty(c, a, message) ==
  /\ sending = Nobody
  /\ sending' = [connect_id |-> c, atom |-> a, message |-> message]
  /\ properties' = [properties EXCEPT ![c][a] = XChangeProperty(@, message)]
  /\ crowded' = IF InUse(c, a) THEN crowded \cup {c} ELSE crowded
  /\ UNCHANGED <<toServer, events, sent, received>>

SendEvent(c, event, message) ==
  /\ events' = [events EXCEPT ![c] = Append(@, event)]
  /\ sent' = [sent EXCEPT ![c] = Append(@, message)]
  /\ UNCHANGED <<toServer, received, crowded>>

(* Xi18nXSend of a message that fits into an event.                        *)
SendShort(c) ==
  /\ Count < MaxMessages
  /\ sending = Nobody
  /\ \E length \in Lengths :
       /\ length <= DataLimit
       /\ SendEvent(c, Short(Message(c, length)), Message(c, length))
  /\ UNCHANGED <<sequence, sending, properties>>

(* Xi18nXSend of a longer one.  The IM server's request to append and the   *)
(* one to send the event are two; the client's may come between them.       *)
SendLong(c) ==
  /\ ~toServer
  /\ Count < MaxMessages
  /\ \E length \in Lengths :
       /\ length > DataLimit
       /\ PutInProperty(c, MakeNewAtom, Message(c, length))
  /\ sequence' = NextSequence

Announce ==
  /\ sending # Nobody
  /\ SendEvent(sending.connect_id, Long(Len(sending.message), sending.atom), sending.message)
  /\ sending' = Nobody
  /\ UNCHANGED <<sequence, properties>>

(* The XIM library of a client (external) uses any name.                   *)
ClientSendLong(c) ==
  /\ toServer
  /\ Count < MaxMessages
  /\ \E length \in Lengths, a \in Names :
       /\ length > DataLimit
       /\ PutInProperty(c, a, Message(c, length))
  /\ UNCHANGED sequence

-----------------------------------------------------------------------------
(* The receiver.                                                           *)

Take(c, message) ==
  /\ events' = [events EXCEPT ![c] = Tail(@)]
  /\ received' = [received EXCEPT ![c] = IF message = <<>> THEN @ ELSE Append(@, message)]
  /\ UNCHANGED <<toServer, sequence, sending, sent, crowded>>

ReceiveShort(c) ==
  /\ events[c] # <<>>
  /\ Head(events[c]).format = 8
  /\ Take(c, Head(events[c]).message)
  /\ UNCHANGED properties

(* The XIM library of a client (external): it takes as many bytes from the  *)
(* property as the event tells and leaves the others, which is what the     *)
(* server's appending is for.                                              *)
ClientReceiveLong(c) ==
  LET e == Head(events[c]) IN
  /\ ~toServer
  /\ events[c] # <<>>
  /\ e.format = 32
  /\ LET bytes == properties[c][e.atom]
         n == IF e.length < Len(bytes) THEN e.length ELSE Len(bytes)
     IN  /\ properties' = [properties EXCEPT ![c][e.atom] = SubSeq(bytes, n + 1, Len(bytes))]
         /\ Take(c, SubSeq(bytes, 1, n))

(* variant: the property is read and kept.                                 *)
DeletedNever(bytes, length) == bytes

(* XGetWindowProperty of at most length words of four bytes, to delete the  *)
(* property: the X server keeps one that was not read to its end.          *)
Deleted(bytes, length) == IF 4 * length < Len(bytes) THEN bytes ELSE <<>>

(* The first message of a packet, the only one that the handler looks at.   *)
FirstMessage(bytes) ==
  IF bytes = <<>> THEN <<>> ELSE Select(bytes, {bytes[1]})

(* ReadXIMMessage, called by WaitXIMProtocol: the property as a whole is the *)
(* packet, and without one the event is ignored.                            *)
ReadXIMMessage(c) ==
  LET e == Head(events[c]) IN
  /\ toServer
  /\ events[c] # <<>>
  /\ e.format = 32
  /\ LET bytes == properties[c][e.atom]
     IN  /\ properties' = [properties EXCEPT ![c][e.atom] = Deleted(bytes, e.length)]
         /\ Take(c, FirstMessage(bytes))

-----------------------------------------------------------------------------
Receive(c) == ReceiveShort(c) \/ ClientReceiveLong(c) \/ ReadXIMMessage(c)

Next ==
  \/ \E c \in Connections : SendShort(c) \/ SendLong(c) \/ ClientSendLong(c) \/ Receive(c)
  \/ Announce

Spec == Init /\ [][Next]_vars

(* A sender does not wait for anyone between its two requests, and the X     *)
(* server handles them; a receiver handles the events it gets.              *)
FairSpec ==
  /\ Spec
  /\ WF_vars(Announce)
  /\ \A c \in Connections : WF_vars(Receive(c))

-----------------------------------------------------------------------------
(* What XimServer takes this for.  A client gets the server's messages as   *)
(* they were sent, each whole, once and in order, although a name is used   *)
(* again while messages under it are unread, as it always is after          *)
(* MakeNewAtom has started again.  ReadXIMMessage takes a property as one   *)
(* message, so that the server gets those of a client like this only as    *)
(* long as the client names no property that an unread event names.         *)
Spoilt == IF toServer THEN crowded ELSE {}

Channel == INSTANCE MessageChannel WITH spoilt <- Spoilt

WholeMessages == Channel!Spec

(* No message is lost or split: for each one that was sent and not handled  *)
(* an event waits.                                                         *)
NoneLost ==
  \A c \in Connections \ Spoilt : Len(sent[c]) = Len(received[c]) + Len(events[c])

Event == [format : {8}, message : Seq(Bytes)] \cup [format : {32}, length : Nat, atom : Names]

(* A number and the length that an event announces under the name a.       *)
PlusLength(a) ==
  [x \in Nat \X Event |->
     IF x[2].format = 32 /\ x[2].atom = a THEN x[1] + x[2].length ELSE x[1]]

(* While no message is being put there, a property holds just the bytes of  *)
(* the messages that unread events announce under its name; in particular   *)
(* it is gone when they are read.                                          *)
PropertiesAgree ==
  \A c \in Connections \ Spoilt, a \in Names :
    LET announced == FoldOver(PlusLength(a), 0, events[c])
        coming == IF sending.connect_id = c /\ sending.atom = a THEN Len(sending.message) ELSE 0
    IN  Len(properties[c][a]) = announced + coming

(* Every message arrives, unless the server may have lost it.              *)
Arrives ==
  \A c \in Connections, n \in 1 .. MaxMessages :
    Len(sent[c]) >= n ~> Len(received[c]) >= n \/ (toServer /\ c \in crowded)
=============================================================================
