---------------------------- MODULE MessageChannel ----------------------------
(***************************************************************************)
(* What the server and its clients take the transport of XIM messages for: *)
(* one direction of each connection hands over the messages that were sent, *)
(* each once, as a whole and in order.  A connection may be spoilt by its   *)
(* sender; of that one, and of no other, nothing is promised any more.      *)
(***************************************************************************)
EXTENDS Naturals, Sequences

CONSTANT Connections

VARIABLES
  sent,       \* per connection: the messages sent
  received,   \* per connection: the messages handed over
  spoilt      \* the connections of which nothing is promised

channelVars == <<sent, received, spoilt>>

Init ==
  /\ sent = [c \in Connections |-> <<>>]
  /\ received = [c \in Connections |-> <<>>]
  /\ spoilt = {}

(* One more message, whichever it is.                                      *)
Send(c) ==
  /\ Len(sent'[c]) = Len(sent[c]) + 1
  /\ sent' = [sent EXCEPT ![c] = Append(@, sent'[c][Len(@) + 1])]
  /\ UNCHANGED <<received, spoilt>>

(* The oldest message that was not handed over yet.                        *)
Oldest(c) == sent[c][Len(received[c]) + 1]

HandOver(c) ==
  /\ Len(received[c]) < Len(sent[c])
  /\ received' = [received EXCEPT ![c] = Append(@, Oldest(c))]
  /\ UNCHANGED <<sent, spoilt>>

Spoil(c) ==
  /\ spoilt' = spoilt \cup {c}
  /\ UNCHANGED <<sent, received>>

(* Anything may be handed over, or nothing.                                *)
HandOverAnything(c) ==
  /\ c \in spoilt
  /\ received' = [received EXCEPT ![c] = received'[c]]
  /\ UNCHANGED <<sent, spoilt>>

Next ==
  \E c \in Connections : Send(c) \/ HandOver(c) \/ Spoil(c) \/ HandOverAnything(c)

Spec == Init /\ [][Next]_channelVars

=============================================================================
