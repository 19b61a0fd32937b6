------------------------------ MODULE KeyRelay ------------------------------
(***************************************************************************)
(* What the key path of the bridge promises to each client: every key      *)
(* event it forwards to the input method comes back to it, in order and at *)
(* most once, except that a key event of an IC whose IME was opened or     *)
(* closed may be kept, one for each time that happened at most.            *)
(*                                                                         *)
(* The bridge itself never consumes a key for conversion: Windows has      *)
(* already offered it to the IME, so the X client is to see it again.      *)
(***************************************************************************)
EXTENDS Naturals, Sequences

CONSTANTS
  Clients,   \* the connections
  ICs,       \* the input contexts
  MaxKeys    \* bound: key events of each connection

VARIABLES
  issued,    \* per client: how many key events it has forwarded
  queue,     \* per client: forwarded key events not yet disposed of
  back,      \* per client: key events on their way back
  armed,     \* the ICs for which one key event may be kept
  open       \* the clients whose connection the bridge has not closed

relayVars == <<issued, queue, back, armed, open>>

Init ==
  /\ issued = [c \in Clients |-> 0]
  /\ queue = [c \in Clients |-> <<>>]
  /\ back = [c \in Clients |-> <<>>]
  /\ armed = {}
  /\ open = Clients

(* The client forwards its next key event, one of IC i.                    *)
Submit(c, i) ==
  /\ issued[c] < MaxKeys
  /\ issued' = [issued EXCEPT ![c] = @ + 1]
  /\ queue' = IF c \in open
              THEN [queue EXCEPT ![c] = Append(@, [ic |-> i, key |-> issued'[c]])]
              ELSE queue
  /\ UNCHANGED <<back, armed, open>>

(* The ICs of the first n key events of q.                                 *)
ICsOf(q, n) == {q[m].ic : m \in 1 .. n}

(* The first n key events are kept, each of another armed IC, which is      *)
(* thereby disarmed.                                                       *)
Keep(c, n) ==
  /\ \A m1, m2 \in 1 .. n : m1 # m2 => queue[c][m1].ic # queue[c][m2].ic
  /\ ICsOf(queue[c], n) \subseteq armed
  /\ armed' = armed \ ICsOf(queue[c], n)

(* The bridge disposes of the oldest key events: some are kept, and the     *)
(* next one is sent back, unless all were kept.                            *)
Dispose(c) ==
  \E n \in 0 .. Len(queue[c]) :
    /\ Keep(c, n)
    /\ \/ /\ n < Len(queue[c])
          /\ back' = [back EXCEPT ![c] = Append(@, queue[c][n + 1])]
          /\ queue' = [queue EXCEPT ![c] = SubSeq(@, n + 2, Len(@))]
       \/ /\ n > 0
          /\ back' = back
          /\ queue' = [queue EXCEPT ![c] = SubSeq(@, n + 1, Len(@))]
    /\ UNCHANGED <<issued, open>>

(* The client receives the oldest key event sent back to it.               *)
Deliver(c) ==
  /\ back[c] # <<>>
  /\ back' = [back EXCEPT ![c] = Tail(@)]
  /\ UNCHANGED <<issued, queue, armed, open>>

(* The IME of IC i was opened or closed.                                   *)
Arm(i) ==
  /\ armed' = armed \cup {i}
  /\ UNCHANGED <<issued, queue, back, open>>

(* The connection is closed with whatever it had not been given back.      *)
HangUp(c) ==
  /\ open' = open \ {c}
  /\ queue' = [queue EXCEPT ![c] = <<>>]
  /\ UNCHANGED <<issued, back, armed>>

Next ==
  \/ \E c \in Clients : \/ \E i \in ICs : Submit(c, i)
                        \/ Dispose(c)
                        \/ Deliver(c)
                        \/ HangUp(c)
  \/ \E i \in ICs : Arm(i)

Spec == Init /\ [][Next]_relayVars

-----------------------------------------------------------------------------
(* The key events of a connection, those on their way back and then those  *)
(* not yet disposed of, are in the order in which they were forwarded, and *)
(* none occurs twice (the FIFO of AddQueue and ProcessQueue).              *)
InOrder ==
  \A c \in Clients :
    LET keys == back[c] \o queue[c] IN
    \A m, n \in DOMAIN keys : m < n => keys[m].key < keys[n].key

=============================================================================
