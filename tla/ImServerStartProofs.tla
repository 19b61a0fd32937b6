------------------------- MODULE ImServerStartProofs -------------------------
(***************************************************************************)
(* Proofs of the safety properties of ImServerStart, for every number of    *)
(* screens and clients.                                                    *)
(***************************************************************************)
EXTENDS ImServerStart, Naturals, TLAPS

(* What DiesOfTwoServers rests on: a client's connection is with a thread   *)
(* that serves, and events are only about clients that are connected.      *)
ServedWhereServing ==
  /\ \A c \in Clients : servedBy[c] # Nobody => servedBy[c] \in Serving
  /\ \A t \in Threads : \A c \in news[t] : servedBy[c] # Nobody

Inv == TypeOK /\ OwnerServes /\ ServedWhereServing /\ DiesOfTwoServers

LEMMA InvInit == Init => Inv
BY NobodyAssumption
DEF Init, Inv, TypeOK, Steps, OwnerServes, ServedWhereServing, DiesOfTwoServers, Serving

(* The steps by which a thread gets to own the selection keep the parts.    *)
LEMMA StartStep ==
  ASSUME Inv, NEW t \in Threads,
         \/ OpenDisplay(t) \/ GiveUp(t) \/ SelectInput(t) \/ ReadServers(t)
         \/ AskOwner(t) \/ TakeSelection(t) \/ Publish(t) \/ CheckOwner(t)
  PROVE  Inv'
<1>1. /\ alive /\ alive' /\ pc[t] # "serve"
      /\ \A u \in Threads : u # t => pc'[u] = pc[u]
      /\ UNCHANGED <<servedBy, news>>
  BY DEF Goto, OpenDisplay, GiveUp, SelectInput, ReadServers, AskOwner,
         TakeSelection, Publish, CheckOwner, Inv, TypeOK
<1>2. TypeOK'
  BY DEF Goto, OpenDisplay, GiveUp, SelectInput, ReadServers, AskOwner,
         TakeSelection, Publish, CheckOwner, Inv, TypeOK, Steps, Found
<1>3. OwnerServes'
  <2>1. CASE TakeSelection(t)
    BY <2>1 DEF TakeSelection, Goto, OwnerServes, Inv, TypeOK
  <2>2. CASE Publish(t) \/ CheckOwner(t)
    BY <2>2, NobodyAssumption
    DEF Publish, CheckOwner, HasSelection, Goto, OwnerServes, Inv, TypeOK
  <2>3. CASE OpenDisplay(t) \/ GiveUp(t) \/ SelectInput(t) \/ ReadServers(t) \/ AskOwner(t)
    <3>1. owner' = owner /\ pc[t] \in {"connect", "select", "read", "ask"}
      BY <2>3 DEF OpenDisplay, GiveUp, SelectInput, ReadServers, AskOwner, Goto
    <3>2. QED
      BY <1>1, <3>1 DEF OwnerServes, Inv, TypeOK
  <2>4. QED
    BY <2>1, <2>2, <2>3
<1>4. ServedWhereServing'
  BY <1>1 DEF Inv, TypeOK, ServedWhereServing, Serving
<1>5. QED
  BY <1>1, <1>2, <1>3, <1>4 DEF Inv, DiesOfTwoServers

(* A thread that handles an event about a client of another one is not the  *)
(* only one that serves.                                                   *)
LEMMA HandleEventStep ==
  ASSUME Inv, NEW t \in Threads, HandleEvent(t)
  PROVE  Inv'
<1>1. PICK c \in news[t] : /\ news' = [news EXCEPT ![t] = @ \ {c}]
                           /\ alive' = (servedBy[c] = t)
  BY DEF HandleEvent, HasConnection
<1>2. /\ pc[t] = "serve" /\ c \in Clients
      /\ UNCHANGED <<pc, found, listed, owner, interested, servedBy>>
  BY <1>1 DEF HandleEvent, Inv, TypeOK
<1>3. TypeOK' /\ OwnerServes' /\ ServedWhereServing'
  BY <1>1, <1>2 DEF Inv, TypeOK, OwnerServes, ServedWhereServing, Serving
<1>4. DiesOfTwoServers'
  BY <1>1, <1>2 DEF Inv, TypeOK, ServedWhereServing, Serving, DiesOfTwoServers
<1>5. QED
  BY <1>3, <1>4 DEF Inv

LEMMA InvStep == Inv /\ [Next]_vars => Inv'
<1> SUFFICES ASSUME Inv, [Next]_vars PROVE Inv'
  OBVIOUS
<1>1. CASE UNCHANGED vars
  BY <1>1 DEF vars, Inv, TypeOK, OwnerServes, ServedWhereServing, Serving, DiesOfTwoServers
<1>2. ASSUME NEW c \in Clients, ClientConnects(c) PROVE Inv'
  BY <1>2, NobodyAssumption DEF ClientConnects, Inv, TypeOK, OwnerServes,
     ServedWhereServing, Serving, DiesOfTwoServers
<1>3. ASSUME NEW c \in Clients, ImeEvent(c) PROVE Inv'
  BY <1>3 DEF ImeEvent, Inv, TypeOK, OwnerServes, ServedWhereServing, Serving,
     DiesOfTwoServers
<1>4. QED
  BY <1>1, <1>2, <1>3, StartStep, HandleEventStep DEF Next, Thread

LEMMA InvAlways == Spec => []Inv
BY InvInit, InvStep, PTL DEF Spec

(* The threads and what they share keep their types.                       *)
THEOREM TypeCorrect == Spec => []TypeOK
BY InvAlways, PTL DEF Inv

(* The selection never names a thread that gave up or was refused.         *)
THEOREM OwnerIsServing == Spec => []OwnerServes
BY InvAlways, PTL DEF Inv

(* The process dies only when two threads serve.                           *)
THEOREM DeathOfTwo == Spec => []DiesOfTwoServers
BY InvAlways, PTL DEF Inv

(* Threads of later screens cannot displace an established server.         *)
THEOREM Stability == Spec => StaysEstablished
<1>1. ASSUME TypeOK, [Next]_vars, NEW t \in Threads, Established(t)
      PROVE  Established(t)'
  <2>1. CASE UNCHANGED vars
    BY <1>1, <2>1 DEF vars, Established
  <2>2. ASSUME NEW u \in Threads, Thread(u) PROVE Established(t)'
    <3>1. CASE u = t
      BY <1>1, <2>2, <3>1 DEF Thread, OpenDisplay, GiveUp, SelectInput, ReadServers,
         AskOwner, TakeSelection, Publish, CheckOwner, HandleEvent, Goto, Established
    <3>2. CASE u # t
      <4>1. /\ owner = t /\ t # Nobody /\ listed /\ pc[t] = "serve"
            /\ pc[u] \in {"connect", "select", "read", "ask", "refused", "gaveUp"}
        BY <1>1, <3>2, NobodyAssumption DEF Established
      <4>2. /\ owner' = owner /\ listed' = listed
            /\ \A v \in Threads \ {u} : pc'[v] = pc[v]
            /\ pc'[u] \in {"connect", "select", "read", "ask", "refused", "gaveUp"}
        BY <1>1, <2>2, <4>1 DEF Thread, OpenDisplay, GiveUp, SelectInput, ReadServers,
           AskOwner, MayTake, TakeSelection, Publish, CheckOwner, HandleEvent, Goto, TypeOK
      <4>3. QED
        BY <1>1, <3>2, <4>1, <4>2 DEF Established
    <3>3. QED
      BY <3>1, <3>2
  <2>3. ASSUME NEW c \in Clients, ClientConnects(c) \/ ImeEvent(c)
        PROVE  Established(t)'
    BY <1>1, <2>3 DEF ClientConnects, ImeEvent, Established
  <2>4. QED
    BY <1>1, <2>1, <2>2, <2>3 DEF Next
<1>2. TypeOK /\ [Next]_vars =>
        [\A t \in Threads : Established(t) => Established(t)']_vars
  BY <1>1
<1>3. QED
  BY <1>2, TypeCorrect, PTL DEF Spec, StaysEstablished

-----------------------------------------------------------------------------
(* The safety half of SomeoneServes.                                       *)

(* The threads have nothing more to do but to serve.                       *)
Settled == \A t \in Threads : pc[t] \in {"serve", "refused", "gaveUp"}

(* While nobody owns the selection, no thread has gone past taking it, and   *)
(* none was refused.                                                       *)
FreeForAll ==
  owner = Nobody =>
    \A t \in Threads : pc[t] \in {"connect", "select", "read", "ask", "take", "gaveUp"}

LEMMA FreeForAllStep == Inv /\ FreeForAll /\ [Next]_vars => FreeForAll'
<1> SUFFICES ASSUME Inv, FreeForAll, [Next]_vars, owner' = Nobody, NEW t \in Threads
             PROVE  pc'[t] \in {"connect", "select", "read", "ask", "take", "gaveUp"}
  BY DEF FreeForAll
<1>1. CASE UNCHANGED vars
  BY <1>1 DEF vars, FreeForAll
<1>2. ASSUME NEW u \in Threads, Thread(u)
      PROVE  pc'[t] \in {"connect", "select", "read", "ask", "take", "gaveUp"}
  <2>1. owner = Nobody /\ ~TakeSelection(u)
    BY <1>2, NobodyAssumption DEF Thread, OpenDisplay, GiveUp, SelectInput, ReadServers,
       AskOwner, TakeSelection, Publish, CheckOwner, HandleEvent
  <2>2. pc[t] \in {"connect", "select", "read", "ask", "take", "gaveUp"}
        /\ pc[u] \in {"connect", "select", "read", "ask", "take", "gaveUp"}
    BY <2>1 DEF FreeForAll
  <2>3. QED
    BY <1>2, <2>1, <2>2 DEF Thread, OpenDisplay, GiveUp, SelectInput, ReadServers,
       AskOwner, MayTake, TakeSelection, Publish, CheckOwner, HandleEvent, Goto, Inv, TypeOK
<1>3. ASSUME NEW c \in Clients, ClientConnects(c) \/ ImeEvent(c)
      PROVE  pc'[t] \in {"connect", "select", "read", "ask", "take", "gaveUp"}
  BY <1>3 DEF ClientConnects, ImeEvent, FreeForAll
<1>4. QED
  BY <1>1, <1>2, <1>3 DEF Next

(* When all threads have settled, one of them serves, unless none could      *)
(* connect: they are never all refused, for the last that took the selection *)
(* finds it its own (the last check of SetXi18nSelectionOwner).             *)
THEOREM SettledWithServer ==
  Spec => [](Settled => Serving # {} \/ \A t \in Threads : pc[t] = "gaveUp")
<1>1. Init => FreeForAll
  BY DEF Init, FreeForAll
<1>2. Inv /\ FreeForAll /\ Settled => Serving # {} \/ \A t \in Threads : pc[t] = "gaveUp"
  <2> SUFFICES ASSUME Inv, FreeForAll, Settled
               PROVE  Serving # {} \/ \A t \in Threads : pc[t] = "gaveUp"
    OBVIOUS
  <2>1. CASE owner = Nobody
    BY <2>1 DEF FreeForAll, Settled
  <2>2. CASE owner # Nobody
    <3>1. owner \in Threads /\ pc[owner] = "serve"
      BY <2>2 DEF Inv, TypeOK, OwnerServes, Settled
    <3>2. QED
      BY <3>1 DEF Serving
  <2>3. QED
    BY <2>1, <2>2
<1>3. QED
  BY <1>1, <1>2, FreeForAllStep, InvAlways, PTL DEF Spec

(* How far a thread is.                                                    *)
Stage ==
  [s \in Steps |->
     CASE s = "connect" -> 0
       [] s = "select" -> 1
       [] s = "read" -> 2
       [] s = "ask" -> 3
       [] s = "take" -> 4
       [] s = "publish" -> 5
       [] s = "check" -> 6
       [] OTHER -> 7]

(* And they do settle, if they go on: a thread never goes back, retries or  *)
(* waits for another one, so that each takes at most seven steps before it   *)
(* serves or ends (winImServerProc).                                       *)
THEOREM NeverBack ==
  Spec => [][\A t \in Threads : pc'[t] # pc[t] => Stage[pc'[t]] > Stage[pc[t]]]_vars
<1>1. ASSUME TypeOK, [Next]_vars, NEW t \in Threads, pc'[t] # pc[t]
      PROVE  Stage[pc'[t]] > Stage[pc[t]]
  <2>1. PICK u \in Threads : Thread(u)
    BY <1>1 DEF Next, ClientConnects, ImeEvent, vars
  <2>2. u = t
    BY <1>1, <2>1 DEF Thread, OpenDisplay, GiveUp, SelectInput, ReadServers,
       AskOwner, TakeSelection, Publish, CheckOwner, HandleEvent, Goto, TypeOK
  <2>3. \/ pc[t] = "connect" /\ pc'[t] \in {"select", "gaveUp"}
        \/ pc[t] = "select" /\ pc'[t] = "read"
        \/ pc[t] = "read" /\ pc'[t] \in {"ask", "take"}
        \/ pc[t] = "ask" /\ pc'[t] \in {"take", "refused"}
        \/ pc[t] = "take" /\ pc'[t] = "publish"
        \/ pc[t] = "publish" /\ pc'[t] = "check"
        \/ pc[t] = "check" /\ pc'[t] \in {"serve", "refused"}
    BY <1>1, <2>1, <2>2 DEF Thread, OpenDisplay, GiveUp, SelectInput, ReadServers,
       AskOwner, TakeSelection, Publish, CheckOwner, HandleEvent, Goto, TypeOK
  <2>4. QED
    BY <2>3 DEF Stage, Steps
<1>2. TypeOK /\ [Next]_vars =>
        [\A t \in Threads : pc'[t] # pc[t] => Stage[pc'[t]] > Stage[pc[t]]]_vars
  BY <1>1
<1>3. QED
  BY <1>2, TypeCorrect, PTL DEF Spec

=============================================================================
