------------------------ MODULE WinIMEInterestProofs ------------------------
(***************************************************************************)
(* Proofs of the properties of WinIMEInterest, for every number of clients, *)
(* of addresses and of bits.                                               *)
(***************************************************************************)
EXTENDS WinIMEInterest, TLAPS

(* InterestAgrees, entry by entry.                                         *)
MasksAgree ==
  /\ \A a, b \in list : heap[a].client = heap[b].client => a = b
  /\ \A a \in list : wants[heap[a].client] = heap[a].mask
  /\ \A c \in Clients : EntriesOf(c) = {} => wants[c] = {}

(* The inductive invariant: a list that was never registered is empty, and  *)
(* as long as nothing was used uninitialised the parts agree.              *)
Consistent ==
  /\ TypeOK
  /\ ~headKnown => list = {}
  /\ ListIsOwned
  /\ NoLeak
  /\ ~crashed => MasksAgree

LEMMA ConsistentInit == Init => Consistent
BY DEF Init, Consistent, TypeOK, ListIsOwned, NoLeak, MasksAgree, EntriesOf

(* The client is in the list, and another mask takes the place of its own.  *)
LEMMA ChangeMaskStep ==
  ASSUME Consistent, ~crashed, NEW c \in connected, NEW mask \in (SUBSET Bits) \ {{}},
         ChangeMask(c, mask), told' = {}
  PROVE  Consistent'
<1>1. PICK a \in EntriesOf(c) : heap' = [heap EXCEPT ![a].mask = mask]
  BY DEF ChangeMask
<1>2. /\ a \in list /\ a \in Addresses /\ heap[a].client = c /\ heap[a] # Free
      /\ heap[a] \in Entry /\ c \in Clients
  BY <1>1 DEF EntriesOf, Consistent, TypeOK, ListIsOwned
<1>3. UNCHANGED <<crashed, connected, headKnown, list, resources>>
  BY DEF ChangeMask
<1>4. wants' = [wants EXCEPT ![c] = mask]
  BY DEF ChangeMask
<1>5. /\ \A b \in Addresses : b # a => heap'[b] = heap[b]
      /\ heap'[a] = [client |-> c, mask |-> mask]
  BY <1>1, <1>2 DEF Consistent, TypeOK, Entry
<1>6. TypeOK'
  BY <1>1, <1>2, <1>3, <1>4, <1>5 DEF Consistent, TypeOK, Entry
<1>7. heap'[a] # Free
  <2>1. heap'[a].mask # Free.mask
    BY <1>5 DEF Free
  <2>2. QED
    BY <2>1
<1>8. ListIsOwned' /\ NoLeak'
  BY <1>2, <1>3, <1>5, <1>7 DEF Consistent, TypeOK, ListIsOwned, NoLeak
<1>9. MasksAgree'
  BY <1>2, <1>3, <1>4, <1>5 DEF Consistent, TypeOK, MasksAgree, EntriesOf, ListIsOwned
<1>10. QED
  BY <1>3, <1>6, <1>8, <1>9 DEF Consistent

(* A new entry, in the list and known to the resource database.            *)
LEMMA AddEntryStep ==
  ASSUME Consistent, ~crashed, NEW c \in connected, NEW mask \in (SUBSET Bits) \ {{}},
         AddEntry(c, mask), told' = {}
  PROVE  Consistent'
<1>1. PICK a \in Addresses : /\ heap[a] = Free
                             /\ heap' = [heap EXCEPT ![a] = NewEvent(c, mask)]
                             /\ resources' = resources \cup {<<c, a>>}
                             /\ list' = list \cup {a}
  BY DEF AddEntry
<1>2. /\ \A b \in Addresses : b # a => heap'[b] = heap[b]
      /\ heap'[a] = [client |-> c, mask |-> mask]
  BY <1>1 DEF Consistent, TypeOK, NewEvent
<1>3. /\ EntriesOf(c) = {} /\ c \in Clients /\ a \notin list
      /\ UNCHANGED <<crashed, connected>> /\ headKnown'
      /\ wants' = [wants EXCEPT ![c] = mask]
  BY <1>1 DEF AddEntry, IsNew, Consistent, TypeOK, ListIsOwned
<1>4. TypeOK'
  BY <1>1, <1>2, <1>3 DEF Consistent, TypeOK, Entry, NewEvent
<1>5. heap'[a] # Free
  <2>1. heap'[a].mask # Free.mask
    BY <1>2 DEF Free
  <2>2. QED
    BY <2>1
<1>6. ListIsOwned' /\ NoLeak'
  BY <1>1, <1>2, <1>3, <1>5 DEF Consistent, TypeOK, ListIsOwned, NoLeak
<1>7. MasksAgree'
  BY <1>1, <1>2, <1>3 DEF Consistent, TypeOK, MasksAgree, EntriesOf, ListIsOwned
<1>8. QED
  BY <1>3, <1>4, <1>6, <1>7 DEF Consistent

(* The client's entry leaves the list, the database and the heap.          *)
LEMMA DeleteInterestStep ==
  ASSUME Consistent, ~crashed, NEW c \in connected, DeleteInterest(c), told' = {}
  PROVE  Consistent'
<1>1. ASSUME NEW a \in EntriesOf(c), list' = list \ {a}, DropResource(c, a)
      PROVE  Consistent'
  <2>1. /\ a \in list /\ a \in Addresses /\ heap[a].client = c /\ c \in Clients
        /\ \A b \in list : heap[b].client = c => b = a
    BY DEF EntriesOf, Consistent, TypeOK, MasksAgree
  <2>2. /\ resources' = resources \ {<<c, a>>}
        /\ heap'[a] = Free
        /\ \A b \in Addresses : b # a => heap'[b] = heap[b]
        /\ UNCHANGED <<crashed, connected, headKnown>>
        /\ wants' = [wants EXCEPT ![c] = {}]
    BY <1>1, <2>1 DEF DropResource, DeleteInterest, Consistent, TypeOK
  <2>3. TypeOK'
    BY <1>1, <2>1, <2>2 DEF Consistent, TypeOK, DropResource
  <2>4. ListIsOwned' /\ NoLeak'
    BY <1>1, <2>1, <2>2 DEF Consistent, TypeOK, ListIsOwned, NoLeak
  <2>5. MasksAgree'
    BY <1>1, <2>1, <2>2 DEF Consistent, TypeOK, MasksAgree, EntriesOf, ListIsOwned
  <2>6. QED
    BY <1>1, <2>2, <2>3, <2>4, <2>5 DEF Consistent
<1>2. CASE EntriesOf(c) = {} /\ UNCHANGED <<list, resources, heap, crashed>>
  <2>1. wants' = wants
    BY <1>2 DEF DeleteInterest, Consistent, TypeOK, MasksAgree
  <2>2. QED
    BY <1>2, <2>1 DEF DeleteInterest, Consistent, TypeOK, ListIsOwned, NoLeak,
                      MasksAgree, EntriesOf
<1>3. QED
  BY <1>1, <1>2 DEF DeleteInterest

(* The end of a client takes its entry out of the list.                    *)
LEMMA ClientGoneStep ==
  ASSUME Consistent, NEW c \in Clients, ClientGone(c)
  PROVE  Consistent'
<1> DEFINE freed == {a \in Addresses : <<c, a>> \in resources}
<1>1. /\ ~crashed /\ c \in connected
      /\ connected' = connected \ {c}
      /\ resources' = {r \in resources : r[1] # c}
      /\ heap' = [a \in Addresses |-> IF a \in freed THEN Free ELSE heap[a]]
      /\ list' = list \ freed
      /\ wants' = [wants EXCEPT ![c] = {}]
      /\ told' = {}
      /\ UNCHANGED <<crashed, headKnown>>
  BY DEF ClientGone, Without
<1>2. \A a \in list : a \in freed <=> heap[a].client = c
  BY <1>1 DEF Consistent, TypeOK, ListIsOwned
<1>3. \A a \in freed : a \in list
  BY <1>1 DEF Consistent, TypeOK, ListIsOwned
<1> HIDE DEF freed
<1>4. TypeOK'
  BY <1>1 DEF Consistent, TypeOK
<1>5. ListIsOwned'
  <2>1. /\ list \subseteq Addresses
        /\ \A a \in list : heap[a] # Free /\ heap[a].client \in connected
        /\ resources = {<<heap[a].client, a>> : a \in list}
    BY <1>1 DEF Consistent, TypeOK, ListIsOwned
  <2>2. \A a \in list' : heap'[a] = heap[a] /\ a \in list /\ heap[a].client # c
    BY <1>1, <1>2, <2>1
  <2>3. resources' = {<<heap'[a].client, a>> : a \in list'}
    <3>1. ASSUME NEW r \in resources' PROVE \E a \in list' : r = <<heap'[a].client, a>>
      <4>1. PICK a \in list : r = <<heap[a].client, a>>
        BY <1>1, <2>1
      <4>2. heap[a].client # c
        BY <1>1, <4>1
      <4>3. a \in list'
        BY <1>1, <1>2, <4>2
      <4>4. QED
        BY <2>2, <4>1, <4>3
    <3>2. ASSUME NEW a \in list' PROVE <<heap'[a].client, a>> \in resources'
      BY <1>1, <2>1, <2>2
    <3>3. QED
      BY <3>1, <3>2
  <2>4. QED
    BY <1>1, <2>1, <2>2, <2>3 DEF ListIsOwned
<1>6. NoLeak'
  BY <1>1, <1>2, <1>3 DEF Consistent, TypeOK, NoLeak
<1>7. MasksAgree'
  BY <1>1, <1>2, <1>3 DEF Consistent, TypeOK, MasksAgree, EntriesOf
<1>8. QED
  BY <1>1, <1>4, <1>5, <1>6, <1>7 DEF Consistent

LEMMA ConsistentStep == Consistent /\ [Next]_vars => Consistent'
<1> SUFFICES ASSUME Consistent, [Next]_vars PROVE Consistent'
  OBVIOUS
<1> USE DEF Consistent, TypeOK, ListIsOwned, NoLeak, MasksAgree, EntriesOf
<1>1. CASE UNCHANGED vars
  BY <1>1 DEF vars
<1>2. ASSUME NEW c \in Clients, ProcWinIMESelectInput(c) PROVE Consistent'
  <2>1. ~crashed /\ c \in connected /\ told' = {}
    BY <1>2 DEF ProcWinIMESelectInput
  <2>2. CASE EntryFails(c) \/ HeadFails(c)
    BY <2>1, <2>2 DEF EntryFails, BadAlloc, HeadFails
  <2>3. QED
    BY <1>2, <2>1, <2>2, ChangeMaskStep, AddEntryStep, DeleteInterestStep
    DEF ProcWinIMESelectInput
<1>3. ASSUME NEW c \in Clients, ClientComes(c) PROVE Consistent'
  BY <1>3 DEF ClientComes
<1>4. CASE WinIMESendEvent
  BY <1>4 DEF WinIMESendEvent, Entry
<1>5. QED
  BY <1>1, <1>2, <1>3, <1>4, ClientGoneStep DEF Next

LEMMA AlwaysConsistent == Spec => []Consistent
BY ConsistentInit, ConsistentStep, PTL DEF Spec

(* The list, its entries and the resources keep their types.               *)
THEOREM TypeCorrect == Spec => []TypeOK
BY AlwaysConsistent, PTL DEF Consistent

(* The list and the resource database agree, and every entry of the list is *)
(* a live record of an open connection.                                    *)
THEOREM ListOwned == Spec => []ListIsOwned
BY AlwaysConsistent, PTL DEF Consistent

(* Every allocated entry is in the list.                                   *)
THEOREM NothingLeaks == Spec => []NoLeak
BY AlwaysConsistent, PTL DEF Consistent

(* What the list says a client wants is what it asked for last.            *)
THEOREM Agreement == Spec => []InterestAgrees
<1>1. Consistent => InterestAgrees
  BY DEF Consistent, InterestAgrees, MasksAgree, EntriesOf
<1>2. QED
  BY <1>1, AlwaysConsistent, PTL

(* An event goes to exactly the open connections that asked for it.        *)
THEOREM EventsReachWho == Spec => ToldWhoWants
<1>1. ASSUME Consistent, WinIMESendEvent
      PROVE  told' = {c \in connected : NotifyBit \in wants[c]}
  <2>1. ~crashed /\ told' = {heap[a].client : a \in {b \in list : heap[b] # Free /\ Selected(b)}}
    BY <1>1 DEF WinIMESendEvent
  <2>2. ASSUME NEW c \in connected, NotifyBit \in wants[c] PROVE c \in told'
    BY <1>1, <2>1, <2>2 DEF Consistent, TypeOK, ListIsOwned, MasksAgree, EntriesOf, Selected
  <2>3. ASSUME NEW c \in told' PROVE c \in connected /\ NotifyBit \in wants[c]
    BY <1>1, <2>1, <2>3 DEF Consistent, TypeOK, ListIsOwned, MasksAgree, Selected
  <2>4. QED
    BY <2>2, <2>3
<1>2. Consistent /\ [Next]_vars =>
        [WinIMESendEvent => told' = {c \in connected : NotifyBit \in wants[c]}]_vars
  BY <1>1
<1>3. QED
  BY <1>2, AlwaysConsistent, PTL DEF Spec, ToldWhoWants

(* Only a list that cannot be registered makes the server use a record that *)
(* is not there.                                                           *)
THEOREM CauseOfCrash == Spec => CrashCause
<1>1. ASSUME Consistent, Next, ~crashed, crashed'
      PROVE  ~headKnown /\ list = {}
  <2>1. ~WinIMESendEvent
    BY <1>1 DEF WinIMESendEvent, Consistent, ListIsOwned
  <2>2. PICK c \in Clients : HeadFails(c)
    BY <1>1, <2>1 DEF Next, ProcWinIMESelectInput, ClientGone, ClientComes, ChangeMask,
       AddEntry, EntryFails, BadAlloc, DeleteInterest, DropResource
  <2>3. QED
    BY <1>1, <2>2 DEF HeadFails, Consistent
<1>2. Consistent /\ [Next]_vars =>
        [~crashed /\ crashed' => ~headKnown /\ list = {}]_vars
  BY <1>1
<1>3. QED
  BY <1>2, AlwaysConsistent, PTL DEF Spec, CrashCause

=============================================================================
