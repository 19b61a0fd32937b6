---------------------------- MODULE WinIMEInterest ----------------------------
(***************************************************************************)
(* Which X clients get the events of the WinIME extension: the list that   *)
(* ProcWinIMESelectInput keeps, its entries on the heap, and the resources  *)
(* by which the X server cleans up when a client goes away (winime.c).      *)
(*                                                                         *)
(* The X server is one thread, so that each request, each event and the    *)
(* end of a client is one action.  Allocations may fail.  The resource      *)
(* database is the X server's own: AddResource, when it fails, calls the    *)
(* type's delete function on the value; FreeResource calls it unless the    *)
(* type is the one to skip.                                                *)
(***************************************************************************)
CONSTANTS
  Clients,     \* the connections of the X server
  Addresses,   \* heap addresses, used again once they are free
  Bits,        \* the bits of an event mask
  NotifyBit    \* WinIMENotifyMask

ASSUME BitsAssumption == NotifyBit \in Bits

VARIABLES
  crashed,     \* an uninitialised or a freed record was used
  connected,   \* the clients whose connection is open
  heap,        \* per address: the WinIMEEventRec there, or Free
  headKnown,   \* eventResource is registered, so that there is a list
  list,        \* the addresses of the entries that *pHead leads to
  resources,   \* the resources of ClientType: client and entry
  wants,       \* per client: the mask of its last request that succeeded
  told         \* the clients that were sent the event just announced

vars == <<crashed, connected, heap, headKnown, list, resources, wants, told>>

-----------------------------------------------------------------------------
Entry == [client : Clients, mask : SUBSET Bits]

Free == [client |-> "none", mask |-> {}]

Init ==
  /\ crashed = FALSE
  /\ connected = Clients
  /\ heap = [a \in Addresses |-> Free]
  /\ headKnown = FALSE
  /\ list = {}
  /\ resources = {}
  /\ wants = [c \in Clients |-> {}]
  /\ told = {}

EntriesOf(c) == {a \in list : heap[a].client = c}

(* Definitions marked "variant" are not part of the model.  Each is a       *)
(* plausible mistake, put in the place of the definition after it to see    *)
(* that a property fails.                                                  *)

-----------------------------------------------------------------------------
(* ProcWinIMESelectInput; mask # {} stands for a mask that is not 0.        *)

(* A request that fails with BadAlloc leaves nothing behind.               *)
BadAlloc == UNCHANGED <<crashed, connected, heap, headKnown, list, resources, wants>>

(* variant: the list is not searched for the client.                       *)
IsNewAlways(c) == TRUE

(* The list has no entry of the client.                                    *)
IsNew(c) == EntriesOf(c) = {}

(* The client is in the list already.                                      *)
ChangeMask(c, mask) ==
  \E a \in EntriesOf(c) :
    /\ heap' = [heap EXCEPT ![a].mask = mask]
    /\ wants' = [wants EXCEPT ![c] = mask]
    /\ UNCHANGED <<crashed, connected, headKnown, list, resources>>

NewEvent(c, mask) == [client |-> c, mask |-> mask]

(* A new entry, its resource and, for the first entry, the list.           *)
AddEntry(c, mask) ==
  /\ IsNew(c)
  /\ \E a \in Addresses :
       /\ heap[a] = Free
       /\ heap' = [heap EXCEPT ![a] = NewEvent(c, mask)]
       /\ resources' = resources \cup {<<c, a>>}
       /\ list' = list \cup {a}
  /\ headKnown' = TRUE
  /\ wants' = [wants EXCEPT ![c] = mask]
  /\ UNCHANGED <<crashed, connected>>

(* No memory for the entry, for its resource (AddResource frees the entry   *)
(* by WinIMEFreeClient), or for the list (FreeResource does).              *)
EntryFails(c) == IsNew(c) /\ BadAlloc

(* No memory for the resource of the list: AddResource frees the list by    *)
(* WinIMEFreeEvents before *pHead was set.  If the word there happens to    *)
(* be NULL nothing else is lost.                                           *)
HeadFails(c) ==
  /\ IsNew(c)
  /\ ~headKnown
  /\ crashed' \in BOOLEAN
  /\ UNCHANGED <<connected, heap, headKnown, list, resources, wants>>

(* variant: the entry is not freed.                                        *)
DropResourceOnly(c, a) ==
  /\ resources' = resources \ {<<c, a>>}
  /\ UNCHANGED <<heap, crashed>>

(* variant: the delete function of the resource is called as well.         *)
DropResourceAll(c, a) ==
  /\ resources' = resources \ {<<c, a>>}
  /\ heap' = heap
  /\ crashed' = TRUE      \* pEvent is used after WinIMEFreeClient freed it

(* FreeResource (..., ClientType): the delete function is skipped; then the *)
(* entry is freed.                                                         *)
DropResource(c, a) ==
  /\ resources' = resources \ {<<c, a>>}
  /\ heap' = [heap EXCEPT ![a] = Free]
  /\ crashed' = crashed

(* A mask of 0: the entry is taken out of the list.                        *)
DeleteInterest(c) ==
  /\ \/ \E a \in EntriesOf(c) : list' = list \ {a} /\ DropResource(c, a)
     \/ EntriesOf(c) = {} /\ UNCHANGED <<list, resources, heap, crashed>>
  /\ wants' = [wants EXCEPT ![c] = {}]
  /\ UNCHANGED <<connected, headKnown>>

ProcWinIMESelectInput(c) ==
  /\ ~crashed
  /\ c \in connected
  /\ \/ \E mask \in (SUBSET Bits) \ {{}} : ChangeMask(c, mask) \/ AddEntry(c, mask)
     \/ EntryFails(c)
     \/ HeadFails(c)
     \/ DeleteInterest(c)
  /\ told' = {}

-----------------------------------------------------------------------------
(* variant: the entry is freed but stays in the list.                      *)
WithoutFreedOnly(freed) == list

(* What WinIMEFreeClient leaves of the list.                               *)
Without(freed) == list \ freed

(* The connection of c ends: its resources are freed, an entry of the list  *)
(* among them by WinIMEFreeClient.                                         *)
ClientGone(c) ==
  LET freed == {a \in Addresses : <<c, a>> \in resources} IN
  /\ ~crashed
  /\ c \in connected
  /\ connected' = connected \ {c}
  /\ resources' = {r \in resources : r[1] # c}
  /\ heap' = [a \in Addresses |-> IF a \in freed THEN Free ELSE heap[a]]
  /\ list' = Without(freed)
  /\ wants' = [wants EXCEPT ![c] = {}]
  /\ told' = {}
  /\ UNCHANGED <<crashed, headKnown>>

(* A new connection takes the place of one that ended.                     *)
ClientComes(c) ==
  /\ ~crashed
  /\ c \notin connected
  /\ connected' = connected \cup {c}
  /\ told' = {}
  /\ UNCHANGED <<crashed, heap, headKnown, list, resources, wants>>

(* variant: every client in the list is told.                              *)
SelectedAny(a) == TRUE

Selected(a) == NotifyBit \in heap[a].mask

(* winWinIMESendEvent.                                                     *)
WinIMESendEvent ==
  /\ ~crashed
  /\ headKnown
  /\ crashed' = (\E a \in list : heap[a] = Free)
  /\ told' = {heap[a].client : a \in {b \in list : heap[b] # Free /\ Selected(b)}}
  /\ UNCHANGED <<connected, heap, headKnown, list, resources, wants>>

Next ==
  \/ \E c \in Clients : ProcWinIMESelectInput(c) \/ ClientGone(c) \/ ClientComes(c)
  \/ WinIMESendEvent

Spec == Init /\ [][Next]_vars

-----------------------------------------------------------------------------
(* Type correctness of the list, its entries and the resources.            *)
TypeOK ==
  /\ crashed \in BOOLEAN
  /\ connected \subseteq Clients
  /\ heap \in [Addresses -> Entry \cup {Free}]
  /\ headKnown \in BOOLEAN
  /\ list \subseteq Addresses
  /\ resources \subseteq Clients \X Addresses
  /\ wants \in [Clients -> SUBSET Bits]
  /\ told \subseteq Clients

(* The list and the resource database agree: an entry is in the list just   *)
(* when its client's end will take it out, and both lead to a live entry of *)
(* an open connection (SelectInput, WinIMEFreeClient).                     *)
ListIsOwned ==
  ~crashed =>
    /\ \A a \in list : heap[a] # Free /\ heap[a].client \in connected
    /\ resources = {<<heap[a].client, a>> : a \in list}

(* Nothing on the heap is lost: an entry that is neither in the list nor    *)
(* known to the resource database would stay allocated for ever.           *)
NoLeak == ~crashed => \A a \in Addresses : heap[a] # Free => a \in list

(* A client has at most one entry, holding the mask it asked for last, so   *)
(* that a repeated or failed request neither doubles nor changes what the   *)
(* client gets.                                                            *)
InterestAgrees ==
  ~crashed =>
    \A c \in Clients :
      /\ \A a, b \in EntriesOf(c) : a = b
      /\ wants[c] = IF EntriesOf(c) = {} THEN {}
                    ELSE heap[CHOOSE a \in EntriesOf(c) : TRUE].mask

(* An event goes to exactly the open connections that asked for it.        *)
ToldWhoWants ==
  [][WinIMESendEvent => told' = {c \in connected : NotifyBit \in wants[c]}]_vars

(* Unless the list itself could not be registered, the server never uses a  *)
(* record that was freed or not initialised.                               *)
CrashCause == [][~crashed /\ crashed' => ~headKnown /\ list = {}]_vars

=============================================================================
