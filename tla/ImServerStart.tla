---------------------------- MODULE ImServerStart ----------------------------
(***************************************************************************)
(* The start of the IM server: winInitImServer is called once for each     *)
(* screen and spawns a thread each time; the threads then compete for the   *)
(* selection that names the input method (winImServerProc, xi18n_openIM,    *)
(* SetXi18nSelectionOwner).                                                *)
(*                                                                         *)
(* Each thread is an X client of its own.  The X server handles one request *)
(* at a time, so that the steps of a thread are its requests.  ic_list is   *)
(* shared by the threads, the list of client records is not: every thread   *)
(* that serves handles every event of the WinIME extension, and looks up    *)
(* the connection of the IC in its own list.  Events are a set, since the   *)
(* order in which a thread handles them is of no importance here.          *)
(***************************************************************************)
CONSTANTS
  Threads,   \* the threads, one for each screen
  Nobody,    \* no thread
  Clients    \* XIM clients; each opens one connection and creates an IC

ASSUME NobodyAssumption == Nobody \notin Threads

VARIABLES
  pc,          \* per thread: what it does next
  found,       \* per thread: the input method was listed in XIM_SERVERS
  listed,      \* XIM_SERVERS on the root window names the input method
  owner,       \* the owner of the selection @server=...
  interested,  \* the threads that selected WinIME events
  servedBy,    \* per client: the thread that has its connection, or Nobody
  news,        \* per thread: the clients whose ICs it has events about
  alive        \* FALSE once the process died of a NULL dereference

vars == <<pc, found, listed, owner, interested, servedBy, news, alive>>

Steps == {"connect", "select", "read", "ask", "take", "publish", "check",
          "serve", "refused", "gaveUp"}

Serving == {t \in Threads : pc[t] = "serve"}

Init ==
  /\ pc = [t \in Threads |-> "connect"]
  /\ found = [t \in Threads |-> FALSE]
  /\ listed = FALSE
  /\ owner = Nobody
  /\ interested = {}
  /\ servedBy = [c \in Clients |-> Nobody]
  /\ news = [t \in Threads |-> {}]
  /\ alive = TRUE

Goto(t, from, to) ==
  /\ alive
  /\ pc[t] = from
  /\ pc' = [pc EXCEPT ![t] = to]

-----------------------------------------------------------------------------
(* The threads: winImServerProc.                                           *)

OpenDisplay(t) ==
  /\ Goto(t, "connect", "select")
  /\ UNCHANGED <<found, listed, owner, interested, servedBy, news, alive>>

(* iRetries is not initialised, so that a thread may give up after any      *)
(* number of attempts that failed.                                         *)
GiveUp(t) ==
  /\ Goto(t, "connect", "gaveUp")
  /\ UNCHANGED <<found, listed, owner, interested, servedBy, news, alive>>

(* XWinIMESelectInput.                                                     *)
SelectInput(t) ==
  /\ Goto(t, "select", "read")
  /\ interested' = interested \cup {t}
  /\ UNCHANGED <<found, listed, owner, servedBy, news, alive>>

Found == listed

(* SetXi18nSelectionOwner: XGetWindowProperty of XIM_SERVERS.              *)
ReadServers(t) ==
  /\ Goto(t, "read", IF listed THEN "ask" ELSE "take")
  /\ found' = [found EXCEPT ![t] = Found]
  /\ UNCHANGED <<listed, owner, interested, servedBy, news, alive>>

(* variant: the selection is taken by force.                               *)
MayTakeForced(t) == TRUE

(* A listed server that has an owner is left alone (forse is False).       *)
MayTake(t) == owner = Nobody

(* XGetSelectionOwner; a refused thread ends, its connection stays open.    *)
AskOwner(t) ==
  /\ Goto(t, "ask", IF MayTake(t) THEN "take" ELSE "refused")
  /\ UNCHANGED <<found, listed, owner, interested, servedBy, news, alive>>

(* XSetSelectionOwner.                                                     *)
TakeSelection(t) ==
  /\ Goto(t, "take", "publish")
  /\ owner' = t
  /\ UNCHANGED <<found, listed, interested, servedBy, news, alive>>

(* XChangeProperty: the atom is prepended unless it was found.             *)
Publish(t) ==
  /\ Goto(t, "publish", "check")
  /\ listed' = (listed \/ ~found[t])
  /\ UNCHANGED <<found, owner, interested, servedBy, news, alive>>

(* variant: the comparison is the wrong way round.                         *)
HasSelectionNot(t) == owner # t

(* The last request of SetXi18nSelectionOwner decides.                     *)
HasSelection(t) == owner = t

CheckOwner(t) ==
  /\ Goto(t, "check", IF HasSelection(t) THEN "serve" ELSE "refused")
  /\ UNCHANGED <<found, listed, owner, interested, servedBy, news, alive>>

-----------------------------------------------------------------------------
(* A client finds the server through the selection, connects and creates    *)
(* an IC: its record is in that thread's list, the IC in the common one.    *)
ClientConnects(c) ==
  /\ alive
  /\ servedBy[c] = Nobody
  /\ owner \in Serving
  /\ servedBy' = [servedBy EXCEPT ![c] = owner]
  /\ UNCHANGED <<pc, found, listed, owner, interested, news, alive>>

(* An event about the IC of c goes to each thread that selected events.     *)
ImeEvent(c) ==
  /\ alive
  /\ servedBy[c] # Nobody
  /\ news' = [t \in Threads |-> IF t \in interested THEN news[t] \cup {c} ELSE news[t]]
  /\ UNCHANGED <<pc, found, listed, owner, interested, servedBy, alive>>

(* variant: new records are not entered into the list.                     *)
HasConnectionNever(t, c) == FALSE

(* _Xi18nFindClient finds the connection of c in the list of t.            *)
HasConnection(t, c) == servedBy[c] = t

(* winXIMEXEventHandler finds the IC in ic_list whichever thread it is run  *)
(* by; without the connection it dereferences NULL (_Xi18nNeedSwap).       *)
HandleEvent(t) ==
  /\ alive
  /\ pc[t] = "serve"
  /\ \E c \in news[t] :
       /\ news' = [news EXCEPT ![t] = @ \ {c}]
       /\ alive' = HasConnection(t, c)
  /\ UNCHANGED <<pc, found, listed, owner, interested, servedBy>>

Thread(t) ==
  \/ OpenDisplay(t)
  \/ GiveUp(t)
  \/ SelectInput(t)
  \/ ReadServers(t)
  \/ AskOwner(t)
  \/ TakeSelection(t)
  \/ Publish(t)
  \/ CheckOwner(t)
  \/ HandleEvent(t)

Next ==
  \/ \E t \in Threads : Thread(t)
  \/ \E c \in Clients : ClientConnects(c) \/ ImeEvent(c)

Spec == Init /\ [][Next]_vars

(* A thread that can go on does: each request is answered.                 *)
Fairness == \A t \in Threads : WF_vars(Thread(t))

FairSpec == Spec /\ Fairness

-----------------------------------------------------------------------------
(* Type correctness of the threads and of what they share.                 *)
TypeOK ==
  /\ pc \in [Threads -> Steps]
  /\ found \in [Threads -> BOOLEAN]
  /\ listed \in BOOLEAN
  /\ owner \in Threads \cup {Nobody}
  /\ interested \subseteq Threads
  /\ servedBy \in [Clients -> Threads \cup {Nobody}]
  /\ news \in [Threads -> SUBSET Clients]
  /\ alive \in BOOLEAN

(* The selection never names a thread that has given up: whoever owns it    *)
(* serves or is about to, so that clients are not sent to a dead window     *)
(* (the last check of SetXi18nSelectionOwner).                             *)
OwnerServes == owner # Nobody => pc[owner] \in {"publish", "check", "serve"}

(* t serves, and every other thread has not yet looked or has ended.       *)
Established(t) ==
  /\ owner = t
  /\ listed
  /\ pc[t] = "serve"
  /\ \A u \in Threads \ {t} :
       pc[u] \in {"connect", "select", "read", "ask", "refused", "gaveUp"}

(* A server once established cannot be displaced by threads of later        *)
(* screens: they are refused.                                              *)
StaysEstablished ==
  [][\A t \in Threads : Established(t) => Established(t)']_vars

(* Threads that all start at once may all be refused but one, never all:    *)
(* in the end some thread serves, unless none could connect.               *)
SomeoneServes ==
  <>(Serving # {} \/ (\A t \in Threads : pc[t] = "gaveUp"))

(* The process dies only when two threads came to serve, each having been   *)
(* the owner of the selection when it checked.                             *)
DiesOfTwoServers == ~alive => \E t, u \in Serving : t # u

(* "That is why there is only one ... client thread" (winimserver.c): at    *)
(* most one thread serves.                                                 *)
OneServer == \A t, u \in Serving : t = u

=============================================================================
