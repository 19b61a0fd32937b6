# winime-xim-bridge: verification project

This directory holds TLA+ models of the bridge between the Windows IME and X
input method (XIM) clients, the TLC configurations that check them on small
instances, and proofs that TLAPS checks for every instance.  `src/` below means
the repository; `xwin/` abbreviates
`src/mingwx_xc/programs/Xserver/hw/xwin/`.

## 1. The system

The bridge runs inside the X server for Windows and has three kinds of actors.

| actor | code | keeps | does |
|---|---|---|---|
| X server thread | `xwin/winime.c`, called from the window procedures (`src/ime-20050606-2040.diff`) | WinIME contexts (an HIMC, the composition, attribute and result strings), `s_hAssociatedWnd`, the list of clients that want events | takes `WM_IME_*` messages of the user's IME, serves the requests of the WinIME extension, sends `WinIMEControllerNotify` events |
| IM server thread | `xwin/winimserver.c`, `xwin/winic.c`, `xwin/IMdkit/*` | `ic_list` (one `IMIC` per input context), one `Xi18nClient` record per connection with its `sync` flag and `pending` queue | is an X client of the first thread and the XIM server of the X clients; one event loop |
| X clients | not in the repository | their connection, their ICs | send XIM requests, forward key events, answer synchronous messages |

They interact in two places.

* **XIM connections** (clients and IM server): a FIFO of ClientMessages in each
  direction.  Requests have one reply each.  `XIM_FORWARD_EVENT` and
  `XIM_COMMIT` from the server carry the synchronous flag, which obliges the
  client to send `XIM_SYNC_REPLY` after dispatching them.
* **The WinIME extension** (IM server and X server): requests form one FIFO;
  events and replies return in another.  An event only says that something
  changed; the contents are fetched by round trips while the IME goes on.

### Components, what is hard about them, what makes them correct

| component | hard behaviour | correctness |
|---|---|---|
| XIM handlers (`i18nPtHdr.c`) | queueing of keys while one is unacknowledged; the wake-up of the queue | no key is lost, reordered, duplicated or stuck; each request has exactly one reply |
| client records (`i18nUtil.c`, `i18nX.c`) | a client disconnects or dies with keys queued and ICs in use | others are unaffected; the process survives unless a connection was closed whose ICs are still known |
| IC table (`winic.c`) | ICs are never removed; the owner is rewritten by each SET_IC_VALUES | every IC a client holds is in the table and belongs to it |
| `winimserver.c` | `toggled` set by an event, consumed by a key of another channel; text, attributes and cursor read by separate calls after the event that announced them | only toggle keys are kept (violated, see 5); results in order, the newest one committed; a draw of mixed moments is repaired |
| WinIME extension (`winime.c`) | focus and drawing mode are separate requests; the active window changes in between | one window has a context; client and IME never both draw the composition |
| preedit callbacks (`i18nClbk.c`, `winimserver.c`) | `pIC->length` must mirror what the client shows | the two agree; no preedit is left after a composition |
| start-up and selection ownership (`i18nMethod.c`, `winInitImServer`) | one thread per screen, all competing for one selection by separate requests | the owner of the selection serves; an established server is not displaced; some thread serves in the end |
| X transport (`i18nX.c`) | long messages in properties whose names are reused; appending and announcing are two requests | messages arrive whole, once and in order |
| interest list (`ProcWinIMESelectInput`) | the list is referred to from the resource database; failing allocations; clients that go | list, heap and resources agree; events go to just those who asked |
| IC attributes (`i18nIc.c`, `winic.c`) | nested lists, byte order of each kind of value, order of storing | parsing terminates, a reply holds what was asked, values are read back as they were set, with the exceptions of section 5 |
| message frames (`FrameMgr.c`, `i18nIMProto.c`) | counters that refer to items by offset, padding by number of items, lists whose end is found by looking ahead | replies are laid out as the protocol says, with one exception (section 5); requests are read as sent; no list is read for ever |

`PROJECT.json` lists every component with its sources, and under `hazards` each
place in the code that is hard to test with the properties that watch it.

## 2. Modules

| module | content |
|---|---|
| `KeyRelay` | abstract specification: what the key path promises to each client |
| `XimServer` | the XIM server with its connections and clients; instantiates `KeyRelay` |
| `XimServerProofs`, `XimRelayProofs` | theorems about `XimServer`; that it implements `KeyRelay` |
| `ImeBridge`, `ImeBridgeProofs` | compositions on their way from the IME to a client: both threads and the extension; theorems |
| `WinIMEInterest`, `WinIMEInterestProofs` | which clients get the events of the extension; theorems |
| `ImServerStart`, `ImServerStartProofs` | threads that start up against each other; theorems |
| `IcAttributes`, `IcAttributesProofs` | the attribute values of one IC; theorems |
| `MessageChannel` | abstract specification: what the transport promises to those who use it |
| `XimTransport`, `XimTransportProofs` | messages in events and properties, with their reuse of names; instantiates `MessageChannel`; theorems |
| `SequenceFolds`, `SequenceInduction` | selecting from and folding over sequences; lemmas about both, and induction over sequences |
| `FrameMgr`, `ImProto` | the frame manager as operators; the templates it works on |
| `XimFrames` | handlers that write replies and read requests with them |
| `MC...` | instances of these for TLC |

The modules meet where one abstracts from what another details: `XimServer`
treats attribute requests as bare messages, which `IcAttributes` takes apart;
`ImeBridge` has one client for the events of the extension, which
`WinIMEInterest` justifies; both have one IM server, which `ImServerStart`
shows to be an assumption (see section 5).  `XimServer` assumes FIFO channels
of whole messages: `MessageChannel` says what that is, `XimTransport` shows what
the code makes them of and that it implements `MessageChannel`, and
`XimFrames` how a message becomes bytes and fields again.

### XimServer

One action is one whole message handler.  This is the code's own atomicity: the
IM server is one thread whose event loop (`winImServerProc`) calls
`XNextEvent`/`XFilterEvent`, and a handler runs to its end, including the
`ProcessQueue` loop at the end of the one for `XIM_SYNC_REPLY`.

| variable | in the code |
|---|---|
| `record[c]` | the `Xi18nClient` of a connection: none, created by `ReadXConnectMessage` (byte order `?`), ready after `XIM_CONNECT`, freed after `XIM_DISCONNECT` |
| `sync[c]`, `pending[c]` | `client->sync`, `client->pending` |
| `ics` | `ic_list`; `ics[i]` is the `IMIC` with `icid = i`; `owner` is its `connect_id`, `toggled` its flag, `focused` whether its context was ever associated with a window |
| `toServer`, `toClient` | the ClientMessages on their way |
| `alive` | the process has not dereferenced NULL: it does for a focus request of an unknown IC (`FindIMIC` returns NULL) and for a commit to a connection whose record is gone (`_Xi18nNeedSwap`) |

`Handle(c, q, n)` stands for the loop of `ProcessQueue` (and, with a queue of
one, for `ForwardEventMessageProc`): keys are swallowed while their IC is
toggled, the first other key is forwarded and sets `sync`.  Clients are
external and obey the protocol: they wait for replies, name ICs they hold,
forward keys only after `XIM_SET_EVENT_MASK`, and answer synchronous messages.
One `XIM_SYNC_REPLY` answers all messages dispatched before it.  A client may
vanish at any moment; the server is not told, because `winimserver.c` ignores
`DestroyNotify`.

The server is configured as `winimserver.c` does: no on-keys or off-keys, thus
static event flow and no trigger notification.

### KeyRelay

Keys of a client are issued, wait in a queue, come back, or are kept on account
of a toggle.  `XimServer` maps `queue` to `pending` followed by the key events
in `toServer`, `back` to those in `toClient`, and `armed` to the toggled ICs.
A `ProcessQueue` that handles several keys in one go is one `Dispose` step.

### ImeBridge

The X server's thread handles one window message or one request at a time, so
`StartComposition`, `Composition`, `EndComposition` and `ServeRequest` are
atomic.  The IM server's thread blocks in its calls, and each call is a step:
a new composition string needs three round trips, for the string
(`AskForText`, `ReadCompStr`), its attributes (`ReadCompAttr`) and the cursor
(`DrawCompStr`), a result one (`HandleResultStr`).  In between the IME may
compose on, commit, end, and the focus may move.

| variable | in the code |
|---|---|
| `contexts[k]` | `WIContextRec`: composition string, attributes, `nCursor`, result, `fCompositionDraw` |
| `associated`, `associatedWnd` | `ImmAssociateContext` of each window; `s_hAssociatedWnd` |
| `requests`, `events` | the IM server's connection to the X server, both directions |
| `ics[i]` | `IMIC`: context, preedit style, `length`, the `icid` in `pCallData` |
| `call`, `reading` | the call that the thread waits for; `szCompositionString` and `szCompositionAttr` |
| `preedit`, `shown`, `committed` | what the client displays (length; feedback and caret) and the newest result it got |

A string stands for its length, attributes for their number, a result for its
number in its context; this is what length bookkeeping, feedback and ordering
depend on.  `nCursor` of a new context is not initialised; `AnyCursor`, a value
behind any string, stands for it.  A context that is created is known to both
threads when the call returns, which is why `CreateIC` needs an empty request
queue: `XWinIMECreateContext` waits for its reply and X handles a client's
requests in order.

### WinIMEInterest

| variable | in the code |
|---|---|
| `list` | the records that `*pHead` leads to, as a set: nothing depends on their order |
| `heap[a]` | the `WinIMEEventRec` at an address, or `Free` |
| `headKnown` | `eventResource` is registered |
| `resources` | resources of type `ClientType`, by which the X server cleans up |
| `wants`, `told` | history: what each client asked for last; who was sent the event just announced |
| `crashed` | a record was used that was freed or never initialised |

The X server is one thread: a request, an event, or the end of a client is one
action.  The resource database is external and modelled by how `winime.c` uses
it: `AddResource` that fails calls the delete function (so `WinIMEFreeClient`
frees the entry), `FreeResource` calls it unless told to skip the type.
`eventMask` is written but never read, and is left out.

### ImServerStart

The steps of a thread are its requests to the X server, which handles one at a
time; `pc` names the next one.  `found` is the local variable of
`SetXi18nSelectionOwner`, `listed` and `owner` are the property `XIM_SERVERS`
and the selection.  A connection attempt that is retried changes nothing;
`GiveUp` may happen at any time because `iRetries` is never initialised.
`news` holds the events a thread has not handled, as a set, since only whether
one is handled matters.  Connection numbers come from a counter common to all
threads (`_Xi18nNewClient`), so that a thread never takes another one's
connection for its own; `ic_list` is common to them too.

### IcAttributes

A number in a message is a value together with the question whether its bytes
are reversed.  `ReadICValue` and `CreateNestedList` convert each kind of value
as `i18nIc.c` does, `SetPointAttribute` without effect and attributes outside
nested lists not at all.  `ReadIds` is one iteration of the loop of
`_Xi18nGetIC`, so that its termination is a property; setting values is one
action, because the loops over lists of known length cannot go wrong that way.
`asked` is a history of what the client set, computed from the request alone
and without the server's conversions or order of storing.  Requests are well
formed: known ids, and a separator at the end of each nested list of ids.

A font name is a value with a length (`NameLength`).  What a client gets instead
of the name it set is spelt out by `LeftOfFont`: `GetFontAttribute` puts a
second length where there is room for one, so that the name's last two bytes
fall behind the value, into padding or under the next attribute, or past the
memory allocated for the list (`Overruns`).  What an overrun does depends on
the heap; the process may die of it, or go on.

The composition window the IME was given (`window`) has a place, the value it
was computed from with the order of its bytes, the window it is relative to,
and whether width and height were displaced too, as those of an area are when
`StoreIMIC` translates them like a point (`grown`).  `asked.moved` says that the
client named a focus window since it last placed the composition window.

Attributes that are stored and returned like one that is there are left out
(`Background`, `AreaNeeded`), and some of which nothing comes back:
`BackgroundPixmap`, `StdColormap`, which overwrites `Colormap`, and
`PreeditState`.  `Colormap` stands for those that `GetIMIC` never returns.

### XimTransport

`Xi18nXSend` puts a short message into a ClientMessage and appends a long one
to a property of the receiver's window, then announces name and length in an
event: two requests (`SendLong`, `Announce`), between which the receiver may
read.  `sequence` is the static counter of `MakeNewAtom`, with its number 0
given twice when it starts again.  A message is the sequence of its bytes, each
of which carries the number of the message, so that a lost, torn or doubled one
shows.  A behaviour is about one direction (`toServer`), since the two share
nothing.  The client's XIM library is external: it reads as many bytes as
announced and leaves the rest (which is what `PropModeAppend` is for), and it
may name its own properties as it likes.  `ReadXIMMessage` takes a property as a
whole for one packet, of which the handler sees the first message.

### MessageChannel

A connection hands over what was sent, each message once, whole and in order,
unless its sender spoils it.  `XimTransport` has `sent` and `received` itself,
and maps `spoilt` to the connections on which a client named a property in use
(`Spoilt`).  An announced message, long or short, is one `Send`; a message that
is put under a name in use is a `Spoil`, when a client does it; an event that is
taken is a `HandOver`, or on a spoilt connection `HandOverAnything`.

### FrameMgr, ImProto, XimFrames

`FrameMgr` has one operator per function of `FrameMgr.c` that the handlers
reach, of the same name; an instance (`FrameInst`, `Iter`) is a record that an
operator maps to a new one.  `ImProto` holds the templates of
`i18nIMProto.c`, item by item.  In `XimFrames` a behaviour is the handling of
one message.  A task is a message: how its handler calls the frame manager
(number of elements, sizes, tokens) and, stated apart and without templates,
what the message looks like on the wire.  The message that is made is the
protocol's but for `XIM_QUERY_EXTENSION_REPLY`, where it is stated apart
(`written`, section 5).  `PutGroup` puts the tokens of one
round of a handler's loop; `ReadHeader`, `ReadCount`, `ReadElement` and
`EndList` are the steps of reading.  A token that is read behind the end is any
value of `Junk`.  Byte order is left out, since `FrameMgr` swaps numbers alike
in both directions.

## 3. Runs

| run | instance | shows |
|---|---|---|
| `xim_safety` | 2 connections (symmetric), 2 ICs, 1 key each, 1 IME event | replies pair up with requests, ICs stay served whatever the other client does, and `alive` is lost only in the wake of a disconnect |
| `xim_keys` | 1 connection, 2 ICs, 3 keys, 2 IME events | queue discipline and refinement of `KeyRelay` |
| `xim_live` | 2 connections, 1 IC, 2 keys each, 1 IME event, fairness | no key and no request waits for ever |
| `xim_toggle` | 1 connection, 1 IC, 2 keys of which the second toggles | violated: an ordinary key can be swallowed |
| `ime_safety` | 2 windows (symmetric), 2 ICs, 2 styles, 4 IME messages | association, drawing, preedit length, names of callbacks, result order |
| `ime_live` | 1 window, 1 IC, 4 IME messages, strings of up to 2, fairness | a draw of mixed moments is repaired; every result, or a newer one, is committed |
| `interest` | 4 clients, 4 addresses (symmetric), 2 mask bits | list, heap and resources agree; events reach whom they should |
| `start` | 3 threads, 2 clients, fairness | the owner serves, an established server stays, only two servers can be fatal, some thread serves in the end |
| `start_two` | 2 threads | violated: two threads can serve |
| `ic_values` | 2 values, 2 windows, requests of up to two attributes or lists of up to two, both byte orders, fairness | a reply comes and holds what was asked for, as it was set or, of a font, what is left of it; the composition window is where asked, with the exceptions listed; what the process can die of |
| `frames` | every reply and request with arrays or lists, lengths 0 to 3, up to 3 elements | replies are laid out as the protocol says (but for the one about extensions), requests read as sent (but for empty lists), lists end |
| `transport` | 2 connections, 2 names, 4 messages of 1, 2 and 7 bytes, fairness | refinement of `MessageChannel`: messages are handed over whole, once and in order, whatever names are reused, unless a client reuses one that is unread |

### Bounds, and why they suffice

* Two connections: nothing in the server relates more than two (an IC has one
  owner, a message one destination).  The proofs of section 6 remove the bound.
* `xim_keys` has one connection because `sync` and `pending` are per
  connection; three keys give one forwarded, two queued; two ICs let a queue
  mix toggled and other ICs; two IME events allow a commit between two
  forwards (its `XIM_SYNC_REPLY` then clears the `sync` of a forwarded key) or
  two toggles.  IM requests, which touch no key, are left to the other runs.
* Request kinds are spread over the three runs, since each merely changes what
  a client waits for; together they contain all of them.
* Four IME messages are a start, two compositions and an end, or two results in
  a row, or a composition that comes between two round trips about the one
  before and is cleared or committed.  `ime_safety` has lengths 0 and 1, which
  distinguish an empty string from a drawn one, since `pIC->length` is replaced
  as a whole; `ime_live` has 2 as well, so that a string, attributes and a
  cursor of different moments do not fit each other.
* `MaxRequests = 2` lets a focus request wait behind another one and behind the
  drawing mode of a new IC.

* `interest`: the list operations touch one entry and its neighbours; four
  clients give entries on both sides.  There are as many addresses as clients,
  so that a freed one is used again; failing allocations are separate choices.
* `start`: the race needs two threads; a third one shows what a later screen
  does to the two.
* `ic_values`: two values tell a value from a stale one; two attributes in a list or
  request suffice for order to matter; the ids have a rectangle, a point and a
  font, and the two values are font names of 4 bytes, whose excess fits into the
  padding, and of 5, whose excess does not.  Plain numbers and color maps
  (`Foreground`, `LineSpace`, `Colormap`) are in the module and its theorems and
  in no run.
* `frames`: padding depends on lengths modulo four, all of which occur; three
  elements give a first, an inner and a last one, and two lists in a message
  have these independently of each other.
* `transport`: with two names (the code has 21) the counter starts again after
  the third message; of the lengths, 1 fits into an event, and 2 and 7 together
  are more than the 2 words (8 bytes) that are read of a property when the
  event tells a length of 2.

Deadlock is not checked: with all bounds used up, and with clients that need
not do anything, the systems may rest.

### Fairness

`XimServer`: the event loop takes X events in the order in which they arrived,
so the messages of each connection are handled in the end (`WF` of `Server(c)`
for each `c`).  A running client reads its messages and answers synchronous
ones; a vanished one does not, and a client need never send anything of its own
accord.  `ImeBridge`: X schedules its clients round robin (`WF` of
`ServeRequest`), and the IM server's loop does not starve WinIME events (`WF`
of `ImServer`).  Nothing is assumed of the user or the IME.
`ImServerStart`: a thread that can go on does, since the X server answers each
request (`WF` of `Thread(t)`).  `IcAttributes`: the loop of `_Xi18nGetIC` runs
on (`WF` of `ReadIds` and `GetIC`).  `XimTransport`: a sender announces what it
has put into a property, since it waits for nobody in between (`WF` of
`Announce`), and a receiver takes its events (`WF` of `Receive(c)`).
`XimFrames` needs no fairness: that lists end is stated as an invariant that
bounds what is read.

## 4. Properties

Type correctness is proved (section 6); TLC checks it for `XimServer`, where it
covers the most channels.

`XimServer`: `OneReplyInFlight`, `MaskedAreHeld`, `HeldICsServed`,
`DiesOnlyAfterDisconnect`, `SyncGatesQueue`, `AckDue`,
`RelayKeys` (refinement), `KeysDisposed`, `RequestsAnswered` (liveness).

`ImeBridge`: `OneAssociation`, `DrawnByOne`, `LengthAgrees`, `NoPreeditLeft`,
`NewestCommitted`, `CallbackNamesIC`, `DrawsRepaired`, `ResultsInOrder` (action
property), `ResultsCommitted` (liveness).

`WinIMEInterest`: `ListIsOwned`, `NoLeak`, `InterestAgrees`, `ToldWhoWants`
and `CrashCause` (action properties).

`ImServerStart`: `OwnerServes`, `DiesOfTwoServers`, `StaysEstablished` (action
property), `SomeoneServes` (liveness).

`IcAttributes`: `AnswersWhatWasAsked`, `RoundTrip`, `WindowWhereAsked`,
`GetAnswered` (liveness; it names the two causes of death).

`XimFrames`: `WrittenAsLaidOut`, `InBuffer`, `ReadsWhatWasSent`,
`EveryListEnds`.

`XimTransport`: `NoneLost`, `PropertiesAgree`, `WholeMessages` (refinement of
`MessageChannel`), `Arrives` (liveness).

Each is explained where it is defined.  For each one there is a plausible
mistake in the code, a definition marked "variant" in the module, under which
TLC finds the property violated; `PROJECT.json` pairs them up.

Some results are worth knowing although nothing is violated.  The `sync` flag
may be cleared early, by the acknowledgement of a commit, so that two forwarded
keys can be unacknowledged at once; nevertheless order is kept and the queue is
always woken up (`AckDue` is the reason).  And a result that is overtaken by
the next one before it was read is never committed: `ResultsCommitted` promises
"it or a newer one", no more.  A draw may combine the string of one moment with
attributes and cursor of later ones; `DrawsRepaired` says that an event which
replaces it is then always queued already, because the X server stores and
announces the parts of a message together.  And the names of properties are
reused while messages under them are unread, once the counter starts again;
replies survive this, because the server appends and clients read no more than
was announced.

## 5. Where the code and its comments disagree

* `OnlyToggleKeysKept` (`winimserver.c:137`).  The comment says that toggle keys
  are filtered.  The flag is set by an event of the X server and consumed by
  the next key of the IC; an ordinary key that was forwarded earlier but is
  handled later is swallowed, and the toggle key passes.
* `OneServer` (`winimserver.c:790`).  The comment speaks of the only client
  thread.  `winInitImServer` is called once per screen; two threads that both
  read `XIM_SERVERS` before either has published its name take the selection in
  turn, both pass the last check, and both serve.  Since `ic_list` is common to
  them, an event about an IC of the other one's client is then fatal
  (`DiesOfTwoServers` says that nothing less is).

More things to know, about which the repository says nothing or too little to
speak of a contradiction; each is part of a property that passes:

* The first `PREEDIT_START` of an IC, and a `PREEDIT_DONE` before the first draw,
  are built from call data whose `icid` nobody has set (`winimserver.c:538`);
  `CallbackNamesIC` says that this is the only case.
* A list without elements is read as if it had one (`i18nIc.c:638`), unless the
  handler looks at its length first; `ReadsWhatWasSent` and `InBuffer` except it.
* The names of encodings are erased where the array of encoding infos was meant
  (`i18nPtHdr.c:1385`); `ReadsWhatWasSent` says so.
* `ReadXIMMessage` takes a property as one packet (`i18nX.c:140`): a client that
  reuses the name of an unread property loses messages (`WholeMessages` and
  `Arrives` except the connections where it did).
* The spot location of a client of the other byte order is converted and then
  overwritten by the bytes of the message (`i18nIc.c:140`).  `RoundTrip` leaves
  it out for such a client, and `WindowWhereAsked` says that the IME gets it
  reversed, so that the composition window is somewhere else.
* Width and height of an area are translated like a point (`winic.c:192`):
  `WindowWhereAsked` allows it for areas relative to a window.
* A client that names another focus window leaves the composition window where
  it was, relative to the earlier one (`winic.c:225`), until it places it again;
  `WindowWhereAsked` allows the earlier one just then.
* A font set is not read back as it was set: `GetIMIC` puts the length of the
  name in front of it in the server's byte order (`winic.c:421`), and
  `GetFontAttribute` another one (`i18nIc.c:275`) without room for it.
  `RoundTrip` says what is left.  If the font is the last attribute of its list
  and the padding has no two bytes, memory past the list is overwritten
  (`i18nIc.c:424`); this and reading a font set that was never set
  (`winic.c:422`) are the causes of death that `GetAnswered` names.
* The line spacing that is read is always 18, and color maps and the background
  pixmap are stored but never returned (`winic.c:401`): `RoundTrip` excepts them.
* The opcodes of an extension have 16 bits each in the template of
  `XIM_QUERY_EXTENSION_REPLY` (`i18nIMProto.c:109`), but 8 in the protocol and in
  `IMExtList` (`i18nAttr.c:47`).  `WrittenAsLaidOut` says that this reply is the
  protocol's only if its list is empty, and what is written otherwise.

## 6. Proofs

`XimServerProofs` proves, for every set of connections and all bounds:

| theorem | property | argument |
|---|---|---|
| `TypeCorrect` | `TypeOK` | inductive; one lemma each for clients, server and IME |
| `QueueGated` | `SyncGatesQueue` | inductive with `TypeOK`; `HandleSync` says what `Handle` leaves in `sync` |
| `AckIsDue` | `AckDue` | inductive with `TypeOK`; an acknowledgement under way survives every step except the `XIM_SYNC_REPLY` that clears `sync`, and whatever sets `sync` sends a synchronous message |
| `HeldAreServed` | `HeldICsServed` | not inductive: a client comes to hold an IC when it *receives* a reply.  `ICsServed` adds that ICs named by messages on their way, in either direction, are served too |
| `DeathCause` | `DiesOnlyAfterDisconnect` | from `ICsServed`: a focus request always names an IC of `ic_list`, so a commit to a freed record is the only cause left |
| `OneReply` | `OneReplyInFlight` | `Exchange`: the request on its way, or the reply to it, is the one its client waits for; a freed record has no request left and its client has the reply to `XIM_DISCONNECT` before it or behind it, so that nothing is discarded that someone waits for |
| `MasksHeld` | `MaskedAreHeld` | `MasksIntroduced`: a `XIM_SET_EVENT_MASK` follows the reply by which the client learns of the IC at once, or is the next message and names an IC the client holds |

The last two rest on `StepKinds`, which says of every step of the system what it
is for one connection: its client asks, speaks or receives, the server answers
or handles a message of it, or it is left alone but for events.

`XimRelayProofs` proves `KeysRelayed`: `XimServer` implements `KeyRelay`
(`RelayKeys`), step by step.  `QueueDisposed` maps the loop of `ProcessQueue` to
one `Dispose`, a key event that is handled at once likewise (`EventDisposed`),
an event of the IME to arming, a reply that is taken to delivery; whatever else
happens stutters.  Besides the invariants above it needs `Early` (a record that
is not in use yet has no keys, since the client waits for the answer to its
connection) and `Bounded` (ICs that exist or are being created are no more than
the bound).  The mapping selects the key events of a channel: `SelectConcat` and
`SelectHeadTail` say how that commutes with appending and taking.

`KeysInOrder` adds what `RelayKeys` leaves implicit: the key events of a client,
those on their way back and then those that wait or travel to the server, are
in the order of their forwarding, each at most once.  The invariant
(`KeysOrdered`) is about the abstract system, and the refinement carries it over.

`NothingStuck` is what can be proved of the liveness properties `KeysDisposed`
and `RequestsAnswered`, namely that the system never comes to rest too early:
when nothing is under way between a client and the server, no key event of the
client waits in `pending`, and the client waits for no reply.  It combines
`SyncGatesQueue`, `AckDue` and `OneReplyInFlight`: a queue that is not empty has
`sync` set, and a set `sync` has its acknowledgement under way.

`XimTransportProofs` proves the following for all connections, names, lengths and
numbers of messages.

| theorem | property | states |
|---|---|---|
| `NoMessageLost` | `NoneLost` | for each message that is sent and not handled an event waits |
| `ReceivedWasSent` | | what was received is a beginning of what was sent, byte by byte |
| `ChannelKept` | `WholeMessages` | events and properties implement `MessageChannel`, step by step |
| `PropertiesAgreeWithEvents` | `PropertiesAgree` | a property is as long as its unread events say |

The inductive invariant is `TypeOK /\ Delivered`: for each connection of which
anything is promised there is a sequence of letters on their way such that the
events announce these, what was sent is what was received and then these, and
each property holds the messages of its letters, one after the other, and then
the one that is being put there.  No property of the table is inductive alone: that the
bytes read are the message announced needs the contents of the property, not
just its length.  In the direction to the server, where a property is read as a
whole, no two letters may be under one name (`Single`), which is what
`crowded` is about.

`IcAttributesProofs` proves the three invariants of `IcAttributes` and two theorems
more, for all values, windows and ids and for requests of any length.

| theorem | property | argument |
|---|---|---|
| `WindowStaysWhereAsked` | `WindowWhereAsked` | `Stored`: what is stored agrees, attribute by attribute, with what the client asked for last, the window with its displacements (`Alike`); by induction over the attributes of a request, since storing goes one by one and the history looks for the last one named |
| `AnswersTheRequest` | `AnswersWhatWasAsked` | `Reads`: the ids found and those of the items left to be read make up the request (`Left`), with a separator in between after a nested list; `NestRead` says that the search for the separator finds the one of that list |
| `ReadsBackWhatWasSet` | `RoundTrip` | `Stored` and `Reads`; `ReadBackHeld` combines the conversions of both directions, and for a font shows that what is left is of the one set last |
| `DiesOfFontSet` | | `Fatal`: the process died with a font asked for that is NULL in the store, or that overruns the list; the font stored is the one set last (`Stored`), and the lists of ids are those of the request (`Reads`) |
| `SearchAdvances` | | each call of `GetICValue` takes at least one id, and by `Reads` none beyond the end; with it the loop of `_Xi18nGetIC` ends, which is what `GetAnswered` needs apart from fairness |

Induction over data is done by the lemmas of `SequenceInduction`: a set of
sequences that has the empty one, and with each one those with an element
appended, has them all (`SeqInductionOnSet`).  So that what a fold does can be
stated for all tests and steps, `Select` takes the test as a set and `FoldOver`
the step as a function.

`WinIMEInterestProofs` proves all six properties of `WinIMEInterest` for every
set of clients, addresses and mask bits.  The inductive invariant `Consistent`
joins `TypeOK`, `ListIsOwned`, `NoLeak` and `MasksAgree`, which restates
`InterestAgrees` without its CHOOSE; none is inductive alone, as taking an
entry out of the list is right only if it is the client's only one and its
resource is the one dropped.  `TypeCorrect`, `ListOwned`, `NothingLeaks` and
`Agreement` follow; the action properties `EventsReachWho` and `CauseOfCrash`
use the invariant in their first state.

`ImServerStartProofs` proves `TypeCorrect`, `OwnerIsServing`, `DeathOfTwo` and
`Stability` for every number of threads and clients.  `DiesOfTwoServers` needs
`ServedWhereServing` (a connection belongs to a thread that serves): the
thread that dies serves, and so does the one that has the connection.  Two more
theorems contain what there is to `SomeoneServes` apart from fairness.
`SettledWithServer`: when every thread has come to an end of its start-up, one
serves, unless none could connect.  Its invariant `FreeForAll` says that as long
as the selection has no owner, no thread has been refused.
`NeverBack`: a thread that moves reaches a later stage of the start-up, of which
there are seven, so that all threads do come to an end if they go on.

`ImeBridgeProofs` proves the eight safety properties of `ImeBridge` for every set
of windows and styles and all bounds.  All rest on `Base`: `TypeOK`, `IndexOK`
(contexts and ICs are numbered alike, and whatever is queued names one that
exists), `CallOK` (the event a call is about stays the first one) and
`LengthAgrees`, which `Drawn` needs in order to be a natural number.

| theorem | property | added to `Base` |
|---|---|---|
| `TypeCorrect`, `LengthsAgree` | `TypeOK`, `LengthAgrees` | nothing |
| `OneWindowAssociated` | `OneAssociation` | nothing; `Dissociated` clears the window that had the context |
| `NewestResultCommitted`, `ResultsStayInOrder` | `NewestCommitted`, `ResultsInOrder` | a result newer than the committed one has its event in the queue |
| `CallbacksNameIC` | `CallbackNamesIC` | `Named`: the id in `pCallData` is unset or the IC's own, and set once anything was drawn or committed |
| `NothingLeft` | `NoPreeditLeft` | `Ended`: of a context without composition, the last event queued ends it |
| `OneDraws` | `DrawnByOne` | `Drawing`: `fCompositionDraw` is set, or to be set by a request before every other one for that context |
| `MixedDrawsRepaired` | `DrawsRepaired` | `Texts` (attributes belong to the stored string, the cursor is in it), `Reads` (what was fetched is current, or a newer string is announced behind the event being handled), `Repaired` |

The theorems assume only the named assumptions of the modules (a nonempty set of
connections, known request kinds, styles and attribute ids, natural bounds), which TLC
evaluates in every run.

Only model-checked:

* the liveness properties (`KeysDisposed`, `RequestsAnswered`, `ResultsCommitted`,
  `SomeoneServes`, `GetAnswered`, `Arrives`) and the fairness they need, which are
  out of the prover's reach.  That the systems do not come to rest too early is
  proved for each of them: `NothingStuck` for the first two, `NewestResultCommitted`,
  `SettledWithServer` with `NeverBack`, `SearchAdvances` with `DiesOfFontSet`, and
  `NoMessageLost`;
* the four invariants of `XimFrames`, since `FrameMgr` is recursive as the code
  is, and the prover does not take recursive operators.

## 7. Not modelled

* TCP transport: not compiled (`TCPCONN` undefined).
* `XIM_EXTENSION`, status, geometry, caret and string conversion callbacks:
  never used by `winimserver.c`.
* What a font or a style means; byte swapping of frames; lists of lists and the
  operations of the frame manager that no handler calls.
* Server regeneration, and what a second `AddExtension` of the same name does
  to the event base when there are several screens (X server code).
* The reuse of connection numbers and IC ids after 65535 of them.
* Requests that are not well formed, and lists longer than the handlers' arrays.

## 8. Plan

Done: `XimServer` with `KeyRelay`, `ImeBridge`, `WinIMEInterest`,
`ImServerStart`, `IcAttributes`, `XimTransport` with `MessageChannel`, `FrameMgr`
with `ImProto` and `XimFrames`; theorems about all of them but the last, among
them that `XimServer` implements `KeyRelay` and `XimTransport` implements
`MessageChannel`.  Left, in this order:

1. Lemmas about the frame manager for flat templates (numbers, one array,
   padding), for which its recursion is not needed.
2. A second server generation: what of `ic_list`, the contexts and the threads
   survives; composition of `ImServerStart` with it.
3. Wrap-around of connection numbers and IC ids with a small modulus.
4. The caret: whether a client's caret should follow the cursor when only the
   cursor moves (`winimserver.c:522` ignores that event).
