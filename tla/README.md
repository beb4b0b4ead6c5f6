# Formal model of the UURC web gateway

UURC lets a browser page remote-control a device through the UU service. The page
talks to a *gateway* (a Node server or a Cloudflare Worker), and the gateway holds
one Socket.IO connection to a UU signal server on the page's behalf. Over that
connection the page negotiates a WebRTC session with the controlled device; picture,
sound, cursor, input and clipboard then travel between the two directly.

This directory holds TLA+ modules of the parts of the program where order and
concurrency decide correctness, TLC configurations that check them on small
instances, and TLAPS proofs of what holds for every instance. Paths below are
relative to the repository's source tree.

## 1. Inventory

| Component | State | Operations | What is hard | What makes it correct | Modules |
|---|---|---|---|---|---|
| **Node signal gateway** `backend/src/services/remoteControlService.ts`, `socketIoSignalGatewayConnector.ts` | connection, status, events, join context, request sequence numbers, generation; pending acks | start (awaits the room config, then fails over servers), stop (awaits a room clear), control (awaits an ack), SOAC, reads; Socket.IO callbacks | every `await` lets another request or a callback in; a superseded start or socket still runs | the newest admitted request owns connection, status and events; no socket leaks; every request is answered | `RemoteControlService`, `SignalGateway` |
| **Node session registry** `remoteControlSessionRegistry.ts`, `routes/remote.ts`, `routes/proxy.ts` | page session id → service, room authorization, last access, idle timer | getOrCreate, get, authorize, release, prune, evict, timers | an eviction or release while a start of that session still connects; capacity | no connection outside a registered service; only authorized rooms are started; idle sessions end | `SessionRegistry` |
| **Worker signal session** `cloudflare/src/signalSession.ts`, `signal/signalSessionStore.ts` | as the Node gateway, in memory; in storage the status, events, authorization, client deadline and alarm | the RPCs, the alarm; the constructor after an eviction | storage awaits, a late alarm, an eviction between two writes, a socket that is gone after a rebuild | as the Node gateway; nothing of an expired session is served; an authorization ends | `SignalSession`, `SignalGateway` |
| **Worker signal socket** `cloudflare/src/signal/workerSignalSocket.ts`, `socketIoWire.ts` | the WebSocket, handshake, pending acks, frame queue with its byte limit, binary packets, heartbeat | connect, emits, close, frame handlers, timers | frames are decoded asynchronously while the socket may close or be replaced | no WebSocket and no byte is lost track of; a loss is reported once; every connect ends | `WorkerSignalSocket` |
| **Worker entry** `cloudflare/src/index.ts` | none | routes a request to an RPC, passes a join on | none of its own | – | `SignalSession`, `SignalPath` |
| **Shared gateway algorithms** `shared/src/signalGateway`, `shared/src/streamer/readiness.ts` … | none | server order, room authorization, event normalisation, readiness stages | many forms of one message, a log at its limit | every form is understood; diagnostics are true | `SignalPath` |
| **Shared codecs** | none | protobuf messages | defaults that are not sent | a field means on both sides the same | `RemoteWire` (fields only) |
| **Browser signal polling** `frontend/src/controllers/useSignalGatewayController.ts` | event cursor, request version, gateway status | reads, reset, the polling effect | polls overlap each other, a reset, and a gateway that renumbers | every event reaches the session, none after a stop | `SignalPolling` |
| **Browser WebRTC session** `frontend/src/remote/browserRemoteSession.ts`, `browserRemote/` | generation, peer, processed events, queued candidates | start, close, fail, applySignalEvents | every `await` may be overtaken by a close or another start; two batches at once | candidates wait for the answer and are all applied; nothing of a closed session acts | `RemoteNegotiation` |
| **Browser room lifecycle, recovery, auto connect** `remoteRoomLifecycle.ts`, `useRemoteControlController.ts`, `useRemoteRecoveryController.ts`, `useBusyAction.ts`, `useRemoteAutoConnect.ts` | pendingJoin, pendingRelease (outside any page), stored room, busy flag, retry timer, attempts | join, start, stop, release, retries, assistance | leaving the page or choosing another device while a join is outstanding; overlapping handlers; nested busy | a late join is released, a new join waits for the old release, retrying goes on | `RemoteControlPage` |
| **Browser video watch** `diagnostics.ts`, `RemoteVideoTile.tsx`, `remoteControlPresentation.ts` … | two successive readings of getStats, samples of the video element, a streak of stalls | readings, samples, choice of the video | readings lag behind the element and the choice; counters missing from a browser | a stall said is a stall; what is broken can be repaired | `VideoWatch` |
| **Browser sound and cursor** `useRemoteAudioController.ts`, `useRemoteCursorController.ts`, `RemoteCommandBar.tsx` | the stream played, the `<audio>` element, calls of `play()`; shape, resized image, object URLs | tracks, plays, the switch; shapes, resizes, pointers | promises that settle for another stream or shape; an element that leaves the page | nothing is heard or shown of a closed session; object URLs are revoked | `RemoteAudio`, `RemoteCursor`, `RemoteStage` |
| **Browser input and clipboard** `browserRemote/input.ts`, `clipboard.ts`, `channels.ts`, `useRemoteInputController.ts`, `useRemoteClipboardController.ts`, `useRemoteMediaGeometry.ts` | held keys and buttons, queued positions; the clipboard texts, reads and writes; layout and scroll remainder | DOM handlers, channel callbacks, clipboard polls | channels that jam or close, asynchronous clipboards, layouts noticed late | the remote side holds what the user holds; a press lands where it was aimed; the newest text is shown | `RemoteInput`, `RemotePointing`, `RemoteWire`, `RemoteClipboard` |
| **Browser UU client, product account** `frontend/src/uu`, `api`, `useProductController.ts` | stored login (shared by all tabs), room session, page session id; busy flag, device list | login, device registration, import, logout, joins | overlapping actions, tabs that share the store | the login stored is of one user and one device | `ProductAccount`, `SignalPath` |
| **WISP proxy, Node shell, user interface** | – | – | – | – | not modelled |

`PROJECT.json` lists every component with what is modelled of it, and under
`hazards` the places, by line, where the code could go wrong in a way a unit test
hardly reaches, each with the properties aimed at it.

Interactions: routes and the Worker entry call the gateways; sockets call them back.
The page polls the gateway (`SignalPolling`) and feeds what it reads to the browser session
(`RemoteNegotiation`); the room lifecycle creates and ends gateway sessions and browser
sessions (`RemoteControlPage`). The browser session calls the page's video, sound, cursor
and clipboard controllers back (`RemoteStage`, `RemoteWire`, `RemoteClipboard`), input goes
the other way (`RemoteInput`). The login state is used by joins (`SignalPath`).

## 2. Plan

Done, in this order: the gateways with their abstract specification, the registry, polling
and negotiation; the page with its room lifecycle and recovery; the Worker's socket; the
data channels, clipboard, input and pointing; the watch over picture, sound and cursor; the
path of rooms and messages with the shared algorithms; the account. Proved so far: what
section 5 lists, both refinements among it.

Every invariant and action property the passing runs check is now a theorem, but for what section 5
names as only model-checked. Next: the safety parts of the liveness properties (that a request under
way always has a step to take, stated without `ENABLED`), and lemmas shared where they serve two modules. The WISP policy, a pure predicate, could become a module of its own.

## 3. How the modules read

One handler is one process: a request (an HTTP request, an RPC), a read, a session's
`start()` is an element of a set, and `pc` is the `await` it stands at. Code between two
awaits is one action, because JavaScript does not interrupt it; any other handler,
callback or timer may run at an await. Counters that tell sessions apart
(`requestSequence`, `generation`) are the numbers they are. Payloads, headers, redaction,
wording and logging are left out.

Definitions called `Faulty…` are plausible bugs of the definition that follows
them (a dropped check, an off-by-one). No specification uses them; put in place of the
original, one at a time, each makes a property fail.

History variables (marked *history* where they are declared) record what happened, for a
property to compare with.

## 4. Modules and runs

Twelve runs, one per question. Bounds are in the `.cfg` files; why they suffice is said
here. `CHECK_DEADLOCK FALSE` stands wherever a system that nobody uses any more, or whose
bounded inputs are used up, has nothing left to do: everywhere but in `node`.

### `SignalGateway`

What both gateways promise the page: a session begins once, owns the gateway until
a newer one begins or it is ended, and never comes back; only the owner moves the
status and adds to the log; a new owner starts with an empty log. `Lose` and
`Correct` describe an instance that is rebuilt: nobody owns the status that was
stored, and reading it puts it right.

### `RemoteControlService` (Node): run `node`

A start names its socket, its session and its connection object, since it owns one
socket at a time. `StartCall` takes the sequence number, `StartClaim` is
everything from the sequence check to the first `connect`, `StartConnected`,
`StartNextServer` and `StartFailed` are the continuations of `await connect()`.
`SocketConnects` and `StartConnected` are two steps: Socket.IO's `connect` callback
updates the status, the promise lets the start resume later. `CloseConnection` is
`signalConnection?.close()` with the acks it rejects.

The run checks that no socket outlives its owner (`NoOrphanSocket`), that connection, phase,
log and room clear belong to the newest admitted request (`ShowsNewestSession`), that
starts and stops take effect in the order they were issued and acks come on the session's own
connection (`RequestsKeepOrder`), the refinement of `SignalGateway`, and that every request is
answered. Three requests are the fewest with a start, a newer start or a stop, and a
send or a third claim in flight at once. Fairness: the event loop resumes every settled
await; a `connect` succeeds or fails within its timeout; the ack timer fires; a room source is
assumed to answer. Arrivals have no fairness.

### `SignalSession` (Worker): run `worker`

The same sequence checks, and in addition storage awaits (`auth`, `authorize`,
`put`, `delete`, `renewed`), the client lease with its alarm, and eviction.
Deadlines are kept as ticks left. `InputGate` tells whether the runtime holds other events
back while a handler awaits storage, as Durable Objects document; what is proved needs no
gate. `late[r]` remembers the session whose lease had run out when request `r` arrived,
`owner` the start that claimed last.

The run (three RPCs, two servers, a lease of two ticks so that a renewal differs from the
first lease, one eviction) checks ownership of the upstream socket and its authorization
(`UpstreamIsOwned`), that nothing of an expired session is sent or read however late the
alarm is (`ExpiredSessionNotServed`), that "connected" is answered only with a socket that is up
(`ConnectedIsTrue`), the refinement, and that without an eviction an authorization ends once the page
has gone (`AuthorizationEnds`; an instance lost between the awaited write of the
authorization and those of the deadline and alarm keeps it until a stop).
Fairness: storage answers, connects end, ack timers fire, time passes, due alarms are
delivered.

### `SessionRegistry` (Node): run `connections`

Sessions, their services and the idle timers; a service is reduced to its active
generation and the start whose connection it holds. The proxy's join is two steps
because the UU answer is awaited. `DELETE signal` is one step: without a room
config source `stopSignalGateway` has nothing to wait for. Three page sessions with room for
two, so that the limit bites: a connection is registered, with a room its session
joined (`ConnectionsAreOwned`), and idle sessions end (`IdleSessionsEnd`). Fairness: fetches and
connects have timeouts, time passes, timers fire. The run is shared with the Worker's socket: a behaviour
follows one of the two (`MCSignalConnections`), since they never meet.

### `SignalPolling` (page): run `polling`

A read of `refreshSignalEvents` is a process: `Ask` captures the version, the session
and the cursor and issues the requests for events and diagnostics, which the gateway
serves in either order (`ServeEvents`, `ServeDiagnostics`); `Receive` is the
continuation of `Promise.all`, `Applied` and `Sampled` those of `applySignalEvents` and
`refreshConnectionStats`. `Poll` is the interval of the polling effect, `Rerun` the
effect run again for another stage (the read under way goes on, a second may begin),
`CallRead` the read of `startBrowserRemoteSession`. `RestartsIds` chooses between the Node
gateway, which numbers events from 1 after each claim, and the Worker, which goes on.

The run has Worker numbering and three budgets: restarts; two browser sessions; failing
requests with a changing status. No event is withheld from the session it is for
(`NothingWithheld`), nothing is written after a stop or after the page was left
(`NothingAfterStop`), and the page ends up with the gateway's status (`StatusConverges`). Two reads
are enough for every pair of overlapping continuations. Fairness: requests have a
deadline of 35 s (`httpClient.ts`), so each is served or fails; the interval fires again.

### `RemoteNegotiation` (page): run `negotiation`

A session object is started once and never again; `useBrowserRemoteSessionController`
creates, closes and times it out (`SessionStarts`, `SessionCloses`, `TimesOut`). The
flows in a session are its `start()` and the reads that bring events. Every continuation
begins with the code's generation check: `Current` to go on, `Aborted` or `Overtaken`
otherwise. `applySignalEvents` handles a batch event by event; `NextEvent` is the moment an
event counts as processed, which comes after its awaits, so two reads may apply one event. A
browser chains the operations of one peer; the model lets them finish in any order, which
covers the chain. `Tagged` says that events carry the ids of their session, as the UU
servers send them; each of the `Settings` gives the number of sessions, reads and events,
and whether the peer has `getStats` and may reject candidates.

No candidate is lost and none reaches another session (`EventsReachTheirSession`), the page shows
its current session unless statistics return late (`UiShowsSession`), a closed session sends no
offer (`NoOfferAfterClose`), and no wait lasts forever (`NegotiationEnds`; fairness: only the timer of
the controller). Two reads meet in one session object only, so one session shows what they
do to each other; two sessions meet through the page, the log and the cursor. Three
events are the fewest for an answer with two queued candidates, which is where a flush may
lose one.

### `RemoteControlPage`: run `page`

The handlers of the control page (join, start, stop, release, reconnect, auto connect,
remote assistance of the product shell), each in a slot of `ops`; `pendingJoin` and `release` are
the promises `remoteRoomLifecycle.ts` keeps outside of any page, so they outlive it. Rooms are
counted where they live, at the UU service (`rooms`), and the page's gateway is reduced to what
`SignalGateway` promises: the start that claimed last (`claim`) will own it, and one that was overruled is
answered with the newest one's status.

A handler begins when the page is not busy (`Ready`), and nothing else holds it back. Every run of
`useBusyAction` ends with `setBusy(null)`, one nested in a handler that still waits as well, so handlers
of one page overlap: the join in a reconnection clears the flag, and while the gateway is awaited
the recovery timer or a button begins the next handler. A handler works with the room context of the
render it was created in (`ctx`, `was`). Whoever awaited a promise goes on in the turn that settles
it, before the next timer, answer or click (`GoesOn`, `TurnEnded`, `Event`).

Three budgets (`Budgets`): two mounts, of two devices or of one, because what a page leaves behind matters
to the next one, with one button pressed and one fault; one mount with two faults, where the recovery
overlaps itself without any button; and one mount with two presses and a fault, so that a second stop follows
a first that failed. A fault is a lost or refused call or a broken connection. Two slots: every pair of
handlers overlaps, of one page or of two.

`NoRoomLeftBehind`: once the page is left and all is answered, no room is left but those whose
requests were lost and those that joined while another release was pending. `PageOwnsWhatRuns`: one
open session at most, the gateway shown is one's own, starts use their own room, and a page on
which nothing runs is not busy and offers a real next step (`OffersAreReal`). `JoinsAreOrdered`: a join waits
for the releases and joins of earlier pages, but for joins that `pendingJoin` has forgotten: two handlers of a page
that waited for the same release send their joins in one turn, and the variable keeps the last (`forgotten`).
That takes a third handler which clears busy, so with two slots `forgotten` stays empty and the run checks
the property without the exception; the theorem has it. `RetriesGoOn`: retrying does not stall, unless the
attempts overrule each other (`Overruled`). Fairness: requests are answered or time out, polls and timers fire,
a session that may connect does.

The run `overlapping_starts` takes one page, two faults and no button and shows that two of its starts are on
their way at once (`OneConnectAtATime`, section 6).

### `WorkerSignalSocket`: run `connections`

One object, several `connect()` calls; attempt *i* has WebSocket *i*. Every frame enters a chain
of promises, so frames are decoded one at a time although decoding awaits, and a frame accepted on
a released socket still passes through its chain. Frames are told apart as far as the code does, and
the size of a frame is one unit or too large. Two connects, two requests, four frames of size one and
a limit of `4 * MaxFrame`, so that the queue fills; two attachments, so that a packet is
interrupted. No WebSocket without owner, `queuedBytes` is what the chains hold, packets and answers
come from the socket they are taken for (`SocketIsOwned`); a lost connection was closed or
reported, once (`LossIsReported`); connects settle and a silent server's socket is let go (`EverythingEnds`).
Fairness: the timeouts of the handshake and heartbeat, promise continuations.

### `RemoteClipboard`: run `clipboard`

Reads of the remote text (assembled from blocks that arrive on two channels), writes to the local
clipboard and the user's toggle. What a JavaScript turn does together is one step. Texts are one block,
several, too long to be read, or cut short by a lost block. The page shows the newest remote text or says
that it could not be written, a read ends, nothing is written while synchronisation is off, and a text
counted whole is whole (`PageShowsTheTruth`); with the channels open the page comes to know the text the
remote side keeps (`RemoteTextIsHeard`; fairness: reads, writes, messages, polls and timers end).
Two block keys and two waiting writes are enough for a read and the one it supersedes.

### `RemoteInput`, `RemotePointing`, `RemoteWire`: run `input`

Three independent parts of one stage; a behaviour follows one of them (`scope`).

- `RemoteInput`: keys, buttons, pointer moves, focus and paste against a channel that jams, closes and
  comes back. What the remote side holds is what the page has recorded and can release, keys follow the
  user, a press lands at the position it was made at and the pointer never moves back
  (`InputFollowsUser`); one shortcut pastes once and a late clipboard read pastes nothing
  (`NoLatePaste`). A position is the number of its event, so order is all that counts. The keys are two of
  one family, on a Mac and elsewhere.
- `RemotePointing`: where a press, move or wheel lands on the remote screen, in exact numbers (fractions as
  numerator and denominator, wheel deltas in halves of a pixel, the remainder in quarters). The page is told
  of a layout late; presses and wheels measure anew, moves may use the former layout. A wheel
  whose position cannot be sent is lost. `PointerIsTrue` says that the pixel sent is the one under the
  pointer, to within half a pixel, that the overlay is where the pointer is, and that scroll remainders
  add up. Three layouts (wide, tall, not laid out), two videos of which one changes its shape, a point inside
  and one outside, one wheel.
- `RemoteWire`: messages of the control and text channels, own and created by the device, over two
  sessions, with frames converted late. `WireIsOwn`: the page shows its own session, inputs go to the display the
  device wants them for, echo requests are answered once, sequence numbers are fresh. Display id 0 is not on
  the wire (proto3 drops it), and a capture with that id falls back to `remoteDisplayId`; `sendTextData` has
  no such fallback.

### `VideoWatch`, `RemoteAudio`, `RemoteCursor` in `RemoteStage`: runs `stage`, `toolbar_sound`

`RemoteStage` is what the page builds around a session and takes down with it; a behaviour follows
the video, the sound or the cursor, along with the tracks, the channel and the session they share.

- `VideoWatch`: a counter of the browser is compared only with its own former value, so it is
  modelled by what it did since. Readings settle in order. The tracks take their names in the order they
  come until the user chooses one, which loses nothing: until then they differ in their age only. `WatchIsHonest`: a
  stall the recovery hook acts on is one the browser had (the picture stood through two readings in a row,
  or nothing came between two; two readings that follow each other closely, as at a change of stage, may
  find nothing although the network is well, and a hidden page stands still), the hook reconnects only where
  the page offers a way out, and what would be rebuilt is not called good. `FreezeIsNoticed`: under polling, a frozen picture
  is noticed.
- `RemoteAudio`: calls of `play()` that settle for a stream or element of before. `SoundIsHonest`: what is
  said to play does, as long as the toolbar is shown, and nothing is heard of a closed session. In the run
  `toolbar_sound` the toolbar collapses: **finding** (`RemoteCommandBar.tsx:96`), the `<audio>` element leaves the page
  with it, and the page goes on saying that the sound plays.
- `RemoteCursor`: shapes, resizes for an earlier shape, object URLs, the overlay. `CursorFollowsSession`: the
  cursor shown is the device's, URLs are revoked, the heartbeat runs exactly as long as the channel. The
  first shape of a second session that comes before its video is dropped, and a new overlay is
  invisible until the pointer moves or a shape comes.

Two tracks, two sounds, two elements and two shapes make a former and a present one; one further change of
the surroundings is enough for each exception of the code. The browsers report all counters or one.
Fairness (`FreezeIsNoticed` only): samples are shown and the poll fires.

### `SignalPath`, `ProductAccount`: run `path`

A behaviour follows a room or the account.

- `SignalPath`: the join answer that the page stores and the proxy authorizes, the start of the gateway with
  it, every form of a message from the wire through the event log to the session and the diagnostics. A JSON
  value is a record of the fields somebody reads. `JoinedRoomStarts`: the room the page offers is one the server
  authorized (but for the last tick of its life, and a room the page stores from an answer with an error
  code). `AnswersAreHeard`: whatever form the device chooses, an answer or candidate arrives once, at its own
  session. `DiagnosticsTrue`: stage and blocker are true, and complete while nothing was evicted. Budgets: rooms
  in every order (two joins, five changes); one session with a change; two sessions with two messages each;
  a log of five events, so that it overflows.
- `ProductAccount`: logins, device registrations, imports and logouts of two visits, five tasks, one user
  and one kept login state. `AccountIsCoherent`: what is stored is of one user and one device, a busy page waits for
  a task under way, and an only page shows what is stored.

## 5. Proofs

Every theorem below is checked by TLAPS from the named assumptions of the module it is about; the
inductive invariants were found with TLC on the runs' instances first.

- `RemoteControlServiceProofs`: any requests, any number of servers, with or without a room config source.
  The invariant `IInv` adds to the properties the *numbering* (generations are unique and grow with the
  sequence numbers of the claims), the *places* (where a start stands tells the state of its socket), the
  *status owner* (while the newest claim is a start, the status names it) and the retained events. Without
  the numbering one could not tell the newest claim; without the places a late connect could revive a socket
  of a finished start. `TypeCorrect`, `Invariance`, `NoSocketLeaks`, `NewestWins`, `IssueOrder`,
  `AckedByCurrentConnection`, `OrderKept`, and `ImplementsTheGateway`: initial states map to initial states
  and each action to a step of `SignalGateway` or a stutter.
- `SignalSessionProofs`: any requests, servers, lease and number of evictions, with or without the input gate.
  `Inv` ties memory, storage and flight together: what a request that waits in storage still knows may
  have been taken over meanwhile, and an eviction forgets the memory but not the storage. Hence its parts say
  for each place what an *unsuperseded* request may rely on, and what a stored record implies when there is
  nobody left in memory to own it. `InvInductive`, `UpstreamStaysOwned`, `ExpiredStaysUnserved`,
  `ConnectedStaysTrue`, `ImplementsTheGateway`.
- `ConnectionProofs`: who owns a connection, on either server, and what the page reads off it. Node's registry, for any requests, sessions, rooms and
  services: a service is registered for one session, a start that may still connect was neither stopped nor
  evicted nor replaced (or its generation is old), and a connection's start is done. `ConnectionsStayOwned`; and,
  for finitely many sessions (`IsFiniteSet(Sessions)`, without which there is no cardinality to speak of),
  `RegistryIsBounded`. The Worker's socket, for any attempts, frames, requests, attachments and limits, in three
  invariants. The first says what the stage of a `connect()` tells of the object's fields: only the newest attempt has
  them, its socket is the object's from its handshake on, and whoever waits for a handshake has not returned.
  Therefore a socket that is let go of while somebody waits is no loss to report. The second ties requests to the
  socket they were sent on, the third the byte count to the frames in the chains, counted as a set.
  `NothingIsLostTrackOf`, `LossesAreReported`. The page's polling, for any reads and budgets. `LateReadsAreDropped`, for
  either numbering: a read never carries a version the page has not reached, and once the gateway is stopped or the
  page left nothing polls and every read in flight carries an earlier version. `EventsAreHandedOver` assumes
  `~RestartsIds`, the Worker's numbering; with the Node's it is false (section 6). The invariant follows the cursor: no
  read in flight has one above the page's own of the same version, and the events between the cursor and a
  read's answer are in that answer. What the newest unread event is follows from a least-number argument
  (`WFMin` over the natural numbers).
- `SignalPathProofs`: from the login to a room that starts, and from the device to the diagnostics. Account, for any users, kept login states, visits and tasks:
  `AccountStaysCoherent`; the invariant adds what a task *will* write when its device is registered, since it
  carries a login state through two awaits in which others write the store, and that a device registered by the
  only visit is still to be shown. Rooms, for any room configs and lifetimes: `RoomsStart`. Its invariant `Covered` says of
  a stored room of this page that the server's authorization has the same token and servers and lives
  at least as long as the room, unless the server has ended the session; that a join answer is read as the one
  room in it, wherever the search meets it, is a lemma. Messages, for any size of the log, any farewells, sessions and
  budgets: `PathIsKept`, `EverythingIsHeard`, `DiagnosticsStayTrue`. The properties speak of a session that has read
  everything, and are not inductive. The invariant `PathInv` says instead what the session *will* have heard once it
  has read the rest of the log (`Heard`: `Applied(browser, cursor, log)` is what it was told); that the ids in the log are
  consecutive, so that what an overflow evicts is the oldest; that the log speaks only to sessions that have offered
  (`Addressed`); and of each step of the diagnosis that it is a fact if an entry shows it, and conversely while nothing was
  evicted (`Known`), the last offer and farewell included. Lemmas show of every form, packing and type that the gateway
  records the same event for it, after the notice of the push if it was one. `Applied` is a fold over the log:
  it is unfolded to a function on the sets of places (`AppliedUnfolds`) and reasoned about event by event.
- `RemoteNegotiationProofs`: any sessions, reads, events and settings. Two halves over different variables: a session
  whose generation is not its live one is blank, and a flow about to change a session carries the live
  generation. The second is needed because a read may be served while its session has already failed: it then
  carries the *closed* generation, passes the check, and is harmless only because the session has no peer any
  more. `Invariance`, `ClosedForGood`, `OffersAreLive`, `QueueIsFlushed`; `PageShowsItsSession` adds that only the
  current session is live and that what was published last is its state; `EventsAreOwn` and `EventsArrive` assume
  `Tagged` and add that reads and sessions hold their own events, at which peer a flow works, and where every
  candidate is that a session has been given: applied, queued, in a flush, or in the hands of a read.
- `RemoteControlPageProofs`: any devices, handlers, pages, faults. `NoRoomIsLeft` holds however handlers overlap; its
  invariant names who will give up each room: the page, the pending release, a join that was served, the
  assistance, or nobody any more. `PageOwns` and `JoinsWait` hold for any overlap too, nested runs included. Their invariant turns
  on `WentAlone`: `pendingJoin` names a join not yet answered and cleaned up, all others not yet settled are its
  own page's or are `forgotten`, and whoever has waited for it, or works on a page that has a session or retries,
  never meets a join of an earlier page again that is not forgotten. Only therefore is the stored room, which late
  answers write too, the one of the page that starts its gateway with it. A late answer of a forgotten join may
  store another room under an assistance page, whose reconnection starts with what is stored (`Misled`).
- `RemoteStageProofs`: any tracks, sounds, displays, browsers and bounds. Picture (`WatchStaysHonest`): the hook counts no
  more stalls than the statistics had in a row, which needs what each browser's counters tell. Sound
  (`SoundStaysHonest`): one stream is at once the active one, the element's and the one shown, so that only the last
  `play()` of an element that is still the page's says whether there is sound. Cursor and control channel
  (`CursorStaysWithSession`): the object URLs alive are exactly those made for the shape on show, and neither the
  overlay nor the style shows another. Each part has an invariant kept by its own steps; `StageInvariance` joins them over what they owe the
  session: without a session the watch, the sound and the cursor have nothing.

- `RemoteDataProofs`: the data channels, for any modifiers, pointers, displays and bounds. Input in three parts over
  variables of their own: keys and buttons the remote side holds are recorded; every position that waits was
  made after the one the remote pointer is at, and one that waits for its frame after those that wait for the
  buffer; while a clipboard read runs nothing was entered since its shortcut, and a paste event that may still come
  is suppressed if it could paste a second time. `InputFollows`, `PastesOnce`. Messages (`WireIsOwn`): that the page's
  display is the one the device asked for last is not inductive, for frames of blobs are converted late. The
  invariant adds where such a wish is meanwhile, namely in the last frame of the page's own session still to be
  converted that holds one, and that what is unanswered is exactly what those frames ask. Lemmas show for each
  message of the device that it is read as it was written. `WireInvariance`, `WireStaysOwn`. Clipboards: what the page
  says (`PageInv`) needs that the text last in line is the one last taken and that a page switched off offers none;
  that a counted read is whole needs `Answered`: every count and block with the key of the pending read, here
  or on the way, belongs to the text asked for, since a key is used again only when nothing with it is on the way. It
  is assumed that only the empty text is sent in no block. `ClipboardInvariance`, `ClipboardTruth`. Pointing: the
  invariant says that a page that was told of every change computes with the picture as it is. The arithmetic is proved
  once: rounding and clamping name the pixel nearest to an offset (`RoundedIs`), this does not depend on how
  the scale is written as a fraction (`Rescaled`), and the scale `ScaleOf` takes is the one the browser paints with,
  though where both axes fit it may be the other fraction (`PaintedIs`). `PointingInvariance`, `PointingIsTrue`.

Only model-checked: liveness and everything else that rests on fairness or `ENABLED`, which the prover does not
reach (`EveryRequestAnswered`, `AuthorizationEnds`, `IdleSessionsEnd`, `StatusConverges`, `NegotiationEnds`, `RetriesGoOn`,
`EverythingEnds`, `RemoteTextIsHeard`, `FreezeIsNoticed`). The library's induction theorems take an operator as a
parameter and cannot be used; where a proof counts (the fold over the log, the newest unread event, the budgets of a
read) it applies well-founded induction to a set of numbers (`CountingUp`, `WFMin`). The parsers behind the forms of
a message are not proved about: a message is a record of the fields somebody reads.

## 6. What the models say that the documents do not

The runs `toolbar_sound` and `overlapping_starts` check two disagreements of code and documents (`findings`). Others were met
while modelling; the properties above are stated so that they hold with them, and no run repeats them:

- Node gateway: a disconnect handled between Socket.IO's `connect` callback and the continuation of the start is
  overwritten by "connected" (`remoteControlService.ts:163`, against `remoteControlService.test.ts:295`).
- Polling with Node's numbering: a read issued after `resetSignalEvents` and served before the new start claims
  moves the cursor over numbers that the new run will use again.
- Negotiation: an answer may be applied before the request that sent the offer returns, and `start()` then puts the
  session back to "offered" (`browserRemoteSession.ts:316`); statistics of a closed session are published
  (`:438`) and hide its successor until the next poll.
- Rooms: a late join released while another release is pending is not cleared (against
  `implementation-notes.md:29`). On an assistance page whose gateway failed, the button to connect again joins the
  partner's device as an own one. Two handlers that waited for one release send their joins together, and a new
  page waits for one of them only (against `implementation-notes.md:29`).
- Recovery: the join nested in a reconnection ends its busy state (`useBusyAction.ts:22`), and the timer begins a second one
  beside it (run `overlapping_starts`, against CON-02 of the audit, `docs/project-audit-2026-09-05.zh-CN.md:157`).
  The newer start overrules the older, whose handler gives up; with a gateway that always takes longer
  than the timer (5 s at most) and the next join, no attempt is ever answered, which `RetriesGoOn` excepts.
- Worker: `getDiagnostics` reads the events before the lease check (`signalSession.ts:86`), so the first diagnostics
  after the deadline are computed from the expired session. An instance lost between writing the authorization
  and the deadline keeps it until a stop.
- Clipboard and input: a text whose blocks lack an announced count is cut by the 2 s settle timer; an older local text may be
  sent over a newer remote one; a right Control or Command is held during a paste.
- Account: after a logout and import, a late list of the old account's devices is shown; the busy state may be cleared early;
  overlapping login and import leave the list unloaded, which `DeviceListPage.tsx:35` shows as loading; tabs
  share the login without a `storage` event (docs audit R-04, `implementation-notes.md:137`), and `createMobileDevice`
  writes back an earlier snapshot.

## 7. Not modelled

User interface and styles, the Node shell and asset serving, byte layouts of the codecs, redaction and request
parsing: no concurrency of their own, and unit tests with fixed vectors suit them better. The WISP proxy is a stateless
policy in front of a third-party server. Positions within a shape, volumes, incoming channels nothing is sent
on and the debug log are left out of the modules that are modelled.
