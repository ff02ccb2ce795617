# JinzTS in TLA+

JinzTS is a TeamSpeak client in the browser. A page (`apps/web`, Vue) talks over one websocket to
the *hub* (`apps/hub`, Node), which owns a real TeamSpeak connection per page, relays voice and
state, transfers files, shares music bots between pages and keeps the video rooms of the channels.
`packages/protocol` holds the message schemas both sides parse.

Nearly everything that can go wrong here is an ordering of asynchronous handlers. Hub and page are
one thread each, but every websocket message, HTTP request, click and timer starts an async function
without waiting for the one before it (`Session.onMessage`, the watchers of `stores/rtc.ts`), so
they interleave at every `await`, and a value read before an await is used after it. The models
therefore make **one action of the code between two awaits**, and let the server, the browser, the
user and the clock act in between.

## 1. The system and what is modelled

### Components with a model

Paths are under `src/apps/hub/src`, those of pages under `src/apps/web/src`.

| Component | State it keeps | Operations | Module |
| --- | --- | --- | --- |
| Browser session, `session/Session.ts`, `session/registry.ts` | the current connection, closed, the music link | connect, disconnect, dispose, attachMusic/detachMusic, onClosed, onSelfChannel | `HubSession`, `PatientPage` |
| TeamSpeak connection, `gateway/TsSession.ts` | the driver client, closed, attempts | connect/attempt/retry, disconnect, finish | `HubSession` |
| Command queue and transfer inits, `gateway/TsSession.ts`, `files/ft-waiters.ts` | queue, collector, last failed permission, waiters | runCommand, initFileTransfer, onRaw, teardownClient, finish | `ServerCommands` |
| Server guard, `gateway/server-guard.ts` | command budget; pace queue, its depth, flood flag | tsCmdSlot; paced, noteFlood | `ServerGuard`; `PacedRequests` |
| Paced requests, `gateway/paced-requests.ts` | keys that wait, generation, batch run | request, clear, schedule | `PacedRequests` |
| Own permissions, `gateway/own-perms.ts` | values, flags to report, powers, the flush | add, refreshPowers, start, reset, schedule, flush | `OwnPerms` |
| Channels, `gateway/channel-order.ts`, `TsSession.onCommand`; page `stores/ts.ts`, `ts/tree.ts` | each channel's parent and order, on both sides | created, moved, deleted, relinking, patches, snapshot, sorting | `ChannelOrder` |
| Clients in view, `TsSession.onCommand`, `gateway/subscriptions.ts`; page `stores/ts.ts` | clients and subscribed flags, on both sides | enter view, move, leave view, subscribe, unsubscribe, snapshot | `ClientView` |
| Icons, `gateway/asset-cache.ts`, `TsSession.cachedAsset`, `files/routes.ts` | what is remembered, the shared download | fetch, remember, forget | `AssetCache` |
| Bot bridge and its pool, `musicbot/` | cookie, websocket, retry timer, stopped; references | start, connectWs, login, scheduleReconnect, stop; acquire, release | `BotBridge`; `HubSession` |
| Media links, `files/media-routes.ts`, `files/media-tickets.ts` | links, live streams, kept transfers, slots | POST, GET, claim, cut, finish, sweep, revocation | `MediaStreams` |
| Downloads and uploads, `files/routes.ts`, `files/tickets.ts`, `files/transfer-slots.ts` | three slot counters, links, reservations, timers | POST link, GET link, expiry, PUT upload | `FileTransfers`, `SlotPool` |
| Stored stickers, `stickers/store.ts`, `storage/` | index and pictures on disk, entries in memory | load, sweep, add, remove, persist, collect | `StickerStore` |
| Rooms and video presence, `rooms/RoomRegistry.ts` with its callers | members of each room, room of each session | join, leave, setVideo, setPublishing, broadcast | `RoomRegistry` |
| Page: link, connection, commands; `ts/connection.ts`, `ts/reconnect.ts`, `stores/ts.ts`, `ts/commands.ts` | socket, redial, shown state, last request, retry, promises | open, redial, replay, connect, reconnect, retry, disconnect, apply, run | `PageLink` |
| Page: video room, `stores/rtc.ts` | intent, state, the slot of the join, rooms, the screen capture | join, leave, share, the two watchers | `VideoRoom` |
| Page: mesh, `rtc/mesh.ts` | signaling state, offers, the queue of signals | negotiate, apply | `MeshNegotiation` |
| Page: transfers, `files/transfer-queue.ts`, `stores/transfers.ts` | the line, deferred ones, timers | add, pump, run, cancel, session gone | `TransferQueue` |

How they meet:

* the page's messages reach `Session`; it makes a `TsSession`, calls it, and is called back through
  `onSelfChannel`, `onClosed`, `onBanned`. `PageLink` is the page's side with what the session
  answers; how a session unwinds connections that overlap is `HubSession`'s matter;
* `Session.dropTs` and the end of a `TsSession` tell `SessionRegistry`, whose listener
  `revokeEnded` drops media links and cuts their streams. `HubSession` proves that this call comes
  exactly when a session lets go of a connection (`AnnouncedWhenLetGo`); `MediaStreams` relies on
  it: its `ConnectionEnds` lets go of a connection and revokes in one step;
* the file and media routes ask the registry whether their caller is still connected
  (`getConnected`), call `TsSession.initFileTransfer` (the init and waiter of `ServerCommands`) and
  stream from the server's file port. Media streams and downloads take slots through one pair of
  functions; each model bounds its own use of them;
* every command a connection sends passes the budget of `ServerGuard`, those it sends on its own
  (subscribes, descriptions, icons) also the pace queue of `PacedRequests`;
* `Session` places itself in `RoomRegistry` when its channel becomes known and leaves when a
  connection closes; `VideoRoom` is the page that asks for, and follows, that membership;
* the page's line of transfers (`TransferQueue`) meets the hub's slots as "busy", which they end
  (`GivesBack`).

Where two modules share an object, the one that owns it is the detailed one and the other keeps only
its observable part (`FileTransfers.connected`, `MediaStreams.cur`, `RoomRegistry.link`,
`PageLink.ts`).

### Not modelled

| Component | Why |
| --- | --- |
| Command building and answers, wire protocol | data without state: validated, escaped, formatted; the unit tests cover it |
| Limits and admission | arithmetic on clocks; in every model "admitted or not" is a free choice |
| Asset tokens | one synchronous map with a clock |
| Groups of a server | the rows of a list are `ServerCommands`'; merging them is formatting |
| Music routes, routes of profiles, sounds, stickers and web apps, file helpers, hub http, speech, start-up | forwarding, checks and byte streams; in the models a stream ends well or badly at any time |
| Video signalling | relays without state; what a late token does is in `RoomRegistry` |
| Page: voice | audio graphs and timing, which states and steps do not describe well |
| Page: windows, chat, notifications, sounds, identity, bookmarks, settings, music, stickers, apps, mobile, derived views, translations | presentation, local storage and pure functions of what the hub sent. They are by far the largest part of the 77 000 lines |
| Build, deployment, driver patch | not part of the running system; the driver itself is external |

Of the modelled components only `PacedRequests` is complete; `PROJECT.json` says of each of the
others what is left out. It also lists every hazard at the line where it bites, with its
properties. One has none: an upload refused late has spent an init (`routes.ts:379`), and inits are
a budget, which the models leave open.

## 2. The modules

Each definition carries the source's name where TLA+ allows, and `PROJECT.json` maps it to its
lines. Definitions whose comment begins `(Mutant:` are plausible bugs; they are not part of any
`Next`, and each property is known to be violated when one of them replaces the definition it
follows. Of each module, what follows is what its own comments do not say.

**HubSession** keeps, per session, the connection it owns (`cur`), and per connection the await at
which `Session.connect` stands (`pc`), its driver client, who awaits its goodbye (`closing`) and its
`attachMusic` (`attach`). `Connect` begins a handler that `NextAttempt`, `Dial`, `HandshakeDone`,
`HandshakeTimeout`, `ConnectFails` and `Subscribed` carry on; `ClientGone`,
`Kicked`, `SelfBanned`, `SelfMoved` are the server's doing (a kick and a ban tell the page that all is
over while the session still owns the connection); a disconnect is two halves, `UserDisconnect` or `Dispose` and
`GoodbyeDone`. A page may connect again while an earlier connection still unwinds, and the code
accepts it.

**PatientPage** is `HubSession` behind either kind of page: one that does so, and one that waits
until nothing is in flight (`patient`). What the source says of *the* connection of a session is
true behind the second kind only, and is stated there.

**ServerCommands.** The server works through one client's commands in order and may stop at any
time; the driver settles a command's promise with its error line (`Settles`); the code behind the await goes on in a
step of its own (`Resumes`), and more lines may come in between. The error line of a command that
timed out, or of one outside the queue, still passes through `onRaw`. A row's content is the
command it answers: `rows` keeps which answers a list was made of. A failed handshake may tear the
client down at any moment (more than the code does).

**OwnPerms**, **PacedRequests**, **ServerGuard**, **ChannelOrder**, **ClientView**, **AssetCache**,
**BotBridge** are the other parts of a connection in the hub. `ServerGuard` keeps the bucket as the
code does, as one number, beside the history of slots it booked. `ChannelOrder` and `ClientView`
have the server, the hub and the page, with a FIFO between the last two; the server announces what
it does and is silent where the real one is. In `AssetCache` a download waits, asks, and is answered
in separate steps; `excused` holds the icons whose entry may be behind for a reason the module
names.

**MediaStreams.** A link is past its lifetime whenever the sweep or a GET says so; an open is
granted or not; byte ranges, headers and the removal of a stream's socket are not state.

**FileTransfers** implements **SlotPool**, the abstract specification: a set `holding` of transfers,
`Take` within the session's and the hub's limits with one slot left for an upload, `Give`; its fair
version promises that each slot comes back. The refinement maps `holding` to the transfers that run
(`Holding`).

**StickerStore.** Every operation is synchronous, so a step is one write, and the hub may die
between any two. `trouble` is the environment's: nothing, an index that may be unreadable at a
start, or writes that may fail. `promised` is what people were told is stored.

**RoomRegistry.** `SelfChannel`, `Disconnect`, `Closed`, `Dispose`, `JoinMesh`, `JoinLiveKit`,
`TokenMinted`, `LeaveVideo`, `Publish` are the session's handlers; `Join`, `Leave`, `Replace`,
`SetVideo`, `SetPublishing` the registry's methods, each with the broadcast it ends in.

**PageLink.** Each websocket carries two FIFO channels and meets a hub session of its own. A user
acts on what is true, or, when `hasty`, on what the page still shows. `twice` is a
history variable: the link opened with both a request to replay and a form that had waited for it,
so two connects went out.

**VideoRoom.** The page is one record (`page`), since each of its handlers touches much of it.
`steady` says that nothing happens (moves, drops, returns) while a join, a close or a picker is under
way. **MeshNegotiation** has two peers with the browser's chain of operations, signaling states and
the rule when `negotiationneeded` fires as its environment. **TransferQueue** separates a deferred
transfer's time (`Ripens`) from its timer, and the runs that still await an answer from the transfers
that count as running.

**MC modules.** `MCPatientPage` (with `MCHubSession`) and `MCRoomRegistry` instantiate one module;
`MCGateway`, `MCFiles` and `MCPage` host several, which share no state: the initial state chooses
the `part` that works and the others stay as they start. So each part is checked exactly as if
alone, and a run has one part's states beside another's, not their product. `MCServerCommands`,
`MCPageLink`, `MCVideoRoom` and `MCStickerStore` serve the runs that expect a violation. Symmetry is
used only in `rooms`, which has no liveness.

## 3. The runs

| Run | Instance | Question |
| --- | --- | --- |
| `session` | one session, three connections, two bots, two attempts, one pooled bridge; a hasty page connects twice, one of the two with a retry, a patient one three times without | references, end notices, answers to connects; for the patient page one client, none left behind, room, panel and page follow the current connection |
| `gateway`, commands | two lists of one kind, a transfer init, two pushed notifications | rows, blame and waiters under timeouts, failed handshakes and the end of the session; each call settles |
| own permissions | two flags, a power, four changes | the page's set is right once nothing is in flight |
| paced requests | two keys, queue of two, four runs, two clears, with and without batch | each wanted key goes out once, none that was cleared |
| budget | burst 2, refill 3, spacing 1, wait 4; nine ticks, six slots | the burst and the refill are never exceeded |
| channels | three channels, three changes | the page lists them as the server does |
| clients | two others, two channels, three changes | the page shows who is reported, no ghosts |
| icons | one icon | the cache is right but for two reasons |
| bot | one bridge | one way back, none after stop |
| `files`, media | one session, two connections, three links to two files, two GETs, one slot, two links allowed | slots, cuts, takeovers, eviction, refused seeks; slots come back |
| transfers | two downloads and an icon of one session, an upload of another; 2 slots, 2 hub-wide, 1 live link | counters, the refinement to `SlotPool` with its fairness |
| stickers | two entries, two pictures; no trouble, unreadable index, full disk | what is promised survives crashes |
| `rooms` | two sessions, two channels, camera and screen, both backends | indexes, placement, views |
| `page`, link | two requests, one command, three retries | the page agrees with the hub session, one connect under way (two where a form waited for a redial), no promise forgotten, connecting ends |
| mesh | two peers, three changes each | they end in agreement |
| video | two channels, two joins, two events, mesh and LiveKit, steady and not | room in sync, the share survives a drop |
| transfers | four, one of them internal, two at once | the limit holds and the line moves on |
| `session_stale_failure`, `session_late_goodbye`, `commands_late_rows`, `rooms_late_token`, `page_wrong_server`, `video_out_of_sync`, `sticker_blind_removal` | the smallest that shows it | seven promises of the source that the code does not keep (section 5) |

**Why these bounds are enough.** In each part an error needs a small number of parties:

* *Sessions and connections.* Two connections of a session is the smallest instance in which a late
  event of one meets the other; three let a second fail late while a third is up. Two attempts are
  needed for a client that is torn down and made again. With two bots the second connection's music
  differs from the first one's, and a pool of one makes `acquire` refuse.
* *Commands.* A list can be disturbed by an earlier list of its own name, a pushed notification and
  a command of another kind. The init has both its answers in either order. The two lists are alike,
  so `MCGateway` has the second asked for once the first is queued.
* *Permissions, paced requests, icons.* One change before, one during and one after each await; a
  run of an earlier generation in front of one of the present. The budget's instance holds two full
  bursts and a refusal.
* *Channels and clients.* Three channels are a chain with a middle, and a parent with a child; three
  changes let a move follow a creation and precede a deletion.
* *Media and files.* Two GETs are one that plays and one that takes over or is refused; three links
  with two allowed make the cap evict, and two name one file. With one slot a release counted twice
  would show. Four transfers meet two slots, the hub-wide cap and the one live link.
* *Stickers.* Two entries that share a picture, and a second picture; the dangers are between the
  writes of one operation, and every such place is a state.
* *Page.* A second request is what a replay of the first can be mistaken for. In `MCPage` a hasty
  user asks for a command of a page that shows a connection, or submits a second request or one for
  a link that is to be replayed on, not both (`Bounded`), and acts while fewer
  than `MaxOutstanding` = 2 of its requests are outstanding. Two joins and two events let the second
  join meet the first one's timer; four transfers over two slots leave two in line.

The bounds of the models themselves are limits of the code (`MaxAttempts`, `MaxPooled`, `Slots`,
`MaxLinks`, `MaxTransfers`, `MaxHub`, `MaxTickets`, `MaxDepth`, `Burst`, `Refill`, `Spacing`,
`MaxWait`, `Retries`, `Parallel`) or marked `bound:` where they are declared (`MaxChanges`,
`MaxRuns`, `MaxClears`, `MaxTime`, `MaxSlots`, `MaxTreeChanges`, `MaxViewChanges`, `MaxOutstanding`,
`MaxTracks`, `MaxJoins`, `MaxEvents`, `MaxSeq`). Each connection, command, link, request and transfer
is used once.

`CHECK_DEADLOCK FALSE` is set in every run, because in each instance everything may come to an end:
each connection has been used, each command asked, each page is gone.

## 4. Fairness

Fairness is asked of what hub and page end themselves, and only weakly:

* `HubSession`: a step out of each await of the connect handler (lookups, handshakes and the
  subscribe-all have timeouts), `Vetted` and `Acquired` (the bot's start has one), `GoodbyeDone`
  (the driver's disconnect settles);
* `ServerCommands`: a turn of the queue, the grant or refusal of the budget, the driver's timeout,
  the waiter's timer. Nothing is asked of the server, so `EveryCallSettles` covers one that has gone
  silent;
* `MediaStreams`: `StreamStep` of each request. Inits and dials are answered or time out, and a
  pipeline settles since its file is finite and the stall guard ends one nobody reads;
* `FileTransfers`: the init, the link's lifetime and timer, the dial, the close of a response, the
  end of an upload, for the same reasons. Uploads that still read an icon are not forced, since they
  hold no slot;
* `PageLink`: a socket being opened opens or fails and is dialled again; what arrived is handled;
  the hub's handlers and dials end by their own timeouts. Users, and drops of links and
  connections, are not forced;
* `MeshNegotiation`: browsers finish their operations and the hub relays signals.

The other modules have safety properties only. `LineMovesOn` is the safety core of "every transfer
gets its turn": it rests on timers not firing before the time they were set for
(`RetryTimer`), and on the hub not being busy for ever.

## 5. What the checks show

### What holds

* `RefsMatchHolders`, `MusicGivenBack`: no interleaving of connects, disconnects, bot starts and
  closing sockets leaks or doubly returns a reference of a music bridge. `OneWayBack`: the bridge
  itself never has two sockets, nor one after it was stopped, nor none for good while it is used.
* `AnnouncedWhenLetGo`: listeners hear of a connection's end exactly when its session lets go of
  it. `BytesOnlyWhileHeld`: then no byte of a media link flows any longer, whichever await the
  stream was at. `RefusedSeekKeepsPlaying`: a GET refused half way leaves the running stream alone.
* `OneConnectionInTurn`, `MusicOfCurrent`, `PageShowsCurrent`, `StaysInRoomInTurn`,
  `GoneLeavesNoClient`: with connections one after another, what the source says of the connection.
  A connection that is up is shown unless the server has just kicked or banned it, which the page
  hears before the session lets go.
* `IndexesAgree`, `PlacedByConnection`, `ViewsCurrent`: a session sits in at most one room, only on
  behalf of an open connection, and each member has been told the room's present state.
* `SlotsExact`, `StreamSlotsExact`, `ImplementsPool`, `SlotComesBack`, `GivesBack`: slots are counted
  exactly and each comes back.
* `RowsWhole`, `RowsExplained`, `BlameExplained`, `NobodyWaitsInVain`, `EveryCallSettles`: a list is
  complete, foreign rows have one of two causes, a failure names its own command's permission or none (or that
  of a move or mute refused between its error line and the read), waiters never outlive their
  client, and each call returns.
* `PagePermsCurrent`, `PageListsAsServer`, `PageShowsWhoIsReported`: what the page ends up with is
  what the server has, though the server leaves out the neighbours of a moved channel, the clients
  that drop out of view and the values of powers.
* `OneRunPerKey`, `BudgetKept`, `BehindForAReason`, `StickersSurvive`: see their comments.
* `PageAgrees`, `OneConnectUnderWay`, `PendingOnItsWay`, `ConnectEnds`: page and hub session agree
  once nothing is in flight, and nobody waits for what cannot come.
* `MeshSettles`, `RoomInSyncIfSteady`, `ShareSurvivesDrop`, `LineMovesOn`.

### What does not

Seven runs show a behaviour of the code that contradicts what its own comments say.

1. `session_stale_failure`, `Session.ts:465`. Connect, disconnect while the name still resolves,
   connect again: when the first connect fails, its `catch` runs `dropTs()`, which lets go of the
   *second* connection. That one stays on the server with no owner, and a third can be made.
   `Session.ts:5` promises at most one connection.
2. `session_late_goodbye`, `Session.ts:425`. `onClosed` of an earlier connection runs `rooms.leave`
   unconditionally, so a session that has connected again drops out of its room until it is moved.
3. `commands_late_rows`, `TsSession.ts:1053`. The queue moves on when a command times out, and the
   server's late rows are taken for the next list's. `TsSession.ts:266` gives the queue as the means
   against just that.
4. `rooms_late_token`, `Session.ts:342`. `rtc.join` awaits a token and then marks the session in
   whatever room it sits in by then, even after `rtc.leave`. `RoomRegistry.ts:15` defines the mark
   otherwise. With a mesh backend it holds (`MeshWhereAsked`, proved).
5. `page_wrong_server`, `stores/ts.ts:573`. A form submitted while the link is being redialled awaits
   `hub.open()` before it sets `lastRequest`; the link's listener runs first and replays the request
   of the connection before. The hub refuses the new one, and the page stays on the server its user
   left, with `lastRequest` naming the other.
6. `video_out_of_sync`, `stores/rtc.ts:110`. Each join's timer empties the one slot `pendingJoin` and
   takes back the user's intent, whichever join it belongs to. A page moved while its first join was
   under way is left with a room open that it calls idle.
7. `sticker_blind_removal`, `stickers/store.ts:318`. After a start that could not read the index, the
   store works in memory; removing a sticker added since deletes the picture's file, which an entry of
   the index on the disk may name. `index-file.ts:19` says the disk must be left alone.

Noticed while modelling, with no run of their own:

* *Sessions.* A retry may make a second client while `disconnect()` awaits the first one's goodbye,
  and `finish()` leaves it connected (`TsSession.ts:800`, `:1032`): hence the condition on retries in
  `OneConnectionInTurn` and `GoneLeavesNoClient`. `attachMusic` of an earlier connection links its
  bot to a later one (`Session.ts:498`).
* *Commands.* A move or a mute does not queue: one refused between a queued command's error line and
  the continuation that reads `lastFailedPermId` (`TsSession.ts:1061`, `:917`) puts its permission, or
  none, into that command's failure. It takes two error lines in one turn of the driver, and the
  answer is still a failure. A command's time at the page does not include its wait in `cmdQueue`
  (`commands.ts:36`). An upload refused late has spent an init, against the comment at
  `routes.ts:140`; a media GET the limiter refuses has used up the POST's kept transfer
  (`media-routes.ts:284` ff.).
* *Own permissions.* With the catalogue refused after the full set was sent, and rows waiting,
  `schedule` runs every 50 ms for good, against the comment at `own-perms.ts:154`.
* *Icons.* A download under way while an icon is uploaded, or one that fails because its session
  ended, remembers the icon as missing for ten minutes for every session, against `routes.ts:389`
  ("so it is fetched afresh"). These are the two reasons of `BehindForAReason`.
* *Bot bridge.* A websocket accepted without a cookie leaves the bridge unavailable, with nothing
  trying again until that socket closes; a bridge stopped while it starts says available if the start
  ends well.
* *Stored uploads.* On a full disk a retried upload keeps a half-written picture, as its file is there
  already; the profile store writes its index in place (`profiles/store.ts:129`) and removes files
  before it persists. The sticker store does neither.
* *Page.* A second drop before the rejoin throws away the screen capture the first one parked; a
  rejoin that fails leaves it held with the user's intent gone; a picker that ends after its mesh room
  closed leaves a stray capture; a failed LiveKit dial leaves the hub counting the page as a member.
  A "disconnected" that crosses a kick may reset a page whose session is up again (`hasty` users
  only). The retry budget never exceeds one, since a failed reconnect is answered as fatal. A download
  answered after the session ended still remembers its channel password
  (`stores/transfers.ts:261`).

## 6. What is proved

The eight modules with proofs hold 44 theorems and their lemmas, which TLAPS checks to the last leaf,
for every number of sessions, connections, commands, links, requests, transfers, keys, icons,
stickers, permissions, clients and channels, and of messages in flight between them, under the
assumptions each module names: `None` and its like are none of the values they stand beside; the
functions between the constants are total, and the sets that are counted finite; limits are natural
numbers, and positive where the code needs one. TLC evaluates all of them in the runs.

| Module | Theorems | Argument |
| --- | --- | --- |
| `HubSession_proofs` | `TypeCorrect` | `TypeInv` adds that a connection about to dial has an attempt left |
| | `RoomsOnlyOfOpenConnections`, `EndsAnnounced` | `Inv` adds `OwnCurrent` (an owned connection is the session's, used and open), `OwnRoom` and `IdleIsUnused`. Without the first, `DropTs` could announce a connection that was never used |
| | `RefsExact` | `MusicInv` adds `OwnLink` and that an attach begins only once the connect handler returned; then a step adds one holder, removes one or keeps all |
| | `OneClientInTurn`, `MusicFollows`, `PageFollows`, `RoomKept` | `TurnInv`, for the patient page: beside a current connection all others are quiet (`OthersQuiet`), and one let go of but not closed has its goodbye under way (`LetGoTold`). From both, `Alone`: whatever happens late is about the current connection, or there is none |
| `ServerCommands_proofs` | `TypeCorrect`, `ListsWhole`, `ForeignRowsExplained`, `FailuresExplained`, `WaitersCleared`, `WaitersReleased` | one inductive `Inv`: the queue has no duplicates and holds the queued, at most one command runs, a command before the server either runs or timed out, the collector is the running command's, only transfers have waiters, and from a command's error line to its read (`ReplyInv`) `lastFailed` is that command's, or none, or an outside line has overtaken it |
| `Gateway_proofs` | `BudgetNeverExceeded` | the bucket's one number bounds the whole history (`BucketRemembers`): the *k*-th slot before the last started at least *k* refills, less the burst, before it |
| | `KeysGoOutOnce` | every run in the queue has its own number, and those of the present generation are exactly the ones keys wait for |
| | `IconsForgotten` | an entry that was just told is right unless a change overtook its download; an unanswered change excuses it until it is forgotten |
| | `BridgeComesBackOnce` | task, socket and timer exclude each other, and each step replaces one of them by another |
| | `PermsCurrent` | `PermInv`: the last row of a flag on the wire is true (`RowsInv`); what the page does not have of it is in the flush under way or in `toReport`, and then a timer is set (`FlagsInv`); an answered power is true or the group change that made it old is behind it on the wire (`AnswersInv`), so the next flush corrects it (`PowersInv`) |
| `MediaStreams_proofs` | `TypeCorrect`, `SlotsCounted` | the count equals the live streams, which never exceed the slots |
| | `NoBytesAfterEnd` | a request not cut is its link's live one and its link is held; whatever ends a link cuts in the same step, and a request at an await sees `cancelled` before it streams |
| | `RefusalCutsNothing` | an action property, from the types alone |
| `FileTransfers_proofs` | `SlotsCounted`, `LinksKeepSlots`, `UploadHasSlot`, `Implements` | `Inv` = types, counts and `LinkInv` (a reserved link has not been fetched, a live ticket is reserved). Each step gives the set of holders one more, one fewer or the same, which is at once the count and the step of `SlotPool` |
| | `StoredStays` | a store that could read its index has every promised entry in memory, so rewriting the index loses none (`MemoryHolds`); while nothing fails, every picture the index or the memory names is whole, the two agree outside of a change, and a swept store has no half picture but the one it is writing (`PicturesHold`) |
| `RoomRegistry_proofs` | `TypeCorrect`, `OnePlace`, `PlaceFollows`, `EveryoneTold` | one inductive `Inv` of the four; a broadcast to each changed room keeps all views current |
| | `MarkedWhereAsked` | with a mesh nothing is minted, and a mark is set where the page asked |
| | `AtPaceAlways`, `SteadyRoomInSync`, `DropKeepsShare` | `AtPace`, for a steady world: the page does one thing at a time, the one join under way is the newest and has the slot, the page's place is the hub's unless the news of it is next, and a room open is the one of that place unless news is next. A drop is read while nothing is under way, so what it finds shared is parked |
| `Page_proofs` | `LinkTypeCorrect`, `NobodyWaitsForLostAnswers` | a command waits only over an open link, and is with the hub or in one of the two channels; a link that closes fails all |
| | `PageAndHubAgree` | `AgreeInv`: the *last* message on its way that tells where the connection stands, or if there is none what the page shows, is one the hub has earned (`ShowsInv`); a link that is down carries nothing (`ShutInv`); and, for a user who is not hasty, a connection let go of is over before another is asked for (`PartInv`), so what the hub has is shown or on its way (`MissesInv`) |
| | `OneRequestAtATime`, `ConnectedWhereAsked` | `TurnInv`: a request on its way finds the hub without a connection and the page waiting for it, and a retry that is due has nothing beside it. That fails over a link that opens with a replay and a submit at once (`twice`), the run `page_wrong_server`: the second theorem excepts it, the first allows two there. Why never three: the requests on their way, the hub's connection, the news of its loss and the retry's timer (`Tokens`) are each made of another, and are two at most (`TokensInv`) |
| | `LineNeverStuck` | `FirstOfLine`: of a finite line, those with fewer than *k* before them are *k*, or all (the rank is injective into 0..*k*-1, and a least one left out has all of them before it). So a pump fills the limit or leaves nobody |
| `Views_proofs` | `PageSeesReported` | the hub's clients are those the server reports, and the messages on their way *lead* the page from what it shows to what the hub has (`Leads`) |
| | `PageListsServersOrder` | `TreeInv`: the hub's model says of each channel where it stands in the server's tree (`FitsBut`), and the patches on their way lead the page to that model. Of a move it takes that the relinked neighbours and the moved channel are all the model differs in (`TakenOut`, `PutInto`, `BackInPlace`, `TreeCut`), of the page's sort that a model that fits a tree has one chain per parent, that parent's list (`ChainReaches`) |

**How a FIFO is proved about without induction over data.** `Leads(H, s, a, b)` says that there *is*
a run of the reader `H` over the messages `s` that starts at `a` and ends at `b`. Reading the first
message drops the run's first state, sending one appends a state, and patches that set each of a
finite set of entries lead from any model to any other that differs in those entries alone
(`LeadsEach`). So the invariant holds however long the FIFO is, though no theorem says what a reader
computes from a given one. Since the run is quantified over, TLC cannot evaluate this part of the two
invariants; it checks the properties they imply, and the rest of each.

The chain of the page's sort is a recursive function over the naturals. What it reaches is not
proved by induction either: the one function that satisfies its equations is exhibited, and a least
number where two such functions differ is shown not to exist (`LeastOf`, from the well-foundedness of
`<`).

**What the proofs found.** In `ChannelOrder` the page's reading of a patch (`PageChannels`) was written as a `CASE`
whose arms overlapped, the one that drops a patch for an unknown channel with others. TLC takes the
first arm that holds; TLA+ allows any, and the page's order could not be proved. The module now tests
for the dropped patch first, as `stores/ts.ts` does. Its `Under` (the subtree the hub collects) is now
the least closed set instead of an iteration, which is what the proofs need of it. Neither changes a
state TLC reaches. In `PageLink`, `PageAgrees` alone gives no hold on a drop that crosses a retry: it
needed the order of what is on its way (`Final`), and the one-request property the strict order of
`TurnInv`, which fails exactly where finding 5 begins; there only counting holds (`Tokens`).

**Only model-checked.** Liveness (`MusicGivenBack`, `ConnectAnswered`, `GoneLeavesNoClient`,
`SlotComesBack`, `GivesBack`, `EveryCallSettles`, `ConnectEnds`, `MeshSettles`) is outside the
prover's reach. Every safety invariant and every action property of the passing runs is stated by a
theorem above, for all values of the constants.

Proved and no longer run, because other properties of the same runs cover them: `MeshWhereAsked`,
`UploadFindsSlot`, `LinksHonoured`, `NoWaiterLeft`, `RoomOfOpenConnection`.

## 7. What could follow

The models cover the hub's stateful core and the page's asynchronous stores. What would add most
beyond them: the media streams and the file transfers over one set of slot counters; the connect
queue and the ban cool-down of the server guard; the profile, sound and web app stores, whose writes
differ from the sticker store's; a timed model of the wait in `cmdQueue`.

## 8. Running it

In this directory, with the tools on the path:

    tlc -workers 2 -config MCPatientPage_both.cfg MCPatientPage
    tlapm HubSession_proofs.tla

The passing runs visit 103 000 to 575 000 states in about two minutes at most; the longest proof
(`Views_proofs`) has about 2900 obligations and takes some three minutes from nothing.
