# iphone2win: a TLA+ model of the transfer

iphone2win is a fork of LocalSend: a Dart/Flutter application that sends and
receives files over the local network, by QR code and a browser, and over USB,
with a Rust core (HTTP clients, WebRTC) and a Rust signaling server. This
directory holds TLA+ modules that model its protocol logic, configurations that
model-check them with TLC, and proofs checked by TLAPS. All paths below are
relative to the root of the repository; `RC` is
`app/lib/provider/network/server/controller/receive_controller.dart`, `SP` is
`app/lib/provider/network/send_provider.dart` and `WS` is
`server/src/controller/ws_controller.rs`, `RTC` is `core/src/webrtc/webrtc.rs`.

`PROJECT.json` is the index: components, runs, the mutation that each property
catches, the source lines of each definition, findings, hazards, theorems.

    tlc -workers 2 -config ReceiveOverlap.cfg MCReceiveSession.tla
    tlapm ReceiveSessionProofs.tla

## 1. Inventory

The Dart application is single-threaded: what lies between two `await`s is
atomic, and at every `await` any other handler, callback, timer or frame may
run. The Rust programs run on tokio, where tasks really interleave at every
await and shared maps are behind locks.

| Component | State it keeps | Operations | What is hard | What makes it correct |
|---|---|---|---|---|
| Receive session (`RC`, `receive_page.dart`, `progress_page.dart`) | at most one session: status, files, tokens, response handler; one handler per request in flight; files on disk | prepare-upload, upload, cancel, accept, decline, close, leave, delayed close | seven awaits in two handlers, all of which look the session up again by "the current one"; a page that shows an older state; a timer that closes whichever session is there | nothing stored without consent; 200 only for what is on disk; a waiting session can be answered; no session is replaced (it can be: section 4) |
| Send session (`SP`, upload isolates, `send_page.dart`, `progress_page.dart`, `send_tab_vm.dart`) | a map of sessions: status, file states, queue, cancel tokens, background flag; pages | start, PIN retry, send loop over N workers, send a file again, cancel (both sides), close, clear | workers, retries and user actions on one session value; the loop and a retry both try to finish the session | every file is tried, none by the loop and a retry at once; outcomes are true; cancellations are final and announced |
| Signaling server (`WS`, `state.rs`, `scheduler.rs`) | map of connections per IP group, request counters; a bounded queue per connection | connect, announce, relay, refuse, leave, hourly reset | locks released before blocking sends; a handler that fills its own queue; aborted tasks | everybody knows everybody who is there, and no one else for long; nobody waits for ever |
| Signaling client (`core/src/webrtc/signaling.rs`, `app/rust/src/api/webrtc.rs`) | reader, writer and listener task, a channel behind each, callbacks waiting for answers | connect, read, start_listener, send offer/answer/update, on_answer, ping | messages that arrive before Hello; channels of one; a user who stops reading; a callback registered after its offer was sent | connect returns; nothing is lost or reordered; answers reach their callback |
| Web share (`send_controller.dart`, `assets/web`) | shared files, sessions by IP, open confirmations | start/stop share, prepare-download, download, accept, decline | a handler waits for a confirmation while the share is replaced or stopped | only accepted visitors download, and only the current share |
| PIN check (`controller/common.dart`) | attempts per address | check | the map is replaced with every share or server | at most three wrong guesses per share |
| Server lifecycle (`server_provider.dart`) | the running server or nothing | start, stop, restart | awaits between check and assignment, a stop that looks for no pending bind | at most one server is bound and known (unless a stop meets a bind: `OneServer`) |
| File saver (`util/native/file_saver.dart`) | the target directory | choose a free name, write, delete on failure | exists-check and creation in different turns | nothing is silently overwritten |
| History and favorites (`receive_history_provider.dart`, `favorites_provider.dart`) | a list in memory and in preferences | add, remove, clear | read, persist with await, assign | no entry is lost; memory and disk agree |
| USB exchange (`util/usb`, `usb_tab.dart`) | busy flags of the tab's state object, the phone's and the local folders | refresh, detect, pull, push, export, clear | external commands with timeouts; partial failure; success reported with failed output | what is reported as copied is there; nothing complete is overwritten; the tab becomes free again |
| Discovery (`multicast_discovery.dart`, `http_scan_discovery.dart`) | sockets, restart signal, map of devices | listen, announce, answer, scan, restart | restart signal while not waiting | devices that announce are found |
| WebRTC transfer (`RTC`, `app/rust/src/api/webrtc.rs`, `core/src/main.rs`) | phase of both peers over one data channel, PIN tries, file tokens, statuses, user channels | SDP exchange, nonce, token, two PIN loops, file list, selection, files, results, close | lock-step of two sides with retries; users who leave; an early close; results without a file id | nothing leaks before the checks; files are complete and not mixed up; refusals reach both users |
| Rust HTTP server and clients (`core/src/http`, `app/rust/src/api/http.rs`) | two listeners; the nonces exchanged, in two maps per end; the public key a user knows an address by | bind, accept, stop, routes; register, nonce, prepare-upload, upload, cancel, info, download | connections that outlive their listener; two locks; addresses that change hands; answers that are lost | the two maps agree; an OK is from the expected device; accepted calls are served |
| Tokens, nonces, certificates (`core/src/crypto`) | none | sign, verify, convert | – | what verification accepts is part of the two rows above |
| Settings, UI, platform channels, packaging | preferences | – | – | – |

How they interact: SendSession's requests are ReceiveSession's requests on
another device; a cancel request on one device is handled by `_cancelHandler`
on the other, which looks for a receive session first and for a send session
otherwise. The receive session hands its bytes to the file saver and adds to
the history. Web share, PIN check and receive session share one HTTP server.
Signaling connects two peers that then speak the WebRTC protocol: an offer
and its answer pass the signaling client, and everything else the data channel.
The USB exchange shares only the download directory with the rest.

The hazards of this code, each at its line, are listed in `PROJECT.json` with
the properties that watch them. Those without a property say why or name the
module that is to cover them.

## 2. Modules

| Module | What it is |
|---|---|
| `FileDelivery` | abstract: consent, then store, then acknowledge |
| `ReceiveSession` | the receiving device; implements `FileDelivery` |
| `ReceiveSessionProofs` | proofs about `ReceiveSession` |
| `MCReceiveSession` | its instances for TLC |
| `SendSession`, `MCSendSession` | the sending device |
| `Signaling`, `MCSignaling` | the signaling server and what clients learn from it |
| `UsbExchange`, `MCUsbExchange` | the actions of the USB tab over the phone's and the local folders |
| `WebRtcTransfer`, `MCWebRtcTransfer` | both peers of a transfer over a data channel |
| `SignalingClient`, `MCSignalingClient` | the tasks and channels of one client of the signaling server |
| `HttpExchange`, `MCHttpExchange` | the HTTP clients against the Rust server and the app's |
| `WebShare`, `MCWebShare` | the life of the app's HTTP server, and the web share with its page and visitors |
| `SendSessionProofs`, `SignalingProofs`, `SignalingClientProofs`, `UsbExchangeProofs`, `HttpExchangeProofs`, `WebRtcTransferProofs`, `WebShareProofs` | proofs about the module each extends |

In every module, definitions whose comment begins with "Mutation:" are not part
of the specification: each is a variant of the definition below it with a
plausible bug, and `PROJECT.json` names the property that it breaks. That is
the evidence that the property says something about the code.

### ReceiveSession

*State.* `session`, `status`, `files`, `token`, `handler` are
`ServerState.session` (`ReceiveSessionState`); a session is named by the request
that created it, as the code names it by a fresh uuid. `pc[p]` is where
`_prepareUploadHandler` is for request `p`: `body` and `dirs` are the awaits
between the busy check and `setState` (`RC` 256-293), `window` the await that
brings the window to front or writes a text message to the history, `asked` the
await of the stream controller, `permission` Android's and iOS's storage
permission, `dead` a handler whose await has thrown. `verdict` and `selected` are the event in the controller, which
buffers it until the handler listens. `upc[u]` is where `_uploadHandler` is:
`saving` while the body is written, `history` while the history entry is
persisted, `hung` if it never answers. `page`, `shownCancel` and `progressOpen`
are what is on the screen: `shownCancel` lags behind `status` by one frame.
`timers` are the `Future.delayed(Duration.zero)` of quickSave.

*Actions.* One per turn of the event loop: `PrepareArrives`, `PrepareBodyRead`,
`PrepareCreates`, `PreparePrompts`, `PrepareDies`, `PermissionReturns`; `UploadArrives`,
`SaveSucceeds`, `SaveFails`, `HistoryReturns`, `TimerFires`; `SenderCancels`;
`UserAccepts`, `UserDeclines`, `UserCloses`, `UserPopsBlankPage`,
`UserLeavesProgress`, `PageRedraws`. A handler acts on the session that is
current when it goes on, not on its own: that is what the code does, and most
of the properties are about what survives it. `PrepareDies` is an await that
throws where no `try` surrounds it (`RC` 285, 286, 338 to 359): the request is
never answered and what the handler has put into the state stays, a waiting
session included, which then only the user or the sender can end.

*Abstractions.* Only the most recent ReceivePage is represented. Every refusal
of a request or an upload is one code (400) because nothing here tells them
apart; the PIN check is one of these alternatives. Settings do not change during a
behaviour. A cancel request that is refused changes nothing and is left out. A
timer of zero delay runs before a new connection is read (`timers = {}` in the
two actions that begin a request). The clipboard, info, register and show
routes do not touch the session.

### FileDelivery

Three growing sets: files consented to, stored, acknowledged. `Consented` in
`ReceiveSession` is the union of the selections that were put into stream
controllers, including that of quickSave; `Acked` the files whose upload was
answered 200.

### SendSession

*State.* `status`, `files`, `background`, `remote` are `SendSessionState`; a
session without status is not in the map. `phase` is where `startSession` is,
`queue` the files no worker has taken, `loop` those the workers are uploading,
`retry` how many times each file is being sent again at the moment, `shown` the
files the page on screen offers a refresh button for (it lags behind `files` by a
frame), `twice` whether two retries of one file have met, `token` what the receiver accepted, `page` the
page of the session that is open, `told` the ghost variable of sent cancel
requests. Sessions are numbered in the insertion order of the Dart map, on
which the receiver's cancel depends.

*Actions.* `Start`, the six outcomes of the request (`PinRequired`, `PinEntered`,
`PinDismissed`, `Refused`, `NothingSelected`, `Accepted`), `UploadEnds` (a
worker's upload ends, it takes the next file or stops, the last one finishes
the session), `RetryStarts`, `RetryEnds`, `ReceiverCancels`, and what the user
does: `UserCancels`, `UserCloses`, `UserLeaves`, `UserOpens`,
`OpenedPageReplaced`, `UserReplaces`, `ClearAllSessions`; `PageRedraws` is a frame.

*Abstractions.* The receiver answers in any way the code distinguishes, so
`ok` is arbitrary for every upload. The queue hands out files in any order. `sendFile()` does not look at the state of the file, so a
refresh button may be tapped again before the page is redrawn; `MaxRetries` bounds
the retries of a session. The remote session id is never stored, because
`SP` 245 declares a second variable of that name; `remote` is kept so that the
guards that read it can be stated. Progress, file metadata and the file
selection are left out.

*What the code does that a reader may not expect.* Two taps on one refresh button
upload the file twice at once, and the upload that ends later decides what the
file is shown as. If the one that ends first fails, the session may end with errors
before the other succeeds: it then says `finishedWithErrors` and shows every file as
sent.

### Signaling

*State.* `registered` is the group's part of `tx_map`, `count` the request
counter, `pc` where `handle_socket` is, `todo` the connections it still has to
send Join or Left to, `inbox` the bounded queues, `out` what the receiving task
is relaying. `sent`, `closed`, `greeted`, `hello`, `known` belong to the client.

*Actions.* `Connect` (under the lock; refusals included), `SendJoin` and
`SendLeft` (one blocking send each), `SendHello`, `Deliver` (the sending task),
`ClientSends` and `SendOut` (the receiving task), `ClientCloses`, `TaskEnds`,
`Cleanup` (under the lock; the other task is aborted), `HourPasses`.

*Abstractions.* One IP group, since groups share nothing. The order of the hash
map is arbitrary and fixed per broadcast. What a client reads is applied to its
list of peers at once; the client's own channels are left out. A client that
comes back has a new uuid and is another member of `Peers`.

### UsbExchange

*State.* `phoneOut`, `phoneIn`, `inbox`, `outbox` are the four folders. A path is a
name with the two numbers the code may add ("n (2) (3)"), a content is named by
the file it comes from, `Partial` is what an interrupted copy leaves. `tab` is the
visit on screen; every visit has the fields of its own `_UsbTabState`: `job` is
the action for which it is busy, `at` and `todo` where that action is, `script`
the copies prepared or given to the tool, `done`, `open` and `failed` how far the
tool is with it and whether it has printed an error, `result` the text shown. `crossed`
is history: another action has worked on the same local folder meanwhile.

*Actions.* What the user does (`Enter`, `Leave`, `Start`, and `PhoneChanges` on the
phone) and the steps of an action: `Detected`, `FolderReady`, `Listed`, `LocalName`
(one file's name, checked against the disk and this pull's reservations),
`OutboxName` and `OutboxWritten` (one selected file), `Checked`, the tool's own
`CopyBegins`, `CopyEnds` and `CopyRefused`, `ToolExits`, `ToolFails`, `Scanned` and
`Cleared`, `Refreshed`. The tool is `afcclient`, modelled from how the code drives
it: commands in order, errors printed and skipped, killed after its timeout.

*Abstractions.* What detection finds is one choice: ready or not. Sanitizing is a
function `Safe` that leaves its own results alone. Clear reads the folder at once
before it deletes. An export of the clipboard's text is an export of one file.

*Two visits.* The busy flags belong to the state object of a visit (`usb_tab.dart` 27
to 29) and are taken back only while it is mounted (128, 181). The action of a
visit that was left goes on, its flag stays set on an object nobody looks at, and a
new visit may start another action. Nothing keeps the two off the same folder; the
properties hold while they do not meet there, which is what `crossed` records.

### WebRtcTransfer

*State.* `S` is the offering, sending peer and `R` the accepting, receiving one.
`pc` is where the spawned task of each is, `outer` where `send_offer` and
`accept_offer` themselves are; `wire` and `inbox` are the data channel up to the
receive stream of 16 messages (`to_receive_stream`), and the first `acked` messages of
`wire` are in the receiving side's SCTP stack, acknowledged and waiting for room in
the stream; `closed` and `lost` the
connection. `slot`, `typed`, `tries` belong to the PIN loops, `tokens` to the
selection, `feeding`, `fed`, `refused` to the sending of files, `filing`, `got`,
`whole`, `verdict`, `mailbox`, `held`, `replies` to their reception: `held` is
the text that has ended a file and is looked at after that file's result.
`setup` is chosen at first and stays: PINs, expected keys, files and faults.

*Actions.* One per message that a task sends or receives and per call of the
user: `OpenChannel` .. `TokenResponse` (nonce and token), `AskPin`, `OfferSlot`,
`TypePin`, `VerifyPin`, `GiveUpPin`, `SenderPinReply` (the PIN of either side),
`SendFileList`, `ReceiveFileList`, `Select`, `Decline`, `ReceiveTokens`,
`SendFile`, `SendChunk`, `EndFile`, `NoMoreFiles`, `SendDelimiter`, `ReceiveLast`
and, at the receiver, `ReceiveText`, `ReceiveData`, `Report`, `SendResult`,
`Drained`. `AnswerOffer` .. `ConnectionDone` are the outer functions, `Acknowledge`, `Deliver` and
`Disconnected` the stacks and the network, `LeavePin`, `LeaveChoice` and `WriteFails` users and
user code that go away.

*Abstractions.* A JSON text is one message, a text sent in chunks is one binary
message and the delimiter. Branches that answer what this repository's own peer
never sends are left out: pairing, an unparsable header, a second "PIN already
sent", an empty PIN, messages before `on_message` is registered. `wait_buffer_empty`
(`RTC` 1260) polls SCTP's `buffered_amount`, which is 0 when the peer's stack has
acknowledged everything, whether anybody has read it or not: `BufferEmpty`. The
receiving user reports on a file when its stream has ended, as the command line
does (`core/src/main.rs` 451); nothing calls the app's `send_file_status` yet. `Setups` gives
every combination of PINs and expected keys, with and without two files and
failures.

*What the code does that a reader may not expect.* The sender awaits one message
after its delimiter (`RTC` 558), so with several files it closes on the first
file's result, although the receiver "waits for the last status to be sent"
(913); what waits in the receiver's stack for room in its stream, up to whole files
of those after the first, is lost with the connection, and both users are told
Finished. A task that fails returns without closing, although `RTCStatus` says the
connection is closed (150, 162). With an empty selection the receiver reads the
delimiter "0" as a header and ends in an error. After a refusal by the user the
task ends without waiting until the refusal was sent.

### SignalingClient

*State.* One variable for each place a message passes on its way from the server:
`socket`, `reading` (the reader task), `inner` (a channel of one), `handling` (the
listener task), `queue` (a channel of 16, here `Room`), `heard`. `offers` is how
far each `send_offer` is, `outbox` and `writer` the way out, `client` where
`connect` and its caller are, `sent`, `early`, `arrived` history.

*Actions.* `Dial`, `Read`, `Greet`, `Pass`, `ConnectPanics` (connect and its
reader), `StartListener`, `OnConnection`, `Take`, `Call`, `Forward` (the
listener), `Hear`, `StartOffer`, `SendNotice` (the user), `SendOffer`, `OnAnswer`,
`Write`, `Ping`, and the external server's `SayHello`, `SayOther`, `SayAnswer`,
`GoesDown`.

*Abstractions.* Two programs use the client: the app, which hands the connection
to Dart and then reads on for ever, and the command line, which reads until a
peer joins and then waits for its offer. Messages are told apart only as far as
the client does. `connect` unwraps what it waits for, so it panics if the
connection ends before Hello.

### HttpExchange

*State.* `listener` are the two listeners of `start_with_port`; `plan`, `phase`,
`to`, `caller`, `key`, `reply`, `result` what one call is, how far it is, which
device accepted it from which address, what key it was given to expect, and its
response; `received` and `generated` the two nonce maps of every client and
server, least recent entry first; `known` the key a client's user has for an
address; `owner` which device an address belongs to.

*Actions.* `Bind`, `Ipv4Ends`, `Ipv6Sleeps`, `Stop` (the server), `Start`,
`Accept`, `Breaks`, `Serve`, `RefuseNonce`, `StoreReceived`, `StoreGenerated`
(a call at the server), `Receive`, `RememberReceived`, `RememberGenerated` (at the
client), `Move` (two devices swap addresses). `Outcome` is what each of the twelve
client operations makes of a response, in the order in which it looks at it;
`Route` what each server answers.

*Abstractions.* A key stands for its device. Responses are a status that the
clients tell apart and whether the body parses. The app's own server, in Dart,
is external: it may answer with any status. A nonce is named by its exchange.

*What the code does that a reader may not expect.* Every legacy route of the Rust
server calls `register`, whose body is that of protocol 3, so protocol-2 clients
get 400. The registration of protocol 3 does not look at the status, a
cancellation looks at nothing. `start_with_port` returns Ok before its listeners
are bound. The clients have no timeout. The app passes no public key yet.

### WebShare

*State.* `sockets` are the server sockets, each free, listening or closing, and
`secure` whether each was bound with the certificate; `state` is
`ServerService.state`, the socket the app knows, `share` its `webSendState`.
`task[t]` is where one operation on the server is: closing a socket, binding one,
or in a delay of the page; two operations of the tabs and the page's own may be
under way at once. `page`, `encrypted` and `before` are the fields and locals of
`web_send_page.dart`. `request` are the requests of visitors that are open, that
is, waiting for the user or streaming. `foreign` is another program that has the
port; `wish`, `consent` and `leaving` are history.

*Actions.* The halves of an operation: `TapStart`, `TapStop`, `TapRestart`,
`PrepareQrUpload` and `Wake` begin one (`Stops` is `stopServer` up to its await),
`SocketCloses` goes on behind it, `Bound` and `BindFails` end a bind. The page:
`OpenPage`, `ToggleEncryption`, `Choose`, `Back`, `Pop`. Visitors: `GuessWrong`,
`AutoAccept`, `Ask` and `Respond` (prepare-download), `Download`, `DownloadEnds`.

*Abstractions.* There is one port, so a bind succeeds only if nobody listens; a socket
that is still closing is another than the one that is bound. Everybody who waits for
the same close goes on in one turn. The page calls `_init` once per redraw: two taps on
its encryption within a frame are left out. A request that changes nothing is a
stuttering step. A visitor who
goes away is not noticed, as the handler would not. Who wants to leave the page
presses back again and ticks nothing. `shareViaLinkAutoAccept` is off. Every
restart forgets the receive session, which is not part of this module.

*What the code does that a reader may not expect.* A second request of an address
overwrites the first one's controller, and the first is never answered. Each new
share forgets the wrong guesses counted so far: ticking the encryption keeps the PIN
and lets every address guess again. The QR upload leaves the server without
encryption; only leaving a web share's page changes that. `stopServer` does not look
whether another operation is binding: if that bind ends before the close does, the
close then clears the state of the new server, which goes on listening, unknown to the
app (`OneServer` says that there is no other way, `Lost` is that state). A bind takes
a moment and a close waits for nothing but the socket, so the window is small.

## 3. Runs

| Run | Question | Bounds | Distinct states |
|---|---|---|---|
| `receive_overlap` | do consent, acknowledgement and the state of the prompt survive overlapping sessions, does every answer reach its sender, and does a finished quickSave session go away? | 3 requests (one quickSave, one of two files from a protocol-1 sender, one text message), all past the busy check at once, 2 uploads, storage permission | 308,951 |
| `receive_replaced` | finding | as `receive_overlap` | violated |
| `send_loop` | workers, retries, cancellations and pages on one session | 2 sessions (3 files in the foreground, 1 in the background), 2 workers, 2 retries each | 299,968 |
| `send_retry` | finding | as `send_loop` | violated |
| `send_cancel` | finding | as `send_loop` | violated |
| `signaling_group` | lists of peers, limits, departures, with clients that need not read | 3 connections, 2 registered at once, queues of 1, 3 requests an hour, one client sends one offer | 208,481 |
| `signaling_hello` | finding | 2 connections, queues of 4 as in the code, 2 offers | violated |
| `usb_exchange` | what the USB tab reports, overwrites and waits for | 2 visits, 2 actions, 2 files on the phone whose names collide, 1 file of the PC | 213,812 |
| `rtc_transfer` | what leaks, arrives and is told between the two peers | all 16 pairs of PINs and expected keys with a file of 2 chunks, a right and a wrong PIN, 2 tries; 2 files of 1 chunk with a network or a disk that fails; a receive stream of 3 | 84,946 |
| `signaling_client` | do messages and answers get through the client's tasks? | both programs, 1 offer, a user channel of 1, 3 other messages, 2 of them before Hello | 56,736 |
| `http_exchange` | outcomes of calls, nonce maps, listeners | every operation alone; 2 calls to a server that starts, fails and stops; 2 calls while an address moves; 3 nonce exchanges over maps of 1 entry | 63,262 |
| `web_share` | who downloads, which request a prompt stands for; overlapping starts, stops and restarts: is a server lost, which share is shown, what is left behind the page? | 2 addresses, 2 open requests, 1 PIN and a wrong one, 2 wrong guesses (3 in the code), 1 operation of the tabs beside the page's, 2 sockets, a port that may be taken | 525,933 |

**Why the bounds are enough.** The receiver has one session, so two requests
past the busy check already show every way one handler can meet another's
session; the third finds the server busy, or comes after both, or between them.
Two uploads meet each other in every order, also at one file. Three files
over two workers leave one in the queue, which is what the order of a failed
worker, a retry and the last worker depends on; two retries overlap with each
other and with the loop. A queue of one is full as soon as anything is in it,
so every blocking send really blocks; three connections at a limit of two make
one be refused or replace one that has gone. Two USB actions of one visit show what
the second makes of the first's files, and of two visits what two make of each other's;
two files of the phone that get one name need every number.
In the WebRTC transfer two tries are one that fails and one that is the last; two
files make one the successor of the other, with its header waiting behind the
other's result, and two chunks of one file can be swapped or cut off; a receive
stream of three is shorter than what is under way. In the signaling client two
messages before Hello are one more than its channel holds, and three others with
a user channel of one fill every place on the way behind an answer. Two exchanges
of nonces at once already meet between the two writes of a map; with three, one
follows two others, and a map of one entry forgets the first peer for the second.
For the web share two open requests are one that is replaced by another of its
address, or two of two addresses; two guesses are one that is
not the last and one that is. One operation of a tab and the page's make one wait for
the close the other has begun, or one bind while the other closes, or two binds of
which one fails. Two sockets are one that closes and one that is bound meanwhile; a
third would have to be bound while two close, and stops that overlap close the one
socket the app knows.

`CHECK_DEADLOCK FALSE` is set throughout: requests, uploads, sessions and
connections are finite in number, so a run in which all have been used up stops.

**What each property is about.** The comment above each property says it. In
short, for the receiver: `ImplementsDelivery` (consent before storing, storing before
acknowledging, nothing withdrawn; `StoredWithConsent` and `AckedIsStored`, which
follow, are proved), `FinishedIsStored` (retries against the end of the session), `WaitingIsAnswerable` (the controller of a waiting session is
unused and somebody listens or will, unless its handler has died), `HungOnlyIfGone` (the unanswered uploads
are exactly those of lost sessions), `SeenCancelIsFinal`, `ReplyIsAnswered` (by a
handler that lives), `QuickSaveFrees`. For the sender:
`LoopAndRetriesApart`, `OutcomeIsTrue` (no file is left behind and errors are shown
when a session has ended, unless a file was being sent again twice at once), `EndedStaysEnded` (what either side or the user has
ended neither sends nor comes back), `SendingEnds`. For signaling:
`ListsOfPeersAreRight` (nobody is missing, newcomers who left are forgotten,
strangers do not call), `GoneIsRemoved` (or else its own send waits for good, and
somebody does not read or is stuck). For USB: `ReportsAreTrue` (a success
message against what is on the disks, with a phone that changes and a tool that
fails in between), `SavedUnderNewNames`, both while no two actions work on one folder, and
`BusyEnds` (of the visit on screen). `ReportsAreTrue` speaks of
pulled files only if their names need no sanitizing: a pull asks the phone for the
sanitized name (`pullOutbox`, line 98), so another file, or none, may come in place
of one that has a different name. For WebRTC: `NothingLeaks` (the file list and
the files wait for both PINs, both tokens and the selection), `FilesStayWhole`
(bytes and results belong to the file they are taken for, and the sender's close
does not come before the first result), `BothUsersAreTold` (of the end of a file, if it is the only one that
was chosen, see `RTC` 558 above, and of PINs given up). For the signaling client:
`NothingIsLost`, `WaitingEnds` (an answer is heard within the reach of a user who may
have stopped reading, unless it is faster than its callback; connect returns, with at
most one message before Hello: with two it never does). For HTTP: `NoncesPaired`, `NoncesAgree` (but for
exchanges that overlap or whose answer is lost), `OkIsFromExpected`,
`NoListenerAlone`, `AcceptedIsServed`. For the web share: `PromptsAreLive` (what
the user answers is a request that still waits), `ServedWithConsent`, `OneServer`
(only a close that overlaps a bind makes the app lose the socket that listens),
`PageShowsShare` (a new share has the PIN of the old one), `LeavingRestarts`. The last
says what leaving the page does: it starts the server as the settings describe it.
That is not "the previous state" of the comment at `web_send_page.dart` 79 if the
server was stopped before, or was left without encryption by the QR upload.

**Fairness.** `ReceiveSession`: weak fairness of each handler's own steps only,
which is what an event loop gives: a directory lookup returns, a body ends or
breaks off (the HTTP server closes the stream of a lost connection), a timer
fires. No user and no sender has to act. `SendSession`: weak fairness of the end
of uploads; the client used for uploads has a timeout
(`common/lib/src/isolate/child/http_provider.dart`), so each one ends. Nobody has
to answer the request and no user has to act. `Signaling`: weak fairness of
handlers and of receiving tasks: tokio polls a task that can go on. Nobody makes a
client read, so delivery is not fair; `signaling_hello` alone assumes it
(`ReadingSpec`), to show that its violation does not come from a client that is
deaf. `UsbExchange`: weak fairness of each
action's steps; every external command is killed after its timeout
(`ios_usb_command.dart` 72) and file operations return. No user has to act.
`WebRtcTransfer`: weak fairness of both tasks, of the outer functions, of the
driver that reads and stores files and reports on them, and of the stacks and the data channel,
which is reliable and ordered; a connection that the peer has closed is reported.
Nobody has to type a PIN, choose or stay, and the network may fail. `SignalingClient`:
weak fairness of its tasks and of a user who reads, strong fairness only of
putting an offer into the writer's channel, since senders of a full tokio channel
are served in turn. The server owes nothing. `HttpExchange`: weak fairness of the
handlers and of the clients' own steps; nobody has to accept a connection.
`WebShare`: weak fairness of the delays, closes and binds of the operations, and of
`Back`: who wants to leave presses the button while the page is running. No visitor
and no tab has to act, and another program may keep the port.

## 4. Findings

Each is a run that TLC refutes; the quoted line and the behaviour are in
`PROJECT.json`.

1. `send_retry`: a session is reported `finished` ("all files sent") while a file
   is being sent again, because `_finish()` looks for failed files only.
2. `send_cancel`: cancelling never sends a cancel request, because the
   receiver's session id is stored under the wrong key.
3. `signaling_hello`: a connection whose queue fills up before its Hello waits
   for itself for ever.
4. `receive_replaced`: the busy check ("block incoming requests when we are already in
   a session", `RC` 257) is made before three awaits; of two requests that overlap
   there the second replaces the first's session.

Five more are not among the runs. Each shows when a line or two are changed:

5. `QuickCloseAfterResponses` as a property of `ReceiveOverlap.cfg`: the delayed close of
   a quickSave session ("close the session **after** return of the response", `RC`
   671) runs while another upload of the session is still under way, which then gets
   no answer, or 500 for a file that is on disk.
6. `TimerSparesWaiting` as an invariant of `ReceiveOverlap.cfg`: if two requests overlap
   (4), the delayed close can be that of the first one's session and hit the second's,
   in which the user is being asked.
7. `LeavingRestarts` without the words `page = "running"` in `WebShare.tla`: if the port
   is taken when the web share's page binds it, the page can never be left
   (`web_send_page.dart` 88 and 103), so the server, which it has stopped, is not
   reverted ("we need to revert to the previous state", line 79).
8. `SavedUnderNewNames` and `ReportsAreTrue` without what they say of `crossed`, in
   `UsbExchange.tla`: two actions of two visits choose the same free name in one folder,
   and one overwrites the other's file and counts it as its own.
9. `[](Listening \subseteq {state})` as a property of `WebShare.cfg`: "Only one server can
   be running at a time" (`server_provider.dart` 22), but a stop that overlaps a bind
   makes the app forget the server that was bound.

## 5. Proofs

`ReceiveSessionProofs` proves, from `ReceiveAssumption` alone (files of two
requests are disjoint, quickSave requests are not messages, constants have
their types), for any number of requests, uploads and files, and any number of
requests past the busy check at once:

| Theorem | Statement |
|---|---|
| `TypeCorrect` | `Spec => []TypeOK` |
| `Invariance` | `Spec => []IInv` |
| `Consent` | `Spec => []StoredWithConsent` |
| `Acknowledged` | `Spec => []AckedIsStored` |
| `FinishedMeansStored` | `Spec => []FinishedIsStored` |
| `Answerable` | `Spec => []WaitingIsAnswerable` |
| `HungUploads` | `Spec => []HungOnlyIfGone` |
| `SeenCancel` | `Spec => SeenCancelIsFinal` |
| `Delivery` | `Spec => ImplementsDelivery` |

*The argument.* `TypeOK` is proved first, together with the fact that the
response handler is held only by a session. None of the safety invariants is
inductive: consent, for example, travels from the controller to tokens, to
admitted uploads and to the disk in four turns of the event loop, and in
between the session may be another. `IInv` says at each of these stations what
the next relies on: a token is given only to a selected file of the session
that offers it; a running upload carries a selected file that belongs to the
session it was admitted to; a file marked finished is stored; a session that
waits has its handler between `window` and `asked` with an unused controller, or has
none any more.
The proof goes by actions, with one lemma for each helper that several actions
share (`Grant`, `Resume`, `PutReply`, `CloseSession`, `Conclude`, `Hang`), and one
for each group of steps. `Delivery` shows that the initial state maps to the
initial state of `FileDelivery` and that every step consents, stores,
acknowledges or changes none of the three sets, using that selections only grow.

`SendSessionProofs` proves from `SendAssumption` (types of the constants; what a
receiver may pick from is offered), for any sessions, files, workers and retries:

| Theorem | Statement |
|---|---|
| `TypeCorrect` | `Spec => []TypeOK` |
| `Invariance` | `Spec => [](Shapes /\ \A s \in Sessions : SInv(s))` |
| `UploadsDoNotMeet` | `Spec => []LoopAndRetriesApart` |
| `OutcomesAreTrue` | `Spec => []OutcomeIsTrue` |
| `EndedSessionsStayEnded` | `Spec => EndedStaysEnded` |

*The argument.* No step of a session touches what the properties say of another,
so the invariant is stated and kept session by session. That the loop and a retry
never meet on a file is not inductive: the user may send again a file whose refresh
button is shown, which is decided by its state in the last frame and not by the
queue. `SInv` therefore relates the three: what is on the page has left queue and
loop (`OnePlace`), and as long as the session is there to have states, what a worker has
is "sending" and what is in the queue is "queue" (`StatesMatch`). Of what is sent
again the same can be said only until the user sends it twice at once
(`RetriesMatch`). `WaitsInQueue` and `LoopIsOver` are what an outcome needs: only
the last worker, or a retry after it, reaches `_finish()`. Most steps change a
status only; `MostAreStatusOnly` settles them together.

`HttpExchangeProofs` proves from `ConstantsAssumption` (the setups are setups), for
any devices, hosts, calls and any capacity of the nonce maps:

| Theorem | Statement |
|---|---|
| `ListenersEndTogether` | `Spec => []NoListenerAlone` |
| `OkIsAlwaysFromExpected` | `Spec => []OkIsFromExpected` |
| `NoncesStayPaired` | `Spec => []NoncesPaired` |
| `ExchangesAgree` | `Spec => []NoncesAgree` |
| `TypeCorrect` | `Spec => []TypeOK` |

*The argument.* That a success comes from the device whose key was expected rests
on `SuccessIsVerified`: in each client operation the certificate is the first thing
that is looked at, so no later check can hide a wrong key. That the two nonce maps
of an end agree is not inductive, because the order of the entries depends on all
exchanges so far: `PairedAt` says that the maps are equal but for the entry of the
one call that holds the lock and has written the first of them; for this it does not
matter what `Put` does, only that the same is done to both. It matters for the
capacity and for the agreement of the two *ends* of an exchange: `PutSpec` says that
`LruCache::put` leaves a map with one entry per name, no more entries than fit, and
none but the new one for the name it was given. `AgreeInv` follows an exchange through
four facts: a call that another one found ended is still ended (`before`); what is
stored belongs to an exchange under way, at the client to a successful one
(`EntryInv`); once a server has answered, what it has stored of that client is not
older than the exchange (`ServerInv`); and what a client has stored of a server is
not older than an exchange it succeeded with since (`ClientInv`). The last two hold
because a call that has ended writes nothing any more, and each write replaces what
was stored under the name.

`WebRtcTransferProofs` proves from `CountsAssumption`, `SetupsAssumption` and
`NoneAssumption` (types of the constants; `None` is none of the values it stands in
for), for any files, chunks, PINs, tries, expected keys, faults and any capacity of
the receive stream from 2:

| Theorem | Statement |
|---|---|
| `TypeCorrect` | `Spec => []TypeOK` |
| `NothingLeaksEver` | `Spec => []NothingLeaks` |
| `FilesStayWholeEver` | `Spec => []FilesStayWhole` |

*The argument.* Until the first file the two tasks move in lock-step: at any time
one of them acts, or one message is under way, or the session is stuck. `HInv`
lists these stages (`Opening`, `ReceiversPin`, `SendersPin`, `Passed`, `GivenUp`,
`After`) with the program counters, the messages on the channel and what has been
checked at each. Lost messages are what makes it long: every stage also allows
that its message is gone, and a send on a dead connection may fail or seem to
succeed. There is one lemma per action; `StageStays` settles the steps that move no
task.

From the first file on many messages are under way at once, and stages no longer say
enough. `FilesStayWhole` is about an end of a file that R meets long after S has sent
it, so the invariant is about everything in between. `Line` is the message R has
dealt with last, followed by R's stream and the wire. `Fits`: each message of the
line follows the one before it, a chunk the chunk or the header of its file, a text
only what ends a file of which S has sent no more than that. `Feedable`: what S sends
next will follow the last one. `AtHand` and `HeadersAreNew`: no file is begun
twice. Then a step appends to the line, moves a message along it (a delivery leaves
the line as it is), takes its first or cuts it off, and the lemmas about chains
(`ChainGrows`, `ChainPops`, `ChainCut`) do the rest; they need no induction, since
they say what each message owes its neighbour. `AnswerInv` says that all but the last
ended file have been reported on, which is why a result that carries no name is of
the file at hand. `EndInv` is about S's last steps: until S has sent the delimiter, R has none
(`DelimiterIsLast`); when S waits for its last message, R's stack has acknowledged
every chunk that is still on the wire (`AllAcknowledged`; `Counted` keeps the count
within the wire); and what S then reads is an answer to a file (`AnswerAwaited`). `Quiet` is the part of a
session before the first file, in which none of this can be said yet.

`WebShareProofs` proves from `WebShareAssumption` and `ShareAssumption` (the names
used as constants differ), for any addresses, connections, PINs, operations and
sockets:

| Theorem | Statement |
|---|---|
| `TypesStay` | `Spec => []TypeOK` |
| `OnlyOneServer` | `Spec => OneServer` |
| `PageAlwaysShowsShare` | `Spec => []PageShowsShare` |
| `PromptsStayLive` | `Spec => []PromptsAreLive` |
| `AlwaysServedWithConsent` | `Spec => ServedWithConsent` |

*The argument.* `Inv` has a part for each actor. `SocketInv`: at most one socket
listens, and if one does, the app knows it or knows none (the server is lost); a share
needs a server. `PageInv` ties what the page's operation does to the page: while the
page is running its operation has ended, and unless the server is lost, it listens.
`RequestInv`: every open request is at a socket that listens, prompts and
waiting requests belong together, and an active session is one of `consent`. Each part
is kept by most actions because they do not touch it; the lemmas `StopsCases` and
`TaskTypes` say once what beginning an operation does. Once two operations have raced,
what is listening is no longer known, which is why `OneServer` and `PageInv` leave out
the states in which a server is lost.

`SignalingProofs` proves from `SignalingAssumption` (types of the constants), for any
connections, limits, queues and messages:

| Theorem | Statement |
|---|---|
| `TypeCorrect` | `Spec => []TypeOK` |
| `ListsAreRight` | `Spec => []ListsOfPeersAreRight` |

*The argument.* The property speaks of clients to which nothing is on its way; the
invariant says of everybody else where the news is until then. `Announced`: of two
registered peers each is in the other's list, in a Join in its queue, in the list of
a joining handler that has not sent it yet, or in a Hello. `Dismissed`: whoever a
client knows, or is about to hear of, is still there, was in its Hello, or has
its Left on the way. `Introduced`: before a message of a stranger in the queue lies
the Join or the Hello that names it. `Ordered` is what keeps a Left behind
everything its peer said, and `Fresh` what a client knows before it is served:
nothing. That a client who comes back is another member of `Peers` is used
throughout: nobody joins twice.

`SignalingClientProofs` proves from `ConstantsAssumption` (types of the constants;
`None` is not a message), for any offers and any channel:

| Theorem | Statement |
|---|---|
| `TypeCorrect` | `Spec => []TypeOK` |
| `AllIsKept` | `Spec => []NothingIsLost` |

*The argument.* The places a message passes are one sequence, `Way`, from what the
user has heard back to the socket. Every step of the client moves the boundary
between two neighbours and leaves the sequence as it is (`MoveFirst` and its like,
about concatenation, are the lemmas); the server appends to it and to `sent`; the
loss of the connection cuts it at its end.

`UsbExchangeProofs` proves from `UsbAssumption` (types of the constants; `Safe` leaves
its own results alone; `Partial` is no file), for any names, files, visits and actions:

| Theorem | Statement |
|---|---|
| `TypeCorrect` | `Spec => []TypeOK` |
| `ReportsHold` | `Spec => []ReportsAreTrue` |
| `SavedFilesStay` | `Spec => SavedUnderNewNames` |

*The argument.* The two searches for a free name look at one candidate more than there
are names taken, so that one is free is the pigeonhole principle (`SomeIsFree`). An
action carries the list of the copies it prepares, and the invariant says of
each entry what is at its path: in a pull (`Pulled`) nothing before its copy begins, a
partial file while it is made, all of it afterwards unless the tool has printed an
error; in a push or an export (`Exported`, `Pushed`) the local copy from its writing on
and the phone's from the end of its transfer. That the paths of one action differ is
what lets one copy leave the others alone. Of two actions that work on one folder at once
nothing of this can be said, since they may choose the same free path; `crossed` marks
both, the invariant is about the others, and an action that is not marked has had
its folder to itself from its start. The types need no such exception.

*Only model-checked:* everything about liveness, which is out of the prover's reach:
`AcceptedIsServed`,
`ReplyIsAnswered`, `QuickSaveFrees`, `SendingEnds`, `GoneIsRemoved`, `BusyEnds`,
`BothUsersAreTold`, `WaitingEnds`, `LeavingRestarts`.

## 6. Plan

What is at the top matters most to the people who use the program, and each
module is written so that it can be proved about (constants with assumptions, one
action per operation, invariants in named parts, no RECURSIVE operators).

Done, with proofs: `FileDelivery`, `ReceiveSession`, `SendSession`, `Signaling`,
`SignalingClient`, `UsbExchange`, `WebRtcTransfer`, `HttpExchange` and `WebShare`.

To do:

1. `FileSaver` with `History`: two saves of one name, two entries at once; the
   result of a read-modify-write over an await.
2. `Transfer`: `SendSession` and `ReceiveSession` composed, with the wire format (a
   session id that is missing or not). Properties: the two sides' outcomes
   agree; the sender's `finished` files are on the receiver's disk.
3. `RustBridge`: the locks that the generated bridge takes around the two
   controllers of `app/rust/src/api/webrtc.rs`, once the app drives a transfer
   through it. `listen_status` and `listen_error` of the sending controller are
   `&mut self`, so the bridge (`frb_generated.rs` 1419, 1295) holds the write lock
   until the transfer is over, and `send_pin` and `send_file`, which the transfer
   waits for, never get the read lock.
4. Discovery, if room is left: mostly network I/O around a map of devices.

## 7. Not modelled

Discovery, file saver, history and favorites are planned as above. Of the web share
the pages in `assets/web` and the data they show, and of the server's lifecycle a
change of the port, are left out. Settings, persistence, translations,
pages that only display, platform channels and packaging have no protocol state.
Of the Rust core: pairing over WebRTC, which no receiver of this repository asks
for; the multicast message of protocol 2, which nothing sends; the text of errors;
signatures, hashes and encodings, which are conversions. `frb_generated.rs` is
generated; the app's signaling provider is a stub that never connects.
