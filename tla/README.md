# A verification project for qianfan_jiqiren

The program relays customer service chats between the Qianfan desktop client and
WeChat.  A buyer's message in a shop page becomes a WeChat notification; a WeChat
reply that quotes it becomes a message to the buyer.  The modules here model the
parts of it where several processes, timers, files and retries meet, TLC checks
them on small instances, and TLAPS proves what matters most for every instance.

## The system

An Electron main process (`src/src/main`) owns a **supervisor**
(`src/src/runtime`), which forks six worker processes and forwards messages
between them.  The workers share no memory:

| part | source | state it keeps |
|---|---|---|
| supervisor, runner, watchdog, restart policy | `runtime/supervisor.js`, `worker-runner.js`, `watchdog.js`, `restart-policy.js` | status of each worker, restart timers, restarts under way, heartbeats |
| message bus | `runtime/message-bus.js`, `workers/worker-bootstrap.js` | requests that wait for an answer |
| wechat-callback | `workers/wechat-callback.worker.js`, `wxbot-new-callback-server.js`, `wxbot-new-health.js` | the HTTP server, its port, the WeChat client |
| wechat-reply | `workers/wechat-reply.worker.js`, `wechat-reply-parser.js` | replies being handled, receipts being sent |
| qianfan-sender | `workers/qianfan-sender.worker.js`, `adapters/legacy-qianfan-sender-adapter.js` | sends being admitted |
| qianfan-listener | `workers/qianfan-listener.worker.js`, `qianfan-ws-bridge.js`, `qianfan-message-listener.js`, `chat-parse.js`, `qianfan-ui-sync.js`, `qianfan-native-sync.js` | attached shop pages, their WebSockets and templates, sends that wait for an answer, scripts under way in a page |
| wechat-notifier | `workers/wechat-notifier.worker.js`, `qianfan-wechat-notifier.js` | merge buckets, notices being sent |
| persistence | `workers/persistence.worker.js`, `adapters/legacy-data-store-adapter.js`, `qianfan-data-store.js` | every file: dedup claims, send ledger, idempotency cache, pending and sent replies, receipts, dead letters |
| one-click program | `wechat-to-qianfan-reply.js`, `wxbot-new-oneclick.js` | a second way to handle replies, in one process |
| client launcher | `qianfan-client-launcher.js` | the Qianfan client, from outside |
| window and home page | `renderer/app.js`, `main/ipc-bridge.js`, `main/main.js`, `shared/runtime-health.js` | what the user sees |
| protocol daemon, client, bridge | `protocol/` | a second way into the shop without its page: one socket per shop, a file of handled messages |
| protocol bridge sessions | `protocol/qianfan-protocol-bridge-handlers.js`, `qianfan-protocol-service.js`, `qianfan-protocol-session-store.js`, `qianfan-data-store.js` | two files that say who is in a conversation, shared with the process that records what buyers write |
| protocol configuration | `capture/qianfan-protocol-tap.js`, `protocol/qianfan-protocol-tap-config.js`, `qianfan-live-context-extractor.js`, `qianfan-protocol-config.js`, scripts that export and refresh | what was seen in the shops' pages, the files of the tap, the shops' rows of a local file |
| order collector | `client/qianfan-order-collector` (beside `src/src`), `protocol/qianfan-protocol-order.js`, `qianfan-protocol-bridge-order-handlers.js` | the query under way on the server, the table and the buttons of the page |
| shop cookies | `qianfan-cookie-collector.js`, `shop-cookie-uploader.js`, `qianfan-full-cookie-collect.js`, `shop-cookie-ticket-harvest.js` | what each bridge saw of its cookie, debounce timers, a state file and a cache file |
| wxbot | `tools/wxbot-new-src` (Go) | response table, connection to the WeChat client, configuration |

Parts interact by bus messages (fire and forget, dropped if the target is
down), by requests to persistence (answered, or timed out at the requester while
persistence still executes them), by process signals and exits, and by files.
What is hard about it: late execution of timed out requests, duplicated
deliveries, crashes between durable writes, results applied out of order,
restarts that race stops, sends whose outcome is unknown.

What makes each part correct, and what is hard about it:

| part | must hold | hard because of |
|---|---|---|
| reply relay | a text is on its way to the buyer once at a time; what was sent is not sent again; a failed reply is on record and can be retried | late requests, redelivered and retyped messages, crashes between files, results out of order |
| supervisor | one process per worker, none forgotten, a stop is final and ends | forks, exits, timers, watchdog and the user interleave at every await |
| buyer notification | a message is marked only when everybody has it; nobody gets it twice; a reply id names one buyer and finds its row; no message is lost | merging, partial failures, claims that expire, answers from a cache |
| shop page and send | the bridge follows the connection, answers are heard across reconnects, the probe keeps to its rules, the page comes back | callbacks of earlier connections, a bridge that is replaced under a send |
| reply target, receipts | a reply goes to the buyer of the notice it answers; who wrote a reply that failed hears of it, once | callbacks that come late or never, files that are cut off, claims of their own, crashes |
| chats | what a buyer said, and nothing else, is told, once, whichever way it comes | frames, the page's own answers and polls bring the same items in different shapes |
| page by hand | the bot types only where it means to | scripts that outlive their caller, the user at the same page |
| start, window | no client is ended that was launched for debugging; the window does not wait for ever | the user and a second start between a look and an act; pushes, polls and answers in any order |
| home page | the lamps say what the workers do | flags that outlive their process, heartbeats taken for readiness |
| shop cookies | a shop's cookie is complete, its own, and gets to the order server | timers, uploads that overlap, titles that are parts of titles, a page driven elsewhere |
| protocol daemon and client | one worker per shop, a message told once, the shop comes back, each request ends | reloads that overlap, attempts that outlive a teardown, two requests on one socket |
| protocol bridge sessions | what is sent for a buyer goes to his conversation and to him | the files are rewritten by two processes and may be read empty; names are parts of names; what is known of a buyer differs from request to request |
| protocol configuration | a shop is served with what was seen in its own page | one tap file for all shops, titles that contain one another, exports and refreshes in any order, rows that are filled field by field |
| order collector | the table that may be exported has every order the platform listed | the list moves under the pages that are read, several runners share it, a shop or a request fails |
| wxbot | an answer gets to its question; the table's channels are closed once | requests of one kind, cleanup, clients that change |

## Modules

| module | models | depends on |
|---|---|---|
| `ReplyRelay` | a WeChat reply on its way to the buyer, across four workers | `SendSlot` (refinement) |
| `SendSlot` | what that way promises for one (replyId, text): the abstract specification | |
| `ReplyRelayProofs` | theorems about `ReplyRelay`, that it implements `SendSlot`, and that failures are on record and acknowledgements come once | `ReplyRelay`, TLAPS |
| `WorkerSupervisor` | boot, stop, watchdog and restarts of the workers | |
| `WorkerSupervisorProofs` | theorems about `WorkerSupervisor` | `WorkerSupervisor`, TLAPS |
| `BuyerNotify` | a buyer's message on its way to the people who are notified | |
| `BuyerNotifyProofs` | theorems about `BuyerNotify`, and that notices name one buyer, can be answered and come once | `BuyerNotify`, TLAPS |
| `ShopPage` | the DevTools connection to the page of one shop | |
| `ShopSend` | text sends through that page | `ShopPage` (composition) |
| `ShopSendProofs` | theorems about `ShopSend` | `ShopSend`, TLAPS |
| `ReplyTarget` | which buyer a reply goes to, and receipts about failed replies | |
| `ShopChat` | which items of a shop's chats become messages, by frame and by poll | |
| `ShopUi` | scripts in the shop's page: the chain after an answered text, the probe | |
| `ShopCookies` | cookies of shops: capture, checks, uploads, harvest, operator's sync | |
| `ProtocolDaemon` | workers of the protocol daemon, reloads, messages, the agent | |
| `ProtocolClient` | requests of the protocol bridge on one cached client | |
| `BridgeSession` | to which conversation and receiver the bridge writes for a buyer | |
| `ProtocolConfig` | the configuration with which a shop is served without its page | |
| `OrderQuery` | a search for the orders of some shops | |
| `WxConfig` | the configuration of wxbot | |
| `WxBot` | the Go service: HTTP calls, response table, connection | `WxConfig` (composition) |
| `Desk` | window, tray, starts and stops, and the Qianfan client | |
| `HomeStatus` | lamps and title of the home page, boot of the callback worker | |
| `MCReplyRelay`, `MCWorkerSupervisor`, `MCBuyerNotify`, `MCShopSend` | small instances of one component | |
| `MCLoops`, `MCParts` | small instances of components that share no state: an initial value, `followed`, says which of them a behaviour is about | |
| `ProtocolProofs` | theorems about `ProtocolDaemon` and `ProtocolClient` | these two, TLAPS |
| `DeskProofs` | theorems about `Desk` and `ShopChat`, and about `MCLoops` | `MCLoops`, `ProtocolProofs` |
| `ReachedProofs` | the inductive invariants of `ReplyTarget`, `ShopUi`, `BridgeSession` and `ProtocolConfig` | these four, TLAPS |
| `PartsProofs` | those of `ShopCookies`, `WxBot`, `HomeStatus` and `OrderQuery`, and the theorems about `MCParts` | `MCParts`, `ReachedProofs` |

Operators marked `(mutant)` or `Bug` are forms of a definition that a plausible
mistake in the code would give it; no specification uses them.

### ReplyRelay

An *attempt* is one delivery of a WeChat message by the callback server.  Its
`pc` follows the code: `Deliver` (`wechat-reply.worker.js`, the message is
parsed), `lookup` and `dedup` (two requests to persistence), `request` (the bus
message to the sender), `gate` (`recordPending`), `execute` and `sending` (the
listener and `sendQianfanTextReply`), then an end.  `inbox` is the queue of
persistence, which works on one request after the other; `job` is what is left of
the durable writes of a result, so that a crash may fall between any two.  The
files are `claim`, `wxClaim`, `ledger`, `rows`, `dead` and `cache`.  A crash
loses what is in the memory of the worker, a restart reads the files again.

Time is counted in ticks.  `Req`, `SendMax` and `TTL` stand for 10 s, 12 + 36 s
and 120 s; claims and rows have ages, attempts have timers.  The hops over the
bus take no tick.  A request that timed out stays in `inbox`.

`SendSlot` is the promise: a slot that at most one attempt holds and a verdict
nobody writes while it is held.  `KeepsSlot` maps the attempts between the claim
and their result to the holder and the status of the ledger row to the verdict.

### WorkerSupervisor

A worker is a record: its processes (numbered by fork), the process the runner
takes for its child, those whose events it listens to, the processes its timers are
for, the status that the window shows, its watchdog entry, its recent restarts and its
restart timer.  `boot`,
`wechat` (the second half of the boot, which is put off until the listener is
ready), `restart[w]` and `stop` are the async functions, each a program counter
with one step between two awaits.  A continuation whose promise is settled runs
before the next event, as JavaScript has it (`Settled`).

The timers of a stop are single fields of the runner: `armed` is the process they are
for, and a later `stop()` of the same runner clears them if it finds nothing to stop, or
puts its own in their place, so that those before run on unheld (`loose`).  `Kill` acts
on both.  The forced timer is left out: a process that was signalled is gone before.

The user's commands are not kept apart.  The window looks at the status and at its own
flag before a start, the tray's stop looks at nothing, a restart by hand asks only
whether that worker is being restarted.  A command that meets another one's loop (a
restart during a boot or a stop, a start of a relay that another start has left
degraded) goes through and is noted as `"crossed"`.  Bounds: one boot loop of each kind
and one `stopAll` at a time, and forks fail as long as faults are left and not behind a stop
(`ForkMayFail`).  Of the runner's status `"registered"`, `"starting"` and `"stopped"` are
kept apart, of the worker's those that some step asks for; `"on"` is starting or running.
Left out: `dispose` (the program's end), and that restarts drop out of the fuse's ten minutes.

There is a way for `stopAll` not to end.  A hung worker is awaited by it; the listener's late
ready message (`supervisor.js:774`, `:672`) starts the WeChat workers behind the stop, and a
second process takes the place of the hung one; that one dies, and the `stop()` of its restart
has nothing to stop and clears the timers of the first (`worker-runner.js:319`).  The hung
process is not killed and `stopAll` does not end, though `worker-runner.js:374` says that
`stop()` always resolves.  TLC finds this trace in the instance of `recover` when the exception
(`Disarmed`) is taken out of `StopEndsIfArmed`; with it the property holds there.

### BuyerNotify

A *sighting* of a message is checked by the listener, claimed by the notifier,
merged with what the same buyer wrote within `MERGE_MS`, and flushed: `Then` is
`flushMergeBucket`, one branch per await, `Becomes` what the answer leads to.
Persistence answers in the order of its inbox; a requester may give up waiting
at any moment (`Timeout`), which needs no clock.  `Deliver` is one call of wxbot:
sent, refused, or sent without an answer in time.  Claims expire (`Expire`), the
three workers crash and restart, at most `MaxFault` times.

The targets are those of the configuration, each once (`wxbot-new-config.js:124` and
`:189` drop repetitions), so what is left of a round is a set and `Turn` picks whose
turn it is by `TargetOrder`.  Left out: images, a change of the targets while the relay
runs, rows that were replied to, and the sets of recent keys that only save requests.

Run `overtaken` shows a defect.  A first message reaches one of two targets and leaves
a partial row; before it comes again the buyer writes a second one.  Its flush finds
that row (`qianfan-data-store.js:510` asks for the conversation, not for the message),
takes the row's targets for told, sends to the other one only and marks the second
message as notified.  What does hold of a marked message is `NotifiedReachedAll`: each
target has a notice of that *buyer*.

Run `resumed` shows another.  A message reaches one of two targets, its row says so, and at
the next poll the lookup for the row is answered from the idempotency cache
(`legacy-data-store-adapter.js:592`) as it was before there was a row: the retry starts from
nothing and the first target is told again, where `scripts/check-partial-notify-resume.js:28`
expects the row with that target.

### ShopPage and ShopSend

`loop` is `maintainPageConnection`, `bridge` what the registry holds for the
shop, `alive` whether the connection works, `open` whether the page's own message
socket is open.  Heartbeats and prewarmings outlive the connection they were
begun on: those of the present one are `"now"`, all others `"old"`.  A send is a
program counter through `sendPayloadToImpaas`, and remembers whether the bridge
it found is still the one in the registry.

Durations are left to chance but for two facts: the loop sleeps longer
(`CDP_RECONNECT_MS`) than the send that asked for a reconnect waits
(`IMPAAS_RECONNECT_WAIT_MS`), and the cooldown of the probe is longer than the
way from its mark to the probe.  Left out: images, the layout and numbering of
payloads, several writes of one payload.  What is done after the answer is
`ShopUi`, the poll for missed messages is `ShopChat`.

### ReplyTarget

A notice carries a reply id; the callback of the robot's own message maps its
WeChat id to the reply id (`Echo`); a reply quotes the notice in one of the ways
of `Mode`, which stands for what the fields of a callback may hold
(`wechat-reply-parser.js`).  A reply goes through `Parse`, `Look` and `Send` of the
workers, or through `StrictReply` of the one-click program, which compares all it
can see with the pending row.  `CutOff` is a file that a crash left torn: it is
read as empty.  The sender of the workers asks the page which conversation is
meant (`Resolved`); `Lists` is what the page may have listed last.  Receipts
(`Claim`, `Tell`, `MarkSent`) have claims of their own, which go stale.

### ShopChat

An item has traits: who says it, how that shows, whether a frame names its
conversation, what it has of id and time.  `FromFrame` and `FromAnswer` read it as
`chat-parse.js` reads frames and answers; `Key` is
`buildCanonicalBuyerMessageKey`.  Telling is one step, with a failure: how it is
done is `BuyerNotify`.

### ShopUi

Scripts run in the page beside the user: `FinalizeSendAfterAck` is the chain that
announces an answered text, opens its chat anew and reads it; `Probe...` is the
script that types and presses send.  A script that opens a chat clicks another one
first and pauses in between; its caller may give up (`OpeningTimesOut`) while it
goes on.

### ShopCookies

A cookie is a record of its owner and the versions of its parts.  `bridge` is what
requests of the page have shown, which `Collected` merges with the jar.  Checks and
uploads are jobs that hold what they read before an await (`file`, the state file;
`cookie`), so that an answer may come after that of a later job.  The harvest drives
each page through the sign-on; `Order` and `Within` say whose title is found first.
Left out: the DevTools list as a fallback for a bridge, other computers.

### ProtocolDaemon and ProtocolClient

A daemon worker is a record: live, listed, its client, attempts of earlier clients
(`old`), reconnect timer, poll.  Reloads are program counters, one step between two
awaits, and overlap.  A message is consumed, in memory and file, and then told.
`waits` is the number of reconnects in a row; after `Patience` of them the back-off
is longer than any attempt takes.  The file is saved in one step: a save that fails is left
out, and so is one that a crash cuts off (`qianfan-protocol-daemon-dedup.js:50` writes in place), after
which the file is read as empty and messages are told again.

A client request is a program counter from `new` to `ok` or `failed`; `auths` are
authentications under way, whose promise all callers share; `known` is what the
platform knows of each socket, which the client's flag need not agree with.

### BridgeSession

The order system asks the bridge to write to a buyer of whom it may know the user id, the
name and what it was told the last time (`holds`).  `Found` is the search through
`qianfan-session-context.json`, `Fits` what a row must have for it, `Target` the
conversation and the receiver that are left when the request, the row and
`app-cid-receivers.json` have been asked in the code's order.  `SendTaken` puts into the files
what the message was sent with.  The recording process reads a file, adds what a page showed
and writes it back (`RecorderReads`, `saveSessionContext`), so that a row may be lost between; a
file that cannot be parsed is read as empty.  A buyer is his name: `Part` says whose name is
part of whose, as names are compared by inclusion.

### ProtocolConfig

`seen` is what the bot keeps in memory of each shop's page (`SeesList`, `SeesSend`,
`SeesOpen`, `SeesAuth`); `registerQianfanWsBridge` hands it on when the page is connected
again, and to a shop with a similar title, which shares the tables from then on (`maps`);
with the tap on the same goes to `tap`, the newest daily file and the one before it.
`Export` fills a row of the local file from the memory, `Refresh` every row from the last
lines of the two files (`TakeList`, `TakeSample`, `TakeEndpoints`, `TakeSignOn`, one for
each group of fields), `ServiceStarts` and `DaemonLoads` read a row and refresh it once
more. A field is represented by the shop or the conversation it came from. Titles are
compared by inclusion, which is `Akin`; shops that are linked by such pairs are of one
`Brand`. Left out: cookies, sequence numbers and the fields of images, which follow the ways
of those that are kept.

### OrderQuery

A search is `Search` in the page, then per shop `ReadPage` until `LastPage`, then a pool of
runners (`Take`, `MakeRow`) that puts a row for each entry at the entry's place, then
`Answer`.  Orders are placed at any moment and anywhere in the list (`PlaceOrder`).  A shop may
be left out or fail, and a query may be lost as a whole (`QueryFails`).  `before` is history:
what the platform listed when the search was made.  Left out: what a row tells of an order but
for whether its phone number was decrypted, which a search by phone depends on.

### WxBot and WxConfig

A call takes a place in the response table (`pending`, keyed by type and client),
asks, and waits; answers, the sweep of old places, a failed question and a second
call with the same key each empty it.  `HandleResponse` gives an answer to whoever
holds the place.  The service starts, injects, loops, reconnects and stops; clients
come and go.  `WxConfig` has the configuration in memory, in its file and in the
service.  The DLL loader (`manual_map_windows.go`) and the injected library are
external.

### Desk

A start is a program counter through `startRuntimeWithQianfanPreflight`,
`ensureQianfanReady`, `ensureQianfanDevToolsReady`, `launchQianfanClient` and
`startAll`; each look at the client and each act is a step, the user and other
starts fall between them.  The window has what `renderButtons` reads: `relay` and
`starting`, changed by pushes, polls and answers.

### HomeStatus

Time goes in steps of five seconds, the interval at which the page is told.  `wk` is
what a worker does (`proc`, `done`, `erred`) beside what the supervisor has of it
(`status`, `watch`, `timer`).  The callback worker's boot (`Probe`, kill, start, wait
for the login, serve, retry) is in full, with the one-click program, which kills
WeChat and the owner of the port.  Simplified: a forked process reports and a stopped
one is gone within a step; the fuse's ten minutes do not pass; restarts do not overlap
(they do in `WorkerSupervisor`).

## What is checked

| run | instance | what it shows |
|---|---|---|
| `faults` | 2 attempts of different messages with one text, 2 crashes of any worker, persistence slower than any timeout | types; one attempt at a time; the ledger row is pending while it is with the listener; every failure has a dead letter if nothing crashed; only a refused attempt takes a success back; `SendSlot` is implemented |
| `healthy` | 3 attempts, two of them copies of one message, persistence answers before the timers | one acknowledgement per text, no reply is dropped without an original, every reply ends |
| `resend` | as `healthy`, slow persistence | **violated**: one message is acknowledged twice |
| `recover` | a listener and a WeChat worker, fuse of two restarts, 2 faults of processes and forks, a start and then a restart by hand, a stop or a second start | types; one process per worker, none forgotten, all come back or are shown as failed; a stop ends, unless the hung process it awaits has lost its timers |
| `apart` | 2 buyers, 3 sightings, 1 target, 2 faults: refused sends, late answers of persistence, crash of the listener | types; reply ids, rows, nobody is notified twice |
| `resumed` | 1 message, 2 targets, 2 refusals | **violated**: nobody is notified twice |
| `lively` | 1 message seen twice, 2 targets, 2 faults of any kind | marked means that every target has a notice of the buyer; what blocks is marked; every message is notified |
| `overtaken` | 2 messages of one buyer, 2 targets, 2 refusals | **violated**: a message is marked that one target never gets |
| `page` | 2 sends, 1 fault of page or connection, socket open or shut at first | bridge follows loop, answers are heard, probes are rare, the page comes back |
| `loops` | one of: 2 starts, 3 acts of user and system; 2 items of 7 kinds, 2 faults; 1 shop, 3 daemon workers, 1 message, 2 events from outside; a text and a text with an image on one client, 4 sockets, 2 faults | only clients without the debugging argument are ended, the window does not start for ever; buyers are told, once, of buyers' words only, what was missed is found; the listening worker is the listed one, a message is told once, the shop comes back; what is called sent was taken, requests end |
| `parts` | one of: 2 notices to 3 buyers and 2 replies in 7 forms, 4 accidents; the page of 3 chats, 2 answered texts, a probe, 1 act of the user; 2 shops with similar titles, 2 jobs, 2 events; 2 HTTP calls, 2 clients, 2 events; 2 editors, 3 changes; 3 workers, 1 fault; 2 searches of 2 shops, pages of one entry, 3 of them, 2 runners, one order placed; 2 bridge requests at 3 buyers, of whom one's name is part of another's; 3 shops, two with similar titles, 3 things seen in their pages, 2 exports or refreshes, 3 of both together | replies, probes and what the bridge sends reach whom they are meant for, a shop is not served with another's data (within the causes named); a failure is told once; cookies are whole, at home and submitted; answers get to their calls; lamps tell the truth, tables of orders are complete |
| `wrongbuyer` | 2 buyers, the page has listed one of them | **violated**: a quoted reply to the one is sent to the other |

**Combined runs.**  `MCLoops` and `MCParts` put components that share no
state beside each other: a behaviour follows one of them from its first state to its
last and leaves the others alone, so the states of a run are the sum, not the product,
of those of its parts.

**Bounds.** Two attempts are enough for each property of the relay that speaks of a
pair, a third gives one of them a predecessor whose late result or cached failure is
still about. Ages and timers stop one tick after the lease, which is all that is
compared. Two crashes allow a crash during the recovery from the first. In the
supervisor two workers of different boot orders are the least for which the deferred
boot and the order of stops matter; with two restarts the first one forks and the second
blows the fuse (`BlownFuse` counts the restart that is under way). Two targets are the least for a partial failure; one old callback is as good as
many, as its effect is that of the shop's name. Three daemon workers of one shop are a
stopped one, a listed one and one that is being started, the most two overlapping
reloads can have; four sockets let both requests replace a socket the other uses. Three
buyers of whom one's name is part of another's, two shops of whom one's title is part of
the other's, and three chats of which two look alike are the least for a mix-up by name.
Two HTTP calls of one kind, two clients, two editors and two starts are the least that
meet. In `HomeStatus` the lamp's ages (15 s and 25 s) and the watchdog's timeout (20 s)
are counted in steps of five seconds; one fault already goes through exit, restart, fuse
and the boot of the callback worker. A page of one entry makes each order placed move an
entry over the border of a page, and three pages cut the list when one more is placed.
Two requests are the least of which one finds what the other has put into the files,
with the recording process between. Three steps of the configuration are one that is
seen in a stranger's page, an export and a refresh that reads both; the pages may be
connected before, in any order, and loads by service and daemon follow at any time.
`MaxSilence` is one step past the last age that is compared.

**Fairness.**  Weak fairness is assumed of what the event loop runs without
outside help: timers that are set, promises that are settled, requests in a
queue, processes that are scheduled, signals that are delivered.  It is not
assumed of crashes, faults, users, the browser, the page's socket, disconnect
events, or a wxbot that fails.  In `healthy` persistence answers in time; that is
the meaning of the run.  In `lively` wxbot answers once the faults are used up,
and the listener polls as long as a message is not notified.  In `loops` attempts,
reconnects and reloads of the daemon and the steps and timeouts of requests are fair, the
platform's answers are not; a start goes on, a stop ends and the status is pushed; polls of
the chat are fair, frames are not.

**Scope.**  `OneProcess`, `NoneForgotten` and `Recovers` speak of a relay the user
has not stopped yet and has not sent a command that meets a boot (see *Behaviour worth
knowing*).  `StopEndsIfArmed` excepts a stop that awaits a hung process without timers.
`NoticesSound` speaks of one target and of a wxbot that answers in time: a second target, or a
send without an answer, makes a notice come twice.  `DroppedHasOriginal` speaks of runs
without a crash or a late request.  `CookiesSound` does not say that the newest cookie is
the last to arrive, nor that the state file keeps what two checks write to it.  `FailureOnRecord` speaks of runs
without a crash: the bus drops what is
sent to a persistence worker that is down, the result of a failed send included.
`UpIsUsable` does not speak of pages that are loaded anew.  `LockHolds` and
`HandsOverMeant` name the torn counter file as the one cause that breaks them, and
`FailureToldOnce` the reply worker's crash.  `ProbeReachesOwn` speaks of pages that show
the row of the shop's own buyer and no row that begins like it, and of probes nobody
clicks into.  `KillsArePlain` speaks of starts that no other start crosses,
`SeenIsSubmitted` of shops whose title is not first taken for another row,
`AloneIsServed` of calls without a second one of their kind, and `LampsTellTruth` not of a
worker that was given up and has complained since (see *Behaviour worth knowing*).  Each of these conditions is
there because the code breaks the property without it.

## What is proved

`ReplyRelayProofs`, for any attempts, messages and keys, any number of crashes and
any `Req`, `SendMax`, `TTL` with `Req + SendMax + Req <= TTL`:

- `Typing`: the type invariant.
- `Relaying`: the inductive invariant `RelayInv`.
- `NeverTwoAtOnce`: two attempts with the same text are never between claim and
  result together.
- `LedgerIsTrue`: the ledger row of an attempt that is with the listener is pending.

`OneAtATime` is not inductive.  An attempt holds its key because its claim is
fresh, and the claim is younger than the attempt's stages add up to
(`LeaseRunning`); but a failed result frees the claim, so a result may not come
while another attempt with the text is under way (`ResultsAreOver`), which in
turn holds as a claim request that overtakes such a result in the inbox finds a
lease that is still running, or its requester has given up (`OvertakenInTime`).
`RequestsAreKnown` and `WritesHaveCause` tie the queue and the half done writes to
attempts.  The proof has one lemma per action and under it one step per part.

- `SlotsAreKept`: `ReplyRelay` implements `SendSlot` (`KeepsSlot`).  By
  `OneAtATime` the holder of a key is well defined.  A claim that is granted is
  `Take`, a pending row that is written is `Open`, a verdict is `Judge`
  (`ResultsAreOver` says that nobody holds the key of a result), and every other
  step, a crash too, only ends attempts: it is a `Leave`, or changes nothing.
- `OnlyRefusalTakesBack`: `SentTakenBackOnlyByRefusal`.  The strengthening
  `VerdictInv` says that a failed result that waits stands for a refused send, or
  for a send whose row has not become "sent" since (its result is the only one for
  the key), and that a verdict is planned only by a result of its own kind.  TLC
  holds `VerdictInv` on the instance of `faults`.

Its second part is about what is left behind:

- `NoFailureForgotten`: `FailureOnRecord`, under the assumptions above.  As long as
  nothing has crashed the result of a failed attempt waits in the inbox or its text has
  a dead letter (`FailuresReported`).  Persistence may skip a failure that the cache
  takes for a repeated one: `RecordInv` adds that the letter is planned whenever it is
  not there yet (`LettersPlanned`) and written before the key of the cache
  (`LettersFirst`, `RepeatsRecorded`), after a crash between the two as well.
- `AckedOnlyOnce` and `NoneDroppedAlone`: `AckedOnce` and `DroppedHasOriginal`, with the
  hypotheses `Prompt`, `Req # 0` and `MaxCrash = 0` of the run `healthy`.  `Healthy` says that
  then no timer runs out (`AnsweredAtOnce`), so that a claim in force stands for an
  attempt that was handed on, and a success is written before anything could undo it.
  Without `Prompt` run `resend` refutes the first one.

`ShopSendProofs`, for any set of sends and any number of faults:
`SendTyping`, `BridgeAndLoop`, `AnswersAreHeard` and `ProbesAreRare`.  The
strengthening `SendInv` adds what the check before a probe leaves behind until
the probe is sent: no cooldown ends, no second send gets there, and a bridge that
is still the one that was checked has not become young (`ProbeGranted`,
`OneProbe`).

`WorkerSupervisorProofs`, for any workers, boot and stop orders, fuse, and any number of
faults and commands in any order:

- `SupervisorTyping`: the type invariant, with the ranges of the program counters
  (`TypeInv`), which the properties need as well.
- `OneProcessAtWork` and `NobodyForgotten`: `OneProcess` and `NoneForgotten`.  The
  invariant `Tidy` holds until a stop or a command that meets a boot: the only process of a worker that may be at
  work is the runner's child, nobody listens to another, and a restart that waits for
  a process waits for the child (`Own`); a worker the two loops of the boot have not come
  to is `Untouched`, and each other is `Kept`: it is restarted, will be, is watched,
  or is shown as failed.  `Phases` says which loop runs when.  After such a
  command both properties fail (see *Behaviour worth knowing*), and they do not speak of it.

`BuyerNotifyProofs`, for any messages, sightings, buyers, targets and any number of
faults of any kind:

- `NotifyTyping`, `MarkedMeansReached` and `BlockedForGood`: `TypeOK`, `NotifiedReachedAll` and
  `BlockedOnlyIfNotified`.  They hold together in `NotifyInv`: whom a row, a cached
  answer, a request in the inbox or a flush holds for told has a notice of that buyer
  (`FilesSound`, `QueueOK`, `JobsSound`); a sighting is part of one flush (`FlushesApart`);
  and of the two files of a mark the set of notified keys is written first (`HalfMarked`).
- `SingleMessageReaches`: if no buyer writes twice, each target has the very message that
  is marked - the hypothesis (`ConvOf` is injective) is what `overtaken` lacks.

Its second part, for the same constants, is about the three parts of `NoticesSound`:

- `IdsNameOneConversation`: a number names one buyer, whatever fails.
  `IdsApart` says it of everything that carries a number - rows, jobs, requests, answers,
  notices - and that no number given is at or above the counter.
- `NoticesCanBeAnswered`: `NoticeAnswerable`, as long as persistence does not crash: its inbox is
  then kept, and there is a row or a request for one (`Answerable`) for each number of a flush, so
  also for each number of a notice.
- `NoticesAreSound`: `NoticesSound`, with the hypothesis `Calm`, which is what run `apart` allows:
  one target, and any number of refused sends, late answers of persistence and crashes of the
  listener.  A message has at most one bearer (`BearersOnce`): a sighting that holds its
  claim and is granted, in a bucket, or in a batch beyond what the flush has ended.  A bearer that
  ends its message posts one mark or release, and a claim that waits before it is still refused
  (`QueueOnce`), so that no other sighting becomes a bearer until persistence has executed it.
  A message of a notice is marked, or its mark is in the inbox, or a flush whose notice was
  sent bears it (`Spoken`); such a flush sends no second notice and releases nothing.
  None of the hypotheses can be dropped: on the instance of `apart`, TLC makes a notice come twice
  as soon as a claim may get too old, an answer of wxbot may come too late, the notifier or
  persistence may crash, or a second target may be refused.

`ProtocolProofs`, for any shops, messages, workers, overlapping reloads, requests and plans:

- `LiveWorkersListed`: `LiveIsListed`.  The proof is by
  what a step may do to a worker's record: none brings a worker to life but the start that lists
  it (`Kin`), and who is taken off the map has been stopped.
- `OkMeansTaken`: `OkWasTaken`.  That a message is told once needs `KeysFirst`: its key is written
  before it is told, and what has no key was never told.

`DeskProofs`, for any starts, acts, items and traits:

- `PlainKillsOnly`: `KillsArePlain`.  Of two starts under way each has met the other (`AllMet`), so a
  start that has met nobody finds the client as it saw it when it comes to end it (`StopsPlain`).
- `BuyersToldOnce`: `ToldBuyersOnce`.  An item is told no oftener than it has keys that are notified
  (`ToldByKey`), and it has one, or one per way.
- `LoopsTyping` and `ProtocolMessages`: `TypeOK` and `MessagesSound` of the specification of run
  `loops`, from the invariants of its four parts (`AllAlways`).

`ReachedProofs` has four inductive invariants, for any buyers, names, shops and accidents:

- `TargetInv` (`ReplyTarget`).  Until the counter file is torn each number that was given is below the
  counter, and a row and a notice that share one share the conversation (`IdsStand`); a reply
  carries its notice's number when it looks, and its conversation when it is handed over
  (`RepliesFit`).  Of receipts, `TellsOnce` ties the claim of a key to the one reply that writes it, as
  long as the reply worker lives, and `TellsAll` says whose failure is told or on record.
- `UiInv` (`ShopUi`).  A script that clicked away goes back to a chat somebody wanted open
  (`GoesBackToGoal`); between its clicks and the key nobody took the page from a probe, or it knows
  (`ProbeAtOwn`).
- `BridgeInv` (`BridgeSession`), with the theorems `BridgeTyping` and `BridgeSendsToMeant`
  (`BridgedToMeant`).  A buyer's family are those whose names are linked with his by
  inclusion.  Each row of the context file, and of each copy the recording process still holds,
  names people of the family of the conversation's buyer (`ContextFits`), as does the file of
  receivers (`ReceiversFit`), what the order system holds (`HoldsFit`) and each call (`CallsFit`).
  `ResolvedFits` is the lemma that a request is resolved within the family, whatever of it is known.
- `SetupInv` (`ProtocolConfig`).  What is held of a page was seen in pages of its brand (`SeenOfBrand`),
  a row of the tap about a conversation is of the shop of that conversation (`TapFits`), and each row of
  the configuration, filled field by field by whichever export, is of its shop's brand
  (`RowsFit`), but for the list and its authorization when the tap is on.

`PartsProofs` adds four, for any shops, titles, calls, editors, orders and bounds:

- `CookieInv` (`ShopCookies`).  What is kept of a shop in its jar, its bridge, a job, the collector's file
  and the caches is its own (`PagesFit`, `JobsFit`, `EntriesFit`, `ServerFit`), as a job of a row acts for
  that row's shop; what a harvest has is of shops whose turn is over and whose page is home
  (`HarvestFit`).  `SeenGoesOut` is what `SeenIsSubmitted` needs: a token seen with the login is due while
  the bridge still counts as recent, or some upload that is under way carries it, or it was sent.
- `WxInv` (`WxBot`), with `WxCallsServed`.  A call in the table has a place of its kind and nobody closes
  it twice (`BegunOnly`, `PlaceIsOpen`); beside a call that is alone nobody asks for the same (`OnlyOne`),
  so the client's questions of that kind are its own (`OwnQuestions`), and the answers too
  (`OwnAnswers`).
- `HomeInv` (`HomeStatus`).  The newest message of all is as new as that of any watched worker
  (`FeedsLamp`); one that is silent too long is restarted or was given up (`SilenceSeen`); and a status
  is never without its cause (`StatusTells`).
- `OrderInv` (`OrderQuery`), with `OrderTyping` and `NothingMissed` (`NoneMissed`).  The list only grows, so an
  entry that was listed when the search was made is still listed (`StillListed`) and stands where it
  stood or later: a page may repeat an entry but not skip one, and the entries read so far hold every old
  one that stands before the page to come (`PagesRead`, `ListRead`).  A place of `results` that is not made
  is beyond `next` or some runner's job (`PoolWorks`, `RunnersRest`), so that the pool ends with each
  entry made.  `CollectedHasAll` and `HasAll` carry this over the shops to the table,
  `NothingAsked` and `BusyAsks` say what there is between two searches.

Of the specification of run `parts` the eight make one invariant (`PartsInductive`): each of its steps is a
step of one component and leaves the others alone (`PartsMove`).  From it follow `PartsTyping`
(`TypeOK`), `BuyersReached` (`ReachesTheMeant`), `FailuresToldOnce` (`FailureToldOnce`), `CookiesAreSound`
(`CookiesSound`), `CallsAreServed` (`CallsServed`) and `ShownTrue` (`ShownIsTrue`).

**Assumptions.**  Most are types of constants and bounds.  The others:

- `TimeAssumption`: the lease outlasts an attempt (10 + 48 + 10 s against 120 s).
- `OrdersAssumption`: the orders of start and stop name workers (`worker-registry.js:36`).
- `NotifyAssumption`: each target is named once.  `OrderQueryAssumption`: a page has an entry.
- `BridgeAssumption`: a name is part of itself, and of names of its family only.
- `SetupAssumption`: titles that contain one another make one brand, which is what a brand is.
- `ShopCookiesAssumption`: "part of" is said of different titles only and never both ways, as of a proper
  part of a string; the harvest's order names each shop, once (the four fixed titles of
  `shop-cookie-uploader.js:75`).
- `ShopChatAssumption`: only buyers have a buyer's id, and an item has an id or a time.
- `ShopUiAssumption`: the shop's own buyer is among those whose rows begin alike.
- `WxHandlersAssumption`: the calls are those that have a handler.  `HomeAssumption`: the heartbeat's timeout is no
  longer than the age at which the lamp warns (20 s against 25 s), and each is shorter than `MaxSilence`.

**Only model-checked.**  Every invariant and every action property of a passing run is proved.  Liveness is
not: fairness and ENABLED are beyond the prover, so `EveryReplyEnds`, `Recovers`, `StopEndsIfArmed`,
`EveryMessageNotified`, `PageComesBack`, `ShopComesBack`, `EveryRequestEnds`, `StartingEnds` and
`MissedIsFound` hold on the instances of their runs.  What the four runs that expect a violation check is
false.  Induction over recursive data is beyond the prover as well; no module proved about needs it.

## Behaviour worth knowing that no run states

The models contain what follows; the properties are stated so as to hold beside it.

*Replies and notices*

- A claim request that is executed after its requester timed out makes the user's
  own retry a silent duplicate (`wechat-reply.worker.js:242`).
- The second failure of a text is answered from the idempotency cache: its row stays
  pending and the user's retries are dropped until the row is old
  (`persistence.worker.js:194`).
- A timed out allocation of a reply id gives the notice the number NaN
  (`qianfan-wechat-notifier.js:269`).
- A torn counter file restarts the reply ids at 1001: ids are used twice, and a number
  typed in WeChat goes to the newer buyer.
- A receipt whose claim cannot be saved is sent all the same, perhaps twice.
- A second notice with the same reply id to the same receiver is not mapped, as the first
  one's mapping is answered from the cache: bare quotes of it are refused.

*Workers, window, home page*

- `stopAll` cancels restart timers once, at its beginning: a worker that crashes while the
  others are stopped is forked again (`supervisor.js:770`).
- After a failed fork inside a restart the retry that the log announces
  (`supervisor.js:314`) is not scheduled, the restart is still registered
  (`:430`); the worker is only shown as failed.  The tenth restart only stops a worker.
- A restart timer is not cancelled by a restart by hand (`:435`).
- A restart by hand while the boot still tries to fork that worker, a restart during a stop, and a
  start of a relay that another start has left degraded go through: a worker may then have two
  processes, or be forgotten.  `OneProcess` and `NoneForgotten` end with such a command (`"crossed"`).
- Each start builds its own controller, so `inFlight` does not keep two of them apart, and
  one may end the client that the other has launched; `launchQianfanClient` does not ask
  whether the program is quitting.
- A stop during the preflight of a start has no effect on it; a start may begin while
  `stopAll` runs, which then reports "stopped" with workers at work.
- After the listener has said "running" it does not report again: the lamp stays green when
  Qianfan is closed.  The first heartbeat makes the callback worker "running" while it still
  boots WeChat.  A notifier that reported one error is "degraded" for ever.
- A worker that was given up, and then reports an error, is "degraded" and no longer "failed"; its
  heartbeat is not checked any more (`supervisor.js:555`, `watchdog.js:58`), so that "all is
  normal" may stand beside it after it dies.
- "All is normal" is shown for up to 25 s after a silent death, and while a crashed worker
  waits to be restarted.
- A WeChat somebody is logged in to already is taken over at the first probe, whoever it is;
  a login that takes longer than 120 s is killed by the next attempt.

*Shop page, sends, chats*

- Phase B of a send waits 4.5 s for a loop that sleeps 5 s, so it never profits from
  the reconnect it asked for, though `.cursor/rules/qianfan-ws-send-flow.mdc:19`
  counts on it; phase C then marks the probe and finds the bridge closed.
- `ensureImpaasWsReady` looks at the bridge it was given and reconnects whatever is
  connected now (`qianfan-ws-bridge.js:1090`).
- A write to the page's socket is repeated when its evaluation times out, though the page
  may have executed it (`qianfan-ws-bridge.js:1380`).
- An HTTP poll that fails because the page is loaded anew closes the bridge behind the loop
  (`qianfan-ws-bridge.js:1646`).  While the page's socket stays shut each prewarming ends in
  a reconnect: the shop reconnects every seven seconds.
- The answer of a send is never confirmed by the HTTP message list: its items are not marked
  as the seller's (`chat-parse.js:836`).
- The probe types and presses send though no row of its buyer was found, finds rows by the
  beginning of their text, overwrites a draft and may press twice.
- A chat item with neither id nor time has a new key at every poll and is told every 25 s
  (the model's items have one or the other); what is older than ten minutes is lost; two
  equal texts without id in one second are one.

*Orders*

- The model takes for granted that the platform's list keeps its order and only grows while it
  is read.  An order that leaves it (a change of status under a filter) moves later ones forward
  over the border of a page, and one is skipped.
- A shift of the list puts an order into the table twice.
- A list of more pages than are read is cut; the figures tell, the page's bar does not show it.
- A search for a whole phone number finds only what could be decrypted.
- A query that fails as a whole loses what it had collected, while the rows of the one
  before stay on show, with the export button off.
- The name of the exported file has the dates that are in the form then, not those searched for.

*Protocol bridge and configuration*

- An earlier row whose name merely contains the name asked for is taken before a later one with
  the right user id: only families of names are kept apart.
- The guard of the one allowed buyer compares the name kept in the configuration, whose
  conversation is replaced by that of the staff's last message: a script that falls back on it
  (`qianfan-protocol-service.js:479`) writes to another buyer.
- The list request and its authorization are taken from the tap whatever shop they are of
  (`qianfan-protocol-tap-config.js:63`), which `ActsForOwn` leaves out when the tap is on.
- Of two shops one of whose titles contains the other's the one that is connected later
  takes over what the bot holds of the other's page and shares its tables
  (`qianfan-ws-bridge.js:1665`), and an export asked for one writes the row of the one whose
  page answered.
- The newest tap file is read before the older one, so that "the last" row is the older file's.
- An export may pair the conversation of one buyer with the receiver of another, until a message
  of the staff is read from the tap.

*Cookies, protocol, wxbot*

- A shop whose title is first taken for another row is never uploaded by itself.  An older
  upload may overwrite a newer one, and a check's write may lose another's.
- After its credential expired a daemon worker does not reconnect by itself; every reload
  restarts workers that have no hash yet; a consumed message whose notice fails is not told;
  the first poll tells what is in the history.
- One flag says "authenticated" for all sockets of a client (`qianfan-protocol-client.js:512`):
  messages are written to a socket the platform does not know.  A replaced socket forgets
  the waiters of others, which then end by their timeout.
- Two calls of one kind share a place in wxbot's table: the first ends as a success without
  data, and a late answer goes to the next question.  A refused configuration item stays in
  memory; `Stop` twice panics; a reconnect has one attempt.

## Plan

Done: every module above, with proofs of all its invariants and action properties.

Left, in order:

1. Writes of one text counted, in `ShopSend`; image sends; sequence numbers.
2. The second, in-process relay of the one-click program beside the workers, beyond its
   target lock.
3. An abstract specification of "a buyer's message is told once" that `BuyerNotify` and
   `ProtocolDaemon` both implement.

## Not modelled

Of the recording of page traffic (`src/capture`) what is recorded before a shop's page is
open, response bodies, milestones and the bundles for development; scripts by hand that combine
the protocol's steps otherwise than the services do; logs, styles and panels of the window, the
licence check, build, check and simulation scripts, the DLL loader of wxbot and the library it
loads.  They keep no state that others read, or their effect is a choice in the model that
uses them.
