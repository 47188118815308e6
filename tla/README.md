# A TLA+ model of gensokyo-wxmp

gensokyo-wxmp connects a WeChat official account with OneBot v11 applications
(bots).  WeChat calls the program over HTTP for every message of a follower and
expects the answer in the HTTP response within five seconds; the applications
are reached over *reverse* websockets that the program opens itself, and answer
whenever they like.  The program's own logic is what lies between: matching
answers with waiting callbacks, keeping what comes too late, keeping the
connections, the identifiers both sides use, the access token of the WeChat API,
and the services around it (picture host, short links, console, log, restarts).
This directory models that logic in TLA+, checks it with TLC on small instances,
and proves part of it with TLAPS for instances of any size.

All line numbers are those of `src/` at the commit the project was written for;
`PROJECT.json` maps every definition to its lines.

## 1. The system

### How the parts interact

    WeChat --HTTP--> core.Server --> mux --> textMsgHandler --report--> WebSocketClient(s) --> application
            (token, AES key,   (chains)        |  ^                        |
             pooled bodies)                    |  | channel                | recvMessage (one goroutine
                         idmap, multid <-------+  | per OpenID             v  per frame)
                         (ids, identities)        +--- echoToChanMap <-----+
                                                       pendingMessages <---+
    WeChat API <--access token-- DefaultAccessTokenServer <-- ProcessMessage --> upload server, object
                                                              (forms, media)     stores, short links
    operator --> web console --> config.yml, restart          every part --log--> hub --> consoles

`main.main` starts everything: `multid.Init` (file watcher), the HTTP listener
for the callbacks, the token server with its daemon, one `WebSocketClient` per
configured address, the id database, then the web routes; it ends on SIGINT or
SIGTERM by closing every client.

### Components, state, operations, what makes them correct

| component | state | operations | hard behaviours | correct when |
|---|---|---|---|---|
| text callbacks (`main.go` 426-689) | one goroutine per HTTP callback, WeChat's retries included | report, wait, answer with text, media, default text or nothing | several callbacks of one user at a time; a timer against a late answer; half-failed uploads | every callback ends; it answers with its own user's replies |
| reply rendezvous (`ws.go` 206-282) | `echoToChanMap` (OpenID to channel), `mapMutex` | `recvMessage`, `WaitForActionMessage` | a send on a channel under a lock; an entry overwritten and deleted by another callback of the user | the send never blocks; a reply goes to one callback of its user, or is kept |
| stored replies (`ws.go` 253-338) | `pendingMessages` (key to slice), `pendingMutex` | append; take what fits in 2047 bytes | a slice cut in place and read through its old header | order from answer to answer, budget, nothing lost or shown twice |
| forms of replies (`main.go` 856-1032, `message_parser.go`, `praser.go`) | stored rest of a reply | parse, turn into a text, image or voice, send a receipt | a half of the answer that no passive answer can carry; uploads that fail; panics | text with a receipt is not lost |
| media (`upload_api.go`, `silk.go`, `oss/*.go`) | files in `data/cache`, one client per store | upload, convert, audit | two conversions of one recording over the same files; crashes; a client that was not made | what is linked is sound |
| websocket link (`ws.go` 52-202, 368-512) | `conn`, `cancel`, `isReconnecting`, `sendFailures`, a reader and a heartbeat per connection | send, read, reconnect, heartbeat and resend, close | flags and slices used without the lock; a connection that drops while the last one is still being set up | one reader, one Reconnect; the link comes back; failed messages are resent |
| OneBot (`Processor*.go`, `ws.go` 206-251 and 535-682, `callapi.go`) | the counter of messages, the list of a link's answers | report in three forms; read actions, answer eight queries, file replies | ids as numbers or texts; echo of any type; two JSON libraries | a reply finds its user; every query is answered as asked |
| identifier map (`idmap/service.go`, `getIDHandler.go`) | buckets in bolt: id to number, number to id, pairs of both, `config` | store (hashed, counted), renumber; over HTTP in lotus mode | tables to be kept inverse; hash collisions; a counter beside hand-given numbers; requests lost or executed twice | a number leads back to its id |
| identity lists (`multid.go`, `main.go` 432-538) | `idmap.json`, `idMapData`, `activeIDToOriginID` | look up, switch and save, hot reload | a reload of the program's own writes; two maps refilled entry by entry without a lock; failing writes | maps and file agree once all is quiet; no entry is lost |
| access token (`core/access_token_server.go`, `client.go`) | cached token, ticker, two unbuffered channels, `hasRetried` per call | `Token`, `RefreshToken`, ticker, one retry on a rejected token | many callers with the same stale token; answers matched with requests only by order; margins of lifetimes | answers do not mix; the cache is never behind; one retry is enough |
| callback server (`core/server.go`, `context.go`, `mixed_msg.go`, `aes_crypto.go`) | token and AES key, current and last, in atomic pointers; pooled buffers | verify, decrypt, dispatch, answer; `SetToken`, `SetAESKey` | rotation during a request; buffers given back while parts of them are in use | a request with the secret in use passes; its answer can be read; it is served its own message |
| handler chains (`core/handler.go`, `context.go`) | chains as Go slices, `Next` index | register, route, `Next`, `Abort` | chains that share an array | each handler runs once, in order |
| default reply quota (`main.go` 1035-1090) | per user and day a count in a `sync.Map` | count and answer | read and write in two steps; midnight | at most the configured number a day |
| subscription (`main.go` 706-849) | `echo` by user | welcome text reported as a message, wait for the reply | deliveries repeated; a key nobody files under | welcomed once, and answered |
| upload server (`uploadpic.go`) | a sliding window per address, files | count, store, answer with the link | check and write in steps; a file created and then filled | the limit is kept; a link leads to a whole file |
| short links (`shorturl.go`) | bolt bucket of codes | check, make, redirect | look-up and store in two transactions; lotus mode | a link never changes its target |
| web console (`webui`) | cookies in bolt | log in, check; patch and delete the configuration | restarts at any moment; expiry at the boundary | a login lasts as long as it says |
| configuration (`config.go`, `re.go`) | one instance, read once; `config.yml` | first start, load, repair, complete, restart; 99 getters | crashes between writes; completing line by line; settings put together from several getters | a good file stays good; settings are of one version |
| start and shutdown (`main.go` 100-424) | `wsClients`, the id database | listen, dial, collect, open, close | callbacks before anything exists; links dialed again while closing; a writer stalled under the lock | every link gets every report; the program ends |
| log hub (`mylog.go` 261-392) | set of console clients with a channel each | emit, fan-out, read and write pumps | several loops on one channel; slow or gone clients | no entry twice; the dead are forgotten |
| content check, forward HTTP API, rest of the WeChat SDK, front end | none, or only I/O | | | |

Every part, with the reason why it is or is not modelled, is listed under
`components` in `PROJECT.json`; under `hazards` is what can go wrong in this code
and would hardly be met by a test, at its line, with the property that covers it.

## 2. The modules

| module | models | run |
|---|---|---|
| `PendingHistory` | the pure part of `GetPendingMessages`: which replies fit, and what the shared slice holds afterwards | used by the next two |
| `PendingQueue` | one user's stored replies under stores and fetches | `services`, `fetched_twice` |
| `Rendezvous` | abstract: what waiting callbacks and arriving replies promise each other | refined in `exchange` |
| `ReplyExchange` | `textMsgHandler`, `WaitForActionMessage`, `recvMessage`, `ProcessMessage`, `GetPendingMessages` together | `exchange`, `late_reply` |
| `WsLink` | one `WebSocketClient` | `ws_link`, `ws_orphaned` |
| `IdMap` | the bolt tables of `idmap` | `services`, `idmap_counter` |
| `LotusMap` | the same tables asked over `/getid` by processes in lotus mode; extends `IdMap` | `services` |
| `MultiId` | `multid`: switches, saves, watcher, reload | `multi_id` |
| `AccessToken` | token daemon, ticker, `core.Client` calls, WeChat's side of tokens | `access_token` |
| `CallbackServer` | token and key under rotation: checks, drops of the last secret, answers | `services` |
| `CallbackBodies` | pooled bodies, sealing and padding, addresses of answers, forwarded callbacks | `services` |
| `HandlerMux` | registration of chains as slices; routing, `Next`, `Abort` | `services` |
| `DefaultQuota` | `DefaultReplyIfNeeded` | `services` |
| `ReplyForms` | `ProcessMessage` and the receipts: what becomes of every part of a reply | `services` |
| `MediaUpload` | `processBase64Media`: conversion, stores, audits | `services` |
| `OneBot` | reports, actions and queries in the language of OneBot | `services` |
| `Welcome` | the subscribe event that waits for the application | `services`, `welcome_unanswered` |
| `UploadServer` | rate limiter and files of the picture host | `services` |
| `ShortLinks` | making and following short links | `services` |
| `ConsoleLogin` | cookies of the web console | `services` |
| `ConfigFile` | `config.yml`: first start, repair, completion, restart, console, crashes | `services`, `config_completed` |
| `Lifecycle` | `main` from start to end, with callbacks, links and replies | `runtime` |
| `LogHub` | the live log | `runtime` |
| `Settings` | the getters, and what is composed from several | `runtime` |
| `Services`, `Runtime` | compositions, see below | |
| `*_proofs` | theorems and their proofs | |
| `MC*` | values for the constants, for TLC | |

`Services` puts the parts that share no state side by side: `part` chooses one
at the start, and the others stand still, so that the state space is the sum of
theirs and not the product.  Nothing is lost by that: no action of one part
reads or writes a variable of another.  `Runtime` does the same for the three
parts that have liveness properties.  Where parts do interact they are in one
module: the exchange of replies with stored replies and history, the two sides
of the id map, `main` with links, callbacks and the id database.

Definitions marked "Variant" are not part of any specification: each is what an
action would be after a plausible mistake (a lock kept, an entry not deleted, a
counter off by one).  `PROJECT.json` lists them under `mutants`, one for each
checked property and more for properties of several conjuncts; with the variant
in place of the action TLC refutes the property, so that the property says
something about the code.

### From code to model

**ReplyExchange.**  `pc[c]` is the place of a callback in `textMsgHandler`:
*idle* - *reported* (543-554) - *waiting* (the channel is registered, `ws.go`
267-271) - then either *processing* with a reply or *expired* (the timer won the
`select`, the entry is not deleted yet) and *texting* (a default text) - *done*.
`waiter[k]` is `echoToChanMap`: keys are record ids, an OpenID (`origin`) or a
row number (`row`), because whether code uses the one or the other is where
replies can go astray.  `recvMessage` is cut at `mapMutex.Lock()` (`RecvLock`,
then `RecvHand` or `RecvStore`): it sends on a channel of capacity one while it
holds the lock, and `SenderNeverBlocks` is exactly the claim that this is safe.
Everything else under a mutex is one step.  `Expire` deletes whatever entry is
there under the user's key, also that of another callback, as line 278 does.
`TimerFires` is enabled together with `Receive`, since `select` chooses at
random.  `Report` stands for the whole report: what matters here is the id under
which the message was reported (`ReportedAs`); `OneBot` has the rest.
`AnswerMedia` covers images, voice and images with text; the text part is filed
under the id that the code uses there.

**PendingHistory/PendingQueue.**  The loop of `GetPendingMessages` removes the
overlong message with `append(msgs[:i], msgs[i+1:]...)`, which moves the rest of
the *shared* array down, and then stores `msgs[ii:]` through the old, longer
header.  `ShiftedDown` is that array; `Left` the slice read through it.  `Taken` is
what the loop takes, oldest first; `Shown` is how the answer shows it: the handler
puts one message after the other in front of what it has (`main.go` 619-633), so
the newest stands on top.  Every message is charged its text and the separator; the
budget begins with the length of the answer's own text (`BodySize`), a reply's or a
default one: `AnswerSize`, `Size` and `DefaultSize` are any numbers.

**WsLink.**  Connection number n, its reader, its heartbeat, its context and
the `Reconnect` its reader starts are entry n of the variables.  `client.conn`
and `client.cancel` point to entries.  `isReconnecting` (`flag`) is set when
Reconnect runs, not when it is started, and reset by its `defer`, after the new
reader has started: these are separate steps.  `SendMessage` holds
`client.mutex`, but the heartbeat ranges over `sendFailures` and replaces it
without the lock, so a failed write and its `append` are two steps (`Write`,
`Keep`), and `snap` is the slice the `range` has evaluated.  A write to a dead
connection may fail or be accepted and lost ("swallowed").

**IdMap, LotusMap.**  Each operation is one bolt transaction, hence one step, and
since bolt commits atomically a crash between steps changes nothing.  `Hash9`
and `Hash10` are the first nine or ten digits in the MD5 of an id; ids that
share them are the interesting case.  `idOf` is the set of keys `row-<n>`.  In
lotus mode a request travels: *asked*, then executed at the server (`LotStore` and
the others) and *answered*, then taken (`LotTake`).  `LotLose` loses it or its
answer (the caller sees an error), and `LotAgain` is the second execution that
Go's HTTP client makes of its own when a GET's connection breaks before the
answer.

**MultiId.**  `saveConfig` is cut at the file operations: collecting the table,
truncating (`os.WriteFile` opens with O_TRUNC), writing.  Each file operation
may wake the watcher, which may read a truncated file (it does not parse).
`loadConfig` empties both maps and stores entry after entry (`Clear`, `Fill`)
while handlers go on.  `Clear` takes the two assignments at once, and `Collect`
takes the `Range` over the table at once.

**AccessToken.**  A caller is *asking* until the daemon receives its request,
*awaiting* until it receives the answer, then *calling*.  The daemon is *free*
(in its `select`), *fetching* (request under way), *issued* (WeChat has issued a
token, the answer is on its way) or *answering* (blocked in the send).  WeChat may
drop the older token when it issues one, and any token at any time.  `Kept` is
the table of margins (`updateToken`), `period` the ticker's duration, and both
of the daemon's rules for resetting it are kept: always after a caller's fetch,
and only for a change of more than five seconds after its own.

**CallbackServer.**  Secrets are numbered: `cbCur`, `cbLast` are the server's,
`cbWx` is what WeChat uses, one or several rotations behind.  `CbCompare` is one
atomic load of current and last and the comparison; `CbDrop` drops the last one
under the mutex if it is still the one the request saw; between the two anything may happen, a rotation too.
`cbCtx` is what the context keeps for the answer.

**CallbackBodies.**  `bodText[b]` is what buffer b of the pool holds and
`bodHas[r]` the buffer of request r.  `BodParse` finds the encrypted text
as a *part* of the buffer: what `BodDecrypt` reads later is what the buffer holds
then (`BodText`), unless the body is written so that the slow path of the
parser copies it (`bodCopy`).  `BodSeal` and `BodOpen` are the layout that is encrypted (16
random bytes, four bytes of length, text, appid, padding to 32) at the level of
bytes, because length and padding are where off-by-ones live; the cipher itself
is the identity on whole blocks.  `BodForward` is `forwardHandler`.

**HandlerMux.**  A chain is `[arr, len]` into `muxHeap`, so that `append` can be what it
is in Go (`MuxAppend`): into the array where there is room, otherwise into a new
one, twice as large or as large as needed.
`muxCtx` is a running context: its index, its depth of nested `Next` calls.

**DefaultQuota.**  `QuoLoad` reads the count of the day under whose key it will
be written; `QuoStore` writes it later, perhaps after `QuoMidnight`.  `quoMet` are
the calls that were between the two while another was, `quoAlone` counts the
replies of the rest.

**ReplyForms.**  A reply is a form (string, CQ codes in a string, an array of
segments, one object) and a sequence of parts: text, images by link, file, base64
or without data, recordings, codes of other types, cards with tags.  `FrmParse`
is `ParseMessageContent`, `FrmPanics` the type assertions in it that fail,
`FrmConvert` the uploads, the three `FrmAnswer...` what `ProcessMessage` returns
for text, image and voice.  `FrmReceipt` says whether the application gets its
receipt, which `textMsgHandler` sends after the answer was written (`main.go` 656, 688).

**MediaUpload.**  `medRaw`, `medPcm`, `medMp3` are the three files of a recording in
`data/cache`, named by digest and therefore shared; `medData[c]` is what ffmpeg
has read in callback c.  ffmpeg refuses to overwrite.  The audits differ by store:
Baidu's mode 2 stores at the host and then audits, Aliyun lets what got no result
pass.

**OneBot.**  `obReport[c]` is the record that goes over the link, with user, group,
sender and self id as `[kind, of]`; a request has a form (absent, number, text,
other) for echo, user and group, which is what the custom unmarshalling tells
apart.  `obS` is the global counter whose value is the echo.

**Welcome.**  `welEcho[u]` is the echo stored for user u, looked up (`WelCheck`) and
kept (`WelKeep`) in two critical sections with the report in between;
`welWait[k]` is the entry of `echoToChanMap` under an echo, `WelReply` files
under the user.

**UploadServer, ShortLinks, ConsoleLogin.**  Each is cut at its reads and writes of
shared state: the limiter's map (read, write back), the file (stat, create,
fill), the bolt transactions (look up, store).  A long link is its scheme, its
host and whether it holds tags, which is what the checks tell apart.
`conNow` and `upNow` are clocks in units of the lives and intervals.

**ConfigFile.**  The file is a sequence of kinds of lines: those that give the YAML its
structure, plain settings two blanks deep, and two old forms of the list of
visual prefixes.  `CfgParses` says which sequences load; `CfgHeal` replaces the
line of the old empty list, `CfgAppend` is one line of the completion, and
`CfgCrash` may come between any two.  `CfgPatch` and `CfgRemove` are the console's
requests; `os.WriteFile` truncates first, so a crash may leave any prefix.

**Lifecycle.**  `lcMain` is where `main` is: *start*, *bare* (callbacks are served,
`msgServer` is nil), *dial*, *up*, *closing*, *closed*, *down*.  `lcDial[a]` is
the goroutine that dials a; `lcCount` the loop that waits for as many results as
addresses were dialed.  A callback takes the list of links as it is when it
arrives.  Links break, stall (nobody reads the far end, so that a write holds
`client.mutex`) and are dialed again whatever `main` is doing.

**LogHub.**  Every console that connects starts a loop over the *one* channel;
loops never end.  `hubSet` is `wsClients`, `hubTook[h]`/`hubTodo[h]` the entry a loop holds
and the consoles it still offers it to, under the read lock.  `hubPump[c]` is the
write pump with the entry it is writing.

**Settings.**  `stFile` is the version on disk, `stInst` the one that was loaded
(0: none).  `StPlan(c)` lists, for a setting or for something composed from
several (a URL of a bucket, the address of the console), the getters in the order
they are called; each `StRead` takes the mutex for one of them.

## 3. What the runs show

Every run takes a few minutes at most with two workers.

| run | checks | distinct states |
|---|---|---|
| `exchange` | three callbacks, two users, two replies, one of them an image with text | 75,855 |
| `ws_link` | three connections, one retry, one event | 42,492 |
| `access_token` | two calls, three tokens, three lifetimes, one tick, one dropped token | 69,284 |
| `multi_id` | two users, three switches (two of one user), one edit | 956,090 |
| `services` | fifteen parts, one per behaviour | 1,996,978 |
| `runtime` | start and shutdown, log hub, settings, one per behaviour | 52,985 |

* **exchange.**  `SenderNeverBlocks`, `RepliesAreOwn`: however two callbacks of one
  user overwrite and delete each other's registration, `recvMessage` never
  blocks under the lock, a reply is handed to one callback of its own user, and
  the history shown before an answer is that user's alone.  `ExactlyOnePlace`: a
  filed reply is with one callback, stored, or shown; never lost, never doubled.
  `PendingIsFetchable`: in string and group mode what is stored is stored where
  a callback looks.  `ExchangeSettles`: every callback ends, every received frame is
  filed.  `ImplementsRendezvous`: under the refinement mapping at the end of
  `ReplyExchange` the module implements `Rendezvous!Spec`: the lock, the frames
  under way and the window after the timer disappear.
* **ws_link.**  `OneInCharge`: never two readers or Reconnects, although the flag
  that shall prevent it is set late and reset late.  `ReadingIsWhole`: the
  connection that is read is the one written to, with a live heartbeat, and all
  older contexts are done.  `LinkRecovers`: a Reconnect comes to an end, and while a
  connection lives the list of failed messages is worked off again and again.
* **access_token.**  `AnswerIsOwn`: both channels are shared by all callers, and
  still an answer reaches the call it was made for.  `CacheIsNewest`: a failed
  fetch leaves no replaced token in the cache.  `TickBeforeExpiry`: the ticker is in
  time although it tolerates five seconds.  `RejectedOnlyAfterLoss`: a call is
  rejected for good only if WeChat dropped a token during it.  `CallEnds`.
* **multi_id.**  `QuietAgrees`: when no switch and no load is under way the two
  maps and the file agree, whatever the order was, unless a save failed.
  `EntriesSurvive`: an entry disappears from the file only by the race that the
  code leaves open, a table saved while the watcher is refilling it (or by a
  failed save).  `QuietAgain`: the program always becomes quiet again, although
  every save of its own triggers a reload.
* **services**, part by part:
  * *pending*: `QueueOrder`: replies wait in the order in which they came, also after
    the in-place cut, and come out in it from answer to answer: nothing older than what
    was shown is left behind.  Several in one answer stand newest on top.  `LosesOnlyTheOverlong`: a fetch
    loses at most one message, and only the one at which the history overflowed.
  * *idmap*: `RoundTrip`: the number of a user leads back to the user: with hashed
    numbers always, with counted ones as long as nobody is renumbered.
    `NumberKeepsItsId`: with hashed numbers no operation makes a number mean another
    id.  `PairResolvesBack`: although `StoreIDPro` overwrites entries on a
    collision, a pair of numbers that resolves is the pair's own.
  * *lotus*: `GivenNumbersHold`: a number once given to a process is the id's,
    whatever was lost, repeated or asked at the same time.
  * *config*: `CompletionSettles`: a file that has its structural lines is never
    refused later, wherever the process dies, and one completion is enough.
  * *callback*: `RejectedOnlyOutdated`: only a request with a secret WeChat no longer
    uses is refused.  `AnsweredReadably`: an answer uses the secrets of its
    request, after any number of rotations.
  * *bodies*: `ServedItsOwn`: no buffer is given back too early, nobody else's message
    is served, and what is sealed can be opened.
  * *mux*: `ServedInFull`: middlewares, then handlers, each once and in order; chains
    overwrite each other only when the slice of the middlewares has room.
  * *quota*, *upload*: `LimitsKept`: default replies of calls that meet no other between
    reading and writing a day's count stay within its limit together, whatever the
    others do; uploads of an address stay within theirs unless two of its requests
    are counted at once; and nobody is refused too early.
  * *links*, *upload*, *media*: `LinksHold`: a short link leads to the link it was made for,
    for ever; the link of an upload leads to the whole file; what is linked in a
    reply is neither half a recording nor an image an audit refused; each with
    the exceptions its conjunct names.
  * *welcome*: `WelcomedOnce`: a user is reported once by all deliveries but those that
    came while another was between look-up and store.
  * *forms*: `TextSurvives`: no text of a reply with a receipt is lost, except beside a
    voice.
  * *console*: `LoginHolds`: a cookie is never lost by a restart, never expires early,
    never is another's.
  * *onebot*: `OneBotHolds`: a reply that repeats the id of a group report is filed
    under that user in both modes; every readable query is answered once, in
    order, on its link and with its echo.
* **runtime.**  `ReportReachesLinks`: no link that came about is missing from a report,
  unless the callback came during the start.  `IdMapWindow`: no report carries the
  number 0 and no reply is filed under nobody, except between the closing of the
  database and the end of the process.  `AlwaysSettles`: start and shutdown end,
  with links dialed again, breaking and stalling all the while.  `LogSeenOnce`,
  `GoneIsForgotten` (log hub).  `SettingsWhole`: what is composed of several settings is
  of one version of the file, and the console is where `main` says.

### Findings

Six runs check a sentence of the repository that the code does not keep; TLC's
counterexample is the shortest behaviour that shows it.

1. `fetched_twice`: the stored reply at the end of the queue is doubled when an
   overlong one is cut out before it (`ws.go` 320, 333), and is shown twice.
2. `late_reply`: a reply that arrives between the timer and the deletion of the
   channel's entry (`ws.go` 276-278) enters a channel nobody reads again, although
   late replies are to be stored (`ws.go` 33).
3. `ws_orphaned`: a new connection that drops before the deferred reset of
   `isReconnecting` is never replaced, with all retries left.
4. `idmap_counter`: in counting mode the counter takes over a number an operator
   has given to somebody (`service.go` 138), whose replies then go astray.
5. `config_completed`: the completion of an incomplete file may write one that does
   not load (`config.go` 325), and the restart that is to apply it fails.
6. `welcome_unanswered`: a subscribe event waits under the echo of its report, and
   replies are filed under the user (`main.go` 778): it never gets the reply the
   template promises to pass on.

The models also show behaviour about which the repository says nothing, so that
there is no run for it: a message that fails while the heartbeat resends older
ones is cleared unsent (`ws.go` 201); a long link whose scheme is in capitals
passes the check, but its redirect puts it behind `https://` (`LnkTarget`); after
a failed conversion or a crash the files in `data/cache` make every later
conversion of that recording fail, and an empty recording is linked (`MedToPcm`); a
refused image stays in the store (`MedStored`); a reply without
`params` panics in the reader, and `"params": null` panics the reading of any action
(`ObPanic`); a default text that is an image with text panics after the quota was spent (`FrmAnswerImage`); an event that one of several
links did not take is posted to no HTTP address (`LcPost`).  Nor has the limit of
default replies (`config_template.go` 51) a run that refutes it: two callbacks of a user
that time out at once read the same count of the day and both answer (`QuoLoad`,
`QuoStore`), so that the limit is exceeded; `LimitsKept` says that the callbacks that
meet no other keep it among themselves.

### Bounds, and why they are enough

* Two callbacks of one user are the smallest case in which registrations
  overwrite and delete each other; a third of another user makes a wrong
  addressee visible.  Two replies meet in one channel; one has to be `mixed`
  because only then is a reply in two places.  `Limit` is ample there:
  overflow is `PendingQueue`'s subject, where six replies of sizes 4, 7 and 50
  with a budget of 20 give histories of none, some and all of the queue, exact
  fits, and a message no answer can hold.
* Three connections in a row: the second one is made by a Reconnect whose
  predecessor's goroutines may still run, the third by the Reconnect that
  overlaps with the reset of the first.  The last connection is not lost
  (`MaxEpochs`), and `MaxRetry` = 1 lets a Reconnect succeed, retry and give up.
  `MaxKept` bounds the list of failed messages by stopping new sends only.
* Two of three ids share nine digits, one of them has ten that are another's
  nine, and one number is nobody's hash (free for the operator).  The requests of
  lotus mode come in three mixes (`MCMixes`) of those that touch the same tables;
  two callers are enough to overlap.
* Lifetimes 5 (refused), 61 and 65: within five seconds of each other, the
  tolerance of the ticker.  Three tokens: a stale one, its replacement, and one
  more that makes the replacement stale.
* Three switches, two of one user: two saves in a row against one reload, and an
  edit that a save overwrites or that a reload brings back.
* `CbRotations` = 2 with two requests: a rotation while one request is between
  comparison and drop, and a second one before the drop.  Two requests and two
  buffers of the pool: one request takes the buffer another gives back; sizes
  1, 10 and 11 lie on both sides of a block's end (16 + 4 + 10 + 2 = 32).
* Chains: one type and the default, handlers one at a time, five calls and five as
  the limit: enough for middlewares that grow by doubling and leave room.
* Quota two with four calls over two days; one upload a unit of time with two
  requests; `UpBurst` caps the requests counted in a window, refused ones included.
* Six long links with one hash, of which two are accepted, two codes, one maker
  of two in lotus mode: the second code is taken only because the first is.
* Two users, two deliveries, two further messages: the counter that becomes the
  echo goes on, and one user's events and texts meet.
* Three replies of ten forms: one is stored, one is shown before the next answer, one
  is left.  Three logins of two browsers with a life of two units.  Two callbacks
  with one recording and two images, in every mode of every store.  Two links,
  two callbacks, two requests of nine shapes.
* Five contents of `config.yml` (complete but for plain settings, with the old and
  the inline form of a list, reordered, without the last structure) and the
  template; crashes add every beginning of every written content.
* Two links and one empty address, one callback, two starts.  Two consoles, a
  channel of one, two entries: full, empty and overtaken.  Three versions of the
  settings, two readers.
* History variables (`renumbered`, `failed`, `overlap`, `lost`, `quoMet`, `lnkRaced`,
  `upRaced`, `welMet`, `lcEarly`, `lcLate`, `medMet`, `muxWant`, and so on) only say
  in the properties under which condition they hold; no guard reads them.

Where a cfg says `CHECK_DEADLOCK FALSE` the model runs out of callbacks, frames,
ids, retries or starts, which is no deadlock of the program; that nobody waits
for ever is what the liveness properties say.

### Fairness

Only the program's own steps are fair.  Goroutines that can run do (Go's
scheduler is preemptive), so every handler, receiver, reader, heartbeat,
Reconnect, watcher and the daemon has weak fairness as one process:
`WF(Handler(c))` does not say which way a `select` or a failing upload goes.  A
mutex that is released again and again is free when nobody else wants it: in the
bounded runs contention ends, and Go's mutex is starvation-free.  `WF(Fetch)` means that an HTTP
request returns or times out.  Strong fairness is stated where the runtime
serves waiters in turn: on the daemon's acceptance of a request (`Accept(c)`; Go
serves senders on a channel first come first served and `select` picks at random
among what is ready), on closing a link (`LcCloseLink`: `Close` gets the mutex
between two writes), and on the ends of the log's pumps (`RWMutex` lets a waiting
writer in before new readers).  That a stalled link breaks in the end
(`LcFairness`) is TCP giving up a peer whose window stays closed.  A dial ends
because its tries are counted and each has a handshake timeout.  WeChat, the
applications, the operator and the network are never fair: callbacks need not
come, replies need not be sent, connections need not drop.  The parts of
`Services` have safety properties only and no fairness.

## 4. What is proved

Every safety invariant and every action property of the passing runs is a
theorem, for every value of the constants, within the named `ASSUME`s only.

| module | theorems | inductive argument |
|---|---|---|
| `PendingHistory_proofs` | `FetchLosesAtMostOne` | `MinExists` (by well-foundedness of the order on the naturals) gives the first overflow; what is taken is a prefix; an element behind the cut stands one cell lower, except the last one, which stands where it was |
| `ReplyExchange_proofs` | `TypeCorrect`, `NeverBlocks`, `OnlyOwnReplies`, `Implements` | `IInv`: a registered channel is empty and its callback is still inside the wait; what the place of a callback says about its channel and reply; only filed replies are held.  For histories, `StoredIsOwn` and `ShownIsOwn` on top of it; for the refinement, `FateMeaning` and one abstract step, or none, per action |
| | `StoredIsFetchable` | `AskedFor`: the id a frame carries is that of a user or nobody's, and so is every key under which something is stored |
| | `NoReplyIsLost` | `OnePlace`, reply by reply, on top of `IInv`: a filed reply is at one place, the text of an answered image at two.  A fetch moves places (`HistoryMoves`): the map from where replies were stored to where they are shown is one to one, since without an overflow the whole queue is taken (`ShownWhole`) and only turned around |
| | `OnlyOverflowLoses` | the same for histories of any size, from below: by `FetchLosesAtMostOne` a fetch leaves every reply but the one at the overflow among what is shown or what is left (`TextKeepsOthers`), and no other step takes a reply from where it is (`OthersKeep`) |
| `WsLink_proofs` | `LinkTypeCorrect`, `NeverTwoInCharge`, `ReadingIsAlwaysWhole`, `FlagAlwaysHasOwner` | `LinkInv`: `Succession` (when a reader has been started, all earlier epochs are over) and `Handover` (whoever is in charge owns `cancel`, a reader also `conn`; a context is done exactly when its reader has failed) |
| `MultiId_proofs` | `ListsTypeCorrect`, `AgreesWhenQuiet`, `EntriesAreKept` | `MultiInv`: the lock is with the one switcher in `saveConfig` and the file is truncated only while it writes (`LockState`); a load without a new event loads what is in the file (`LoadIsCurrent`); the table holds what was loaded or a switch still to be saved (`TableFollows`); `IndexFollows`; `NoneMissing` |
| `AccessToken_proofs` | `AnswersDoNotMix`, `CacheHoldsNewest`, `TickerInTime`, `OneRetryIsEnough` | `TokenInv`: the daemon is busy for exactly the one call that awaits; the ticker is at most five seconds behind the kept time, and every margin is at least ten; for a call that lost nothing, any token other than its own is good |
| `Store_proofs` | `QueueTypeCorrect`, `StaysInOrder`, `OnlyTheOverlongIsLost` | `QueueInv`: besides order, nothing is newer than the newest stored reply (`OnlyStored`); `LeftShape` says what each cell of the cut slice holds |
| | `MapTypeCorrect`, `NumbersLeadBack`, `NumberIsKept`, `PairsLeadBack` | `IdMapInv`: besides the round trip, in counting mode nothing is stored above the counter while nobody is renumbered |
| | `LotusIsIdMap`, `GivenNumbersStay`, `LotusTypeCorrect` | every step of the map reached over the network is one of the map or none; `LotInv` carries what a number means (`LotMeans`) from the execution over the answer on its way (`OnItsWay`) to the process (`WasGiven`), and `MeansStays` keeps it through all operations of the others |
| | `CompletionsSettle` | `CfgInv`: a file that has the structural lines is whole or being filled by one process, whose remaining lines are what it lacks (`CfgFilling`); neither completing, line by line, nor repairing removes a structural line or brings one twice (`CfgAppendKeepsSkeleton`, `CfgHealKeys`) |
| | `LinksOpen` | `LnkInv`: of a code without a race one maker is about to store, and its entry is still free; what was given out is in the table |
| | `UploadsStaySound` | `UpInv`: as long as no two requests of an address were counted at once, the one that is counted has read what is stored, and the requests let through of late are a subsequence of what is stored (`UpWithin`, kept by append and by the cut of what has expired); a file that is not whole is being written or its write failed |
| | `LinkedMediaStaysSound` | `MedInv`: a callback that met no other on its recording works on it alone, and the file its next step reads is not torn |
| `Services_proofs` | `QuotaIsKept` | `QuoInv`: whoever has read the count of a day has read at least what calls that met no other spent on it (`QuoIncludes`), since of two readers at once both are in `quoMet`; what is stored or read is never more than what was spent |
| | `WelcomeIsReportedOnce` | `WelInv`: of the deliveries not in `welMet` one at most is between look-up and store; for a user that was reported an echo is kept, or a delivery is about to keep one (`WelOnce`) |
| | `AnswersAreReadable`, `OnlyOutdatedAreRejected` | `CbInv`: WeChat uses the current or the last secret; a request about to drop a last secret was made with a later one; behind each comparison the context has the secret of the request |
| | `RequestsAreServedTheirOwn` | `BodInv`: a request that is being served owns its buffer, which is not in the pool and holds its text until the last read; `BodSealOpens`: for texts and appids of every length, what is sealed opens to the same text (length bytes, padding and bounds) |
| | `ChainsAreServedInFull` | a theory of slices in a heap (`MuxAppends`, `MuxApart`, `MuxOverwritten`: what an append does to the slices that share an array), then `MuxInv`: a kind's middlewares have an array that no other kind's slices share; a chain begins with them and holds what it was made of unless it shares their array and that had room; what ran is the beginning of the chain |
| | `TextsSurvive` | `FrmInv`: uploads, successful or not, leave the texts of the reply at work as they were parsed |
| | `LoginsHold` | `ConInv`: cookies being made or held are told apart, and are stored with the time at which they were made |
| | `AnsweredAndFiled` | `ObInv`: the action a link is to receive is the last sent over it; the answers over a link are those due, in increasing order and each to its own action; a reply answers a report that was made |
| | `ServicesImplementParts`, `LimitsAreKept`, `LinksAreKept`, `GivenAreKept` | each step of the composition is one of its parts' and leaves the others alone |
| | `ObTypeCorrect`, `FrmTypeCorrect`, `ServicesTypeCorrect` | the `TypeOK` of each part is a conjunct of its inductive invariant, except for the forms and the actions, whose invariants need the shape of the variables only; what is stored or shown is numbered like a reply that was sent, since a fetch shows what was stored (`FrmTypeStep`) |
| `Runtime_proofs` | `ReportsReachAllLinks`, `NumbersSurviveRestarts` | `LcInv`: `main` counts each collected dial once, and only those of addresses that are not empty, so that when the count is full every dial was collected (by cardinalities: `FS_Subset`); who was reported under a number of the own database is in it |
| | `LogIsSeenOnce` | `HubInv`: what has left the channel is before all that is in it (`HubPast`), no two loops hold the same entry (`HubOffers`), and what a console writes or has shown is not offered to it again (`HubOnce`); with one loop also in order (`HubInTurn`) |
| | `SettingsStayWhole` | `StInv`: what is loaded stays loaded; the console's address is what that version says; whatever a reader has got is of that version |
| | `RuntimeImplementsParts` | as for `Services`, with the fairness conditions |
| | `RuntimeTypeCorrect` | `StTypes`: what is left to read of a call is the rest of a plan (`StPlanned`) |

`SenderNeverBlocks` is not inductive by itself: that the channel of a registered
callback is empty rests on the callback still being inside its wait, which rests
on `pc` and `chan` agreeing (`CallbackState`).  `RejectedOnlyAfterLoss` needs
`FreshFor`, which follows one call through all steps of the others.  `WindowKept` speaks
of times alone, and holds because what the limiter has stored contains what it
let through; `ReportReachesLinks` speaks of one callback's report, and holds because of
how `main` counted the dials before that callback came.  `IInv`, `IdMapInv`,
`TokenInv`, `MultiInv` and the others are made of named parts, several of which
are the runs' own invariants; the rest was checked with TLC on the runs'
instances before it was proved.

The theorems are about the specifications of the parts.
`ServicesImplementParts` and `RuntimeImplementsParts` say that a behaviour of a
composition is one of each of its parts (for the map of ids, whether it is called
directly or over the network), so the parts' theorems hold there, where the runs check
them.

**Assumptions.**  Those of the modules, none of which bounds the size of an
instance: `None` is no callback, reply, user or number; hashes are numbers in
use; rows of the map are natural numbers; the appid is not empty and its bytes are
bytes; a handler registration brings at least one handler; a cookie has a life;
`ObNobody` and `WelNone` are no ids; the file first loaded is one of
`StFiles`, and 0 is none; the plan of a call names settings that have a getter (the
prover does not expand the tables of settings, which TLC evaluates); addresses are
finitely many.  Two theorems have
hypotheses of their own.
`StoredIsFetchable` is about string ids and group messages, which is the mode of the
run; in the others it is false, and the comment at `PendingIsFetchable` says where
replies end up.  `NoReplyIsLost` is about behaviours in which no history overflows
its budget in any state (`HistoriesFit`: what is stored for the user of an answering
callback fits in front of that answer's own text, a default one included): an overflow
may lose one reply and double another, as `FetchLosesAtMostOne` and the run
`fetched_twice` say.  `OnlyOverflowLoses` says without the hypothesis, and for any
sizes, that it loses no other (`OverflowLosesNoOther`, which no run checks); the limits
of the run `exchange` are such that it always fits.

### Only model-checked

* liveness (`ExchangeSettles`, `LinkRecovers`, `QuietAgain`, `CallEnds`,
  `AlwaysSettles`, `GoneIsForgotten`): the prover has no rules for ENABLED, on which
  fairness rests;
* the disagreements of section 3: what the code does not keep is refuted by a
  counterexample.

## 5. What is not modelled, and abstractions

* Texts, layouts, JSON, images and audio: a message is a model value with a
  length and a shape.  The wording of reports and receipts, the exact
  concatenation of CQ codes and markdown, the compression of images are data no
  property looks into.
* The vendored WeChat SDK besides the token daemon, the callback server, the
  handler chains and the layout of encrypted messages: some twenty thousand
  lines of wrappers of REST calls without state of their own.  The merchant
  client, the ticket server and the web authorisation are not used by this
  program.
* `handlers/message_parser.go` and `Processor/Processor.go` are to two thirds
  comments (the sibling project's code); `echo.go` and `messageidmap.go` keep maps
  nobody reads, except `AddMsgIDv3`, which is written by every report and never
  read; `httpapi` has its routes commented out; `Compress.go` and `format.go`
  have no caller.  None of that has behaviour to model.
* The content check, object stores and the front end are I/O: of a store, success
  and failure and the verdict are kept.
* `ReplyExchange` runs in string and group mode (`string_ob11`,
  `global_group_or_private`), without identity lists.  The definitions cover all
  four modes, and the proofs hold in all of them; the run's `PendingIsFetchable` would not:
  the comment there says where replies end up in the others.  In private mode
  the report names the account and not the user (`ObPrivateReport`), so
  `RepliesFindTheUser` is about group reports.
* The long query, a second wait with a timer of its own (`main.go` 556-577), and
  the commands a text may be, other than the switch of identity.
* `ReplyExchange` has one link; several links are in `Lifecycle`, where replies are
  reduced to whom they are filed under.
* `MultiId`: switches with a number outside the list change nothing and are left
  out; the sample file at first start as well.
* `IdMap`: two functions without a caller (`FindKeysBySubAndType`,
  `UpdateKeysWithNewID`).
* `ConfigFile`: between the restart script and the new process nothing is modelled;
  `restart_unix.go` writes the script and `os.Exit`s, which is `CfgRestart`.
  Comments and values of the file are not, since the loader's decisions are about keys and
  structure, with one exception that is left out: in a file in which every value is zero
  the comparison by reflection counts `settings` as missing (`config.go` 253-269), the
  line is appended a second time, and the file no longer loads.
* Log files (as opposed to the live log) and the console's system figures are
  I/O; `log_level` has no effect on either.
* Data races on words (`isReconnecting`, `client.conn`, slice headers) are
  interleavings of whole reads and writes; torn reads of a slice header are not
  modelled, nor is the runtime's abort on concurrent writes of one Go map
  (`uploadpic.go` 185-198), which the run of `upload` notes as `upRaced`.

## 6. Plan

Done: every part that keeps state is modelled; every safety and every action property of
the runs is proved, and so are the types of every module.

Next, proofs:

1. `Rendezvous`: the properties of the abstract exchange as theorems of its own,
   carried over to `ReplyExchange` by `Implements`.
2. What the liveness properties rest on and needs no ENABLED: measures that every
   step of a kind lowers (retries left in `WsLink`, dials left in `Lifecycle`).
