# Specifications of telegram-mcub-go

telegram-mcub-go is a Go client library for Telegram on top of gotd: event
dispatching and conversations, resumable transfers with state on disk, session
storages, request middlewares, iterators and history export, text entities,
and a wide surface of thin wrappers around single API calls. This directory
holds TLA+ modules of the parts whose correctness depends on order: goroutines
that share a slice, a cache or a channel, calls that fail half way, processes
that die between two writes, lists that change while they are paged through, and
text whose marks move the offsets of other marks. TLC checks the modules on small instances, and
TLAPS proves the central properties for every instance.

Contents: [inventory](#inventory), [modules](#modules-and-their-code),
[runs](#what-the-runs-check), [bounds](#bounds), [fairness](#fairness),
[proofs](#what-is-proved), [only model-checked](#only-model-checked),
[disagreements](#disagreements-between-code-and-comments),
[not modelled](#not-modelled), [plan](#plan).

## Inventory

### Conversations

*`ConversationManager`* (`events/events.go:109-178`). State: a map from chat id
to a slice of `*Conversation`, under a read-write mutex. Operations: `Register`
appends, `Unregister` compacts the slice in place and deletes the key of an
empty one, `Deliver`, `DeliverEdit` and `DeliverRead` copy the slice header
under the read lock and call every element after they have released it. Hard:
the walkers and the compaction share the backing array. Correct means: a
delivery reaches the conversations that are registered and no other, and the
slice always shows the list that the calls describe.

*`Conversation`* (`types/conversation.go`). State: the `cancelled` flag and four
channels (`done`, `incoming`, `edits`, `reads`) that `Enter` replaces after a
`Cancel`. Operations: `Enter`, `Exit`, `Cancel`, the waits (`GetResponse`,
`GetReply`, `GetEdit`, `WaitEvent`, `WaitRead`), the three deliveries. Hard: the
waits and the deliveries read the channel fields without the mutex, and a wait
reads them again in every turn of its loop. Correct means: `done` is closed
exactly when the flag is set and never twice; a cancelled wait ends; a session
sees no message of another one; a buffered message that is waited for is taken.

The manager calls `Conversation.Deliver`; the user's goroutines wait. The client
does not create a manager itself: the user's event handlers feed it.

### Storage

*`CachedSessionStorage`* (`session/session.go:506-584`). State: the cached blob
under a mutex, and another `Storage` behind it. Operations: `LoadSession`,
`StoreSession`, `Invalidate`. Hard: the mutex is not held across the inner call.
Correct means: the cache agrees with the storage behind it.

*`StateStore`* (`session/session.go:50-135`) and *`JsonStateStore`*
(`client/transfers.go:36-91`) keep one JSON file per transfer key. The first
writes the file in place, the second writes a temporary file and renames it.
Hard: crashes between truncation and write, keys that map to one file, writers
that share the temporary file. Correct means: `Load` returns a whole state that
was saved.

*`StringSession`* (`session/session.go:262-404`) carries a session to another client
as a string: `Encode` and `ParseString`, `ToStorage`, which fills a memory storage, and
`ExportSession` (`client/client.go:609-671`), which packs what a storage holds with code
of its own. Hard: two encoders for one decoder, addresses with two lengths, numbers and
keys on the wrong side of their widths. Correct means: the session that arrives is the
one that was sent.

The other storages (memory, file, SQLite, database) are a locked copy or one call of
a library.

### Transfers

*`DownloadFile`* (`client/downloads.go:47-155`) with `StateStore`,
*`ResumableDownloadFile`* and *`ResumableUpload`* (`client/transfers.go:93-356`)
with `JsonStateStore`, *`uploadFile`* and the calls on top of it
(`client/uploads.go`), among them `UploadMultiple` with a goroutine per path. State: the local
file, the state file, the parts on the server. Hard: an error or a crash between
a write and the save of its offset, saves whose errors are ignored, retries and
concurrent calls under one key, media or files that are replaced between calls.
Correct means: a call that returns success leaves a file, or names a file on
the server, with no part missing and no part of another version.

### Requests

*`protectionMiddleware`* (`client/protection.go`) and the middlewares of
`client/middleware.go`. State: the limiter's last slot under a mutex; per request
its attempt and its wait. `New` installs the protection first, then the user's
middlewares, so every attempt of the retry loop passes the limiter. Hard:
concurrent requests, late timers, cancellations during waits. Correct means:
slots are an interval apart, attempts are bounded, a flood wait is respected and
every call ends.

### Events

*`Dispatcher`* (`events/events.go:31-104`) and the client's update handling
(`client/client.go:353-514`). State: two lists of middlewares (the client's and
the dispatcher's), the list of handlers, the cache of access hashes. Operations:
add and remove, dispatch a batch of updates. Hard: the lists change while a
dispatch runs; two lists that must agree; a failing handler ends the batch.

### Iteration and export

*`RequestIter`*, *`MessageIterator`*, `IterDialogs`, `IterTopics`
(`client/requestiter.go`, `iter.go`, `dialogs.go`, `topics.go`),
`ExportHistory`, `ExportHistoryJSONL`, `StreamHistoryBatches`
(`client/downloads.go`, `client/history.go`). State: a cursor, a limit, a buffer
or an output file and a resume state. Hard: pages that are short because
messages were dropped, cursors that do not move, messages that arrive or vanish
between two pages, a crash between the output and its state, resuming in the other
order. Correct means: nothing twice, nothing skipped, the limit respected, a state
that never runs ahead of the output.

### Life cycle and logins

*`MCUBClient`* (`client/client.go`): the connected flag, the protection mode and
policy and the proxy, all under `c.mu`, and what `New` built from the options once:
the transport's middlewares and its dialer. Operations: `Run`, `Connect`,
`Disconnect`, the setters, the dial through an HTTP proxy. *Logins*
(`client/auth.go`): by code and password, and by a QR code that `QRLoginWait` polls
for while it renews its token. Hard: two Runs and a `Disconnect` write one flag, a
dial fails half way, a token expires while it is scanned. Correct means: what the
client says of itself is so, no socket is lost, a scan is noticed.

### Calls on messages

`client/messages.go`: some forty calls that resolve a number to a peer
(`resolvePeer`, fed by the hash cache of `client.go`), send one request or several
(a copy, an album, a clearing of pins, the fallback of `GetMessages`) and make an
answer out of a container of updates. No state of its own; hard is that others
change the chat between two requests, and that a request may take effect although
its answer is lost. Correct means: what is returned was asked for and was there,
what is said to be done is done.

### Numbers of peers

A signed number names a user, a basic group or a channel. It is made by the
wrappers of messages (`types/message.go`, `types/forward.go`), by the hash cache
(`client/client.go:459-480`) and by `utils/utils.go`, and taken apart again by
`resolvePeer` and `utils`. Correct means: they agree.

### Text and media

HTML and Markdown to entities and back (`client/extensions`), `StripText`
(`helpers`), the views of a message's text, media and buttons (`types/message.go`,
`types/file.go`, `types/button.go`, `utils/utils.go`), the choice of what is
downloaded and of how a file is sent. Pure functions, the parsers loops; hard are
offsets in UTF-16 units that move while delimiters are removed, and five places that
classify one document. Correct means: parsers invert unparsers, every entity lies in
its text, the views agree.

### The rest

The string session codec (`session/session.go:262-404`), SRP (`crypto/srp.go`), and
about twenty files of wrappers that build one request and unpack one answer.

## Modules and their code

| module | models | extends / instantiates |
|---|---|---|
| `ConversationRegistry` | the promise of the manager: a list for one chat | |
| `ConversationManager` | slices, backing arrays, compaction, unlocked walks | `ConversationRegistry` |
| `Conversation` | channels by generation, waits, deliveries, Enter / Cancel | |
| `BlobStore` | the promise of a storage: one blob, written and read whole | |
| `SessionCache` | the two steps of every cached load and store | `BlobStore` |
| `JsonStateStore` | `Save` call by call at the file system, crashes | `BlobStore` |
| `FileDownload` | `DownloadFile` with `StateStore` | |
| `TransferDownload` | `ResumableDownloadFile` with atomic saves | |
| `ResumableUpload` | `ResumableUpload` and `readFull`, concurrent callers | |
| `Uploads` | `uploadFile` with its state, from paths, seekers and streams, `UploadMultiple`, the calls that send a file | |
| `Media` | what a download asks for and what an upload is sent as | |
| `RequestPipeline` | the retry loop around the rate limiter, with a clock | |
| `Dispatch` | batches of updates, handlers, the building of chains, edits of the lists | |
| `History` | the readers of a chat's history, and the JSONL export with its state file | |
| `Dialogs` | `IterDialogs` and `GetDialogs` over dialogs that move | |
| `Topics` | `IterTopics`, `IterTopicMessages` | |
| `RequestIter` | the buffered iterator and its channel | |
| `ClientLifecycle` | `New`, `Run`, `Disconnect`, protection and proxy, the dial | |
| `StringSession` | the strings of sessions, `ToStorage` and `ExportSession` | |
| `Login` | QR login and login by code, against a server with a clock | |
| `Peers` | numbers of peers, the hash cache, `resolvePeer` | |
| `Messages` | one call of `messages.go`, request by request | `Peers`, `MessageView` |
| `ClientParts` | the parts of a client beside each other, its hash cache over batches of updates, and what must hold of them | `Subject`, `RequestPipeline`, `ClientLifecycle`, `Login`, `Messages`, `Peers`, `MessageView` |
| `Subject` | which part a behaviour is about | `MessageView` |
| `EntityText` | UTF-16 lengths, surrogates, `StripText` | |
| `Markdown` | `ParseMarkdown`, `UnparseMarkdown` | `EntityText` |
| `Html` | `ParseHTML` on its tokens, `UnparseHTML` | `EntityText` |
| `HtmlTokens` | the tokenizer of `ParseHTML` | `Html` |
| `MessageView` | `MCUBMessage`, `MCUBFile`, buttons, forward headers, media helpers | `EntityText` |
| `MessageParts` | what must hold of one message: its views, its media, its buttons | `Subject`, `MessageView`, `Media` |
| `TextParts` | the two parsers over any text, beside a message, and what must hold of entities | `MessageParts`, `Markdown`, `Html` |
| `MCConversationManager`, `MCEvents`, `MCStorages`, `MCTransfers`, `MCHistory`, `MCClient`, `MCText` | the instances that TLC checks; `MCText` is part of `MCClient`, which extends `ClientParts` and `TextParts` | the modules they compose |
| `*_proofs` | theorems and inductive invariants | the module of the name, and the components it composes |

An MC module other than the first puts several components in one run. They share no
variable in the code, and a product of their states would show nothing more: a
behaviour chooses its `subject` at first and the other components stay where they
begin, so that their state spaces add up. A property of such a run that covers
several components is a conjunction of named parts, each with its own comment.

How state and steps correspond:

- **ConversationManager.** `heap`, `cap` and `cur` are the backing arrays, their
  capacities and the header in `cm.convs[chatID]`. `Register` is one step
  (`AppendInPlace` or `AppendGrow`, as `append` decides). `Unregister` holds the
  write lock over `UnregisterLock`, one `UnregisterStep` per element and
  `UnregisterUnlock`, because walkers see its writes between them. `Deliver` copies
  the header; each `DeliverNext` reads one slot of the array as it is now.
- **Conversation.** A generation is one set of channels. `Enter` and `EnterQueues`
  are the writes of `Enter`; `Cancel` is `Cancel` and `Exit`. A wait is `Wait`, then
  `ReadDone` and `ReadQueue` (the operands of the select, evaluated in its order),
  then one of `SelectDone`, `SelectTimeout`, `SelectItem`. A delivery is the check of
  the flag, the read of the channel field and the send that drops when full.
- **SessionCache.** `LoadHit` is one locked step; a miss is `LoadMiss`, `LoadInner`,
  `LoadFill`; a store is `Store`, `StoreInner`, `StoreCache`. Inner calls may fail.
- **StringSession.** An action per call: `Write` is `Encode`, `Parse` is `ParseString`, `Start`
  is `ToStorage`; `ExportCheck` and `ExportLoad` are the two loads of `ExportSession`. An
  element of a payload is a word of the address, the port or a byte; Base64 is a flag that
  says whether the padding is there. The hash of a key is the bytes that are hashed.
- **JsonStateStore.** `SaveOpen` (create or truncate), `SaveWrite`, `SaveRename`,
  with inodes, because a writer keeps the file it opened when it is renamed.
- **FileDownload, TransferDownload.** The local file is the sequence of what was
  appended to it, so holes and repetitions show. `Start` / `Resume` / `Restart` is
  everything up to the first request, `GetChunk` a request and its write,
  `SaveProgress` the save. `WriteFails`, torn saves and `Crash` are the faults.
- **ResumableUpload.** `server` holds what was last uploaded as each part of each
  file id. `Resume` and `Begin` are the two ways a call starts, `UploadPart` one turn
  of the loop, `UploadPiece` and `ReadFails` the two ways a read error ends up.
- **Uploads.** `Begin` is everything up to the choice between a stored state
  (`Resume`) and a new identifier (`Start`); then `UploadPart` and `SaveProgress` in
  turn, `LastPart` and `Finish`. `UploadMultiple` begins a call per path
  and `MultipleReturn` waits for all of them.
  What a part holds is its file, its version and the place it was read from, so
  that a part of another place or version shows in the handle.
- **RequestPipeline.** `TakeSlot` is the limiter's locked section; `Wake` and `Retry`
  end the two sleeps when the clock has reached them, or later; `Answer*` are the
  server's answers.

- **Dispatch.** `HandleUpdates` caches the entities of a batch and takes its updates;
  `Dispatch` copies the header of the handler list, as `range` does, so `len` is what the
  loop sees of it; `BuildChain` and one `ReadMiddleware` per element are `buildChain`,
  which reads the list anew each time; `RunChain` is one handler call with its outcome.
  The edits are one step each, since they hold `c.mu`. `owed` and `ran` record which
  calls a batch must make and which it has made.
- **History.** `call` holds the parameters and the offset of the call that runs, `got`
  what it has given so far. One step is one page: `IsPage` says what the server may
  answer, `Batch` what `extractMessages` keeps of it, and the action named after the
  reader what it does with that. `FetchBatch` and `NextMessage` are the two halves of the
  iterator. In the export, `WriteLines` fills the buffer (`buf`), `Flush` moves it to
  `file`, `Save` replaces `state`; `Break` says what of the buffer a crash or a failed
  write leaves in the file. `present` and `pages` record, for the properties, which
  messages were there all the time and whether service messages shortened a page.

- **Dialogs.** One action asks for a page, and the goroutine then handles it dialog by
  dialog: seen, resolved, skipped or sent (`Skips` is the condition of its
  `continue`s), and moves the cursor at the end of the page (`NextOffset`). `stuck`
  and `misled` record that the cursor did not move or moved past dialogs.
- **Topics.** A step of `IterTopics` or `IterTopicMessages` is a page with its callback;
  `CountReached` is the comparison of `result.Count`, `Turned` the reversal of a page.
- **RequestIter.** The fields are those of the struct. `Initialize`, `Serve` and `Load`
  are the parts of `Next`, and `Channel` a goroutine that calls it and loses the item in
  hand when its context ends.
- **ClientLifecycle.** `baked` is what `New` put into the transport. `Dial`, `Opened`,
  `WriteConnect`, `ReadOK`, `ReadRefusal` and `WriteOrReadFails` are the steps of the
  dialer; everything under `c.mu` is one step.
- **Login.** The server hands out tokens that live for `Life`; `PollWaiting`,
  `PollSuccess`, `PollMigrate` and `PollFails` are the answers to a poll, `Wake` the
  end of the second between polls, `Scan` the other device.
- **Messages.** `op` is the call with its next request and what it still has to do. `Serve`
  answers a request, `Lose` carries it out and loses the answer, `Refuse` does neither;
  `GoOn` and `OnError` say what the call does then. `Other` is anybody else
  who sends, edits, deletes or pins between two requests. `After` is the effect of a request
  on the server and `Answer` its container of updates, out of which the code takes a message;
  a scheduled message has an update that the code does not read.
- **Markdown, Html.** An iteration of the Markdown loop, which removes a pair of delimiters,
  replaces a link or moves one unit on, is a step on `u16`, `pos` and `result`. For
  HTML a step is a token: `StartTag`, `EndTag`, text, and the return. The tokenizer, which runs
  before all of them, has recursive operators and a module of its own, `HtmlTokens`, so that
  proofs can be about `Html`. The unparsers are functions. `TextParts` lets the
  parsers begin with any list of units or tokens. A text is a sequence of symbols of which only those that the code compares are
  told apart, `WIDE` being any character of two UTF-16 units.
- **Peers, MessageView, Media, EntityText.** Pure functions, one for each of the code's.

Definitions whose comment begins with "Seeded fault" are never used by `Next`.
Each is a plausible mistake in the code (a missing close, a kept slice, an offset
that advances by the wrong amount); putting it in the place of the definition it
is named after must break a property, which shows that the property watches that
code.

## What the runs check

| run | shows |
|---|---|
| `manager` | At every interleaving of registrations, compactions and walks: no conversation is called that was not registered at some moment of the call (`NoGhostDelivery`); without an `Unregister` a walk is exact (`ExactWhileQuiet`); the arrays implement the list (`ImplementsRegistry`). |
| `events` | Dispatcher. `CallsInOrder`: each handler call at most once, in the order of updates and of registration, and only of handlers registered when the update's dispatch began. `OkMeansAll`: nil means that no call was dropped. `ChainAsRegistered`: appends during the building of a chain do not show in it. `HashesFirst`: a handler finds the hashes of its batch. Conversation. `SessionsApart`: the channel agrees with the flag, so it is never closed twice (`DoneFollowsFlag`), and a wait and a delivery that no life-cycle step meets belong to one session (`SessionIsolation`). `WaitsEnd`: a cancel ends every wait, and a buffered item that a wait accepts is taken. |
| `transfers` | `DownloadFile`: success means no hole (`NothingMissing`) and, without a fault since the truncation, the exact file (`ExactIfClean`). `ResumedWhole`: `ResumableDownloadFile` leaves no hole while the media is replaced by versions of other sizes. `UploadsWhole`: a handle of `ResumableUpload` names parts of one version unless a read failed (`HandleFromOneVersion`), a handle of `uploadFile` names its file in order unless a stream was resumed or the file edited (`HandleIsFile`), and an `UploadMultiple` that succeeds has the handle of each path in its place (`MultipleWhole`). |
| `storages` | `CoherentUnlessRaced` and `StorageUnlessRaced`: until a `Store` overlaps another call the cache is coherent and the whole is a blob register. `StoresKeep`: with one writer at a time, every load of the transfer store returns the last state renamed into place, whatever crashed or failed before (`ImplementsStore`); and what a client exports leads the next one to the same data centre, address and key, the two encoders agree, and a string that parses is encoded again as the same session (`SessionTravels`). |
| `history` | Readers of a history: `NewestFirst`, `NothingSkipped`, `LimitRespected`, and `StateBehindFile`: the state of an export names a line that is in the file, whatever crashed. `ListingsSound`: no dialog is given twice (`GivenOnce`), none that stayed is left out unless the cursor was misled (`GivenAll`); no topic or message of a topic is shown twice (`ShownOnce`) or left out (`MessagesWhole`, `TopicsWhole`, the latter up to two pages); the buffered iterator serves every item once in order, and its end is the end (`ItemsInOrder`, `EndIsTheEnd`). `CallsEnd`: every call that pages ends, unless a full page of dialogs left the cursor where it was. |
| `client` | Requests: `SlotSpacing`, `AttemptsBounded`, `FloodHonoured`, `EveryCallReturns`. Life and logins: `StatusIsTrue` (never connected without a Run, the policy is that of the mode, a failing dial leaves no socket, "ok" means authorised) and `ScanEndsWait`. Calls on messages: `CallsTruthful` (what is got was asked for and was there; a copy has text and media of one version; a cleared chat has no pin left; an album is whole or absent; what is returned was made, and in a channel all of it but scheduled messages). `NumbersAgree`: every number the wrappers give a peer leads back to it, with the last hash shown. Text and media: `RoundTrips`, `EntitiesSound`, `ViewsAgree`, `MediaMovesWhole`. |

`manager_lost`, `history_resumed`, `dialogs_stuck`, `proxy_ignored`, `basic_groups` and
`html_attributes` each check one sentence of a comment, and TLC finds a behaviour of the code
that contradicts it; see [disagreements](#disagreements-between-code-and-comments).

## Bounds

- `manager`: two conversations, one walker, lists of up to three, three arrays. Two
  conversations suffice to tell ghosts, skips and repetitions apart; three slots
  cover append in place (capacity 4 after growth from 2), growth, and a compaction
  that moves an element more than once. Three arrays cover one in use, one held by
  the walker and one to grow into. Further walkers never write shared state. The
  view drops slots that no header can read.
- Conversation (`events`): two waiters, one deliverer, two messages, a queue of one and two
  generations: enough for a full queue, a wait that discards, two waits on one
  queue, and a wait or a delivery that crosses a Cancel / Enter cycle. One queue is
  modelled, since the three differ only in name.
- Session cache (`storages`): three goroutines, two blobs and the empty one: two calls may race
  while a third observes.
- Strings of sessions (`storages`): addresses of both families, one IPv4 address in IPv6 form,
  numbers beyond 8 and 16 bits, keys shorter and longer than the full length, which is 2, and
  payloads of a wrong length: every branch of the four functions.
- Transfer store (`storages`): three inodes serve one writer (state file, temporary file, the one
  being opened).
- `DownloadFile` (`transfers`): part size 2 with files of 5 and 4 bytes, so one file ends with a
  short part and one with a whole part and an empty answer; three faults let a torn
  save, a crash and a failed write meet in one behaviour.
- `ResumableDownloadFile` (`transfers`): three versions of sizes 5, 4 and 2, four faults.
- `ResumableUpload` (`transfers`): two callers, a version with a short last part and a longer one,
  three identifiers, two faults.
- Requests (`client`): two requests, an interval of 2, one retry, flood waits of 1 (within the
  policy) and 3 (beyond it). `MaxTime` bounds only time in which nobody sleeps.
- Dispatcher (`events`): one goroutine, because a dispatch writes none of the lists and the hash
  cache only grows, so two of them never meet; what meets a dispatch are the edits,
  which are unrestricted but for lists of at most two. Two handlers, one of them with a
  filter, two middlewares, one of them recovering, and two batches: one of two updates
  with entities, one that begins with an update for which the client has no event.
- History (`history`): four messages and pages of two make chats of two full pages, of a full and a
  short one, and pages that service messages shorten or empty; limits of none and three
  (one and a half pages), `MinDate` of none and two. Calls follow one another without a
  bound, so an export is interrupted and resumed any number of times.
- `uploadFile` (`transfers`): two calls over a big file on disk with a short last part and a
  stream of one part, two identifiers, one fault: a resumed call beside a fresh one, and an
  edit between the two.
- Dialogs, topics, iterator (`history`): four dialogs by two, each plain, migrated or hidden,
  so that a page may be skipped whole; one move during a call. Four posts and a fifth that
  arrives, by two, deleted or service ones among them. Four items on pages of at most two,
  limits of none, three, four and five (within, at and beyond the end).
- Life cycle (`client`): two Runs and one dial, which suffice for a flag written by two and
  for every way a dial ends. Logins: tokens that live two seconds, three seconds, two
  tokens, so that a token expires and is renewed while it is scanned.
- Calls on messages (`client`): a user, a group and a channel, six messages of all sorts, pages
  of three, and one change by others at any moment: between two requests of a call no second
  one is needed to make an answer stale. A call is any of the forty, with any chat and id.
- Peers (`client`): marks of 1000 and 99 stand for 10^12 and 10^9 - 1; entities of each kind that
  share an id, with no hash, one and another one. `basic_groups` adds an id beyond the edge.
- Text (`client`): all documents of two or three characters, one of them wide, with one or
  two entities, all words of up to four (Markdown) or three (HTML) fragments, well formed or
  not, and one longer word whose delimiters cross, after which an entity has a negative length
  (see the observations). Each of them is a beginning of `TextParts!TextInit`. Media: all lists
  of up to three attributes or sizes. Buttons: all grids of two rows of up to two. Downloads
  to memory: up to seven bytes by chunks of one to four.

Deadlock is not checked in `client` and `history`: all calls may have returned, or the one that
runs may be the last.

## Fairness

`MCEvents!AllSpec`: a goroutine inside a call on a conversation makes its next step if it
can, which the Go scheduler guarantees; a select with a ready case takes one. No call is
obliged to begin, nobody is obliged to cancel, and timers are not assumed to fire,
so the liveness properties hold without their help.

`MCClient!AllSpec`: the same for the goroutines of requests, a clock that advances, and a
server that answers each request somehow (with an error if the connection is gone); for a login,
that a wait makes its steps and that time passes. Nobody is obliged to scan.

`MCHistory!AllSpec` (`Progress`): a call that runs takes its next step, so the server answers each
request. A failed request ends every reader but the iterator, which asks again when its
caller does; that this succeeds at last is the assumption, and nothing is assumed of
a caller who abandons the iteration. In the dialogs, the caller drains the channel or ends
its context.

`MCText!TagSpec` (only in `html_attributes`): the parser's loop goes on.

## What is proved

All proofs are for arbitrary sets and numbers, from the named assumptions on
the constants.

- `ConversationManager_proofs`: `TypeOK`, `NoGhostDelivery`, `ExactWhileQuiet`.
  The invariant adds: every header shows only written slots (`Headers`); while a
  compaction runs, what it has moved and what it has not yet read is still the list
  it began with (`Compaction`); everything that the current header and every
  walker's header show has been seen registered by that walker (`CurSeen`, `DelSeen`);
  and a quiet walker's header is still a prefix of the unchanged array
  (`QuietPrefix`). Without the last two, an append could place a stranger in a slot
  a walker has yet to read.
- `SessionCache_proofs`: `TypeOK`, `CoherentUnlessRaced`, `StorageUnlessRaced`. Coherence
  is inductive together with: a store that raced nobody is alone (`Exclusive`), and
  what a call carries to its second step is still what the inner storage holds
  (`Carried`). Every step then maps to a step of `BlobStore` or to a stutter.
- `FileDownload_proofs`: `TypeOK`, and `NothingMissing` and `ExactIfClean` under
  `Resuming` (every caller sets `Resume`) and `OwnState` (no two destinations share
  a state file); both fail without their assumption. The invariant says that a
  stored offset never runs ahead of the bytes in the file, and, for a clean file,
  that the file is exactly the prefix of that length.
- `History_proofs`: `TypeOK`, `NewestFirst`, `NothingSkipped`, `LimitRespected`,
  `StateBehindFile`. The offset divides what was given from what is still to come
  (`Divided`): a message that stayed from the beginning has been given, is in the buffer
  or lies below the offset (`Pending`), unless service messages misled the call. A call
  that runs is below its limit (`Below`). An export that was begun anew has its lines in
  the file and in the buffer, and one that was resumed has none (`Lines`): this is how
  the code behaves, see `history_resumed`, and why the file stays in order across calls.
  `Places` says what each program counter implies.

  `ListingsSound` is proved part by part, over `ListsAssumption`. Dialogs (`DialogsInv`):
  what was given is what was seen, and the cursor divides the dialogs: one that was asked for,
  has not moved and was not given yet lies behind the cursor, on the rest of the page at hand
  or behind it, unless the cursor misled (`StillToCome`). Topics (`ForumInv`): the last id
  given divides what was shown from what is to come (`CursorDivides`), and behind a first
  page that was not full there is nothing (`FullPage`). The iterator (`IterInv`): the items
  served are the first ones, the buffer goes on where they end (`ServedSoFar`), and what is
  left of the limit says when it is done (`LeftOfLimit`). A page is a sorted sequence; the
  lemmas on ranks (how many members of a set come before an element) give it its
  elements and their order.
- `MCEvents_proofs`, of the dispatcher over the specification of `Dispatch`: `TypeOK`,
  `CallsInOrder`, `OkMeansAll`, `ChainAsRegistered`, `HashesFirst`. The invariant knows a batch
  by its position: what it owes lies in earlier updates or in the prefix of the handler list it
  ranges over (`OwedKnown`), and what it has made is exactly what it owes behind its position
  (`RanKnown`). A chain under construction is the end of a list that is still a prefix of the
  present one (`ChainKnown`).

  Over `MCEvents` it proves `SessionsApart`. `ConvInv` says that a wait that no Cancel has met is
  in the session in force, that a delivery that no Enter has met uses the queues of the session
  in which it began, and that what lies in a queue was sent in the session for which the queue
  was made.
- `MCTransfers_proofs`: `ResumedWhole` and `UploadsWhole`. For a download (`TransferInv`), the
  stored offset and the position of the call that runs never run ahead of the bytes that the
  file has of the present version. This needs versions of different sizes (`SizesDiffer`): the
  code compares only sizes (`transfers.go:140`, `277`), and without it the property is
  false. For the uploads (`UploadInv`, `UploadsInv`), every identifier has an owner, the
  file and the version it was begun with. The owners are no part of the state: the invariant
  says that some assignment of them explains all calls, handles and saved states, and each step
  keeps it or extends it.
- `SessionCache_proofs` also proves `StoresKeep`, over `MCStorages`. `ImplementsStore`: every step of
  `JsonStateStore` maps to a step of `BlobStore` or to a stutter, for one writer, since two
  saves share the temporary file (`OneWriter`); `JsonInv` says that the writer's file is the
  temporary one, what it holds at each step, and that the state file is another one and
  holds a state. `SessionTravels`: what an encoder wrote the parser reads back, and both
  encoders agree, for every address, port and key within the widths of the Go types
  (`StringSession!ParametersOK`).
- `ConversationManager_proofs` also proves `ImplementsRegistry`: every step maps to a step of
  `ConversationRegistry` or to a stutter. While a compaction runs the abstract list is the one
  it began with; `Compacted` says that the slots below the write index are what is left of the
  part it has read, each from a known place of that list, so that the list changes once, at
  the unlock.
- `ClientParts_proofs`, of the requests over the specification of `RequestPipeline`, and of the other
  parts over `PartsSpec`:
  - Requests: `TypeOK`, `SlotSpacing`, `AttemptsBounded`, `FloodHonoured`. The invariant says that
    `last` is the latest slot given, and what is known of a request on its way: attempts
    left, the flood wait over, a slot in hand.
  - `StatusIsTrue`, which is inductive as it stands (`ClientInv` adds the shape of a record).
  - `NumbersAgree`, from the agreement of the cache with the last hashes shown (`HashesInv`),
    by cases over the kind of a peer. Its hypothesis `SmallGroups` says that no basic group has
    an id beyond the edge of the marked range; the run `basic_groups` shows what happens
    to one that has, so it is no assumption on the constants.
  - `CallsTruthful`. `MessagesInv` says that the server has finitely many messages, all of them
    shown to the call, that what a call has kept as pinned all the time is there and pinned
    (`HeldThere`), and, by what the call is doing (`Begun`, `Fetching`, `Copying`, `Clearing`,
    `Uploading`, `Sending`, `Ended`), how its numbers, its next request and what it has got
    relate to what was asked for and to what was ever there. A send by a single call
    (`OneMessage`), a voice message or a copy is of one message: what is read from the
    updates of the answer is that one, or nothing if it is scheduled. There are lemmas for the ways a
    call begins, for each of its steps, and for what `Serve`, `Lose`, `Refuse` and `Other` keep.
- `MessageParts_proofs`, over `TextSpec`, of which a behaviour of `MCClient` that is about a text or
  a message shows a part: `EntitiesSound`, for every list of UTF-16 units that Markdown may be
  parsed from and every list of tokens that HTML may be.
  - Markdown (`MdInv`): when the loop is at `pos`, every entity found starts at or before `pos`, those
    inside which it does not look (code, links) end there too, they ascend, and what follows
    an entity of code starts behind its end (`Found`). This is inductive because what is removed,
    a pair of delimiters or the brackets of a link, begins at `pos`: an entity that ends
    before it keeps its place (`Shrunk`), and only one that ends behind it becomes shorter. It may
    have covered less than it loses, which is why nothing is said of the length of Bold, Italic
    and Strike.
  - HTML (`HtmlInv`): the width of the text is the one counted; every entity under construction ends
    where the text ends (`Reaches`), with a length that is not negative, and so have those that are
    finished (`ParserOK`). The steps need that a width is a sum over the parts of a text (`WidthsAdd`).
  - Both end in `StripText`. `StripsText` says, for any text and entities, that what it keeps starts and
    ends inside the text, is not empty, keeps its order and was negative if it is, and
    `SortsByOffset` that the sort of `ParseHTML` puts the same entities in order. Beneath them are
    lemmas on lists: what `FlattenSeq` joins of rows of at most one element keeps their
    order (`ShortJoin`), and the ranks of a strict order are a permutation (`Ranks`).

  In the same module, `ViewsAgree` and `MediaMovesWhole`, of every message that is `Received`:
  its media has the parts of a media, a document at most one attribute of a kind, a photo sizes
  that are numbers, and its grid consists of rows of buttons. No step changes the message, so
  these are facts about it that need no other invariant; `MCClient` assumes of its instances
  (`ReceivedAssumption`, which TLC evaluates) that they are among these messages. `MediaFacts`
  says which media each view sees, and `ShownBy` that it shows a kind if and only if one of the
  attributes does, whether the view takes the first that matches or asks for any; the agreement
  of the views then follows by cases over the kinds. The buttons: what `FlattenSeq` joins has
  every element of its rows (`JoinedHas`), and the style goes before the text (`AppendedIsSuffix`). The download to memory is a
  recursive function over offsets: `MemoryWhole` compares it with the rest of the file at
  the least distance from the end where they would differ. Where a size or a button is asked for by
  number, every number up to one beyond the last is meant.

## Only model-checked

Liveness (`WaitsEnd`, `EveryCallReturns`, `CallsEnd`, `ScanEndsWait`), because it needs
fairness and `ENABLED`. Of the safety properties only `RoundTrips`: that a parser reads what an
unparser wrote is a fact about all that it read before, through a fold over the insertions and a
tokenizer with recursive operators, and only an induction over the text could give it. For the
same reason the tokenizer itself is only run: the proofs take any list of tokens.

## Disagreements between code and comments

Shown by a run:

- `manager_lost`: `events.go:150` promises delivery "to all conversations registered
  for that chat". A compaction during the walk moves a conversation behind the
  walker, which never calls it.
- `history_resumed`: `history.go:74` says that with a state file the export "can be
  resumed after interruption". The pages go from new to old, but a resumed call asks for
  messages newer than the last one written (`MinID`, `history.go:155`) and, by its offset
  (`history.go:147`), for none newer than it: the server has nothing to answer, and the
  call ends with success, removes its state and leaves the older messages out.

- `dialogs_stuck`: `dialogs.go:208` says that the channel "is closed when iteration is complete or
  an error occurs". After a full page whose dialogs are all skipped the cursor stays where it
  was (`dialogs.go:435-441`), and the same page is asked for for ever.
- `proxy_ignored`: `client.go:518` says that a new proxy "takes effect on the next
  connection". The dialer is built once, by `New`.
- `basic_groups`: `messages.go:16` says that a number that starts with -100 is a channel's.
  `resolvePeer` takes every number below -999999999 for one (`messages.go:441`), and a
  basic group with a large id becomes some channel.
- `html_attributes`: `html.go:112` calls the tokenizer "intentionally lenient". A start tag
  whose rest begins with a sign that ends a key but is not `=`, as the slash in `<b /=>`, is
  read for ever (`html.go:228-253`).

Observations met while modelling, visible in the models but not the subject of a run:

- A wait that is pending at a `Cancel` and reads its channels after the next `Enter` lives
  on in the new session (`conversation.go:149`), though `conversation.go:279` says that
  all pending waits return an error.
- A load that missed before a store fills the cache with the old blob after it
  (`session.go:552-560`), though `session.go:506-507` and `565-566` promise the blob last
  written; `CoherentUnlessRaced` says when it holds.
- `RemoveEventMiddlewareAt` edits a list of the client that nothing reads
  (`client.go:377`, `384`); the dispatcher keeps the middleware and goes on using it.
- A page that service messages shorten ends every reader but the iterator, as if it were
  the last one, and an emptied page ends that too (`downloads.go:251`, `downloads.go:334`,
  `history.go:228`); `NothingSkipped` excepts these pages (`Whole`).
- `IterHistoryBatches` hands over whole batches and may exceed `Limit` by less than one
  (`downloads.go:322-326`).
- Two saves of one key share a temporary file (`transfers.go:77`): one may rename what
  the other has just truncated, though `transfers.go:67` says "atomically".
- `Dispatcher.RemoveMiddleware` compares pointers that are equal for all functions and
  removes every middleware (`events.go:51-61`, `97-104`). If the list is cut while a
  chain is built, `buildChain` panics, or mixes two lists when others are added in time.
- The first middleware added is the outermost, as `events/dispatcher_test.go:165` tests;
  the comments at `events.go:84` and `client.go:360` say the contrary.
- `StreamHistoryBatches` says that it emits batches "oldest-first when batchSize > 0"
  (`history.go:291-293`). Its loop begins at `OffsetID` 0 and pages downwards
  (`history.go:314-321`), so that batches and the messages in them come newest first, as from the
  other readers. `NewestFirst` asserts what the code does, and so contradicts that comment.
- `RecoveryEventMiddleware` returns nil after a panic (`middleware.go:69-81`), though its
  comment says that it converts panics to errors; the batch goes on.
- Two waits of one conversation share a queue, and the one whose predicate fails
  throws away the message the other waits for (`conversation.go:157`).
- `StateStore.keyPath` keeps the base name and 64 bytes of a key (`session.go:82-85`),
  so `a/x` and `b/x` share a state; a call with `Resume=false` leaves an older state
  in place (`downloads.go:79`). Either can leave a hole, which is why the theorems
  about `FileDownload` assume the contrary.
- `DownloadFile` and `ResumableDownloadFile` open with `O_APPEND` and do not cut the file to the
  stored offset (`downloads.go:77`, `transfers.go:292`), so bytes written before a crash appear
  twice; and the latter trusts a stored offset when only the total size agrees (`transfers.go:277`).
- `ResumableUpload` takes a read error without bytes for the end of the file
  (`transfers.go:158`) and returns a handle for an incomplete upload.
- The retry loop sleeps out a flood wait after its last attempt (`protection.go:37`) and
  never retries server errors, which `types/protection.go:39` promises. It knows a flood wait only
  by a text that begins with `FLOOD_WAIT_` and a number (`protection.go:54-63`); one with anything
  before it is returned at once. `RetryMiddleware` finds it anywhere in the text, and returns nil
  without a request when `maxRetries` is negative (`middleware.go:110`).
- `uploadFile` sends the head of a stream again as later parts when it is resumed
  (`uploads.go:99`), and a resumed upload does not look whether the file has changed.
- A page of dialogs that ends in a dialog without a message is followed by the same page again.
  A dialog whose user is missing gets a typed nil entity, which `NewMCUBDialog` dereferences.
- `IterTopics` adds an id to a length to compare it with a count (`topics.go:186`), and gives at
  most two pages of a forum, though `topics.go:153` says all. `IterTopicMessages` with `Reverse`
  turns each page round and pages by the wrong end of it, so that pages overlap.
- `RequestIter` does not call `initFn` again after its error, and its channel loses the item in
  hand when the context ends.
- `IsConnected` is false after one of two Runs ended, and after `Disconnect`, which ends nothing.
- `DialContext` writes and reads the CONNECT exchange without a look at the context
  (`client.go:734-744`), and its buffered reader may swallow the first bytes that follow.
- `IsAuthorized` (`auth.go:52`) is true whenever the status request succeeds. `QRLoginWait`
  renews its token but not the URL it has shown, and a scan in the last second before the deadline is
  reported as a time-out.
- A scheduled message is announced by `UpdateNewScheduledMessage`, which `utils.go:371` knows but
  `extractMessageFromUpdates` does not (`messages.go:467-498`): a send with a `ScheduleDate`, by
  `SendMessage` or `SendFileAdvanced`, returns no message and no error.
- Sends of a text to private chats and groups return neither, since the short answer of the server
  is not handled; `HandleUpdates` ignores its short updates, too. `GetMessages` and `DeleteMessages` do not
  look at the peer for users and groups. `ClearPinnedMessages` handles one page of 100.
- `DeleteMessages` and others send channels and users without an access hash, and a positive
  number is a user for `resolvePeer` but a channel for `resolveInputChannel`.
- `GetPeerID` never marks groups, and `GetPeer` makes a channel of their negated ids.
- `GetDocumentInputLocation` asks for the size "y" of a photo whatever sizes there are. `DownloadMedia`
  says that a thumb of 0 downloads the full file, but 0 is the smallest size.
  `MediaType` calls an animation a video.
- `ParsedText` neither escapes nor nests. Markdown delimiters that cross leave entities with a negative
  length, since an entity that ends behind a removal is shortened by a whole delimiter, also when it covered
  less of it (`markdown.go:95-108`): "ab\*\*\_\*\*\_c\_\_" gives a Bold at 2 of length -1. `StripText`,
  which says that it removes "zero-length or out-of-bounds entities" (`helpers.go:272`), keeps
  it, since its end, 1, is inside. For such an entity `GetEntityText` and `ParsedText` of a message
  with that text would slice from 2 to 1, which panics (`message.go:1020-1023`).
- `StripText` counts a zero-width space as leading space, which `TrimSpace` keeps, and does not
  count an ideographic space, which `TrimSpace` removes (`helpers.go:286-293`): after either,
  the entities of the text are shifted. `EntitiesSound` checks bounds and order only.
- `CachingMiddleware` stores and never serves, `ProtectionMiddleware` never blocks, and
  `Options.ProtectionMode` is off by default though its comment says safe.
- The limiter spaces slots, not sends: a goroutine that wakes late sends together
  with the next one (`middleware.go:203-211`).

## Not modelled

- Wrappers around one remote call (`account`, `admin`, `bots`, `chats`, `payments`, `profile`, `reactions`,
  `stickers`, `stories`, `users` and others): no state, no order.
- SRP: arithmetic on numbers of 2048 bits, whose control flow is a sequence of range checks.
- File, SQLite and database storages: one call of a library.
- The metrics, logging and caching middlewares; the constructors of events; the inline builder.
- The bytes of messages, logging, progress callbacks, the text of errors.
- The server, the file system, the clock and the Go runtime appear only as external
  actions, as the code in `src` uses them.
- Torn reads of channel or slice words: a racing read of a field returns its old or
  its new value.
- In `Dialogs`: the server finds a page by the date of the offset alone; equal dates do not
  occur, and the pinned dialogs fit on one page. In `Topics` its count is that of all it lists, and ids give the order.
- In `Login`: changes of the password and the sign-up.
- In `History`: the `Reverse` options, whose paging rests on what the server makes of
  negative offsets; the start offsets, `MaxDate` and the search query; the download of
  media during an export. Ids stand for dates.
- Random identifiers are distinct in `ResumableUpload`: `randRead` (`transfers.go:376`) advances
  a seed that was the time at the start, without synchronisation, so that two concurrent calls may draw
  the same identifier; this is not modelled.

## Plan

Done: conversations, dispatcher, storages, transfers and uploads, the request pipeline, everything that
pages, the life cycle and the logins, the calls on messages, numbers of peers, text and media.
Next, in order:

1. **Proofs**: every safety property but `RoundTrips` is proved. A first step towards it
   would be the round trip of one entity over a text without marks, along the invariant
   of the parser.
2. **Composition**: `ResumableUpload`, `TransferDownload` and `JsonStateStore` over one key space, so
   that two writers share a temporary file.
3. **Wrappers with loops**: participants and admin logs (`client/chats_ext.go`,
   `client/admin.go`), stories and gifts that page.
