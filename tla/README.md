# A TLA+ verification of PrivMX Endpoint

PrivMX Endpoint is a C++ library through which an application uses a PrivMX
Bridge server: it opens an authenticated session, keeps it alive, exchanges
end-to-end encrypted messages, files, key-value entries and inbox entries with
other users, and receives notifications. The encryption and the bookkeeping of
keys are done in the library, not on the server.

These modules model the parts of the library in which threads, messages and
versions meet. TLC checks them on small instances; most of the safety
properties are also proved with TLAPS for every size. `PROJECT.json` gives for
every definition the source lines it models, for every property the run that
checks it and a mutation of the code that breaks it, and for every hazard its
line.

## 1. Inventory

### Layers

    application
      |  handles (ExtendedPointer), calls, waitEvent
    endpoint/<thread|store|kvdb|inbox|event|stream>  API objects, containers, keys
      |  privfs::RpcGateway::request              ^  EventMiddleware (listeners)
    endpoint/core  Connection, key provider, cache, verifier, event queue
      |                                           |  Executor / GuardedExecutor
    rpc/base  AuthorizedConnection, tickets, record layer
      |  SingleServerChannels::send               |  WebSocketNotify
    rpc/{driver,poco,emscripten}  HTTP and WebSocket channels

### Components

| component | state it keeps | operations | talks to | what is hard | what makes it correct |
|---|---|---|---|---|---|
| HTTP channel pool (`SingleServerChannels`) | free flags, channel objects, number of waiters | `send`, `getHttpChannel`, `free` | every call | a condition variable without a predicate, exceptions while a channel is held | a channel serves one request; no waiter is forgotten or refused |
| WebSocket notifications (`WebSocketNotify`) | registered channels, queue, flag, token, consumer thread | `add`, `remove`, `queueForNotify`, `onWebSocketClose`, `cancelNotifier` | network thread in, callbacks of `AuthorizedConnection` out | a thread started and joined again and again, two mutexes, lost wakeups | each notification once and in order; cancellation returns |
| Session tickets (`TicketsManager`, `ClientEndpoint::call`, ticket loop, `destroy`) | multimap of tickets, their time to live, `request_mutex` | calls, refresh, sleep, destroy | server | two consumers under different locks, time, failing requests | the session is kept; no empty take; cancellation ends the loop |
| Life of API objects (`ManualManagedClass`, `ExtendedPointer`, `GuardedExecutor`, `Executor`) | handle counter, self reference, pending tasks, task queue | create, copy, assign, drop, call, notification, disconnection, cleanup, destructor | `EventMiddleware` | destructors on pool threads that wait for pool threads; callbacks of dead objects | no task for a dead object; every cleanup destroys; nothing leaks |
| Keys of containers (`UsersKeysResolver`, `KeyProvider`, `updateThread`) | members, versions, current key, keys per user (at the server) | create, update, send | server | members updated concurrently, forced updates, older formats | removed users lose access, members read everything |
| Key cache (`ContainerKeyCache`, `ModuleBaseApi`) | one entry per container | get, set, invalidate | server answers, notifications | answers and notifications overtake each other | reading and sending never fail because of the cache |
| Event subscriptions (`EventMiddleware`, `Subscriber`, `EventQueueImpl`) | listeners, subscription ids, queries, queue | subscribe, unsubscribe, emit, wait | server, API objects | the same ids in three places under different mutexes, lost answers | an event reaches the application once, and only for subscriptions it holds |
| Store files (`FileHandler`, `ChunkReader`, `ChunkDataProvider`, `HmacList`) | handles with positions, versions, checksums and two caches | open, sync, seek, read, write, close | server, other clients | caches and checksums over concurrent writes, operations split and squashed | what is read is the version the handle has seen; a write changes what it was asked to |
| Uploads (`FileWriteHandle`, `ChunkStreamer`, `InboxHandleManager`) | buffered bytes, counters, requests | createFile, write, close, prepareEntry, sendEntry | server, key cache | chunks cut again into parts, retries after losses | what is created is what was given |
| Inboxes (`InboxApiImpl`) | three containers at the server | create, update, delete, sendEntry, deleteEntry | Store and Thread APIs | sequences of requests that end half way, other clients in between | an Inbox has its Store and Thread; its members read all entries |
| Connection (`ConnectionImpl`) | gateway, listeners, middleware | connect, connectPublic, disconnect | all of the above | a failure half way through connect | listeners are removed; one event per disconnection |
| Repair of channels (`AuthorizedConnection`, `RpcGateway`) | WebSocket channel id, session | check and repair, relogin, retry | tickets, channels | repeated non-idempotent requests | at most one relogin at a time |
| WebSocket channel (`WebSocketChannel`) | socket, promises, connected flag | connect, send, callbacks | network driver | wait without a predicate, reconnect during connect | every promise is settled |
| Record layer (`ConnectionBase`, `ConnectionClient`) | states and counters of both directions | handshakes, frames | channels | order of frames | both ends agree on the state |
| Verification of data (`UserVerifier`, `ThreadApiImpl::validateDecryptAndConvert...`) | none | lists of requests and answers | application callback | lists that lose entries | an answer is applied to its own message |
| Kvdb, Event, Stream APIs | entry versions, sessions | per API | as for threads | containers as for threads | what is written is what is read |
| Cryptography, encryptors, serializers, C interfaces, utilities, programs, tests | | pure or wrapping | | | |

### Where the code is hard to test

The hazards are listed one by one in `PROJECT.json`. They fall into groups:
lost wakeups (pool, notifier, WebSocket channel, guarded executor), checks and
uses in separate critical sections (tickets, destroy), objects
that die while something refers to them (listener copies, queued tasks), threads
that wait for each other's pool (destructors), margins of time (tickets),
stale readings (updates, cache, file handles), sequences of requests of which
one is lost (inboxes, uploads, writes), sizes at the edge of a chunk, and
requests that are repeated.

## 2. Plan

Done, in this order: HttpChannelPool, WebSocketNotify, SessionTickets,
ApiLifecycle, ContainerKeys, ThreadKeyCache; proofs for HttpChannelPool and
ContainerKeys; then VersionedFile and StoreFile, which implements it, Uploads,
InboxContainers and EventSubscriptions; then proofs for ThreadKeyCache,
WebSocketNotify (with OrderedDelivery, which it implements), ApiLifecycle,
EventSubscriptions, InboxContainers, SessionTickets and Uploads.

What a continuation would take up, most important first:

1. **MessageVerification**: the lists of
   `validateDecryptAndConvertMessagesDataToMessages` (`ThreadApiImpl.cpp`, 1017
   to 1044) against the definition "each message gets the answer to its own
   request". Messages that fail have no entry in one of the lists.
2. **Session**: connect and disconnect of `ConnectionImpl`, the repair of channels
   and the retry of `RpcGateway`, to be composed with SessionTickets.
3. **KvdbEntries**: versions of entries.

Compositions: ThreadKeyCache rests on what ContainerKeys proves; Uploads and
InboxContainers divide `sendEntry` between them (the files, and the entry).
HttpChannelPool can be shown to implement a counting semaphore.

## 3. Modules and runs

An action stands for what a thread does between two accesses to state that other
threads can see. Requests to the server are two steps, or one when nothing can
happen in between that matters. The server (PrivMX Bridge) is not part of the
repository; it is modelled from the requests and the error codes the library
handles. Definitions that stand for it are marked external in `PROJECT.json`.

A property named `...Inv` is the type invariant of its module together with the
property of the shorter name. A definition under a comment "Wrong:" is a
plausible mistake in the definition after it; no specification uses it.

| run | module | states | what it asks |
|---|---|---|---|
| http_pool | HttpChannelPool | 350 000 | who holds a channel, who waits, who is refused |
| ws_notify | WebSocketNotify | 534 000 | order, uniqueness and delivery of notifications |
| tickets | MCSessionTickets | 2.5 million | whether the margins of time keep the session |
| tickets_cancel | SessionTickets | 442 000 | whether the loop stops |
| lifecycle | MCApiLifecycle | 2.8 million | who destroys an object, and what refers to it then |
| container_keys | MCContainerKeys | 1.1 million | who holds which key |
| thread_key_cache | MCThreadKeyCache | 1 140 000 | whether the cache ever does harm |
| store_file | MCStoreFile | 86 000 | whether handles implement a versioned file |
| store_split | MCStoreFile | (violation) | a write that is split |
| uploads | MCUploads | 517 000 | whether what is created is what was given |
| inbox | MCInboxContainers | 747 000 | whether the three containers stay together |
| events | EventSubscriptions | 248 000 | registration, uniqueness and delivery of events |

### HttpChannelPool

`SingleServerChannels::send` for HTTP. One request per call. A critical section
of `_http_mutex` is one step. `place` is the place in `send()`, `isFree`, `created`
and `numWaiting` are the members, `index` is the `LockedHttpChannel` on the stack,
whose destructor is `Free`. `spurious` records the requests whose wait returned
without a notify, which C++ permits.

*http_pool* (four requests, two channels; 350 000 states). Every channel that is
marked busy belongs to exactly one request, whatever throws (`ExclusiveUse`); the
counter is exact (`CountInv`), which matters because newcomers stand back
only while it is not 0; while anyone waits somebody is on the way to notify
(`NoLostWakeup`), and every waiter leaves (`EveryWaiterLeaves`). As long as no
wait returns spuriously, `ErrorDuringGettingHTTPChannelException` is never thrown (`NeverRefused`);
a spurious wakeup can cause it. Two waiters for two channels is the least in
which notified, waiting and arriving requests coexist. A newcomer may wait
although a channel is free, because a waiter was notified for it.

Fairness: every request that can go on does, and an HTTP exchange ends (the
client has a timeout).

### WebSocketNotify

`WebSocketNotify` with both mutexes, the condition variable and the consumer
thread. The callers are the network thread and the owner of each channel.
`_mutex` guards only the map; its sections are single steps.

*ws_notify* (two channels, three notifications, two closes; 534 000 states).
`DeliveredInOrder`: callbacks run once per accepted notification and in order,
through cancellations and restarts of the consumer. `OneConsumerInv`: a consumer
exists exactly while `_notifier_active` is set, so no thread object is
overwritten before it is joined, and nobody sleeps on a queue that is not empty.
`EveryNotificationDelivered`: as long as nobody cancels, all are delivered.
Two channels are needed for `remove` not to cancel; two closes for a restart
that is cancelled again; three notifications so that some are left over.
`OrderedDelivery` says the same without threads, locks, flags and restarts:
notifications are accepted, and the next one in order is delivered. That the
queue implements it is proved (section 4).

Fairness: a thread that has begun an operation is scheduled. Nobody has to send,
close, add or remove.

### SessionTickets

`TicketsManager`, the locking of `ClientEndpoint::call`, the ticket loop and
`destroy()` of `AuthorizedConnection`. Time is discrete and relative: a ticket is
how long it is still good for the client (`exp`) and for the server (`srv`), so
nothing grows and the checks hold for unbounded time. `tickets` is the multimap
in the order of its keys: what has expired is cut off its front, a ticket is
taken from the front, and the ones of an answer go to its end. Sections of
`_tickets_mutex` are steps, and count and take are two, as in the code. The model
uses the margins that `TicketsManager` itself defines; those in
`ConnectionOptions` are never given to it.

*tickets* (two callers and the loop; 2.5 million states). A unit is a third of
5 s: `_min_ticket_ttl` 5 s = 3, `_ttl_threshold` 15 s = 9, the poll 10 s = 6, a
message at most 1.7 s = 1, a ticket 30 s = 18. When answers come in time,
no call finds the tickets used up or expired (`SessionKept`), the loop does not
end by itself (`LoopKeptInv`), and the server never refuses a ticket the client
took for good (`NoTicketRejected`). The margins are what the run is about: a
poll and a round trip must be shorter than the threshold, and the ways of an
answer and of the next request must fit into `_min_ticket_ttl`. These
inequalities are the definitions `Fits` and `InTime`; the run assumes them
(`MarginsAssumption`) and so do the proofs. With 4 tickets per answer and
refreshes below 3, callers come down to the last ticket.

*tickets_cancel* (a caller that destroys, failing requests): after the
cancellation the loop stops (`CancelStopsLoop`).

Fairness: threads go on, time passes, the server answers or the client's timeout
ends the request. None for `request_mutex`, which `std::mutex` does not promise.

### ApiLifecycle

The life of API objects: `ExtendedPointer` handles (weak pointers that count
themselves), `ManualManagedClass` (counter, `_selfRef`), the queue and threads
of `Executor`, the pending tasks of `GuardedExecutor`, the emission of
notifications (under the shared lock of `ThreadSaveMap::forAll`) and of
disconnections (over a copy, without a lock), and the destructor of, for
example, `ThreadApiImpl`, on the thread that lets go of the last pointer.

*lifecycle* (an inbox object on a thread object, two threads of the executor,
handles copied, assigned to and dropped, a notification, two disconnections). No
task or emission concerns an object whose memory is gone (`NotifiedAlive`); with
several cleanups queued only the last destroys (`LastCleanupInv`); an object
lives while handles of it do (`HeldIsAlive`) and does not outlive them by its
self reference (`Released`), unless one of its handles was assigned to:
`operator=` does not detach, so the counter stays too high (`MaxAssigned` = 1
object). A destructor that waits for the tasks of its object has one of them
still to come, which wakes it (`DestructorWoken`). Two disconnections are needed
for two cleanups of one object in the queue.

### ContainerKeys

Which user is given which key. The container at the server has a version,
members, a current key and, per user, the keys encrypted for that user
(`given`), some in the format of this release (`upgraded`). `CallUpdateThread`,
`UpdateGet` and `UpdateAccepted` are the three parts of `updateThread`: the call
with a version the application has seen, the reading, and the decision of
`UsersKeysResolver` with the key lists of `KeyProvider`, sent to the server.

*container_keys* (three users, two calls at a time, four versions; users and calls
symmetric; 1.1 million states). A removed user does not hold the current key
(`OnlyMembersHoldCurrentKey`); members hold the keys of everything sent
(`MembersHoldSentKeys`); members agree on the format (`KeyFormatAgreed`). The
three are stated until an update is forced over a version its caller had not
seen: `force` gives this up, and the model shows that it does. Four versions
admit adding, removing and adding again, with a concurrent call at every point.

### ThreadKeyCache

One `ThreadApiImpl` and its `ContainerKeyCache` entry for one thread, with calls
and notifications handled at the same time, updates and deletion by this and by
other users, and reconnection. It assumes what ContainerKeys proves: a member
holds all keys up to the current one, in one format.

*thread_key_cache* (two calls at a time, three versions; 1 140 000 states).
`MembersCanReadInv`: a message can be read whatever the cache held, also one of the
new format with a cache from before the upgrade. `RefusedOnlyByRotation`:
`sendMessage` reports `InvalidThreadKey` only if the key was replaced during the
call, although answers fetched before an invalidation are written into the cache
after it. `OutdatedIsCaughtUp`: a subscriber's entry is outdated only while the
newest version is on its way to it, in a notification or an answer, so that the
cache ends up current although they overtake each other. It leaves out the one
way in which the code leaves an outdated entry behind: an invalidation, or the
one of a reconnection, that overtakes an answer or a notification from before
the last update (`raced`); for that entry the other two properties still hold.
Three versions: two rotations during one call.

### StoreFile and VersionedFile

`VersionedFile` is what a file of a Store promises: a list of contents, a handle
looks at one of them, a read returns bytes of that one, and a write goes through
on the newest only. `StoreFile` is how it is done: encrypted chunks, one checksum
per chunk, an HMAC over the checksums in the metadata; a handle with its copy of
the checksums, one chunk of a server read (`ChunkDataProvider`), one decrypted
chunk (`ChunkReader`), a version; the operations of a write, squashed and limited
in size. `writeToFile` prepares, sends and adopts or rolls back, in three steps;
`openFile` and `syncFile` read metadata and checksums in two.

*store_file* (chunks of 2 bytes, two in a server read, files of up to three chunks,
three versions). One handle, and other clients that write (`Visit`: open, seek,
write and close of another handle at once, which is all that matters of it to
this one), replace the file and change its metadata. `IsVersionedFile` is the
refinement: the abstract view of a handle is the version it has seen. `CurrentHandleInv`:
checksums, sizes and caches of a handle at the present version are those of the
server, whatever failed or was lost before. `NoFalseAlarm`: corruption is
reported only of a file that is broken or by a handle with the key of another
version. `ReadableUnlessBroken`: everybody can open the file, but for
three causes that the model records in `broken`: an empty write behind a full
last chunk leaves an empty chunk, a handle synced over a replaced file encrypts
with the old key, and `updateFileMeta` writes back old metadata (section 5).
`VIEW` leaves out `out`, which no action reads.

`SplitWrites` = FALSE keeps to writes of one operation, or of operations that fit
one request and have no chunk of the file behind them. *store_split* lifts this: a write of four chunks over a file
of five becomes two operations, the first with `truncate` set, and the fifth
chunk is gone (violation of `WritesKeepTheRest`; `FileHandler.cpp:186`).

The server, external: it refuses data reads and writes of another version, counts
a version for every accepted write and metadata update, applies the operations
of a request in order, and a truncating operation cuts behind its data.

### Uploads

`FileWriteHandle`, `ChunkBufferedStream` and `ChunkStreamer`, with
`InboxHandleManager` for the files of an entry. Bytes are written in pieces, cut
into chunks, encrypted, and the result is cut again into parts. The sizes are
declared before the first byte is written. One thread makes the calls; every
request to the server is a step of the call that makes it, and may be lost before
or after the server has taken it. What a failed call leaves in the handle stays
there, and the user may go on with it. Between two requests of `closeFile` the key
of the Store may change. A handle is guarded by nothing in the code, so calls at
the same time on one handle are the user's mistake, and handles share nothing but
the server: one call at a time is all there is to check.

*uploads* (a file of 4 bytes of a Store, or files of 3 and 2 bytes in two entries of
an Inbox, chunks of 2 bytes encrypted to 4, parts of 3 bytes, writes of 1 and 3
bytes, one loss; 517 000 states). `CreatedInv`: what the server makes is read back
as what was given, whatever was tried again, unless a `writeToFile` of the file
failed and it was finished all the same (`torn`). `AcceptedUnlessLost`: the
declared size is always the size sent. `RefusedOnlyByRotation`: `closeFile` retries
with a new key once, and fails for its key only if the key changed during the
call. `IncompleteCommitsNothing`: an entry with an incomplete file finishes none of
its files. Chunks and parts of coprime sizes make every alignment happen; a size
that is a multiple of the chunk and one that is not. The constraint `Apart`
checks a Store and an Inbox one at a time: they share no state. The user's own
mistakes are in the model and excluded by `Misused`: a handle in several entries,
or twice in one, or written full chunks of before it was in any.

What `torn` excludes: `FileWriteHandle::write` takes the bytes of a call into its buffer
and frees its full chunks when all of them are sent (`FileHandle.cpp:137`). A request
that fails in between leaves them there. `closeFile` then reads one chunk from the
buffer, finds the sizes right (the last chunk is counted twice,
`ChunkStreamer.cpp:61`) and returns: a file of two chunks has its first one twice and
its second not at all. TLC finds this when `torn` is left out of `CreatedIsGiven`.

The server, external: it takes the parts of a file in order, only the declared
number of bytes, and a commit with the right checksum; a request is used up by
one `storeFileCreate`, `storeFileWrite` or `inboxSend`, for which all of its files
must be committed. The size of a part comes from the server's configuration and
may be anything but 0. The file handles of an entry are given in the order in
which they were made.

### InboxContainers

An Inbox, its Store and its Thread at the server, and clients whose calls are
sequences of requests to them. Any request or answer may be lost, which ends the
call. The version passed to `updateInbox` is checked for the Inbox only; the Store
and the Thread are read again and updated with the version they have then.

*inbox* (two clients, two users, one entry of two files, three versions, one loss).
`InboxInv`: an Inbox that exists has its Store and Thread, since it is made last
and deleted first. `NoOrphans`: without losses nothing is left behind, also by
calls of `deleteInbox` and `updateInbox` that overlap. `MembersAgree`: after an
update the three have the same members, if no two updates overlapped.
`EntriesReadable`: an entry sent with a key that was replaced meanwhile is
readable for all members, until an update is forced over an unseen one.
`EntriesWhole`: without losses an entry has its files, except during a
`deleteEntry`. The clients and the users are symmetric.

### EventSubscriptions

The way from a notification to an event: the subscription ids at the server, in
the map of the object's `Subscriber` and in the listener's list of
`EventMiddleware`; the listeners, called for one notification after the other;
the tasks of the `Executor`; the queue of the application. The Store variant of
the handlers is modelled; the other APIs have the same ones.

*events* (two API objects, two threads, two channels, two ids, two executor
threads, one notification; requests and answers lost). `RegisteredInv`: a
subscription that `subscribeFor` returned is in all three places until it is
given up, whatever concurrent calls do to other ids. `AtMostOnce`: one event,
however many ids and objects the notification is for. `NoStrayEvent`: nothing
comes of a subscription whose answer was lost, or after `unsubscribeFrom`
returned, but tasks made before. `EventDelivered`: what is notified for a held
subscription arrives, unless it is given up or the task fails for want of a key.
One notification is enough: no property relates two, for the four threads of
the executor do not keep their order. A notification that comes between the
server's answer and the local registration finds no listener and is dropped;
the property begins where `subscribeFor` has returned.

The server, external: ids are fresh; it need not filter by the type of the
container (the client does). WebSocketNotify shows that notifications arrive in
order. Fairness: the notifier thread and the executor's threads go on.

## 4. Proofs

Every theorem holds for any value of the constants that satisfies the ASSUME of
the component's module (the names are below); the bounds of the runs are
constants like the others, so a theorem holds for every bound. Each inductive
invariant was checked with TLC before it was proved. The proofs have one lemma
or step per action, and lemmas for what several actions need.

### ChannelProofs: HttpChannelPool

`ChannelProofs` holds the proofs about both kinds of channels to a server, which share
no state. For any finite set of requests and any number of channels greater than 0
(`PoolAssumption`):

- `WaiterCount`: types and the exact counter, `PoolSpec => []CountInv`.
  Inductive as they stand; the argument is about cardinalities when a request
  enters and leaves the wait.
- `ExclusiveUseAlways`: `ExclusiveUse` is inductive with the types.
- `NoLostWakeupAlways`: needs `ExclusiveUse`. When nobody holds a channel, all are
  free, so a woken request is not refused; a request that starts to wait does so
  because a channel is busy (then it has a holder) or because others wait.
- `NeverRefusedAlways`: with `WokenHaveChannels`, the number of woken requests is at
  most the number of free channels. `Free` adds one to each side at most, waking
  takes one from each, and newcomers take nothing while the counter, which is
  exact, is positive.

### ChannelProofs: WebSocketNotify

For any channels and any number of notifications and closes
(`NotifyAssumption`: the threads are distinct):

- `OneConsumerAlways`: by `NotifierInv`. The property alone is not inductive: whether
  the consumer misses a notification depends on who holds which mutex.
  `NotifyLocked` says where the consumer holds `_notifyMutex`, `CancelLocked` that
  `cancelNotifier` holds `_notifierMutex` until the join and the token stays
  cancelled, `Flagged` that a queued notification has its flag or the network
  thread is about to set it. Holding `_notifyMutex` from the test to the wait
  closes the gap between the two; `cancelNotifier` does not hold it, which is why
  the invariant says nothing of a cancelled consumer (section 5).
- `DeliveredInOrderAlways`: delivered, in the callback and queued, in this order, are
  what was accepted.
- `IsOrderedDelivery`: the refinement, `Spec => Delivery!Spec`. The variables of the
  abstract specification are the two histories; every step accepts one
  notification, delivers the next one, or changes neither.

### SessionTicketsProofs

For any number of callers, any numbers of tickets and any times
(`TicketsAssumption`). What the margins must satisfy is a hypothesis of the
theorem, so that a reader sees which result rests on which:

- `NoTicketRejectedAlways`, under `Fits`: 2 * MaxLatency <= MinTicketTtl. With lost
  messages and `destroy()` too. `TicketInv`: the server holds a live ticket for good
  longer than the client, by what the way of the answer has left of the margin;
  no time passes between the drop of expired tickets and the take, so the ticket
  taken is live; and the ticket in the hand of a request lasts for the rest of
  the way.
- `SessionKeptAlways`, `LoopKeptAlways`, under `Fits` and `InTime`: nothing is lost,
  nobody destroys, two tickets at least are kept in store, a poll and two ways are
  shorter than the threshold, and two ways shorter than what a new ticket is good
  for. `SessionInv` has the locking (`CallsLock`), the age of the newest tickets at
  each place of the loop (`Renewed`), the order of the multimap (`Ordered`) and the
  count (`Enough`): of the newest TICKETS_MIN_COUNT tickets no more are missing
  than there are requests under way that bring new ones, two at most, since the
  callers exclude each other by `request_mutex`. Two is the reason for the
  condition on TICKETS_MIN_COUNT.

With the values in the code (margin 5 s, threshold 15 s, poll 10 s, refreshes
below 3 tickets) the inequalities hold while a message takes less than 2.5 s and
a ticket lives for more than 10 s.

### ApiLifecycleProofs

For any finite number of objects and of threads of the executor, any parents, and
any number of handles, calls, notifications and disconnections (`ApiAssumption`):

- `TasksAlways`: the inductive invariant `TasksInv`. `_dataToProcess` is the number of
  guarded tasks of the object in the queue and on the threads (`Counted`); only
  objects that have not left the listeners are being notified (`Listeners`); a
  destructor sleeps only while the counter is positive and ends when it is zero
  (`Sleepers`); only a living object has a self reference or a cleanup waiting
  (`KeptAlive`).
- `NotifiedAliveAlways`, `LastCleanupAlways`, `DestructorWokenAlways` follow from it: a
  freed object has counter 0, hence no task; a destructor asleep has a positive
  one, hence a task to come.
- `HandlesAlways`: `HandlesInv` adds that the counter of an object that keeps itself is
  the number of its handles and children, or more if one was assigned to
  (`CounterInv`), and that before a disconnection an object with a handle keeps
  itself (`Connected`).
- `HeldIsAliveAlways`, `ReleasedAlways` follow from that one.

### MemberKeysProofs

Its first part is about ContainerKeys, for any users, any number of concurrent updates and
any number of versions (`KeysAssumption`):

- `Access`: the inductive invariant. Keys beyond `lastKey` are unknown to all;
  a call whose reading has the present version has read exactly what is there
  (`ReadingsExact`: version passed <= version read <= version now); the members have
  the current key, in one format, and the keys of all messages.
- `RemovedUsersLoseAccess`, `MembersReadAll`, `FormatAgreed`: the checked properties.
  The point is that the version compared by the server was obtained *before* the
  members and keys were read, so equality with the present version implies that
  the reading is exact, and that an accepted update ends the validity of every
  other reading.

Its second part is about ThreadKeyCache, for any number of calls and versions, subscribed
or not (`CacheAssumption`):

- `MembersCanReadAlways`: by `ReadInv`. What the cache, the notifications and the calls
  hold was once the thread (`OldThreads`), and whatever a call is about to decrypt
  with has the keys of the messages it has (`KeysSuffice`), because keys too old
  for one of them are fetched again after the messages were.
- `RefusedOnlyByRotationAlways`: with `RetriesFresh`, a `sendMessage` that has asked for
  the newest keys has them, or they were replaced since.
- `OutdatedIsCaughtUpAlways`: by `CatchingUp`. As long as anything outdated is in the
  cache *or on its way to it*, the cache holds the newest version or will be given
  it; the checked property alone is not kept by a step that writes an outdated
  answer into an empty cache.

### InboxContainersProofs

For any clients, users, entries, files, versions and losses (`InboxAssumption`):

- `ContainersAlways`: the inductive invariant `ContainersInv`. The containers appear and
  vanish in an order (`Order`), and a `createInbox` or `deleteInbox` half way has done
  exactly the steps before the one it is at (`Making`, `Unmaking`).
- `InboxInvAlways`: at every moment, also with losses.
- `NoOrphansAlways`: with `InHand`, what is half made or half deleted is in the hands of
  a call that goes on with it, as long as nothing is lost.
- `MembersAgreeAlways`: with `InStep`, how far the members have got at each step of the
  one `updateInbox` under way.
- `EntriesReadableAlways`: with `KeysHeld`, a reading with the present version is exact,
  as in ContainerKeys, and all members hold all keys the Inbox has had.
- `EntriesWholeAlways`: with `FilesOf`, of the calls that delete an entry one at most has
  deleted files of it, all the ones before the one it is at.

### EventSubscriptionsProofs

For any finite number of objects, any threads, channels, ids and notifications
(`EventsAssumption`):

- `RegisteredAlways`: by `SubscriptionInv`. An id that `subscribeFor` is registering is
  known to that call alone (`Subscribing`, `Apart`), calls of `unsubscribeFrom` have
  only ids that are given up (`Unsubscribing`), and a list holds ids of its object
  that are active or on their way out (`Listed`).
- `NoStrayEventAlways`: the action property, from the same invariant.
- `AtMostOnceAlways`: by `OnceInv`, an event has one place: the wire, a task that waits,
  a task that runs, or the application's queue. A notification makes a task for every
  object that accepts it, but only the one whose object is the API the event is
  for puts anything into the queue.

### UploadsProofs and UploadsContentProofs

For any files, entries, lists of files, sizes of files, chunks, parts and writes, and any
number of requests, losses and keys (`UploadsAssumption`):

- `TypesAlways`: the types of the records, and what a call under way has at hand at each
  of its places (`CallHasFile`).
- `RefusedOnlyByRotationAlways`: by `KeyInv`. The key a `closeFile` sends is not older
  than its beginning once it was read for it, which it is for an update and for the
  second try; the first try of a new file may have an old key from the cache, but
  ends only in a second one.
- `IncompleteCommitsNothingAlways`: by `UploadInv`. The property is about what the server
  has of a file when `sendEntry` refuses, so the invariant says where every request of
  the server came from (`PlacesInv`, `ListsInv`: a file that is in one entry has the
  place of the request that `prepareEntry` gave it, and no other file has it), that no
  file has more bytes than declared (`TotalInv`), that during `sendEntry` all of the files
  are complete (`SendingInv`), and that only a complete file is committed
  (`CommitInv`). A file that is complete stays so, and an entry with one that is not
  was never sent.

In `UploadsContentProofs`, on top of these invariants:

- `CreatedInvAlways`: what the server makes is what was given. The bytes of a file are
  in three places (the buffer of the handle, the stream of the `ChunkStreamer`, the
  server), and each is cut in its own way, so the invariant says how they fit.
  `CleanInv` is about every file that is not misused and of which no `writeToFile` threw.
  Its checksums are those of its chunks (`SumsIn`), the buffer continues the chunks
  (`Buffers`), and what the server has, followed by what the streamer has not sent, is
  the stream of the chunks so far (`InOrder`); or it is committed with all of its bytes
  (`Complete`); or a loss has put the streamer and the server out of step, and it will
  never be committed (`Stuck`). `Good` says which of these holds at each place of a call
  under way. `TornInv` and `FreshInv` say where `torn` and the requests of an Inbox come
  from. So a file that is committed is `Whole`, and by `StoredInv` and `WholeInv` all that
  was made stays so. `ProcessedInv` and `CountersInv` are the bounds of `TypeOK`. No
  induction over data is needed, because `StreamByte` is a closed form: the byte at a
  place of the stream follows from the place by `\div` and `%`, and a step only has to
  agree with it at the places it writes.
- `AcceptedUnlessLostAlways`: by the same invariant, which gives the sizes, and by four
  parts about who commits what. `OpenInv`: the files of an open entry are open, and an
  entry is open until its `sendEntry` releases the handles. `AloneInv`: a file of a Store
  without a loss is committed by its own `closeFile` only, and its request is unused
  before. `SoundInv`: in an entry whose files met no loss and are not misused, the files
  before the place that `sendEntry` has reached are committed and the others are not,
  nothing was made of the request, and `sendEntry` was not refused. `RefusedInv`: the same
  for the calls on one file. The property as it stands speaks only of outcomes; without
  the rest a second commit, or a request used twice, would have to be excluded at
  every step.

### Only model-checked

- Liveness: `EveryWaiterLeaves`, `EveryNotificationDelivered`, `CancelStopsLoop`,
  `EventDelivered`. The prover does not treat fairness and ENABLED.
- StoreFile, with the refinement of VersionedFile. What is read is a concatenation
  over chunks, and a write is a fold over operations and over the chunks of each;
  what they compute for every file is an induction over data, which the prover
  cannot do.

## 5. What the models show beside the properties

The finding of *store_split* has a run. These were met while modelling. The
models contain them (the properties are stated so that they hold around them),
or leave out the part in which they happen, as said:

- `WebSocketNotify.cpp:143`: `cancelNotifier` stores the flag and notifies without
  `_notifyMutex`; between the consumer's test and its wait this is lost and the
  join does not return.
- `TicketsManager.cpp:51`: count and take are two critical sections, and the ticket
  loop takes tickets without `request_mutex`; after failures both can count the
  last one. `SessionKept` and the others are checked with a server that answers.
- `AuthorizedConnection.cpp:449`: the sleep after a failed refresh is inside
  `catch (...)`; a cancellation then leaves the thread function.
- `AuthorizedConnection.cpp:122`: a call that asked for tickets before `destroy()`
  cleared them saves them afterwards.
- `GuardedExecutor.cpp:60`: with as many destructors at once as the executor has
  threads (four), all wait for tasks queued behind them.
- `ThreadSaveMap.hpp:87`: disconnected listeners are called from a copy, without a
  lock; an object destroyed in between is called after it is gone
  (`DisconnectedDangling`).
- `ThreadApiImpl.cpp:214` and its like: `force` over an unseen update may leave a key
  with a removed member.
- `StoreApiImpl.cpp:1476`: `updateFileMeta` writes size, key and checksum back without
  a version; over a content written in between the file is unreadable.
- `FileHandler.cpp:58`, `:213`: the empty chunk and the old key (see StoreFile).
- `FileHandler.cpp:204`: all requests of one write carry the same version, so the
  second request of a very long one is refused after the first was applied.
- `FileHandle.cpp:137`: a `writeToFile` that fails keeps its full chunks, and a `closeFile`
  after it makes a file with one chunk twice (see Uploads). `StoreTest.cpp:1497` expects
  of a file that `closeFile` has made that it is read back as what was written.
- `InboxApiImpl.cpp:237`: overlapping updates reach the Inbox in one order and the
  Store and Thread in the other.
- `InboxApiImpl.cpp:325`, `:1069`: after a lost answer, `deleteInbox` and `deleteEntry`
  cannot be called again to finish the work.
- `StoreApiImpl.cpp:665`: a task whose keys cannot be fetched throws, and
  `GuardedExecutor` logs it: the event is lost.

- `ModuleBaseApi.cpp:84`: an answer from before an invalidation is written into the
  cache after it, and an outdated entry stays until the next update or refused
  message (see ThreadKeyCache).
- `ExtendedPointer.hpp:42`: `operator=` does not detach from the object it leaves, which
  then lives until the connection is lost (see ApiLifecycle).

## 6. Not modelled

The definitions stand for about 2,750 lines of the repository's code, some 4% of
it: the stateful core where threads, clients and lost requests meet. Of the 26
components 4 are modelled, 6 in part and 16 not at all. Most of the rest holds no
state of its own (typed objects, serializers, bindings, command line), but the
message verification, the session's connect and repair, the entries of Kvdbs and
the RPC handshakes do, and nothing here says anything about them.

- Cryptography, encryptors and serialization: ciphers and signatures are perfect
  and keys genuine; the verification of decrypted keys is left out.
- Network drivers, browser and C bindings, programs, examples: wrappers.
- The WebSocket channel: what it may do depends on which thread the driver, which
  is outside the repository, calls its callbacks on.
- Containers of Kvdbs, stream rooms and custom events repeat the code that is
  modelled for threads; WebRTC is a library outside the repository.
- Handshakes, repair of channels, connect and disconnect, the verification of
  messages, entries of Kvdbs: the continuation in section 2.
- Reading and listing of Inboxes, the parsing of subscription queries, and the
  events of the library itself.
- Details left out inside modelled operations, none of which a property depends
  on. `RpcGateway.cpp:76`: a request is repeated when the answer is no HTTP 200; the
  models of clients have lost requests and lost answers instead. Uploads: the loss of
  `createRequest`, which leaves an unused request or handle, and the initialisation
  vector of a chunk, so that a chunk encrypted twice is the same chunk (it happens
  in torn files only). InboxContainers: `forceGenerateNewKey`; a new key with the same
  members gives nobody more or less access. SessionTickets: the exception of
  `destroy()` for an unknown WebSocket channel, and a first answer with less than the
  full lifetime of its tickets.
- The end of the process (`Executor::freeInstance`), the creation of singletons,
  and exceptions thrown by callbacks in the notifier thread, which end the process.

## 7. Running

    tlc -config HttpChannelPool.cfg HttpChannelPool
    tlc -config ContainerKeys.cfg MCContainerKeys
    tlapm ChannelProofs.tla
    tlapm InboxContainersProofs.tla

`PROJECT.json` lists module and configuration of every run. The violation run
ends with a counterexample, the others without an error.
