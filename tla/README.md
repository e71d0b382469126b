# libcomex: TLA+ models, model checks and proofs

libcomex puts C++ classes in front of libcurl, libuv, libmosquitto, D-Bus, SMB,
NFS, archives, OpenSSL and a few document libraries. This directory models the
classes that have a life of their own: threads, callbacks, reconnections,
retries, requests that wait for a reply, operations in pieces on an object that
remembers what an earlier one left. The modules are checked by TLC on
small instances, and what matters most is proved with TLAPS for every value of
the constants.

`PROJECT.json` maps each definition to the source lines it stands for, lists
the hazards that the properties are for, and gives for every property a mutated
definition that breaks it.

## 1. Inventory

| Part | State it keeps | Operations | Talks to |
|---|---|---|---|
| `ComexSessionManager` (comex_session.cpp) | map `sessions`, queues `event_new` and `event_remove`, semaphore, ring of the last 64 query serials, serial of the list query | constructor (connect, ask for the list), `closeDBus`, listener thread and its message callback, dispatcher thread, getters | logind over D-Bus; the application through `onSessionNew`, `onSessionRemoved` |
| `MqttClient` (comex_mqtt.cpp) | `mosq`, `connection_ready`, map `sub_topics`, semaphore `sem_mqtt_conn`, a thread pool | `startClient`, `stopClient`, `subscribe`, `unsubscribe`, `publish`; connect, disconnect and message callbacks | libmosquitto's loop thread, the broker, the pool |
| `LiteIPC` (comex_liteipc.cpp) | `rx_queue`, `rx_running`, `magic`, listeners, the rx thread | `startIPC`, `stopIPC`, `sendControl`, `sendStatus`, `sendEvent`, `onRecv`, `ThreadRx` | its base `MqttClient`; the process-wide sync adapter of libcom |
| `ComexCurl` (comex_curl.cpp) | options, `retry_count`, a CURL handle per call, the target buffer or file, `CurlProgress` | three downloads, `getRemoteFileSize`, `send`, `upload`, write and progress callbacks | HTTP servers |
| `ComexTcpClient`, `ComexPipeClient` (comex_socket.cpp) | one libuv handle, `thread_loop`, reconnect timers, asynchronous handles | `startClient`, `stopClient`, `sendData`, `reconnect`; connect, read, close callbacks | libuv's default loop, shared by everything in the process |
| `ComexTcpServer`, `ComexPipeServer` (comex_socket.cpp) | the listening handle, one handle per connection, requests in libuv's thread pool | `startServer`, `stopServer`, `sendData`; accept, read, work, close callbacks | the same loop; threads of the pool |
| `ComexSmb` (comex_smb.cpp), `ComexNfs` (comex_nfs.cpp) | a library context that `autoReconnect` checks before each operation, also before those that `mkdir` and `rmdir` make inside, and rebuilds when it does not answer | put, get, getBytes, make and remove directories, remove, rename, queries of a path, clean | file servers, whose files other clients change |
| `OpensslHash`, `OpensslHMac` (comex_openssl.cpp) | an EVP context, the type and the key | setType, setKey, append, finish, digest | libcrypto |
| `OpensslCrypto` with `AES`, `DES`, `2DES`, `3DES`, `SM4` (comex_openssl.cpp) | one EVP context for both directions, mode, key, IV, tag | the setters, encrypt, decrypt, begin, append and end of both, encryptFile, decryptFile | files, libcrypto |
| `OpensslRSA`, `OpensslCert` (comex_openssl.cpp) | the keys that were set | encrypt, decrypt, sign, verify, certificates | libcrypto |
| `ArchiveZip` (comex_archive.cpp:58-418) | an open libzip archive, whose changes wait for `close` | add, remove, clear, extract | files, libzip |
| `ArchiveTar` (comex_archive.cpp:420-707) | an open libtar archive, the plain file behind a compressed one, `compress_type`, `file_added` | open, add, extract, close | files, libtar, zlib, bzip2 |
| `ArchiveWriter`, `ArchiveReader` (comex_archive.cpp:709-1243) | a libarchive writer; the reader has none and reads from the beginning each time | add, close; queries, read, extract | files that change, libarchive |
| `comex_zlib_compress`, `comex_zlib_decompress` (comex_zlib.cpp) | none beyond a call | both | zlib |
| iconv, libmagic, podofo, cairo, Poco proxy | none, or a library handle | conversions and drawing; a proxy thread of Poco | libraries |

What interacts: `LiteIPC` is an `MqttClient`, uses its topic map to be
subscribed again after each reconnection and its pool to receive. Client and
server of comex_socket.cpp meet over the network, and all of a process share
one libuv loop. Zip, tar and writer read files that the application, or one of
them, changes. The other parts stand alone.

What is hard here: two to four threads per class, with locks that are released
between the steps of one operation (session, MQTT); callbacks of a library
thread between any two steps of a call; replies told apart by a small number
that comes round again (session, LiteIPC); connections that break at any moment,
after which state must be rebuilt (MQTT, sockets); waits that somebody has to
end (semaphores, joins, `sendControl` from inside a handler); retries on top of
what a failed attempt left behind (curl); asynchronous closing of handles
(sockets); a context that is rebuilt inside an operation which still uses the
old one (SMB, NFS); operations that come in any order on one object and go on
after failures (OpenSSL, archives); files that change between the moment they
are named and the moment they are read (archives). What makes each part correct:

- session: every removal is delivered, a removed session never comes back, the
  callback sees the session it is about, replies are attributed correctly;
- MQTT: the topic map and what the broker holds agree whenever nothing is
  under way, `isConnected` is true only when it is, start and stop return;
- LiteIPC: the reply to one's own request or none, a control runs at most
  once, every call and every stop returns;
- curl: what a download reports as done is what was asked for, once, or what
  the server made of it;
- sockets: order and single delivery, paired notifications, a client that does
  not give up by accident, silence after a stop;
- SMB and NFS: a copy is the file or a beginning of it while the local disk
  takes it, a directory reported as made or removed is, nothing outside is
  touched, a context is not destroyed under somebody who uses it as long as the
  server answers, and a call that fails had a reason;
- OpenSSL: a digest or tag is that of exactly what was fed, what was encrypted
  opens again, and the modes with a tag refuse everything else;
- archives: a zip archive is a map that a `close` replaces or leaves alone, a
  tar archive holds what was added, `addFile` of the writer tells whether an
  entry is complete, the reader gives what was written or a beginning of it, as
  far as the files that it writes can be opened and hold it;
- zlib: what comes out is what went in, a beginning of it when the bytes were
  cut, right up to the damage when they were damaged; and the loop ends.

## 2. Modules

| Module | Models | Composed from |
|---|---|---|
| `SessionManager` | the session cache with its three threads, logind and the bus | |
| `SessionManagerProofs` | theorems about it | `SessionManager`, TLAPS |
| `MqttClient` | the client, its callers, libmosquitto's thread and the broker | |
| `MqttClientProofs` | theorems about it | `MqttClient`, TLAPS |
| `RemoteCall` | abstract: what `sendControl` promises | |
| `LiteIpc` | the nodes, their rx threads, the broker's queues | refines `RemoteCall` by `INSTANCE ... WITH` |
| `LiteIpcProofs` | theorems about it, the refinement among them | `LiteIpc`, TLAPS |
| `CurlDownload` | the downloads of one `ComexCurl` object | |
| `CurlDownloadProofs` | theorems about it | `CurlDownload`, TLAPS |
| `StreamNet` | connections of the kernel (external) | |
| `StreamClient`, `StreamServer` | TCP and pipe client, TCP and pipe server | each extends `StreamNet` |
| `StreamPair` | a client and a server over the same connections | `StreamClient`, `StreamServer` |
| `StreamPairProofs` | theorems about it | `StreamPair`, TLAPS |
| `FileShare` | `ComexSmb` and `ComexNfs`, the connection, the share, other clients | |
| `FileShareProofs` | theorems about it: types and the context, put and get, mkdir and rmdir, reasons of a failure | `FileShare`, TLAPS |
| `ArchiveFiles` | the files that archives read and write (external) | |
| `StagedArchive` | abstract: what `ArchiveZip` promises | |
| `ArchiveZip`, `ArchiveTar` | the two classes over libzip and libtar | each extends `ArchiveFiles` |
| `Archives` | both over the same files | refines `StagedArchive` by `INSTANCE ... WITH` |
| `ArchiveStream` | `ArchiveWriter`, `ArchiveReader`, files that change, archives that are cut | |
| `OpensslDigest`, `OpensslCipher` | digest objects; cipher objects | |
| `Openssl` | both, and their properties | `OpensslDigest`, `OpensslCipher` |
| `OpensslProofs` | theorems about both | `Openssl`, TLAPS |
| `Inflate` | the two functions of comex_zlib.cpp | |
| `PackingProofs` | theorems about all archives and zlib, the refinement of `StagedArchive` among them | `ArchiveStream`, `Inflate`, `Archives`, TLAPS |
| `MCPacking` | instance of `ArchiveStream` and `Inflate` | both |
| other `MC...` | instances for TLC | the module of that name |

### SessionManager

One action per step between two lock operations. The constructor's thread
sends `ListSessions` (`QuerySessionsSend`) and stores the serial in a second
step (`QuerySessionsStore`); between the two the reply can be read and
ignored, since the code stores the serial after sending. The listener reads one
message at a time: a signal queues an event or a query, a `GetAll` reply
enters the map and posts the dispatcher, the list reply is gone through
session by session under the lock. The dispatcher pops one event at a time,
looks the session up, calls the application (a step of its own, during which
everything else runs) and erases removed sessions. The ring of serials has
`RingSize` places (64 in the code) and is overrun like the code's. D-Bus is
two FIFO channels. A session entry is reduced to where its data came from
("list", "props"): the strings are not modelled.

### MqttClient

`owner_pc` walks through `startClient` and `stopClient`; `call[c]` through
`subscribe` and `unsubscribe` of caller c, which lock the map once to check and
once to store, with the packet sent in between. `net_pc` and `link` are
libmosquitto's loop thread: connect, CONNACK, callback (ready flag, post,
resubscribe the copy of the map), loss, disconnect callback. Packets are lost
with the connection; the broker forgets a clean session. `raced` is a history
variable: topics whose call was overtaken by the callback or by another call,
for which the code really can end up different from the broker. `wanted` is
another one: the topics whose last call was a subscribe, whatever it returned.

### LiteIpc and RemoteCall

A message is known by its sender and number; the program sees only the
magic, the number modulo `MagicMod`. `slots` is the process-wide sync adapter:
`sendControl` prepares a slot, publishes, waits, and clears it on each way out.
A node's messages leave through its library's outbox, are lost or sent again
according to QoS, and reach `onRecv` on a pool in any order. `rx_pc` is
`ThreadRx`; a caller `<<"rx", n>>` is a handler that calls `sendControl` from
the rx thread of n. `RemoteCall` has four facts per call: asked, executed,
open, returned. The refinement mapping reads them from the message numbers, the
history of executions and the calls in progress.

### CurlDownload

One call after the other on one object, one buffer, one file. A byte is its
position in the remote file, so that a byte in the wrong place or twice shows;
`Page` is a byte of a server's error page. The retry loops, the ranges, the
accumulated buffer, the progress that outlives the call, the cast to `int` and
what each exit closes are kept; urls, headers and TLS are not. The write callback
(`Receive`) and the progress callback (`Progress`) are steps of their own, so
that another thread may read a `CurlProgress` that is behind what was written.
A server answers a range with the range, with the whole file, which the code
takes like every 2xx (740), or with an error page. The flush and the close of
the file may lose a part of it on a full disk (`TransferDone`).

### StreamNet, StreamClient, StreamServer, StreamPair

`handle` is the life of the one libuv handle of a client: fresh, connecting,
open, closing (its callback will reconnect), closed, dropped (its callback will
delete it), deleted. The owner and the senders reach the loop only through
asynchronous handles (`casyncs`, in the order made); `timers` counts the timers
of `reconnect()`; `cclosing` says that a `uv_close` has yet to finish.
`SendData` is possible at any moment, also before the start, where the code
reads a pointer that no constructor sets: the model takes both outcomes. A
stop is a message to the loop whose callback closes everything; without a
running loop the message stays behind and hits the next start.

The server hands each read to libuv's pool (`swork`, `running`, `handled`),
where `onRecv` runs; `told` is the last notification of each connection.

libuv asserts that a handle is closed once, initialised before use and not used
when freed. The code breaks these rules in some interleavings of a stop
(hazards). What then happens depends on the build of libuv, so the model
records `misuse` or `smisuse` and stops; liveness is claimed up to there.
TCP and pipe are one model with a variable `kind`: they differ in the
resolution of the name, in who makes the first connection, and in whether an
established connection can be reset. `PROJECT.json` maps some definitions to
the TCP and some to the pipe class, which repeat each other.

### FileShare

One call after the other by one thread, `kind` says of which class: the two
repeat each other, and where they differ (a failed write ends an SMB put only, a
rename replaces a file over NFS only) the definition names the kind. `link` is
the context: none, dead (built, but not connected), live, or gone (the connection
is broken and `nfs_is_connected`, a flag of libnfs, has not noticed: such a
context stays, and each call on it fails, until libnfs notices). `Reached`
is `autoReconnect`, which each call begins with, and each `getFileType` and
`rmdir` made inside a call as well: the connection may fail or come back, and a
context that does not answer (`Echo`) is built anew, under the directory handles
of an `rmdir` that is going down the tree (`frames`). Libsmb2's handles do not
outlive their context; the model notes their use as `misuse` and stops there. A
file is a sequence of units that know where they come from, so that a unit at a
wrong place, from an old file, or from nowhere (`Hole`) shows. Between any two
steps the connection breaks, a call of the library fails, or another client
writes, makes or removes something (`Meddle`); the history variables `was`,
`faulted` and `meddled` say what there was and what happened, since the
properties differ by it. The local file of a `getAs` may not open, and may lose
any part of what it is given when the disk is full; `disk` and `copy` note that
and what was there before.

### StagedArchive, ArchiveZip, ArchiveTar, Archives

libzip keeps a list: a removed entry keeps its index until the archive is
closed, an added entry only refers to its source, and `close` reads the sources
and writes a new archive or, when that fails or nothing was changed, none. `StagedArchive`
says what this is for: an archive is a map, an object works on a copy, and closing
replaces all or nothing. `ZipIsMap` is that refinement; the mapping
(`SavedMap`, `CopyMap`) reads the maps from the lists. A tar object writes as it
goes. Its archive has blocks and an end mark, because the code appends to what
is there, and a compressed one goes through a plain file of the same stem.

### ArchiveStream

`AddFile` takes the size, `AddOpen` opens the file and writes the header,
`AddCopy` moves one block: three moments between which `FileChanges` writes
the file anew, longer or shorter, or removes it. A block is named by its file,
the version of the file and its place. libarchive takes no more than the header
announces, fills up a tar entry that is too short, and may refuse a header or
break down at any block. `Cut` ends an archive within an entry. The reader has
no state: its functions are operators over the archive as it is. Those of
`readTo` and `extractTo` have two more parameters, over which the property
quantifies: the entries whose target opens (one that does not is passed over),
and the blocks that a full disk does not take (nobody looks at what
`com_file_write` returns, and what follows moves up).

### OpensslDigest, OpensslCipher, Openssl

OpenSSL is external, and ideal: a digest is the record of its type, key and
data, a ciphertext is a box that holds the settings it was made under. What is
modelled is what the classes do with it: which calls begin, feed and end an
operation, what a failing one leaves, which settings count from when on, which
modes the classes accept with which keys, where the tag is taken and checked.
`begun` keeps, apart from the context, the settings of the last begin and what
the caller has fed since, and `sealed` the tag that the last encryption has to
leave: that of what was fed, or, if the mode set at its end takes none, the tag
that was there.

### Inflate

What is packed is known by its text, by what still comes out of it, of which a
first part is right, and by what stands behind: the end, a cut, or other bytes.
Damage is found late: `Wrong` units may come out behind it before zlib, at the
latest by its checksum, says so. A step of the model is one turn of the loop: `inflate` gives up to a buffer and says how it went,
and the loop appends and goes on, or leaves.

## 3. Runs

| Run | Instance | What it shows |
|---|---|---|
| session | 2 sessions, of which s1 opens first, ring of 2 | A removed session never comes back, `onSessionNew` finds its session, comes once and first, a reply is recognised unless the ring was overrun; every removal is delivered and `closeDBus` returns (`NoWakeupLost`), an open session gets into the map |
| mqtt | 2 callers, 2 topics, one covering the other, 2 starts, 2 connections, 1 packet under way | Map and broker agree when quiet, the ready flag is right, topics reach the broker, also those subscribed offline, start and stop return |
| liteipc_safety | 2 threads of a call b, which serves, breaks, restarts; 2 messages each, 3 magics | No reply lost between publish and wait and no slot left (`SlotServesCall`), at most one execution, own reply or none (`ImplementsRemoteCall`) |
| liteipc_liveness | one node calls itself from handlers | Every call and `stopIPC` return although the only thread that could reply is waiting, received messages are served |
| curl_download | 2 bytes, 1 retry, both timeouts | Success means exactly the range, or the whole file where the server ignored it; resuming completes a buffer, progress is not behind what the progress callback was told, nor at the end (all `ExactlyTheRange`); calls return with handle and file closed |
| curl_retry | 2 bytes, 1 retry | A disagreement with the documentation, section 6 |
| stream_safety | 2 connections, 2 sends, 2 starts and stops of the client, pool of 2, TCP and pipe | Order and single delivery over all connections together, and what the pool may reorder (`InOrder`); notifications paired, silence after a stop (`CallbacksInOrder`) |
| stream_live | 2 connections, 1 reply, a server that starts twice | A lost connection is tried again, both stops return |
| file_share | SMB and NFS, a directory with two entries, files of 1 and 4 units, buffer of 3, 2 calls, with 1 failure and 1 change by another client in, before or between them | What put, get, mkdir and rmdir leave and report, a directory handle outlives its context only after a failure (`DirsAsTold`), a call fails for a reason |
| archives | 2 zip objects on one archive, a tar object on a plain and a compressed one, 2 sources, 5 operations | `ArchiveZip` implements `StagedArchive`; a closed tar holds exactly what was added and no other archive changes |
| openssl | 6 calls on a digest object, 5 on an AES object with CBC, CCM and GCM | A digest or tag is that of exactly what was fed, or the tag is the one from before when the mode at the end takes none; what was encrypted opens again, and the tagged modes refuse everything else |
| packing | writer and reader: 2 entries of up to 2 blocks, 1 change; zlib: texts of 0 to 5 units, up to 3 wrong ones, buffer of 2 | `addFile` tells whether an entry is complete, `read` gives what was written or a beginning of it, the files that the reader writes hold blocks of the right entry; what is unpacked is what was packed, a beginning of it when cut, right up to the damage when damaged, and the loop ends |

Bounds and why they are enough. Two sessions and a ring of two make every
overrun and every confusion between two sessions happen; a third session adds
only more of the same events, and the proofs below are for any number. The
sessions are alike, so the run lets s1 be the first to open. Two callers on a
topic are all that can overlap in pairs; the second connection lets a call span
a reconnection. Three magics with two messages per node keep the assumption of
the code (no magic comes round while its request lives) just satisfied. Two
bytes give a first and a last one, and a slice that is less than the file; one
retry shows what is left behind by an attempt. In `IntHalf`, half the range of an `int`, 64 stands for a type
that is wide enough. Two connections give one reconnection; the pool of two is
the smallest that can reorder. Files of 1 and 4 units with a buffer of 3 end
within the first and within the second block, and a shorter file is put over a
longer one; two calls show what the first leaves to the second; a directory with
two entries is gone through in both orders. Five operations open, change twice
and close a zip archive with one of another object in between. Six digest calls
are two whole messages or one with a change of type and key inside; five cipher
calls are a whole encryption in pieces and the begin and first piece of a
decryption, or two whole forms with settings changed between them. Texts of 0 to
5 units with a buffer of 2 end in, at and behind the edge of the first and
second buffer, and three wrong units behind a damage fill more than one. The two
files of the cipher run are interchangeable, a symmetry that TLC uses. Counters (starts, connects, packets, messages, sends, steps) are
capped in the guards; a liveness property that a cap could stop names the cap
(`Retries`).

Deadlock is checked except where everything may have come to its end: in the
two stream runs (everything stopped, or a misuse ended the model), in
file_share, archives and openssl (the bound on calls), and in packing (the
archive is closed, the text is unpacked).

The mutants: each property of a passing run has one, a small operator with its
mutated form next to it in the module ("Mutated form").

## 4. Fairness

- `SessionManager`: the constructor's and closing thread, the listener and the
  dispatcher each run, callbacks return, logind answers. Nothing makes a session
  open or end, or the owner close.
- `MqttClient`: calls and callbacks run to their end, the wait has a timeout,
  the broker takes what is sent and `mosquitto_disconnect` is obeyed. Nothing
  makes the broker accept a connection.
- `LiteIpc`: threads run; `sendControl` has a timeout and `stopIPC` wakes the
  rx thread. No fairness for messages.
- `CurlDownload`: the two timeouts of libcurl fire, the local steps are taken.
  Nothing for the server; `getRemoteFileSize` sets no timeout, and nothing
  is claimed while it runs.
- `StreamPair`: weak fairness for each loop as a whole (it runs something that
  is due, in an order that is left open), for the joins, and for the pool, whose
  `onRecv` calls return. Nothing makes a connection break, a server start or
  an application act.
- `Inflate`: the loop runs on. zlib may be out of memory, but nothing makes it
  so, and no end is claimed because of it.

The other modules state safety only: their calls are made by one thread, and
what they wait for is inside a library. All of it is weak fairness of what a
thread or a timer does by itself.

## 5. Proofs

Every invariant of the passing runs, both refinements and the action property of
the tar archives are theorems: they hold for all values of the constants, not
only for those of the runs. Eight modules hold them. What they assume are the
named assumptions on the constants of each component, which TLC evaluates in
every run, and where a theorem needs more it says so after `ASSUME`. Each one
has an inductive invariant, which the initial states satisfy, every step keeps
(one step of the proof per action), and which implies the property; what
follows says what has to be added to the property, and why.

The bounds of the models (`MaxSteps`, `MaxEntries`, `MaxMessages` and so on) are
constants as well. A theorem holds for each value of them, so for runs of any
length.

### Session

For every finite set of sessions and every ring size
(`SessionManagerAssumption`).

- `TypeCorrect`: `Spec => []TypeOK`. `TypeOK` is a conjunction of eight groups
  (bus, map, queues, ring, and one per thread); the proof first shows that an
  untouched group keeps its type, then goes action by action through the
  groups it touches. `QueueType` and `RepliesType` are the lemmas about
  queues and about what logind may answer.
- `RemovalFinal`: `Spec => []RemovalIsFinal`, the inductive invariant behind
  the next theorem. `NoResurrection` alone is not inductive: a reply under way
  could put the session back. The strengthening says that an active or unborn
  session has no removal anywhere (`NotYetRemoved`), that behind a removal in
  the channel no reply carries its session (`NothingBehindRemoval`: the channel
  is FIFO and logind answers only for active sessions), and that once the
  listener has read it neither the channel nor the list being parsed carries it
  (`NothingOnceRead`).
- `RemovedStaysRemoved`: `Spec => []NoResurrection`.
- `NewsCorrect`: `Spec => []NewCallbackFindsSession`. `NewsInv`: a session on its
  way to the application was entered in the map before, and is in one place
  only: about to be queued, queued, popped or announced.
- `RepliesCorrect`: `Spec => []RepliesRecognised`. `SerialInv` ties every serial
  under way to a request, `InOrder` says that requests, replies and what was read
  follow each other in the order of the serials, and `RingInv` that the ring
  holds the last queries in the order they were made, wherever its position is:
  a query that is unanswered and not in it was overrun by later ones.

### MQTT

For all topics and callers, and any number of starts, connections and packets.

- `TypeCorrect`, `ReadyCorrect`: `Spec => []TypeOK` and
  `Spec => []ReadyMeansConnected`. `ControlInv` ties the steps of the owner and of
  the loop thread to the handle, to the link and to the ready flag; `CallInv`
  and `SocketInv` say that calls are about topics and that nothing of a
  connection outlives it.
- `SubscriptionsCorrect`: `Spec => []MapMatchesBroker`. What the broker has is
  not enough for an induction, since packets are under way. `Held` are the
  topics that it will hold once it has taken them, the last packet about a topic
  deciding (`HeldAppend`, `HeldTail`). `QuietInv` compares `Held` with the map
  for the topics that no call is busy with, `PendingInv` says what holds between
  the packet of a call and its update of the map, both for topics whose call was
  not overtaken (`raced`).

### LiteIPC

For all nodes and threads, and any number of messages, restarts and losses.

- `TypeCorrect`: `Spec => []TypeOK`, with `MessageInv` (a message carries a number
  that its node gave out; an ACK exists only after its control was executed) and
  `CallInv` (the number of a call is its own).
- `Once`: `Spec => ExecutedOnce` for controls that are not sent at QoS 1
  (`ControlsOnce`; with `setQOS` an application may choose QoS 1, where the
  library may send them again). `OnceInv`: until it is executed there is one
  copy of a control, in the sender's library, in the receiver's, or in a queue.
- `SlotsServe`, `Implements`: `SlotServesCall`, and the refinement
  `ImplementsRemoteCall`, for a process with one `LiteIPC` object (`OneObject`:
  all objects of a process share the adapter and count their magics from 0,
  comex_liteipc.cpp:167, a hazard), in the runs in which no magic comes round
  while a request with it lives (`[]MagicsApart`). The code has no guard for
  that, it relies on the 32 bits of the magic. `NoMagicTwice` proves `[]MagicsApart`
  for all runs in which a node numbers no more messages than there are magics;
  with more, it is a condition on how long requests live. `SlotInv` says that a
  slot is there exactly as long as its call, `WaitInv` that the reply of a call
  that waits is under way or was lost. In the refinement each action is a step
  of `RemoteCall` or a stutter.
- `UntilTheyComeRound`: both without a condition on the run, for as many messages
  as there are magics.

### Downloads

For every size of the file, any number of retries and any width of `int`.

- `TypeCorrect`, `DownloadCorrect`: `Spec => []TypeOK` and
  `Spec => []ExactlyTheRange`. `BeforeInv`, `TransferInv`: before a transfer the
  target is as the call found it, in one it has grown by what came of the reply,
  which is the range, the whole file or an error page;
  `ResumeInv`: a resumed download begins where the buffer ends; `ProgressInv`:
  the base of the progress is never behind what the call found, and what remains
  never behind what the callback was told; `ResultInv`: a
  positive result was earned by the last transfer, or nothing was left to
  transfer.

### Sockets

For any number of connections, sends and threads of the pool, up to the misuse
of libuv at which the model stops.

- `TypeCorrect`: `Spec => []TypeOK`, with `HandleInv` (which handle has a
  connection, a timer, or something waiting) and `LoopInv`.
- `OrderCorrect`: `Spec => []InOrder`. `OrderInv`: what the connections carry, what
  waits in the handle that connects, and what waits for the loop, come one after
  the other; `PoolInv`: what waits for the pool is behind what its threads have,
  and what onRecv is through with was read.
- `CallbacksCorrect`: `Spec => []CallbacksInOrder`. `UpsInv` counts: each
  notification of a connection is paid for by a start, or by that of its loss.

### SMB and NFS

For every set of paths with their parents, all lengths, every buffer, and any
number of calls, failures and changes (`ShareAssumption`).

- `TypeCorrect`: `Spec => []TypeOK`. Beside types, nothing in the share is where
  there is no directory for it. Inductive is `IInv == TypeOK /\ Control`:
  `Control` says of each point of each operation what the link, the frames and
  the handle are there.
- `ContextCorrect`: `Spec => []ContextKept`, from `Control`: an open directory
  outlives its context only if something failed in this call, because as long as
  nothing does an `rmdir` that goes on has a live connection. After a failure the
  code does go on with a directory that was freed with its context (section 6).
- `GetCorrect`, `PutCorrect`: `Spec => []GetIsPrefix` and `Spec => []PutLands`.
  `TransferInv` adds to `IInv` what holds in the middle of a transfer: what has
  been read so far is the beginning of the remote file as long as nobody changed
  it and the disk took it, and with a full disk that beginning with parts left
  out (`FetchInv`), what has been written lies over the beginning of the old
  remote file (`StoreInv`), and both agree with the place the loop is at.
  `OpFits` says which steps belong to which call.
- `DirsCorrect`: `Spec => []DirsAsTold`. `TreesInv` says that the components
  `mkdir` has counted are there (`MkdirInv`), that the open directories of
  `rmdir` lie one below the other from its path on (`WayDown`), and that what is
  outside the path is as it was, while what is left in an open directory is
  still to come in its listing, or is the next directory below (`RmdirInv`);
  the first and the last unless another client meddled.
- `ReasonCorrect`: `Spec => []FailsForAReason`. `CalmInv`: as long as nothing fails
  and no other client is there, a call has a connection, `mkdir` finds what it
  saw or made, and a download changes nothing.

### OpenSSL

For all digests, keys, vectors, texts and files, and any number of calls.

- `TypeCorrect`, `SumCorrect`: `Spec => []TypeOK` and
  `Spec => []SumIsOfItsMessage`. `DigestInv` says that between two calls a digest
  object has nothing of a message and, if it can take one, is as new, or that its
  context holds exactly what was fed, under the type and key of the begin
  (`AsFed`); `SealedInv` that the context of an encryption under way agrees with
  what was fed since its begin, and the tag at hand with what the last one left.
- `OpensCorrect`: `Spec => []OpensWhatItMade`. `CipherInv` adds the context: its
  pieces are of the box they came from, and under CCM there is one piece only,
  made or taken, and its tag was checked when it was taken, since the end checks
  nothing under that mode.

### Archives and zlib

All in `PackingProofs`.

- `AddsCorrect`: `StreamSpec => []AddsWhatItTells`, for all files, lengths, numbers
  of entries and of changes (`StreamAssumption`). `AddInv` holds while `addFile`
  copies: the blocks taken lie at their places, the count is no larger than
  their number, and equal to it while the library works; and as long as nobody
  wrote the file, all are of its present version and the announced size is its
  size. The count being at most the number of blocks, and that at most the
  announced size, is what makes an equal count mean a complete entry.
  `EntersKeeps` is the lemma for the two places where an entry ends,
  `FilledType` the one about what the library fills up.
- `ReadsCorrect`: `StreamSpec => []ReadsWhatWasWritten`. `EntriesInv`: entry by entry
  the archive has what was stored or a beginning of it, and its sizes are right
  unless it was cut. `StandingLeaves` is about the blocks that a full disk leaves
  of an entry, `ChosenOf` about the entry that is chosen among those whose target
  opens, `EntriesGive` and `CutGives` about what it gives.
- `UnpackTypes`, `UnpackCorrect`: `InflateSpec => []InflateTypeOK` and
  `InflateSpec => []UnpacksWhatWasPacked`, for every set of texts and every buffer
  (`InflateAssumption`). Inductive is the conjunction of both with `ComesOK` (what
  comes out is right as far as it says), `UpTo` (until the end of the stream was
  seen, what was appended is what zlib has given) and `EndsOK` (what is missing at
  the end). Without `UpTo` nothing would tie the pieces to the text.
- `ArchivesTypes`, `ZipCorrect`, `TarCorrect`: `Spec => []TypeOK`,
  `Spec => ZipIsMap` and `Spec => TarHoldsAdded` of `Archives`, for any number of
  objects, names, sources and archives. `ZipInv` says that a name has one entry in
  the archive, and one that is alive in the list of an object; this makes the
  lists maps. One lemma per operation on a list says what it does to the map
  (`AddedIs`, `AddingIs`, `DeadIs`), and one per action that it is the abstract
  one. `SurvivingIs` is the lemma about the close: the live entries lie in what
  is left at the number of live ones up to them. `TarInv`: the object's position
  is within its file, and what a writer has in front of it is what was added.

Only model-checked: liveness, which stays with TLC since the prover handles
neither fairness nor `ENABLED`: `NoWakeupLost` and the other properties of
section 3 that say that something returns, is delivered or is tried again.


## 6. Disagreements found

A receive timeout in the middle of a download leaves its bytes in front of the
next attempt (comex_curl.cpp:970): a "successful" file holds them twice. Run
curl_retry. `ExactlyTheRange` therefore excludes calls that timed out with bytes
written.

Observed while modelling, and kept in the models as the code has them. Where a
property would fail because of one, it excludes the case by name.

- curl: the size of a downloaded file goes through an `int` (1004, `ToInt`); a
  complete slice asked for again becomes a range that ends before it begins and
  the whole file is appended (667); `setReceiveSpeed` and `setSendSpeed` set
  each other's field (411-420); a server that ignores the range of a slice has
  its whole file appended (740); what the flush and the close of the file lose
  on a full disk is missing from a download that tells success (93, 1002-1003); the seek callback of a form's part ignores
  where the part begins (24-46).
- session: a list reply that is read before its serial is stored is nobody's,
  and the sessions of that list stay unknown (188).
- MQTT: a subscribe or unsubscribe that a connect callback overtakes leaves the
  map and the broker apart until the next reconnection (763, 779).
  `startClient(true)` gives up at once when a post of an earlier
  connection is left over (comex_mqtt.cpp:722).
- SMB and NFS: put does not truncate, so a longer remote file keeps its tail,
  and an SMB put whose write fails after the first block still returns true. An
  `rmdir` whose inner call built a new context goes on with a directory handle of
  the old one (comex_smb.cpp:535). `getAs` looks at no write but for the sum of
  the results: with a full disk parts of the copy are missing and it may return
  true; and when the local file does not open the old copy stays.
- OpenSSL: `encryptEnd` takes the tag by the mode that is set then (606): begun
  under GCM and ended under CBC, an encryption succeeds and the object keeps the
  tag of an earlier one. AES in CFB1 never takes a key of 32 bytes although its message names
  it (763-769); an HMAC object is of no use after an init that failed; CCM of an
  empty text checks no tag; `encryptFile` and `decryptFile` of a file onto
  itself empty it first, and an attached tag is not taken off by `decryptFile`;
  `setPrivateKeyFromFile` reads the file of the public key (1165).
- `ArchiveZip`: `removeFile` takes the index 0 for "not there"; `removeDirectoy`
  returns false also when it removed everything.
- `ArchiveTar`: `compress_type` outlives the archive it belonged to; the
  compression ignores its parameters.
- `ArchiveWriter`, `ArchiveReader`: `readTo` returns TRUE for a part of a
  damaged entry, and for whatever a full disk leaves of one (988); `extractTo`
  returns TRUE always, and passes over what it cannot open (1021); a constructor that gets NULL leaves `ctx` unset; an entry
  stored as "./x" cannot be asked for; a read without a path after a query has
  no context.
- sockets: the reconnect timer of a client ends with a name that does not resolve
  (64); a stop may close a handle twice (206).
- zlib: with bytes behind the stream the loop does not end; of damaged bytes the
  wrong text is returned, and nothing tells (69).

## 7. Not modelled, and why

- Strings, D-Bus type conversion, PID look-up (session); option setters, TLS,
  wills, MQTT v5 properties; `send` and `upload` of curl: one request, nothing
  kept.
- Data races on libuv's loop: `uv_async_init` is called from other threads than
  the loop's, which libuv does not allow. The model orders it with the loop.
- `reconnect()` as a call of the application; the peer address queries.
- The entries that `ls` of SMB and NFS returns, the making of names, setters.
- Archives in memory, passwords, lists of entries; failures in the middle of a
  tar file; the change of line ends by `extractTo`, which opens its targets as
  text ("w+", 1020), on Windows.
- RSA and certificates: each call converts keys and makes one call of the
  library. Bytes, block sizes and paddings of ciphers.
- iconv, podofo, cairo, Poco: no state of their own, or arithmetic on floating
  point out of TLC's reach.
- libmagic's table: comex_magic.cpp is 24488 of the 36237 lines of the
  implementation and consists of generated data. The models map about 4800
  of the 11749 lines that remain; ComexNfs repeats ComexSmb, and the lines of a
  definition that stands for both are named in one of the two files.

Where a library is external (D-Bus, libmosquitto, libuv, libcurl, libsmb2,
libnfs, libzip, libtar, libarchive, OpenSSL, zlib), it does what its
documentation says, and may fail wherever that says it can.

## 8. Plan

Done: session, MQTT, LiteIPC, curl downloads, sockets, SMB and NFS, OpenSSL's
digests and ciphers, the archives, zlib. Left, in this order:

1. The liveness of the runs rests on safety facts that could be theorems of
   their own: that a thread that waits has somebody who will post, and, for the
   two loops of zlib and of the downloads, a measure that each turn lowers.
2. `upload` and `send` of `ComexCurl` with their form callbacks.
3. Failures in the middle of an `ArchiveTar`; archives in memory.
