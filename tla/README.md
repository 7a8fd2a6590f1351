# OpenArangoDBCore in TLA+

This directory holds a formal model of the concurrent and fault-tolerant parts
of OpenArangoDBCore (`Enterprise/`): TLA+ modules, configurations for the model
checker TLC, and proofs for the TLA+ proof system. Paths below are relative to
the repository.

## 1. The system

`Enterprise/` is a set of C++ libraries that plug into an ArangoDB server. Its
parts call each other directly or through callbacks; there is no common event
loop. What runs concurrently is named per component.

| Component | State it keeps | Operations | Interacts with | What is hard |
|---|---|---|---|---|
| Source of DC-to-DC replication: `DC2DCReplicator`, `ShardWALTailer`, `MessageBatcher`, `SequenceNumberGenerator` | stop flag; per shard index a thread with a WAL iterator, a cache of collection infos, pending entries; a map of atomic counters | `start`, `stop`, tail loop, `poll`, `add`, `flush`, `nextSequence` | reads the WAL through `IWALIterator`, hands batches to a callback | stop racing the loop, partial batches, creation of a shared counter |
| Transport: `DirectMQClient`, `DirectMQProtocol`, `ConnectionRetryPolicy`, `TlsConnectionConfig` | a connection per client, movable | connect, disconnect, send, encode, decode | between source and target | ownership over moves, frames cut anywhere, lengths near their width |
| Target, message by message: `ReplicationApplier` | last applied number and out-of-order buffer per shard, one mutex | `applyMessage`, `applyBatch`, `drainBuffered` | write callback, satellite callback | lost, duplicated, reordered messages; writes that fail half-way through a drain |
| Target, with check and accept: `SequenceNumberTracker`, `IdempotencyChecker`, `ReplicationCheckpoint` | last applied number per shard behind a read-write lock; a file | `check`, `accept`, `save`, `load` | workers apply messages between check and accept | check-then-act over two locks, crashes around the checkpoint |
| REST side of replication: `RestReplicationHandler`, `CheckpointReceiver`, `ReplicationFeedStream`, `ReplicationStatusBuilder` | none of its own; tracker and tailer by reference | start, stop, reset, status, feed, checkpoint | tracker, tailer, the arangosync process | check-then-act between requests, page boundaries |
| `ReplicationLagMonitor` | timestamps per shard | record, query | tail loop | clock arithmetic |
| Parallel index build: `RocksDBBuilderIndexEE`, `IndexBuilderThreadPool`, `ChangelogBuffer`, `KeySpacePartitioner` | atomic build state; task queue, worker threads, condition variable; buffered writes and their size | `fillIndexParallel`, `bufferWrite`, `applyChangelog`, `atomicSwap`; `submit`, `shutdown` | iterator and inserter callbacks, writers | writes racing the apply, lost wakeups, failing tasks, appliers that throw, the memory budget |
| Hot backup: `RocksDBHotBackup`, `RestHotBackupHandler` | directories on disk, a mutex | create, list, delete, restore | RocksDB checkpoint | crashes between steps, unlocked directory operations, errors of the file system that list does not look at |
| Audit: `AuditLogger`, `AuditFeature` | event queue, writer thread | log, start, stop | files | events during and after the final drain |
| RClone: `RCloneProcess`, `RCloneFeature` | per call two pipes and a child process | upload | the operating system | descriptors that children inherit, timeouts, every system call may fail |
| LDAP: `LDAPHandler` | configuration; handles of the library per request | authenticate | the LDAP library, a directory | concurrent requests under different identities, clean-up on every path |
| Top-k: `IResearchOptimizeTopK`, `WandIterator`, `ScoreThresholdManager` | the k best scores so far, shared by the iterators of a query | optimizer rule, next, seek, add a score | AQL executor, search index | skipping by a threshold that other segments set |
| Encryption: `EncryptionFeature`, `EncryptionProvider`, `CtrCipherStream` | the key; nothing per file | start, new prefix, encrypt and decrypt at an offset | storage engine, OpenSSL | counters that carry, pieces that begin inside a block, lengths narrowed to an int, restarts with another key |
| Masking: `AttributeMasking`, mask functions | rules per collection | read the file, apply | dump | a parser that searches text |
| Smart graphs and sharding: `SmartGraphSchema`, `SmartGraphProvider`, `ShardingStrategyEE`, `SatelliteCollectionRegistry` | the satellite names, the local shard | validate, place, traverse | documents, AQL | two readings of one key |
| MinHash, analyzers, AQL nodes, follower reads | (nearly) none | pure functions | AQL, search | hashing arithmetic, text |
| TLS, licence, no-access transactions | configuration | checks, thin wrappers | libraries | - |

What makes the modelled components correct:

* applier: per shard exactly 1, 2, 3, ... is written, once and in order, whatever
  the network and the storage do; nothing acknowledged is dropped;
* tracker and checkpoint: the checkpoint can always be loaded, never runs ahead
  of the database, and what it covers is not applied again;
* source: every entry of a shard leaves the thread of that shard once and in WAL
  order, also when it does not fill a batch and when the thread is stopped;
* index build: an index that is published has all partitions and all writes
  that were acknowledged as buffered; a fill and a shutdown return;
* hot backup: whatever fails or crashes, what list shows and restore accepts had
  a complete checkpoint, what was created stays until it is deleted, what was
  deleted stays away;
* audit: every event is written once and in order, those logged before `stop`
  before it returns;
* REST side: a client that pages through the feed gets every message once and in
  order, and is told correctly whether there is more; recorded progress names
  only messages that were delivered;
* uploads and authentications: every call answers, and on every path it gives
  back the processes, descriptors, handles and results it took; what it answers
  is about its own child or its own user;
* transport: a connection has one owner, and a frame is found when all of it has
  arrived;
* partitioner, encryption, masking, top-k, smart graphs: the algorithm agrees
  with a definition that does not share its shortcut (no key between two ranges,
  reading undoes writing at any offset, what the file declares is masked, the
  result without skipping, one shard for a traversal).

The hazards behind these properties, each at its line, are listed in
`PROJECT.json`.

## 2. Modules

| Module | Models | State and actions |
|---|---|---|
| `OrderedShardLog` | abstract specification of the target: a log per shard that grows by the next number | `log`; `Append1` |
| `ReplicationApplier` | `ReplicationApplier.{h,cpp}` | `lastApplied`, `buffer` = the two maps; `todo`, `draining` = where the call that holds `_mutex` is; one action per decision of `applyLocked` and per outcome of an iteration of `drainBuffered` |
| `MCReplicationApplier` | two kinds of source for it | a retransmitting source, and one that believes return codes |
| `ReplicationApplier_proofs` | theorems about the applier | |
| `ReplicationTarget` | tracker, checker, checkpoint, start and crash | `tracker`; `pc`, `msg` = each worker's position between `check` and `accept`; `saving`, `snap`, `tmp`, `file` = `save()` and the disk; `applied` = the database |
| `ReplicationTarget_proofs` | theorems about tracker and checkpoint | |
| `SequenceNumberGenerator` | `nextSequence` by several threads | `counter` = the map, `heap` = the counters behind its pointers, `handle` = pointers taken out of it |
| `ReplicationSource` | all tail threads, EXTENDS the generator | `pc` = position in `shardTailLoop`, `next` = iterator, `polled`, `pending`, `sent` = where the entries are |
| `ReplicationSource_proofs` | theorems about tailing, batches and their numbers | |
| `IndexBuilderThreadPool` | worker loop, `submit`, `shutdown` | `worker`, `mutex`, `taskQueue`, `shutdown`, `result` |
| `ChangelogBuffer` | `append`, `forEach`, `clear` and the budget | `entries`, `usage`, `cursor` |
| `RocksDBBuilderIndexEE` | the builder, composed of the two | `state` = `_state`, `owner` = the thread that calls the builder, `write` = the calls of `bufferWrite` |
| `RocksDBBuilderIndexEE_proofs` | theorems about the index build | |
| `RocksDBHotBackup` | `RocksDBHotBackup.{h,cpp}` behind `RestHotBackupHandler` | `dir` = the backup directories, `mutex` = `_mutex`, `req` = where each request is; one action per system call that another request can tell apart, and per way it can fail |
| `RocksDBHotBackup_proofs` | theorems about hot backups | |
| `AuditLogger` | `AuditLogger.{h,cpp}` and the life cycle of `AuditFeature` | `feature`, `running`, `buffer`; `writer`, `batch` = the thread and its local batch, `stream`, `file` = what is written and what is flushed, `calling` = requests between the test of `_logger` and `log` |
| `AuditLogger_proofs` | theorems about the audit log | |
| `RestReplicationHandler` | `RestReplicationHandler.ipp`, `CheckpointReceiver`, `ReplicationFeedStream` | `tracker`, `running` = what the handlers refer to; `request` = each handler's position and local variables; `log`, `sync` = the source's messages and arangosync's position and pages |
| `RestReplicationHandler_proofs` | theorems about feed and checkpoints | |
| `RCloneProcess` | `RCloneProcess.cpp`, `RCloneFeature.cpp` | `pc`, `fds`, `polled`, `result` = each call of `uploadBackup`; `child`, `holders`, `unread` = processes and pipes, with who inherited which end |
| `LDAPHandler` | `LDAPHandler.cpp` | `at`, `outcome` = each call of `authenticate`; `open`, `secure`, `bound`, `held` = the library's handles and results |
| `IResearchOptimizeTopK` | the rule, the threshold manager, the iterators | `plan`, `index`; `heap` = the shared scores, `position` = the iterators, `current` and `delivered` = what the executor has |
| `KeySpacePartitioner` | `KeySpacePartitioner.cpp` | `asked`, `answer` = one call and what it returned |
| `EncryptionProvider` | `EncryptionFeature`, `EncryptionProvider.cpp` | `provider` = the key in use; `iv`, `stored` = a file on disk |
| `DirectMQ` | `DirectMQClient.cpp`, `DirectMQProtocol.cpp` | `connection`, `live` = clients and their connections; `onWire`, `arrived` = bytes |
| `AttributeMasking` | `AttributeMasking.cpp` and three mask functions | `file`, `cursor` = the parse; `configs` = the rules read |
| `SmartGraph` | schema, smart sharding, provider, path validation, satellite registry | `vertices`, `edges`, `satellites`; `path`, `reached` = a traversal |
| `EnterpriseServices` | the eight modules from `RCloneProcess` on, instantiated side by side | `active` names the one that runs; a step is a step of that one |
| `EnterpriseServices_proofs` | theorems about the services, each for the service alone and from there for `Spec` | |
| `MCReplicationTarget`, `MCReplicationSource`, `MCIndexBuild`, `MCEnterpriseServices` | constants for TLC; `RocksDBHotBackup`, `AuditLogger` and `RestReplicationHandler` take theirs from the `.cfg` alone | |

Where the atomic steps come from. A critical section of a lock is one step
unless it calls back (the applier's writes, `forEach`), in which case each
callback is a step and the lock is a guard of the others. Two accesses of shared
state under different acquisitions of a lock, or of an atomic outside of one,
are two steps: the two reads of `check`, the state test and the append of
`bufferWrite`, the test of a wait's predicate and the wait itself (the shutdown
flag is set without the mutex), the flag and the notification of `shutdown`.
`save()` is one step per change of the disk. A REST handler is a step per call of
tracker or tailer, an upload a step per system call, an authentication a step per
call of the library; another thread may run between any two.

Each definition that models code is listed with its lines in `PROJECT.json`
under `map`. Definitions whose comment begins with "Mutated:" are not part of
any specification; each is a plausible mistake in the definition it precedes,
and the property named with it under `mutants` is violated when it takes the
place of that definition.

Data is reduced to what the properties tell apart: a replication message is its
shard and number, a WAL entry its position with the shard it hashes to, a
changelog entry an identity with a size, a task the partition it fills, a backup
id its rank in time, a manifest its readability and its sequence number, an audit
event the request that logs it and its number there. Bytes are kept where a
property is about them, with fewer values and shorter words than in the code:
keys in `KeySpacePartitioner`, counters in `EncryptionProvider`, frames in
`DirectMQ`. A vertex key is its parts between the ':', an LDAP identity the request
it belongs to, output a mark on its pipe.

What is outside `src/` and modelled from its use: the network (delivers any
message in any order, any number of times), the write callback (succeeds or
fails), RocksDB's WAL (grows), the process (crashes), the condition variable
(may wake up without a notification), arangosync (pages, reports what it got, late
and repeatedly), the child processes (write, close and end as they like), the
LDAP directory (any call may fail), the executor of AQL and the search index,
AES (a keystream named by key, counter and position; a negative length is
refused), the wire behind `sendMessage` (the code builds the frame and leaves
`SSL_write` to a later version), the traversal over a smart graph. Tracker and tailer are
template parameters of the REST handlers; their calls do what
`tests/mocks/ReplicationMocks.h` does, each atomically.

The rounding of the doubles that `KeySpacePartitioner` interpolates with is left
out: no property depends on which byte a split point gets. That of the sample's
indexes, where an off-by-one would drop a key, is a choice (`rounded`).

## 3. Runs

State counts are distinct states found by TLC.

| Run | Question | Instance | Result |
|---|---|---|---|
| `applier` | Is each shard's log 1, 2, 3, ..., is nothing acknowledged dropped, is the drain complete, is the ordered log implemented, do shards catch up? | one replicated shard and one satellite, numbers 0..3, single calls and batches of two, two failing writes; 519,144 states | holds |
| `applier_acking` | Does a source that believes return code 0 see its messages written? | two shards, numbers 0..2, one failing write | violated: a failing write inside the drain (finding) |
| `target` | Is the checkpoint loadable and behind the database, is anything replayed or applied twice? | a shard with one worker, a shard with two, numbers 1..2, two crashes; 1,903,789 states | holds |
| `target_resend` | Was a rejected message applied? | the same without crashes | violated: gaps are closed by accepting beyond them (finding) |
| `source` | Does every entry leave once, in order, also at the end; are batch numbers unique and growing? | two tail threads, four WAL entries (one of a satellite), batches of two; 94,456 states | holds |
| `index_build` | Is a published index filled, memory exact, does no task outlive its call, does the fill return? | two threads, up to two partitions, writes of sizes 1, 2, 3, budget 4; 220,812 states | holds, for a build whose applier threw only up to the entry that threw (finding) |
| `index_writes` | Is every acknowledged write in the published index? | one thread, one partition | violated (finding) |
| `index_shutdown` | Does the destructor return? | two threads, no writes | violated: lost wakeup (finding) |
| `hot_backup` | Is only what is complete shown, do created backups stay and deleted ones stay away, does list miss nothing, do requests return? | two clients, two backups of one file, one crash; 321,368 states | holds; a list misses what the file system does not let it read (finding) |
| `audit` | Is every event written once and in order, is everything drained by `stop`, does what is logged reach the file? | two requests with two events each; 6,253 states | holds |
| `rest` | Does a paging client miss or repeat a message, is `hasMore` right, when can progress go back? | two shards, two handlers at a time, three messages, page sizes 1 and 2; 112,440 states | holds |
| `services` | Do uploads and authentications clean up and answer on all paths; do ranges, encryption, frames, masks, top-k and smart traversals compute what they promise? | eight services, one active at a time, see below; 218,866 states | holds |

Why the bounds are enough. Numbers up to 3 give a gap of two, a drain of two
messages and a failure on the first or the second of them; a batch of two
contains each pair of outcomes, among them a message behind the one that fails. In `target`
two workers on one shard reach every order of the two reads of `check` with the
accept of the other; a second crash is needed for a checkpoint that is written
by a process that itself began from one. In `source` batches of two and
three entries of one shard give a full and a partial batch; both threads race
for the first counter. In `index_build` two of the three writes fit the
budget in two combinations, and two threads with two tasks reach a worker
that is on its way to sleep during each submit. In `hot_backup` two clients
run each pair of operations on the same directory, and one crash leaves
any half-made backup for a list or a delete to find; one file is enough to tell
an empty, a complete and (with the manifest) a partly removed directory. In
`audit` four events fill two batches while others are logged, and one is
logged after the final swap.

In `rest` a default page of one message, a ceiling of two, and clients that ask
for 0 and for 3 make executeFeed take each of its branches; three messages over
two shards give a last page that is full, one that is not and one that is empty.
Two handlers are what a stale read needs.

In `services` the eight modules share no state, so the states of one are counted
beside and not against those of another, and each has its own bounds:
two uploads, because inheriting a descriptor takes two, with children that write as
often as they like; two authentications; three documents in two segments with two scores,
where a third document can be skipped by the threshold of the other segment; keys
of up to two bytes 0..2 and three partitions, where the bytes of split points
go up and down; counters of two binary digits, which overflow within a file of six
bytes, blocks of two, so that pieces begin and end inside one, ints below three,
so that pieces of one and two bytes are transformed, those of three to five have
a negative length and a piece of six stays in clear, and two starts;
frames with a length of two binary digits, where one more than the maximum would
wrap, two messages and two connections; masking files of two collections with names that are also paths or roles and a path
that is also a key; two vertices and two edges, enough for a
traversal of two steps that returns.

`MaxSeq = 0` in `hot_backup`: sequence numbers of the manifest change no property
of the run. That the number is read after the checkpoint, while writers go on, is
a finding that follows from the order of the two actions and has no run.
What Accept means (`AcceptMeansNext`) is the theorem `AcceptIsNext` and has no run.

Most properties have one mutant; those that combine two promises (`ReturnedCleanly`,
`RequestsIsolated`, `TransportIsSound`) have one for each.

`CHECK_DEADLOCK FALSE` stands where the system really stops: the source after
its threads have ended, the builder after its destruction, the acking source
after everything is acknowledged, the audit feature after `unprepare`, the
services when every call has returned and every bound is used up. In `rest` the
source's bound and the answered requests leave only paging, which changes nothing
at the end.

Fairness. `applier`: a thread inside a call goes on (weak fairness), and the
expected message of a shard gets through when the source goes on sending it
(strong fairness; the retransmission the integration tests exercise). Failures
are bounded by a constant, so a write succeeds in the end. `source`: every tail
thread runs. `index_build`: every worker thread and a call that has begun run;
strong, because a thread that waits for a mutex others take and release gets it
in the end. `hot_backup`: a request that has begun goes on, strong for the
same reason (`_mutex`). `audit`: the writer thread runs, nothing else is assumed:
`wait_for` ends after 100 ms even without a notification. `rest`: arangosync goes
on paging through every shard (weak fairness of a feed request); no handler has
to be called. `services`: an upload that has begun goes on, and a child that has
closed its outputs ends, because `waitpid` waits for it without a timeout; a child
that keeps them open may run for ever and is killed when it falls silent. The timeout
is one of silence, as `RCloneProcess.h:54` says, and rclone is run with `--stats 1s`
(`RCloneProcess.cpp:40`): `UploadReturns` promises nothing to the call of a child that
writes for ever, nor to a call whose poll has failed and whose child never ends. The other services have
safety properties only. No run assumes that
the owner makes a call, that a wakeup is spurious, or that a WAL entry is
written.

The properties with "provided no two workers share the shard" are about shards
whose messages are applied by one worker; the header's usage takes no lock
between check and accept, so for shared shards they are false, and the
instance has such a shard to make sure that the condition is needed.

## 4. Proofs

TLC checks the instances above; the theorems hold for all values of the
constants under the ASSUMEs of the modules.

`ReplicationApplier_proofs`. `InOrderExactlyOnce` and `AckedIsKept` are not
inductive alone: that a drained message is acknowledged rests on the message of
the call being written before `drainBuffered` begins (`DrainsAfterWrite`), and
that nothing writable stays in the buffer rests on buffered numbers being beyond
`lastApplied`, and beyond the next one too except in the shard being drained,
as long as no write has failed (`NoFailureNoStale`; after a failure the buffer
may keep messages that were overtaken). `Inv` adds these two to the type
invariant and the two checked ones. `TypeCorrect`, `OrderedDelivery`,
`AcknowledgedKept` and `DrainIsComplete` follow from `Invariance`; `Refinement`
shows that each successful write is a step of `OrderedShardLog` and each other
step a stutter.

`ReplicationTarget_proofs`. `Inv` follows a sequence number to the checkpoint:
it is in the database before the worker accepts it, and the tracker, the copy
that `save()` took, the temporary file about to be renamed and the checkpoint
name only numbers of the database (`AppliedBeforeSaved`). The copy and the
checkpoint are behind the tracker while the process lives
(`SavedBehindTracker`), which is what makes a load at the next start a rewind of
nothing that is checkpointed. For workers that have their shard for themselves
it keeps what `check` found out (`CheckedIsNew`) and that what was applied is
accepted but for the message in hand (`AppliedIsAccepted`). `CheckpointSafe` and
`NoRewind` hold for any sharing of shards; `AcceptIsNext`, `NoReplay` and
`AppliedOnce` for the shards that are not shared.

`RocksDBBuilderIndexEE_proofs`. `Inv` says which calls of the owner belong to
which `_state` (`CallState`), that a task without a result is in exactly one
place, the queue or the hands of one worker (`TaskInOnePlace`), that partitions
are submitted in order and all are waited for (`FillProgress`), and that what was
buffered before `applyChangelog` stays at the front of the changelog until it is
in the index, although other writes are appended meanwhile (`ApplyProgress`). An
applier that throws ends the call in the state in which `atomicSwap` publishes; of
such a build the theorem says that what is in the index is the front of what was
buffered.
`PublishedFilled` and `NoTaskOutlives` follow. `MemoryIsAccounted` needs a sum over a
sequence of any length: the running totals exist (`TotalsExist`), two recursions for
one sequence agree (`TotalsAgree`), and an appended entry adds its size
(`TotalOfAppend`). `PoolAssumption` (tasks are
numbered 1 to n) and `ChangelogAssumption` are all that is assumed.

`RocksDBHotBackup_proofs`. A backup has at most one creating request, and none
once it is created or cleaned up (`Owners`): this is why no failure or clean-up
touches somebody else's backup. `Progress` says what a creation has achieved at
each of its steps unless somebody is deleting its directory meanwhile; `Listing`,
that a list has shown or has yet to visit each backup it must show, which
are those created before it began except the ones the file system did not let it read; `Named`, that
a request about a backup names one. With these the four checked invariants are
inductive. `BackupAssumption` (numbered ids, at least one file) is all that is
assumed; clients, backups, files, and crashes may be any number.

`AuditLogger_proofs`. `Inv` ties the writer to the life of the feature (`Life`),
says that nothing is in the writer's hands between two batches (`HandsEmpty`), that
what `stop` counted was logged (`CountedBefore`), and that the writer leaves its
loop only when the file has it (`Drained`). Lemmas about concatenation
(`MoveOne`, `AppendLast`) carry the order of events through swap, write and flush.

`ReplicationSource_proofs`. A tail thread is inside `nextSequence` exactly while it
seals a batch (`SealsWhileCalling`), and `HoldsNothing` says at which of its steps it
can still hold entries, which gives `NothingLeftBehind`. `NumbersInv`: all threads
increment the one counter of the map, no number that was shipped or is in
somebody's hands is beyond it, and no two are equal; `BatchNumbersGrow` is a part of
it. `EntriesInv`: what a thread has taken, from the shipped batches through the
batcher to the rest of the last poll, is the entries of its shard before its
iterator, ascending. The lemmas about concatenation (`ConcatAscends`,
`AppendOfConcat`) move an entry from one place to the next without changing that.

`RestReplicationHandler_proofs`. That pages neither overlap nor leave a gap rests
on two lemmas about the first n of a set of numbers (`FirstOfIsClosed`,
`PageIsNext`) and on the log growing at its end (`PositionInLog`). Progress is
behind delivery because a checkpoint under way is (`ProgressWasDelivered`), and
that does not depend on when the tracker was read. `RewindIsStale` is the action
property from the same invariant. `MoreIsAnnounced` (`hasMore` is true exactly when
messages remain) compares a page with the page of one message more that
`executeFeed` asks for; `MoreThanAPage` says that the longer one is longer exactly if
something follows the page, and `FirstOfIsFull` that a page with something behind it
is full, by taking the least element again and again (`LeastOf`). `FeedAssumption` (page sizes are numbers, the
two limits positive) is all that is assumed.

`EnterpriseServices_proofs`. One step of the composition is a step of one service or
leaves it alone (`ServicesStep`), so each invariant below is proved of the service's
own `Next` and holds of `Spec`.

* Uploads. `RcloneInv` says which process (`ChildFollowsCall`) and which descriptors
  (`EndsClosed`) a call has at each of its steps, and that the pipes poll has given up
  are at their end (`PipesEnded`) unless poll failed, where they stay because only running processes hold
  descriptors (`HoldersRun`). `UploadReturnsCleanly` and `SilenceHasReason` follow for
  any number of overlapping uploads.
* Authentication. `LdapInv` says at which of its steps a request has which handle
  (`OpenWhileUsed`), what has been secured by then (`SecureWhenReady`), whose
  identity a handle carries while it is used (`BoundAsOwn`), and where a search
  result is in hand (`ResultsInUse`). One lemma per call of the library; `Isolation`
  holds for any number of concurrent requests.
* Smart graphs. `StaysLocal` holds for any keys, attributes, hash and lengths.
  `SmartKeysHaveColon` is what makes the two readings of a key agree
  (`PrefixIsValue`); `EdgesAreSmart` keeps what `validateEdge` compared, although a
  satellite may be unregistered later; `FollowsEdges` and `OnePrefix` are the induction
  along the path.
* Key ranges. `KeysCovered`: padded with a byte below all others, two keys compare by
  the first byte in which they differ (`LessAtSomeByte`), which makes the order
  total and transitive. Every key is in the first range whose upper bound is above
  it, whatever the split points are; that they ascend when the bounds' bytes are in order
  (`SplitKeysAscend`, `TrimmedInOrder`) makes that range the only one. For samples,
  `NextMultiple` bounds what rounding adds to a part.
* Top-k queries. `SkippingIsExact` for any segments, documents and scores. The heap
  holds scores of different documents that were delivered and scored (`HeapOfScored`), so
  a document whose bound is below a full heap is beaten by k delivered ones
  (`SkippedIsBeaten`), for good, and whatever an iterator has passed was delivered or is
  beaten (`PassedFound`). `ResultsAgree` counts: nothing that is beaten by k documents
  is in the result, nor is anything that it comes before.
* Encryption. `WrittenInPlace` says that what is on disk is what was written, under the
  keystream of its own offset or, in the part of a piece that the int does not count
  (`NarrowedSize`), in clear. The work is in the keystream (`KeystreamByOffset`): a
  call at any offset computes a counter and skips part of a block, and the cipher counts
  on from there. Each byte of a counter and its carry are quotient and remainder of a
  sum (`SumsOfBytes`), so adding one carries through the last bytes that are full and no
  further (`CounterSteps`), which is what the cipher does after each block. An
  overflow of the whole counter wraps in both.
* Masking. `MaskInv`: of a readable file, in which no string is taken for a name or a
  key, the rules found for a collection are its own, read as they stand, and parsing goes on with the next collection (`NextIsFound`). A mask of a registered
  type takes the digits it must, and no mask brings one back (`MaskTakesDigits`), so
  what is left depends on whether a rule asks, not on their order (`RulesLeave`); other
  collections' rules do not matter because the names differ (`OwnRulesMask`).
* DirectMQ. `StreamOfFrames` says that what has arrived, followed by what is on the
  wire, is the frames of the messages that are not received yet, in order, and then
  noise without a whole frame; reading a length gives back the length that was
  written, for any width and base (`ReadsWhatWasWritten`, from `BigEndianShifts` and
  `ReadBEReads`), so the parser takes the first frame when all of it is there and
  otherwise waits. `TransportSound` also says that a connection has one owner.

Assumed there: `PartitionAssumption` (bounds are
numbers), `EncryptionAssumption` (widths and sizes are numbers, a block has a byte, there
are ints),
`DocsAssumption` (finitely many numbered documents),
`FrameAssumption` (`kMaxPayloadSize` and the header fit the width of a length) and
`KeysAreSequences` (a vertex key has at least one part).

How induction is done. The induction theorems of the library take an operator as
their parameter, which the installed provers cannot instantiate. The proofs use
sets instead: a nonempty set of numbers has a least element (`LeastOf`, from
`WFMin` and `NatLessThanWellFounded` of `WellFoundedInduction`), so a set of numbers
that contains 0 and with each number the next contains all (`StepByStep`). That a recursive
function is what its equations say (`RecursionExists`, `TotalsExist`) is proved the
same way. The functions are defined as `f[n \in Nat] == ...` in the modules.

Only model-checked: liveness (`EveryShardCatchesUp`, `EveryEntryShipped`,
`FillReturns`, `RequestsReturn`, `LoggedReachesFile`,
`EveryMessageDelivered`, `UploadReturns`) because the prover has no rules for fairness and
ENABLED. Every invariant and every action property of a passing run is a theorem. The
type invariants are proved and therefore not among the invariants of the runs.
No module uses RECURSIVE operators.

## 5. Not modelled

Components without a model:

* `ReplicationLagMonitor`: differences of wall-clock times behind one mutex;
  nothing in `Enterprise/` acts on them.
* `ReplicationStatusBuilder`, status requests, JSON and routing: they read and
  format.
* MinHash, analyzers, the e-mail mask: hashing and text processing without a
  reference definition shorter than the code.
* AQL plan nodes: they carry options, and the hooks that would use them are
  outside the repository.
* `ReadFromFollower`, `assignShards`: they choose servers by formulas over their
  arguments and keep nothing a choice could contradict.
* TLS, licence, no-access transactions: option checks and constants.
* `ConnectionRetryPolicy` and the retry loop of `DirectMQClient::connect`:
  `performConnect` does no I/O and cannot fail, so no behaviour of the program
  reaches a second attempt; a model would be of a transport that is not there.
  `receiveAck` returns a fixed status for the same reason.

Source, transport and target are not composed: in the repository the client sends
to nobody, and nothing connects a `DirectMQClient` with a `ReplicationApplier`. A
model of the chain would invent the two ends. `ReplicationApplier` is instead
checked against any network.

Left out of modelled components: `SequenceNumberTracker::reset`,
`SequenceNumberGenerator::reset`, `ShardWALTailer::seekTo`, `ShardWALTailer::stop`
and `MessageBatcher::reset`, which nothing but tests calls; restarting a replicator
in one process (it ends the process, see the hazards); overlapping `save()`
calls; exceptions thrown by the write callback; an operating system crash that
loses a renamed file. Of hot backups: the list of collection names, which is
read after the lock is released, `isConsistent`, the order of list's result, and an
engine without a database (`HotBackupFeature::prepare` makes one), for which create
writes a manifest only and restore refuses the result. Backup ids are assumed to
differ; two requests within a microsecond would share a directory.
`.planning/phases/04-search-and-backup/04-03-PLAN.md` asks that all operations
be serialized (line 679) and that partial directories be cleaned up on startup
(line 677); the code does neither, and the model follows the code. Of the audit
log: errors of the output streams, which the code ignores, and the option checks.
An event that is logged after the writer's final swap is never written; requests
are assumed to be over before `unprepare` destroys the logger. Of uploads: the
command line, the configuration's text, and a progress callback that throws, after
which nobody would close the descriptors or reap the child. Of masking files: values
with escaped quotes or brackets, and members of a rule in another order than path,
type, roles, which the tests and the guide use. Of encryption: key rotation and the
engine hooks, which hold no logic. Of smart graphs: the RPC communicator, the
single server provider and `isSmartToSatEdge`, which have no body or no caller.
