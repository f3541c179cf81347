# A TLA+ model of sync-lite

The repository packages Brave's sync server (`go-sync`) as a Home Assistant
add-on. The add-on's own program is `src/go-sync/sync-lite`: one Go process per
account that serves the sync protocol over HTTP, keeps the entities of a *sync
chain* (all devices of one user, one `client_id`) in SQLite and a small cache in
memory. The request handlers, the conversions and the types are go-sync's
packages `command`, `datastore` and `cache`.

The development has four models, of what happens at four scales:

1. **One chain, milliseconds** (`SyncServer`): the three request handlers, call by
   call, over the SQLite store and the memory cache, run by concurrent goroutines,
   with devices that race, wait and give up, store calls that fail, a clock, and
   process crashes. Chains do not interact: every table has `client_id` in its
   key, every cache key starts with it.
2. **One chain, weeks** (`HistoryItems`): history entities that live for 14 days and
   are counted in four periods, with quotas, long pauses and a clock set back.
3. **One add-on** (`Supervisor`): `run.sh` and the server processes it starts, from
   the start of the container to its end, with signals, failures and kills.
4. **The other store** (`DynamoChain`): upstream's DynamoDB store with the requests
   that race on one chain and the batched clear.

## Inventory

### Components, their state and operations

| Component | Source | State | Operations |
|---|---|---|---|
| SQLite store | `sync-lite/sqlite_store.go` (deferred transactions, `busy_timeout`) | tables `sync_entities`, `unique_tags`, `client_item_counts`; the marker row of a disabled chain | the `Datastore` interface: insert, insert with server tags, update (compare-and-swap on the version), get updates for a type, has tag / has item, item counts and their periods, disable, clear, checkpoint |
| Memory cache | `sync-lite/memory_cache.go`, `cache/cache.go` | one map under a mutex: last mtime per data type (10 minutes to live), two interim item counters (no time to live) | `Set`, `Get` (with delete), `Incr`, `Del`, expiry on read |
| Commit handler | `command/command.go:223-398` | locals: entries to do, counts read, interim totals, type mtimes, answers | `handleCommitRequest` |
| GetUpdates handler | `command/command.go:33-196`, `server_defined_unique_entity.go`, `device_limit.go` | locals: batch so far, tokens, `changesRemaining` | `handleGetUpdatesRequest`, `InsertServerDefinedUniqueEntities` |
| Clear handler | `command/command.go:400-436` | locals: the types found | `handleClearServerDataRequest` |
| Item counts | `datastore/item_count.go`, `sqlite_store.go:315-399,490-541` | one number for ordinary entities, four periods for history, the time the last one began | rollover on read, addition on write |
| HTTP server | `sync-lite/main.go` | goroutines, open connections, the write-ahead log | admission (token, disabled marker), dispatch, response; SIGTERM: drain, checkpoint, close |
| Devices | external (Brave's sync client) | entities known, progress markers | commit, get updates, clear |
| DynamoDB store | `datastore/sync_entity.go`, `item_count.go`, `dynamo.go` | one table: entities, tag items, a count item, the disabled marker | the same interface, with conditional writes, transactions, an index query and a batched delete; not linked into the add-on's server |
| Redis cache, router middleware, instrumented wrappers | `cache/redis.go`, `middleware/`, ... | -- | upstream's deployment, not linked into the add-on's server |
| Authorization | `auth/auth.go` | none | verifies a signed token |
| Add-on supervisor | `src/run.sh` | the child processes and their pids, the trap | start loop, `wait -n`, `terminate_children`, trap, exit |
| Generated protocol code | `schema/protobuf/sync_pb/*.pb.go` | none | accessors of messages: most of the repository's lines, no behaviour |

### How they interact

A device sends one request and waits. `commandHandler` refuses it if the chain
is disabled, reads the body and calls a handler. A handler is a sequence of
calls on the store and on the cache, with locals between them; each call is
atomic (an SQL statement or transaction, or one critical section of the cache
mutex), the handler is not. Handlers of the same chain run at the same time: two
devices, or one device that gave up on a request and sent the next one, since
the handlers run on a context of their own. Nothing locks a chain.

### Where it is hard, and what makes each part correct

- **Store.** Version check inside the `UPDATE`; a tag table kept in step with
  tombstones; multi-row transactions. Correct if unique tags are an exact index
  of live entities, root folders appear all or none, and a row is only replaced
  by whoever saw it.
- **Commit handler.** Counts read once and used for a whole batch; a stamp drawn
  before the write; answers that must match what was stored; counters that are
  drained and added to a table. Correct if an acknowledged entity is stored,
  versions identify contents, quotas hold and counts are exact.
- **GetUpdates handler.** Pages cut by a limit, tokens that are timestamps, a
  cache consulted instead of the store and updated after the query. Correct if a
  device that reaches a token has all rows up to it, and the cache never hides a
  row. The device loop must end.
- **Clear handler and dispatch.** A check that is not repeated, four steps that
  may stop between. `datastore.go:26` wants a disabled chain never written again, which one
  check cannot give. Correct if every write, before or after, is a step of the abstract
  chain (`ImplementsChain`).
- **Process.** A crash between two calls loses locals and cache, not tables. A
  SIGTERM starts a shutdown beside `main`, which must not end before it. Correct if
  an orderly stop cuts no request and leaves nothing in the write-ahead log.
- **Supervisor.** A trap that may run between any two commands, children that
  exit before anybody waits, a shell option set by its interpreter. Correct if
  the container goes down with any server and with a SIGTERM, and what the log
  says is true.
- **Item counts.** Numbers shifted between periods when they are read, however
  late; deletions counted in another period than inserts. Correct if each period
  holds what its days added.
- **DynamoDB store.** No transaction covers a query and what follows it. Correct if
  tag items and entities change together, and a clear deletes only what it saw.

Every hazard is listed at its line in `PROJECT.json`, with the properties that
would notice it going wrong.

## Modules

| Module | Models |
|---|---|
| `SyncData` | the constants of a chain (ids with their type and tag, limits), rows, entries, counters |
| `SQLiteStore` | `rows`, `tagRows`, `disabled`, `itemCounts`, and each store operation as one action |
| `MemoryCache` | `typeMtime`, `interim`, and each cache operation |
| `ServerState` | goroutines (`pc`, `cm`, `gu`, `evict`), clock, devices (`known`, `token`), admission, ending, failing |
| `CommitHandler` | `handleCommitRequest`, one action per call |
| `GetUpdatesHandler` | `handleGetUpdatesRequest` and the creation of root folders, one action per call |
| `ClearDataHandler` | `handleClearServerDataRequest`, one action per call |
| `SyncServer` | the composition, the environment (clock, expiry, abandoned requests, crashes), specification, fairness, properties |
| `SyncChain` | abstract specification: what a chain is to its devices |
| `ServerInvariants` | the inductive invariants behind the properties of `SyncServer`: `VersionsInv`, `TagsInv`, `ChainInv`, `FirmAreStored` (versions, tags, clears, acknowledged commits) and, when requests do not overlap, `StampsAreLast`, `DeliveryInv`, `CacheInv`, `CountInv` |
| `ItemCounts` | the counts of a chain: rollover on read, addition on write |
| `HistoryItems` | commits of history and other entities over weeks: quotas, boost, deletions, expiration, pauses, the clock set back |
| `AccountServer` | the processes of `main.go`: open, listen, serve, drain, checkpoint, close, exit, fail |
| `Supervisor` | `run.sh` over those processes, and Home Assistant around it; composes `AccountServer` |
| `DynamoStore` | the table and every operation of the store on it |
| `DynamoChain` | commits, new clients, a polling device and the clear over `DynamoStore` |
| `MCSyncServer`, `MCHistory`, `MCSupervisor`, `MCDynamo` | the instances TLC checks |
| `SyncServerProofs` | lemmas on the handlers' locals, type correctness |
| `VersionsProofs` | the inductive proof of `VersionsInv` and what follows from it |
| `SequentialProofs` | a server that handles one request at a time: delivery, the cache |
| `ChainProofs` | the tag table and the root folders (`TagsInv`); acknowledged commits; `SyncServer` implements `SyncChain` |
| `CountsProofs` | counts and quotas of a server that handles one request at a time |
| `ItemCountsProofs` | rollover composes; types; the boost leaves room; what each period holds; the history quota |
| `SupervisorProofs` | types, orderly stops, the exit of the script |
| `DynamoProofs` | types, the clear, tag items, what a progress marker passes by |

### How state and actions correspond to the code

`rows[i]` is the row of id `i` with the columns properties can tell apart:
version, mtime, deleted and its last writer (`by` stands for the payload
columns: two versions differ if their writers or stamps do). `tagRows` is
`unique_tags`; `disabled` says whether the marker row exists. `typeMtime` and
`interim` are the cache's keys; `Miss` is an absent key.

A goroutine `t` is the pair of the device it serves and a slot. `pc[t]` is the
call it makes next: `count`, `peekNormal`, `peekHistory` (`getItemCounts`),
`entries` (the loop head, with `CreateDBSyncEntity`'s stamp), `hasItem`,
`create`, `update`, `countUp`, `countDown`, `drainHistory`, `setMtime` for a
commit; `devices`, `hasTag`, `makeFolders`, `insertFolders`, `markers`, `query`,
`cacheSet` for an update request; `disable`, `scan`, `wipe`, `evict` for a
clear; `reply` and `idle`. `cm[t]` and `gu[t]` hold the locals that live across
calls. Each action does one call and everything the code does up to the next:
quota tests with the insert they guard, a counter's new total with the
increment, and so on. `PROJECT.json` maps every definition to its lines.

Choices that differ from a literal reading:

- An id stands for one entity, with its immutable type and tag; a uuid is drawn
  when the request that creates it is formed (the server draws it while it
  processes the entry; nobody can tell). History items have the hash of their tag
  as id, so a device can "create" one that exists: `CheckItem` is `HasItem`.
- Entries and markers are processed in any order. The client chooses their
  order, and no property depends on it.
- The page of `GetUpdatesForType` is any set the `ORDER BY mtime LIMIT` allows:
  rows of one mtime come in any order.
- `NextToken` is a set of one element, the largest mtime of the page.
- `EntryFails` covers CONFLICT, OVER_QUOTA and TRANSIENT_ERROR: all leave the
  entry without effect and teach the device nothing.
- The root folders of a new client have one stamp. The code reads the clock for each of
  them, microseconds apart; one millisecond for all is the case in which a page can
  end between them.
- A connection that is open already may deliver a request while `Shutdown` drains:
  `Accept` is enabled in `serving` and in `draining`.
- Left out because they change no state: INVALID_MESSAGE, decoding errors,
  `fetch_folders`, the authorization check. Left out as data: parents and
  `idMap`, positions; the four periods of the history counts are summed and history
  rows do not expire in milliseconds: both are `HistoryItems`'s subject.

**`HistoryItems`.** A tick of `now` is `1/Period` of 3.5 days. `table` is the row of
`client_item_counts`; `history[i]` is the row of history id `i` with its
expiration time and, as an observer, the time its insert was counted for. A
commit is one step because it takes milliseconds and a period takes days;
`CountsNotWritten` is a last call that failed, or a process that died before it.
`upTo` and `untracked` are observers: what was added to the history counts for the
times up to each, and the commits that make the counts fall short of the rows.
Directives that delete history are counted, bounded and expire as history does
(`sync_entity.go:798`, `command.go:283`): an id may stand for one.
The branch of `initRealCountsAndUpdateHistoryCounts` that recounts rows
(`sqlite_store.go:492-523`) needs a row of an older version, which sync-lite never
writes; a chain without a row starts with zeros and the current version (`Fresh`).

**`AccountServer`, `Supervisor`.** `server[a]` is where the process of account `a` is:
`forked` (the subshell), `opening` (before `signal.Notify`, when a SIGTERM kills
it), `listening`, `serving`, `draining`, `checkpointing`, `closing`, `closed` (the
goroutine has ended, `main` has not), and how it ended. `pc` is the command
`run.sh` is at: the start loop (`start`), the assignment to `CHILD_PIDS` (`record`),
`wait -n` (`wait`), the kill loop (`signal`), `wait` (`join`), `exit`. `resume` is where
the trap goes on. `excused` collects the accounts whose shutdown was not an
orderly one: it failed, its drain took ten seconds, its checkpoint failed, the
container was killed, or errexit ended the script. The shell is as bash is:
`wait -n` returns children that exited before it was called, subshells reset
traps, a trap is taken between commands or ends a `wait`, and a second SIGTERM
during a trap is taken after it. Whether the script runs with errexit is decided
by bashio, which interprets it and is not in the repository: `ErrExit` has both.

**`DynamoStore`, `DynamoChain`.** `items[i]` is the entity's item, `others` the keys that
exist of the other items: tags, the count item, the marker. Each call of the AWS
client is one step, as DynamoDB makes each atomic. An mtime is also the version
(`command.go:284`). `request[w]` is where a writing request is: a handler's calls
of the store and nothing else. A request reads the clock when it is received and only
`Tick` moves it, so requests, and the folders `NewClient` makes (one for every server
tag, five in the code), may share a millisecond. History and the directives that delete
it expire; a directive has a tag, as any entity but history may. `orphans` is an
observer: the tags whose entity time to live has removed. `page` holds the keys the
index query returned until their items are read, and, as an observer, the items at
the time of the query. `seen` and `left` are the clear's `syncEntities` and its index `i`;
the order of a query's result is any (`Batches`). The index is assumed to follow
the table at once, and one query to return the whole chain (the code ignores
`LastEvaluatedKey`, so a chain of more than a megabyte is not deleted entirely). Time
to live and the filter of `GetUpdatesForType` read one clock.

### What is assumed of a device

`CanCreate`, `CanUpdate` and `CanDelete` state what a Brave client commits:
entities it does not know, on which the version is 0; entities it knows, with the
version it read; no new entity with a tag it already has (`HasTwin`); no deletion
of root folders. `EditTombstones = FALSE` adds that it does not change an entity
it knows is deleted. `RoundTrip = 1` says it takes a millisecond or more between
reading a version and committing on it. Devices are not assumed to be up to date
or to agree: they race freely. In `HistoryItems` any id may be committed, deleted and
revived at any time. In `DynamoChain` a tombstone is not edited, and a device commits on a
version in a later millisecond than the version's own.

### What is assumed of the clock

Stamps, versions and markers are the server's wall clock (`sync_entity.go:795-802`), and
nothing in the code compares a new stamp with an old one. `ClockGoesBack` says whether the
clock may be set back (`SetBack`), while the server runs or before it is started again.
It is TRUE in `Folders` and FALSE in the other instances of `SyncServer`; every theorem that needs the clock to go forward has `~ClockGoesBack` as a
hypothesis. `HistoryItems` always has its clock set back. In `DynamoChain` the clock is
never set back: that is an assumption of everything said about it.

## What TLC checks

`SYMMETRY` permutes devices and interchangeable ids; runs with liveness do
without. Deadlock is checked in the runs of `SyncServer`: `AwaitRequests`, the idle
server, is the only stutter. The other three models stop where their bounds end: when
time or commits are used up (`History`, `Dynamo`), or when the container is down and not started again (`Supervisor`).

| Run | Properties | Instance |
|---|---|---|
| `Versions` | `TypeOK`, `KnownVersionsAgree`, `VersionsInv`, `AckedIsStored`, `NoBlindOverwrite` | 2 devices with 2 slots each, 1 untagged entity, 3 commits, 1 fetch, 1 abandoned request, 1 store error, 1 crash |
| `Chain` | `TagsUnique`, `ImplementsChain` | 2 devices, 2 entities of one tag, a history item, 2 candidate root folders, 2 commits, 1 new client, 1 clear |
| `Folders` | `FoldersAllOrNone` | 2 new clients, 2 server tags with 2 candidate ids each, error, crash, clear; the clock may be set back |
| `Sequential` | `PassedAreDelivered`, `CacheCoversCommits` | one request at a time, stamps 1 ms apart; 2 devices, 2 bookmarks, 2 server tags with 2 candidate ids each, one of them for bookmark folders; batch size 1, 2 commits, 2 new clients, fetches or polls, error, crash, expiry |
| `Counts` | `CountsExact`, `QuotaHeld` | one request at a time; 2 ordinary entities, 2 history items, 1 history directive; quotas 2 and 1; 3 commits of up to 2 entries |
| `Answers` | `RequestsAnswered` | fairness; 2 devices, batch size 1, one device record that is committed and may be deleted, a new client, a clear, an error |
| `History` | `TypeOK`, `PeriodsHoldTheirDays`, `HistoryQuotaHeld`, `OrdinaryHaveRoom` | 3 history ids, periods of 2 ticks, 10 ticks, 4 commits, quotas 2 and 1, 1 ordinary entity, 1 mishap (counts not written, or clock set back) |
| `Supervisor` | `TypeOK`, `OnlyForceCutsRequests`, `StoppedIsCheckpointed`, `OneDownAllDown`, `StopsOnTerm` | fairness; 3 accounts of which 2 are enabled, 1 request each, 1 failure, 1 SIGTERM, 1 kill, 2 starts; with and without errexit |
| `Dynamo` | `TypeOK`, `TagItemsExact`, `ClearedIsGone`, `NoBlindDelete`, `OnlyTheseAreSkipped` | 2 writers at the same time, 2 requests, 1 history id, 2 directives of one tag, 2 server tags with 2 candidate ids each, a device that polls pages of 1, a clear in batches of 2, a lifetime of 1, 4 milliseconds |

**Bounds.** `Budget` bounds how often each thing *outside* the handlers happens
(requests, failures, crashes); nothing inside a handler is bounded. `MaxClock`
bounds the clock's own ticks, `MaxEntries` a commit message. They are small
because the hazards are: a lost update needs two commits on one version and a
third to create it (two in DynamoDB's store: the clear reads what one commit wrote, and
another changes it); an abandoned request needs a second slot; a page boundary
needs batch size 1 and two rows; a tag race needs two ids of one tag; a quota is
crossed with one entity more than it allows; every period of `HistoryItems` fills,
moves and expires in 10 ticks, and deletions meet inserts of an earlier period; the
shell has a child before and after the one that fails; a batch of the clear may
hold entities, tags, counts or the marker alone. For every property, `PROJECT.json`
names a mutation of the code that the same run finds. The theorems below remove the
bounds from every invariant and every action property the passing runs check; the
ones about liveness keep them.

**Why some runs are sequential.** `PassedAreDelivered`, `CacheCoversCommits`,
`CountsExact` and `QuotaHeld` do not hold when requests of a chain overlap (next
section; for the counts the code says so itself, `command.go:385-392`).
`Serial = TRUE` is the common situation of one device active at a time, and everything
else stays: abandoned work cannot overlap, but failures, crashes and expiry happen. It
shows the algorithms are right on their own and that concurrency is what breaks them.
`StampGap = 1` likewise keeps two stamps apart; without it the page boundary finding
appears even sequentially. Both properties are about rows that devices have written:
`PassedAreDelivered` leaves out root folders with siblings, which share a millisecond
whatever the gap, and `CacheCoversCommits` leaves out root folders, which are made without a
look at the cache.

**Fairness.** `FairSpec` has weak fairness of `Step(t)` for each goroutine and of
nothing else: Go's scheduler runs every runnable goroutine, `busy_timeout` turns
waiting for the database into an error, the cache mutex is held for a few
instructions. No fairness is assumed of devices, the clock or failures.
`Supervisor`'s `FairSpec` has weak fairness of the shell's step and of what a process
does without waiting for anybody (`Proceed`): opening the database waits for a lock
at most five seconds, a drain ten, a checkpoint five. Nothing is assumed of
handlers, of requests or of Home Assistant. How long the shell as a whole takes is
not modelled: Home Assistant may kill it (`KillAll`).

### Disagreements with the code's own words

Three have a run that TLC stops with a counterexample.

1. **A tag conflict is answered SUCCESS** (`AckedIsStored`).
   `InsertSyncEntity` returns `(true, nil)` on a violated key; the handler tests
   the conflict only when the error is not nil. The entry is counted and
   acknowledged under an id that has no row. Two devices that create the same
   tagged preference are enough.
2. **A page boundary loses rows** (`DeliveredUpToToken`). Page *n+1* asks for
   `mtime >` the last mtime of page *n*; rows of that millisecond beyond the cut
   are never sent.
3. **The device loop does not advance** (`DeviceLoop`). It queries token 0 every
   round. With more device rows than a page it loops for ever, or counts the first
   page until the limit is reached.

The others are stated beside the properties of the modules and reproduced by changing a
constant of a run; they are no runs of their own:

- *A disabled chain is written* (`DisabledIsFrozen`, with `Serial = FALSE` and `Clears = 1` in
  `Sequential`). The marker is read once, before the body. A commit admitted earlier
  writes after the disable, even after the clear. `datastore.go:26` promises "no further
  updates or commits".
- *Versions may go back* (`VersionsGrow`, with `ClockGoesBack = TRUE` in `Versions`).
  `sync_entity.proto:48` calls the version "a monotonically increasing value"; it is the
  wall clock, and after the clock is set back a commit replaces a row by one with a
  smaller version, behind every marker.
- *Not all servers have stopped* (`StoppedMeansStopped`, with `EarlyTerm = TRUE` in
  `Supervisor`). The trap runs inside the start loop: after a SIGTERM it stops what has
  been started, logs "All account servers stopped." (`run.sh:21`), and the loop starts the
  others. A child that is forked and not yet in `CHILD_PIDS` is waited for and never
  signalled.
- *A fetch hides a newer commit* (`CacheCoversCommits`, `Serial = FALSE` in `Sequential`).
  The fetch sets the mtime it read over a newer one; polls of stale devices are
  then told nothing is new until the key expires.
- *Folders and the cache.* Making the root folders does not touch the cache, so a
  cached mtime hides them from polls until it expires. Sibling folders share a
  millisecond, so a page cut between them loses folders: a case of finding 2 that
  distinct stamps do not mend, in SQLite and in DynamoDB alike.
- *Late visibility.* With `Sequential` made concurrent (`Serial = FALSE`),
  `PassedAreDelivered` also fails with distinct stamps: a commit stamps its row
  before it writes it, a fetch in between passes that stamp.
- *Edited tombstones.* With `EditTombstones = TRUE`, three commits and three milliseconds
  in `Chain`, `TagsUnique` fails: deleting frees the tag, updating a tombstone does not take it back, and
  deleting it again frees the tag of the entity that took it. The same update
  revives a tombstone, which `ImplementsChain` calls a step of no chain.
- *One millisecond.* With `RoundTrip = 0` in `Versions`, `KnownVersionsAgree` fails: an
  update within the millisecond of the version it replaces keeps the number.
- *Half a clear.* If the clear fails after the disable, the answer invites a retry
  (TRANSIENT_ERROR, "try again later", `sync_enums.proto:105`) which the disabled
  chain refuses; the data stays.
- *History is not renewed* (`CommittedIsReadable` added to `History`).
  `UpdateSyncEntity` keeps `expiration_time` and nothing removes expired rows from
  SQLite, although `item_count.go:117` counts on "DDB TTL": a history item that is
  committed again after 14 days is acknowledged and never returned.
- *errexit* (`RestIsShutDown` added to `Supervisor`). If bashio sets errexit, the
  status of a crashed server ends the script in `wait -n`: line 108 is not reached
  and the other servers are ended with the container, without their drain.
- *One database* (`DatabaseOf <- Same` and `OwnDatabase` in `Supervisor`). Names with one
  slug ("User 1", "user-1") give two servers one file and a cache each. DOCS.md:84
  says "there is no chance" of their data mixing.
- *Clear and count item* (`Dynamo`). The count item has a `Version` and no `Mtime`:
  `ClearServerData` dereferences nil (`sync_entity.go:418`) in every chain that ever
  committed, after earlier batches are gone; the chain stays disabled. A batch
  that holds only the marker is an empty transaction, which DynamoDB refuses.
- *Skipped in DynamoDB* (`Dynamo`). An entity is lost for a device in one of three
  ways: it is written with a stamp the marker has passed, or while the page is read; the
  page ends within its millisecond; or an entity of the page is written between the index
  query and the batch get and takes the marker along. `OnlyTheseAreSkipped` names them,
  the instance reaches each of them, and the theorem excludes any other.
- *Tags of expired directives* (`Dynamo`). A directive has a tag item and expires; the tag
  item does not (`sync_entity.go:172`, `798`). When time to live has removed the directive,
  no entity can be given its tag any more: the insert is answered CONFLICT every time.

## What is proved

TLAPS checks these for every value of the constants that satisfies the named
assumptions: any number of devices, slots, ids, types and tags, any limits, any
budget, concurrent or serial.

- `TypeCorrect` (`SyncServerProofs`): `Spec => []TypeOK`. `TypeOK` is inductive as
  it stands. The lemmas `CommitLocals`, `GetUpdatesLocals` and `StoredRow`
  unfold it where steps need it. It rests on `TypeAssumption`, `TagAssumption`,
  `LimitAssumption`, `BoundAssumption` and, for the cardinality of a page, on
  `IdsAssumption` (finitely many ids).
- `VersionsInvariant`, `VersionsIdentifyContent`, `VersionsOnlyGrow`,
  `NoLostUpdate` (`VersionsProofs`): from `RoundTrip >= 1` and `~ClockGoesBack`, `Spec`
  implies `[]VersionsInv`, `[]KnownVersionsAgree`, `VersionsGrow` and
  `NoBlindOverwrite`. The clock is what `VersionsOnlyGrow` stands on; without that
  hypothesis the code violates it (*Versions may go back*).
- `MarkersSkipNothing` (`SequentialProofs`): from `Serial`, `StampGap # 0` and
  `~ClockGoesBack`, `Spec` implies `[]PassedAreDelivered` (delivery of all rows but
  root folders with siblings).
- `CacheCoversDevices` (`SequentialProofs`): from `Serial` and `~ClockGoesBack`, `Spec`
  implies `[]CacheCoversCommits`, new clients included.
- `TagsInvariant`, `TagTableIsExact`, `FoldersAreAllOrNone` (`ChainProofs`): from
  `RoundTrip >= 1`, `~ClockGoesBack` and `~EditTombstones`, `Spec` implies `[]TagsInv`, `[]TagsUnique`
  and `[]FoldersAllOrNone`.
- `FirmCommitsAreStored`, `CommitsAreStored` (`ChainProofs`): `Spec` implies
  `[]FirmAcksAreStored`: `AckedIsStored` for each entity that is no history entity and
  shares its client tag with no other, under any concurrency, failures and crashes; and
  `[]AckedIsStored` if all are such. Finding 1 is the shared tags; history over its quota is dropped
  and acknowledged on purpose (`command.go:306-309`).
- `ChainInvariant`, `ServerImplementsChain` (`ChainProofs`): `Spec` implies
  `[]ChainInv`; from `RoundTrip >= 1`, `~ClockGoesBack` and `~EditTombstones` it implies `Chain!Spec`, the
  whole abstract specification (which states no fairness).
- `CountsAreExact`, `QuotasAreHeld` (`CountsProofs`): from `Serial`, `RoundTrip >= 1`,
  `~ClockGoesBack`, `~EditTombstones`, no client tag of two entities, no store errors and no crashes, `Spec` implies
  `[]CountsExact` and `[]QuotaHeld`. `RoundTrip` is what `VersionsInv` needs; in the other
  cases left out the code miscounts: two commits overwrite each other's totals, an
  insert that conflicts is counted without a row (finding 1), an edited tombstone
  is counted as a deletion or revived without being counted, and a failure or crash
  between a row and the last call of the commit loses what it has counted.

**The argument for versions.** `KnownVersionsAgree` speaks of devices and rows, but a handler
carries versions between them, so it is not inductive. `VersionsInv` adds what is
under way: acknowledgements and updates collected so far agree with the row they
are about, or are older (`AcksAgree`, `UpdatesAgree`); a commit is based on a
version its device knows, or on an older one (`BasesKnown`); an entry's stamp is
later than its base (`StampsGrow`, where `RoundTrip` and the clock are needed); a uuid that is
drawn and not written occurs nowhere, in one goroutine only (`DrawnOnce`,
`DrawnIsUsed`, `DrawnIsBlank`, `UnusedIsBlank`), which is why an insert contradicts
nobody; and only history items go through `hasItem` (`LookedUp`).
An update passes the comparison only if its base is the row's version; its device
knows at least the base and at most the row, hence exactly the row: that is
`NoLostUpdate`; and the stamp exceeds the base: that is `VersionsOnlyGrow`.

Most steps write no version anywhere. `NothingNew` says so once, and
`NothingNewKeeps` covers two thirds of the actions; the others have a lemma each,
with a step for every conjunct (`...Keeps`). Steps that write a row share
`EntrySucceedsKeeps`, responses share `LearningKeeps`.

**The argument for tags and for the chain.** An update that deletes frees the tag of
its row, so `TagsUnique` holds only if the row held it: the row must be live. No
guard says so; it follows from versions. The device did not know the entity as
deleted when it sent the commit (`~EditTombstones`), the comparison makes the
row's version the one the device knows, and a version has one content
(`UpdatedIsLive`, from `VersionsInv`). An insert takes the tag of a live row
because what is created is never deleted (`NewAreLive`); the root folders of a
request are complete and distinct (`FoldersAreComplete`), so one stored folder is
enough for a conflict. `HolderAdded`, `HolderRemoved` and `SameHolders` say what a
write does to the index.
For `ServerImplementsChain` every step is `Create`, `Replace`, `Overwrite`, `Plant`,
`Disable` or `Wipe` of `SyncChain`, or leaves rows and marker alone (`HiddenStep`):
`TagFree` comes from `TagsUnique`, the newer version and the live row of `Replace`
from `VersionsInv`, an empty set of folders for `Plant` from the exact index, and
`disabled` for `Wipe` from `ClearingIsDisabled`. The assumptions are needed: see
*Edited tombstones* and *One millisecond* above. TLC finds `TagsInv` and `ChainInv`
invariant in the instance of `Chain` too.

**The argument for acknowledged commits.** `FirmAreStored` says that an entity is
stored or nobody, device or goroutine, has heard of it (`Blank`). An
acknowledgement joins a commit in the step that writes the row, or after the
comparison found one; only a conflict on a tag and the history quota acknowledge
without a row. `TagsHaveRows` goes with it: a taken tag is the tag of a stored row, so
an insert that conflicts on a tag of its own found that very entity. A row goes only when the chain is cleared, which is disabled then.

**The arguments for a sequential server.** `ClearingInv` says that at most one
goroutine is at work; each handler's steps are lemmas on what they leave alone
(`...GoesOn`, `...Begins`), so that each of the invariants is kept by naming the
steps that touch it.
*Delivery.* `StampsAreLast`: a stamp that is about to be written is later than every
row and marker, across failures that draw a stamp and write nothing. So rows of
one type have different mtimes, except sibling folders (`TiesAreSiblings`), a page
that ends at an mtime holds every other row up to it (`ResponsesDeliver`), and what
it holds is what the rows say when it is sent (`GotIsCurrent`).
*Cache.* `CachedAtLast`: a cached mtime is at or after every row of a device, or the
commit under way will set it before it ends; a fetch caches a marker only if its
answer is full (`AnswersAreFull`).
*Counts.* `CountInv`: the table's count is the number of live entities, and while a
commit is at work its copy, plus what it has added, plus the one entry it has
written and not counted, is. The interim counters of the cache hold what has not
been drained and nothing else. That an update which deletes finds a live row, and an
insert none, comes from `VersionsInv` and `TagsInv`. An entry is inserted only below
the quotas; cardinalities move by one (`FS_AddElement`, `FS_RemoveElement`), so
no induction is needed.

- `ReadsCompose`, `HistoryTypeCorrect`, `OrdinaryAlwaysHaveRoom` (`ItemCountsProofs`):
  reading counts at one time and then at another is reading them once at the later
  of the two, so it does not matter how often they are read or whether the clock
  was set back (lemmas `ShiftsAdd`, `ChangeCountsAdd`); types; and `OverQuota` cannot hold below the share
  of ordinary entities, from `HistoryAssumption` (the history quota is at most the
  quota of everything).
- `PeriodsAlwaysHoldTheirDays`, `HistoryQuotaIsHeld` (`ItemCountsProofs`): `Spec` implies
  `[]PeriodsHoldTheirDays` and `[]HistoryQuotaHeld`, for any length of a period, any
  quotas and finitely many ids. The invariant `HistoryInv` says three things of the
  row of counts: it is not ahead of the latest time shown; each period holds what
  `upTo` says of its days and nothing is counted after the current one (`HoldsDays`);
  and for every period, the live entities counted since it began are at most the
  sum of the counts from it on, plus the commits that were missed (`Covers`). A read
  moves beginnings and sums together (`BeginsRolled`, `SumFromRolled`); what it drops
  are sums of periods that began before the new first one. Counting adds one to each
  sum (`WrittenHolds`); a deletion whose insert was counted in the current period takes one off
  both sides, any other one is missed. The quota follows because an entity with a
  period to live was counted in the four periods (`LongLivedIsCounted`), and an
  insert is refused when their sum has reached the quota. TLC finds `HistoryInv`
  invariant in the instance of `History`.
- `SupervisorTypeCorrect`, `OrderlyStopsCutNothing`, `OrderlyStopsCheckpoint`,
  `RestIsShutDownFirst` (`SupervisorProofs`). The invariant
  `StopInv` adds to the types what makes orderly stops orderly: a process has
  handlers only from `serving` on, and none after a drain that did not run out of
  time (`HandlersOK`); every process that runs is in `CHILD_PIDS` or is the child
  just forked, and none is left at `exit` but those errexit left (`RecordedOK`).
  `CheckpointOK` extends the empty log from `checkpointing` to `stopped` and needs
  that names' slugs differ (`Injective`): else another server writes the same
  log. `RestIsShutDownFirst` assumes `~ErrExit` and is false without (previous section).
- `DynamoTypeCorrect`, `ClearDeletesWhatItSaw`, `SuccessIsComplete`, `TagItemsAreExact`,
  `OnlyThesePassUnread` (`DynamoProofs`), with no hypothesis beyond the assumptions of the
  modules. `NoBlindDelete` needs that an entity with the mtime the query saw is the
  entity it saw, though requests share milliseconds: `VersionInv` says that a change has a
  later stamp than its base, and its base is not later than what is stored (`BasesOK`),
  so an entity's mtime only grows; that an id still to be inserted is known to nobody
  else (`FreshOK`); and that what the clear has still to delete is what it saw
  (`SeenOK`). History has no version and may be put twice in one millisecond: of it
  `IsAsSeen` compares the mtime only, as the code does. `TagItemsExact` needs `TagInv` on
  top: an update under way whose version is still the entity's is of an entity that is
  not deleted, and inserts share no tag (`RequestsOK`). `OnlyTheseAreSkipped` rests on
  the order of the index at the time of the query (`PageOK`): of what the query left
  out, nothing was earlier than what it returned; so whatever the marker passes was
  written since, or shares the page's last millisecond, or the page changed.

**Only model-checked.** `RequestsAnswered`, `OneDownAllDown`, `StopsOnTerm` and everything
about fairness (liveness and ENABLED are out of the prover's reach here). And what
the runs show beyond the hypotheses of a theorem: `AckedIsStored` with a shared
tag or history is a finding or a matter of the quota; `CountsExact` and
`QuotaHeld` are checked on the instance of `Counts` only where the theorems hold.

## What is not modelled, and why

- Generated protocol code (`schema/protobuf/sync_pb/*.pb.go`, about nine tenths of the
  repository's lines): accessors and descriptors without state or control. The
  messages appear as the handlers' records.
- Redis cache, instrumented wrappers, router middleware other than the disabled
  check: not part of the add-on's server; forwarding without state.
- Authorization: stateless; what it refuses changes nothing.
- Parents and `idMap`: a parent id is data no code reads back.
- The recount of counts of an older version: unreachable in sync-lite.
- In DynamoDB: result pages of a megabyte, throttling, indexes that lag behind the
  table. Eventual delivery past a page of expired items: the instance that would
  show it is too large for TLC.
- Request decoding, TLS, logging, build files, translations: no state.

## Plan

1. *Next theorems.* What the counts fall short by after a store error or a crash, as `untracked` says
   in `HistoryItems`; which versions a device knows after a clear.
2. *Next properties.* Eventual delivery to a device that keeps polling, with the
   cache's time to live; the device limit under concurrent new clients.
3. *Next models.* Two `SyncServer` caches over one store, what `run.sh` starts for two
   accounts of one slug; the time window of `auth.go`.
