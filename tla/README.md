# A TLA+ project for roc-foundation-util-go

roc-foundation-util-go is a Go library of infrastructure helpers: a service
registry on etcd with a discovery client and load balancers, message queue
clients (Kafka, RocketMQ), a Redis cache, a MongoDB store and an OpenTelemetry
logger.  This directory models the parts whose correctness depends on the order
in which goroutines, requests and failures happen, checks the models with TLC,
and proves their safety properties with TLAPS.  `PROJECT.json` lists every run,
the mutant each property catches, the source lines each definition translates,
the hazards and the finding.

All line numbers below are of `src/`; `registry.go` is
`service_registry/registry/etcd/registry.go`, and `discovery.go` is
`service_registry/discovery/discovery.go`.

## 1. Inventory

| Component | State it keeps | Operations | Interacts with | Hard because of | Correct if |
|---|---|---|---|---|---|
| **etcd registry: lifecycle** (`registry.go`) | `leases` (ID -> lease) under `leasesMu`; `leaseDone` (ID -> done channel) under `leaseDoneMu`; one `keepAlive` goroutine per registration, with its own copy of the instance and its own current lease | Register, Deregister, UpdateStatus, UpdateMetadata, Heartbeat, Close, the renewal loop | etcd (Grant, Put, KeepAliveOnce, Get, Revoke, Delete); the application, which calls it from any goroutine and owns the `ServiceInstance` | two maps under two locks that no method takes together; requests between critical sections; requests that fail after they were applied; leases that run out; restarts | no channel is closed twice; leases are never mixed up between instances; a registered instance comes back; a deregistered one leaves |
| **etcd registry: watch** (`registry.go`) | `watchers` and `subscribers` maps; per watcher a goroutine, a watch channel, a buffered channel of 10 lists | Watch, Subscribe, Close, the two watch loops | etcd (Watch, Get); the reader of the channel or the handler | reading the list and delivering it are separate steps; contexts are cancelled at any time; the channel is closed from outside | lists arrive in order, none is missed, the latest one arrives at last |
| **etcd registry: key paths** (`registry.go`) | none | buildServicePrefix, buildInstanceKey, splitKey, ListServices | every request of the registry | prefixes of prefixes | distinct instances have distinct keys; listing finds the services of its namespace and no others |
| **discovery client** (`discovery.go`) | `cache` under `cacheMutex`, `subscriptions` under `subscriptionsMu`, `config` | GetInstance(s), GetHealthyInstances, Subscribe, Unsubscribe, Refresh, ClearCache, SetConfig, Close, `defaultChangeHandler` | registry.Discover and registry.Subscribe; its handler runs in the registry's goroutines; load balancers choose from its lists | check-then-act across locks; stale lists stored over newer ones; handlers that run after a cancel | no subscription escapes; a stale list never stays |
| **load balancers** (`loadbalancer/`) | round robin's counter; a random source, which nothing protects; none for the hash ring | Select | discovery, from any goroutine | wrap-around of the counter, weights, collisions on the ring, lists that change between calls | turns and shares are fair; a key stays with its instance |
| **Kafka consumers and producer** (`mq/kafka/`) | `cancel`, the wait group, the handler's `ready` channel; `consumers` under `mu`; a goroutine per Subscribe, or per partition of one | Subscribe, Seek, Consume, Close, Send, SendAsync, SendBatch; Commit, CommitAll and Flush, which do nothing | sarama: sessions, rebalances, offset marks | a failed message is skipped and its successor marked; overlapping Subscribe; Close and Seek during consumption | what is committed was given to the handler; nothing waits for ever |
| **RocketMQ consumer and producer** (`mq/rocketmq/`) | handler, the started client | Subscribe, Pause, Resume, Close, Send, SendAsync, SendBatch | the RocketMQ client, which retries a batch | a batch with one failed message; a client that goes on after Subscribe has returned | a message that failed is delivered again |
| **mq types** (`mq/*.go`) | none | interfaces and data | the consumers implement them | - | Subscribe's handler gets every message |
| **OpenTelemetry logger** (`log/otel/otel_logger.go`) | level, output, format and caller flag under one `RWMutex` | log methods of three forms and seven levels, setters | the kit's log provider | the read lock is taken twice by one goroutine while a writer waits | the level and format in force decide; logging ends |
| **OpenTelemetry kit** (`log/otel/otel_kit.go`) | two providers | InitOTEL, Shutdown | OTel SDK | one provider of two fails | both are up, or neither |
| **Redis cache** (`cache/redis/`) | client, config | one command per method, about keys with a prefix | Redis, other caches | prefix changed by SetConfig between two keys of one command; retries by the client | callers see a cache of their own |
| **MongoDB storage** (`storage/mongodb/`) | client, database, config | one command per method | MongoDB, other storages | commands of several writes that fail half way; retries by the caller | one insert wins; counters are handed out once |
| **array, stringutil, network, examples** | none | pure helpers, demonstrations | - | - | - |

The registry and the discovery client hold most of the library's own logic and
run goroutines against each other; they came first.

How the modelled parts interact: `Discovery.Subscribe` calls
`registry.Subscribe`, which starts `watchServiceWithHandler`; this goroutine
opens an etcd watch and calls the handler, for an automatic subscription
`defaultChangeHandler`, which writes the discovery cache.  `GetInstances` and
`Refresh` call `registry.Discover` directly.  Changes of a service are the keys
that Register, UpdateStatus and Deregister put and delete and that `keepAlive`
keeps alive.  `Close` of the registry stops the renewal goroutines, closes the
channels of the watchers and, after a pause, the etcd client.  GetInstance takes
the list of GetInstances and lets the load balancer choose.  The message queue
clients, the cache, the store and the logger are used by an application side by
side and do not call each other; each is modelled with the server or library it
talks to.

## 2. Modules

| Module | What it models |
|---|---|
| `EtcdStore` | the etcd that the registry uses (external): leases, keys attached to leases, requests that succeed, fail, or fail after they were applied |
| `EtcdRegistry` | Register, Deregister, updateInstance, Heartbeat, Close and the keepAlive goroutines; extends `EtcdStore` |
| `SnapshotFeed` | abstract specification: what Watch and Subscribe promise (`registry/registry.go` 17-23) |
| `RegistryWatch` | watchService, watchServiceWithHandler and the part of Close they meet; implements `SnapshotFeed` |
| `Discovery` | the discovery client for one service; uses the variables and steps of `RegistryWatch` as they are (`Watch == INSTANCE RegistryWatch`), so that a delivered list and the handler's write of the cache are one step |
| `RegistryKeys` | key paths, Discover and ListServices, as operators on the states of `EtcdRegistry`, which it extends |
| `LoadBalancers` | the factory, the filter and the four balancers under several goroutines |
| `MqClient` | what the consumers share: the partitions of a broker, contexts, Close, a fault budget |
| `KafkaGroup`, `KafkaSeek`, `RocketPush` | the three implementations of `mq.Consumer` |
| `MqProducer` | the two producers, which have one shape |
| `AtLeastOnce` | abstract specification: what `mq.Consumer.Subscribe` promises |
| `MessageQueue` | an application with one of the four; its consumers implement `AtLeastOnce` |
| `CacheMethods` | every method of `cache.Cache` as a function of the value of its key |
| `Cache` | abstract specification: a cache whose keys are the caller's own |
| `RedisCache` | caches on one server with prefixes and retries; implements `Cache` |
| `MongoStorage` | storages on one database: every method as a list of writes |
| `OtelLogger` | log methods, setters, the RWMutex, and the kit |
| `MC...` | instances for TLC: symmetry, names, weights, configs |
| `EtcdRegistry_proofs` (with `RegistryKeys`), `RegistryWatch_proofs`, `Discovery_proofs`, `LoadBalancers_proofs`, `MessageQueue_proofs`, `RedisCache_proofs`, `MongoStorage_proofs`, `OtelLogger_proofs` | theorems and proofs |

### 2.1 EtcdRegistry

*State.*  `leases`, `leaseDone` and `leasesMu` are the fields of the struct
(lines 16-33).  `leaseDoneMu` needs no variable: its critical sections contain
no request and are one action each.  `leasesMu` does: Deregister holds it over
the Revoke request (lines 90-97), and everybody who reads or writes `leases`
waits.  A `done` channel and the goroutine that selects on it are created
together (lines 319-333) and are one `Keeper`: `stop` says its channel is closed,
`pc` where the goroutine is, `lease` is `currentLeaseID`, `new` the lease of a
refresh under way, `data` what its `instanceCopy` holds.  `call[c]` is the
method a goroutine of the application is in, `obj[i]` the data in the
application's own instance.  `phase` is "stopping" while Close sleeps
(line 262) and "closed" when the client is.

*Actions.*  A method is cut at every request and every critical section, for
there another goroutine can run.  Register is `RegisterCall`, `RegisterGrant`,
`RegisterPut`, `RegisterSave`, `RegisterKeep`; Deregister is
`DeregisterCall`, `DeregisterDone`, `DeregisterLock`, `DeregisterRevoke`,
`DeregisterDelete`; and so on.  The loop of keepAlive is `KeeperTick`
(KeepAliveOnce), `KeeperGet` (instanceKeyExists), `KeeperGrant`, `KeeperPut`,
`KeeperSave` (putInstanceWithNewLease and the assignment of currentLeaseID),
and `KeeperExit` (`<-done`).  Heartbeat reads the lease in `leases` (`HeartbeatCall`)
and renews it (`HeartbeatSend`): `Renewed` counts such a call with the goroutines.

*Environment.*  While the network is "flaky" each request may fail, with or
without effect, each lease may run out and the process may be restarted; when
it is "stable" only a lease that nobody renews runs out.  `Restart` forgets all
of the process and leaves etcd as it is.

*Careful applications.*  `SerialIds` are the IDs for which the application
does not overlap Register and Deregister and does not register what is already
registered.  Only `KeepersReachable` (a second Register abandons the first
goroutine, line 329) needs it, in `RegistryTwoIds`; in `RegistryLives` every
overlap is allowed.

### 2.2 RegistryWatch

A list of instances is named by the number of changes it reflects: 0 is the
list nobody ever put anything in.  The order of lists is then the order of
numbers.  `cursor[w]` is the last change the watch has reported, `snap[w]` the
list the goroutine has in hand, `ch[w]` the buffer of its channel, `seen[w]` the
list its reader was given last.  `OpenWatch`, `FirstDiscover`, `Deliver`,
`Event`, `Discover` and `Leave` are the lines of the two loops in order.  A
request with a context that was done before it began always fails: those steps
are joined to the ones before (`WatchOpened`, `Event`).  A context that is
cancelled during a request may fail it or not.  A closed watch channel gives a
zero response at once, which has no error: the loop goes round again
(line 380).

`SnapshotFeed` is the promise: `rev` grows; a watcher attaches and detaches; it
is given lists, never an older one than it had; and while it stays attached its
list is again and again the latest.  In `Feed` a watcher counts as attached
from the start of its goroutine until its context is done or the registry
closes, and nobody does any more after a failed request: an event whose
Discover fails is dropped (lines 386-389) and a first list whose Discover fails
is empty (lines 368, 406), so the code promises no more than that.

### 2.3 Discovery

`cache`, `current` (the entry of `subscriptions`), `config` are the fields for
one service.  `auto` marks the subscriptions whose handler is
`defaultChangeHandler`; `late[k]` counts the calls of a handler after its
subscription was cancelled.  GetInstances is `GetHit` or `GetMiss`, `GetQuery`,
`GetStore`, `GetCheck`, `AutoSubscribe`, `Return`: it releases its locks
between each of these.  Subscribe and Unsubscribe hold `subscriptionsMu`
throughout and are one action.  `Expire` is the passing of CacheTTL: an entry is
fresh or expired, how old does not matter.

### 2.4 RegistryKeys

Both listings ask etcd for the keys that begin with some characters, so names are
sequences of characters here and `IsPrefix` is what decides.  `path.Join` cleans what
it has joined.  `NamesAssumption` gives it nothing to clean: the namespace has no
double or final slash and no part "." or "..", and no name is one of these or has a
slash.  With other names the properties fail in the code: a service named ".." lies
outside the namespace, and ListServices, which does not use `path.Join`, finds nothing
in a namespace that is not clean.  `splitKey` says
what the loop of lines 474-488 returns: the parts between slashes that are not
empty, in their order.

### 2.5 LoadBalancers

A call is cut where it touches what other calls share: round robin's `AddUint64`
(`SelectByTurns`), the random source (`SelectByChance`).  `Begin` is GetInstance up to
that point, with the healthy part of the cached list as it is then.  The random
source is used without a lock (`random.go` 35 and 79): calls that overlap may
draw any number or panic.  `hash` is any function at all.  A Select of the hash
ring shares nothing and is one action.  LeastConn makes a round robin
(`Create`).  The loops that filter a list and add weights up are recursive
functions of the number of turns taken (`Kept`, `Upto`).

### 2.6 Message queues

`Sub` are the calls of Subscribe in the life of a process.  `cancel` is the field
that a later Subscribe overwrites (`consumer.go` 80, `consumer_seek.go` 105);
`closing` is "waiting" in `wg.Wait`, and `told` the call whose cancel Close has called.
Nothing keeps an application from calling Subscribe while Close waits or after it.

*KafkaGroup.*  Subscribe stores its cancel (`GroupSubscribe`) before it starts its
goroutine (`GroupSpawn`), and Close may come in between.  `loop[s]` is the goroutine of Subscribe: in `Consume` before its
session begins, in a session, or in one that ends.  Sarama's Consume holds the
lock of the group, so there is one session.  `ready[s]` is the channel of the
handler, closed by Setup and replaced before the next Consume; a caller that has
read the field and waits for a channel that is replaced is "lost".  `claim[p]`
is ConsumeClaim: the position, the mark.  A handler that fails leaves its message
unmarked, and the next success marks past it.

*KafkaSeek.*  A worker keeps the PartitionConsumer it was started with; `old` says it
is no longer the one in `consumers`.  Seek holds `mu` from `SeekClose` to `SeekOpen`
or `SeekFails`; Subscribe and Consume read the map without it.  What a
PartitionConsumer's channel holds when Seek closes it can still be taken
(`buffered`, `SeekTakeBuffered`, `ManualTakeBuffered`).  `passed` is history: the
messages taken by workers whose handler has not returned.

*RocketPush.*  The client calls the closure with a batch; `RocketHandle` is one turn of
its loop, and the answer for the batch with the last one.  `from` is
ConsumeFromWhere, the newest message by default: a group that is new to a topic starts
behind what is stored there (`start`, `FirstStart`) and is given what comes later.
Shutdown and Pause are the client's.

*MqProducer.*  A sender sends a batch and, after an error, what has no result yet.
SendAsync's goroutine runs whenever it does, after Flush (which does nothing) or Close; a send on a
closed producer fails (RocketMQ) or panics (sarama), and a panic ends the process
(`Alive`).

*AtLeastOnce.*  `entitled` are the messages that a subscription is to be given.
`MessageQueue` says for each consumer which they are: for a group what comes after its
offset in the broker, or all if it starts at the oldest (`GroupEntitled`); for a
seeking consumer what its PartitionConsumer has yet to give or a goroutine has in hand,
while the Subscribe goes on and no Seek has overtaken it (`SeekEntitled`); for
RocketMQ what comes after its start while it is not suspended (`RocketEntitled`).
A message does not wait for ever while a subscription is entitled to it.

### 2.7 RedisCache

A method is `Begin`, one `Build` for every key, then a command that is executed
(`Execute`) or whose answer is lost (`Lose`), after which the client may send it
again.  `SetConfig` comes between any two of these steps.  A Set has the ttl it is
given or the default; a value that JSON cannot express ends Set before its key is
built, and MSet after some are (`MarshalFails`).  The method is chosen
when the command goes out: before that, methods differ in nothing but their
number of keys.  `Home` is the cache whose config nobody replaces; `LooksAlone`
maps its keys to the keys of `Cache`, where a method takes effect at once.
Both sides take what a method does from `CacheMethods`: `LooksAlone` is about
prefixes, configs and retries, not about the methods' own results.
`shared` says that another cache's prefix and its own are the beginning of one
another: buildKey puts nothing between prefix and key.

### 2.8 MongoStorage

A method is a list of writes, each about one document; the server does them in
order and stops at a duplicate key.  BulkWrite takes any list in `Lists`; an operation
of a type it does not know is dropped (lines 416-438), an empty list is no command, and
one without a known operation is an error.  `executed` are the positions of the writes
that the server went through, whether they changed a document or found none: only
the count a method returns tells the two apart, or `ErrNotFound`.  `Lose` is a command
that the driver gives up: the next write may have been done; a command on an index or a
collection may be done or not, too (`Command`).  `winners` and `tickets` are history:
the storages that were told they inserted a document, and the counters that
FindOneAndUpdate returned.  A storage is told once or twice alike.

### 2.9 OtelLogger

A log call is "enter", "nested" (it holds the read lock and asks for it again,
lines 388 and 340), "emit"; a setter is "set", then "wait", the one writer that
keeps readers out.  `out` is the entry that the last step sent.  A `Kit` is one call of
InitOTEL, which may be called any number of times; the log provider it makes is the
`global` one until the next (`otel_logger.go` 246), and says whether an entry is
exported.  A provider is "down" after its Shutdown, whether or not that was an error.

## 3. Runs

| Run | Asks | Shows |
|---|---|---|
| `RegistryTwoIds` | two instances of two services, every method: `TypeOK`, `LeasesHaveOneId`, `KeepersReachable`, `DiscoverFindsOwn`, `ListingIsComplete` | a lease granted for one ID is never stored or used for the other, so no revocation takes another instance's key along; for an ID that is used with care (`id1`) no goroutine escapes Deregister and Close, whatever is done to the other; in every state listing finds each service, and the only strangers are those of a namespace that begins with ours |
| `RegistryLives` | two goroutines call every method of one instance in any order: `DoneChannelsOpen`, `SelfHeal`, `WithdrawalHolds`, `CloseReleases` | `close(done)` never hits a closed channel, although Deregister and Close both close what is in `leaseDone` while Register overwrites it; a registered instance always comes back, and stays once no update overlaps a refresh (an update that read its lease before a refresh moves the key to the old lease, which then runs out); a deregistered instance leaves etcd for good although a refresh under way may put its key again, if nobody calls Heartbeat for its ID any more; after Close every key of the process goes, also that of a goroutine which Register starts after Close |
| `WatchKeepsFeed` | a channel watcher and a handler with Close, cancellation and one fault: `TypeOK`, `NeverOlder`, `NothingMissed`, `FeedKept` | lists never go back; no change is missed; Watch and Subscribe implement `SnapshotFeed`, liveness included |
| `DiscoveryOverlap` | two application goroutines, all configurations: `TypeOK`, `SubscriptionsReachable`, `OneLateCall` | every subscription can still be cancelled; a handler is called at most once after that |
| `DiscoveryConverges` | `ServesLatest`, with a failing request | a stale list may be stored over a newer one, but never stays |
| `LoadBalancers` | `TypeOK`, `RoundsAreFair`, `SharesAreExact`, `KeysStick` | turns with one list differ by at most one, plus one for each wrap of the counter; of the numbers drawn each instance has as many as its weight; between two requests with one key the choice moves only from an instance that went or to one that came, collisions on the ring included |
| `GroupAndPush` | the Kafka group consumer, RocketMQ's consumer and the producers: `TypeOK`, `KeepsPromise`, `CloseReturns`, `AckedWereAccepted`, `ResultsArePrefix` | the consumers implement `AtLeastOnce`: Kafka commits nothing that the handler was not called with, RocketMQ gives up only what was accepted or has failed often enough, and no message that a subscription is entitled to waits for ever; Close waits for ever only for a Subscribe whose cancel was overwritten, or that came when Close had called the cancel it found; the results of SendBatch are enough to go on from |
| `SeekConsumer` | the seeking consumer, one message, a fault and Consume: `NonePassedOver`, `KeepsPromise`, `CloseReturns` | it drops nothing it has taken; no message that a live subscription's PartitionConsumer has yet to give, or a goroutine has in hand, waits for ever; Close as above |
| `RedisCache` | `TypeOK`, `LooksAlone`, `PairsAgree`, for every method | prefixes that do not overlap make caches that do not see each other, whatever is replaced or lost in between; keys written only by MSet agree |
| `MongoStorage` | `TypeOK`, `OneWinner`, `TicketsDiffer`, `FirstOnesAreExecuted` | one insert of an `_id` is told it succeeded; a counter is never handed out twice; what was executed of an InsertMany or BulkWrite is the beginning of its list, all of it if there is no error |
| `OtelLogger` | two goroutines, one kit: `TypeOK`, `KitIsWhole`, `InForceAtEmission`, `CallsReturn` | what goes out is decided by the level and format in force at that time; a call that does not return has met the lock-up of lines 388 and 340, and nothing else; the kit's providers are both up or both not |
| `WatchSendsOnClosed` | `NoSendOnClosed`, to be violated | the finding below |

`TypeOK` of `OtelLogger` says that an entry has one of slog's four severities,
that of `LoadBalancers` that no factory leaves LeastConn as it is, that of `RedisCache`
that a command's keys are all built under a config that the cache they are of may have
been given, that of `MongoStorage` that a command is about a collection with a prefix,
and that of `MessageQueue` that Setup never closes a channel twice.

`WatchSendsOnClosed` must find a violation: Close lets background tasks leave gracefully
(line 261), but it has closed the channel they send on (line 255), and the send panics.

Other disagreements met while modelling, which the models contain but no run
singles out:

* Registry.  After a lost lease keepAlive puts `instanceCopy`, made at
  registration (line 352): a status set by UpdateStatus is reverted.  A goroutine
  that was stopped during a refresh overwrites the lease of the new registration
  (line 305); Heartbeat and updates then fail for ever.  Deregister returns while
  a refresh under way can still put the key again (it goes with its lease,
  `WithdrawalHolds`), and has stored its lease: an application that goes on calling
  Heartbeat for the ID keeps the key of the deregistered instance in etcd (172).  A second Register of an ID leaves the first goroutine running
  for ever (line 329).  The goroutine of a Subscribe outlives Close and spins on
  its closed watch channel (line 380).  ListServices finds the services of a
  namespace whose name goes on where ours ends (line 217).
* Discovery.  The error of the first Discover of a subscription is ignored
  (line 406): a handler cancelled in between delivers an empty list, which the
  cache keeps for a CacheTTL.  GetInstances subscribes "if there is no
  subscription" (`discovery.go` 254), but a subscription the application makes
  between the check and Subscribe is cancelled.  A handler writes the cache once
  more after Close emptied it (line 408).
* Message queues.  Subscribe of the group consumer waits until the consumer is ready
  (`kafka/consumer.go` 106), but if Consume fails before Setup, the goroutine puts a new
  channel in the field (102), and the caller waits for the old one for ever, while the
  session runs ("lost").  Flush is to make sure that all messages have been sent
  (`mq/producer.go` 34), but returns at once (`kafka/producer.go` 145,
  `rocketmq/producer.go` 158), while the goroutine of a SendAsync has yet to run.
  Commit and CommitAll of the group consumer return nil and
  commit nothing (`kafka/consumer.go` 116, `mq/consumer.go` 37): without AutoCommit
  nothing ever is.  A failed message is skipped for good once its successor is
  marked (208).  With OffsetNewest and nothing committed, messages between two
  sessions are lost.  A Subscribe that overlaps Close, or overwrites the cancel of
  another, keeps Close waiting for ever (80, 158).  After a
  Seek nobody reads the partition until the next Subscribe
  (`consumer_seek.go` 97, 113), and after a failed Seek nobody can (88-94).  Consume
  waits for one partition, the first in the map's order (167).  RocketMQ's handler is
  called after Subscribe has returned (132), and Pause stops all topics (160).  A
  SendAsync whose goroutine runs after Close ends the process (`kafka/producer.go` 117).
* Redis.  A command whose answer was lost is sent again by go-redis: INCR or LPUSH
  may take effect twice (`Cache` allows it).  A SetConfig during MSet tears it in two
  prefixes.  MSet sets no TTL.  Prefix and key are joined without a separator.
* MongoDB.  An insert that is tried again after an ambiguous error finds its own
  document.  InsertMany and BulkWrite return nil results with an error although
  some took effect (102, 441).  ArrayFilters and the timeout are read by no code.
* Logger.  A setter between the two read locks of a log call locks up the logger
  (388, 340).  Fields are lost unless the format is JSON.  An even number of
  arguments with a string at any odd position is taken for key-value pairs, where
  the comment asks for one at the first (631).
* Load balancers.  The random source is shared without a lock (`random.go` 35, 79).
  LeastConn is a round robin.

### Bounds, and why they are enough

* `Keeper` (goroutines at a time): two in `RegistryTwoIds`, for two IDs or two
  registrations of one.  `RegistryLives` has one: a registration whose predecessor still
  refreshes can store its lease, but its own goroutine starts when the other has ended,
  so that one which a second Register abandons (line 329) is never beside its successor.
  A goroutine that ends frees its slot, so runs have any number of registrations one
  after another.
* `Lease`: three identifiers.  One that is neither live nor mentioned anywhere
  stands for a new lease, so any number are granted in one behaviour.  Three is
  enough for a key, a goroutine and a refresh to hold different leases.  A
  Grant waits when all are in use; TLC's deadlock check, and the liveness runs,
  show that this never stops a behaviour for good.
* `Caller`: two goroutines where overlaps are the question.  Each calls one
  method after another without end.  `RegistryTwoIds` and `DiscoveryConverges` have one,
  which interleaves with the goroutines of registrations and subscriptions.
* `Data`: one value; no run's property looks at it.
* `MCNamespace` and the names: one service whose name begins with the other's, a key
  in a namespace that begins with ours, one in another.
* `MaxRev`: 1 or 2 changes of a service.  Two are needed for a list in hand to
  be older than the next; the discovery runs use one, which distinguishes
  stale from latest.
* `Capacity`: 2 in place of 10, so that TLC fills the channel and the sender
  blocks.  The safety properties are proved for every capacity.
* `MaxFaults`: 0 or 1 failing request or watch, on top of those that fail
  because of a cancelled context or a closed client.
* `Sub`: two subscriptions in a behaviour: one that is replaced and its
  successor.
* `Configs`: cache and watch on (the default), and both off.
* `MessageQueue` (`Kinds` chooses the implementation of a run): two calls of Subscribe
  (one overwrites the other's cancel, or comes after Close), one partition, two messages
  (a failed one and its successor), one fault, two senders of two messages.
  `SeekConsumer` has one message, for its liveness is costly: each worker still meets
  Seek, Consume, cancel and Close, and `NothingIsPassedOver` is proved for any number.
  Claims and workers of different partitions share nothing but the end of their session,
  so a second partition would only multiply the states.  `AutoCommits` is {TRUE}, the
  default: without it nothing is committed.  `BatchMax` is 1, RocketMQ's default; a retry
  after `MaxReconsume` 1 makes a dead letter.
* `RedisCache`: two caches, two keys of which one is the other with a prefix before
  it, two calls and one lost answer; an application uses one group of types at a time
  (`Uses`), for a key has one type.  Integers are of two bits, so that INCR overflows.
* `MongoStorage`: two storages, two calls in all, so that two of any methods overlap;
  two documents, two values of a field that may have a unique index.  `MCLists` has every
  pair of operations on one document each in which the first may fail, find nothing or
  upsert, and so may the second.
* `OtelLogger`: two goroutines (a writer and a reader that asks twice) with one kit; a
  level on each side of the default.  For several kits `TheKitIsWhole` is proved.
* `LoadBalancers`: a counter of 4 for lists of 1 to 3, so that it wraps where the
  length divides it and where not; a ring of 4 points with 2 virtual nodes each, where
  points meet; one weight that is not positive.

The runs of `RegistryWatch`, `Discovery`, `MessageQueue`, `MongoStorage` and
`RedisCache` allow deadlock: changes, subscriptions, messages or calls are bounded
there, and all goroutines may have ended.  That of `OtelLogger` allows it because the
lock-up of both goroutines, once the kit is down, is one (lines 388 and 340).  The
others check for it.

### Fairness

A goroutine that can go on is scheduled (`WF` of its steps).  Every request ends:
those of keepAlive have timeouts of 3 and 5 seconds, those of methods the context
of their caller.  `KeeperExit` has strong fairness: a `select` with `done` and
the ticker ready picks one at random, so a closed `done` is picked at last,
but the goroutine is not there all the time; `Leave` is weakly fair, since in the
behaviours where it stays enabled a select takes it in the end.  etcd drops a lease nobody
renews (`LeaseAbandoned`), and outages end (`NetworkHeals`): without that no
registry keeps anything registered.  There is no fairness for calls of the
application, Heartbeats included, restarts or changes.  The reader of a watch channel goes on reading
(`Read`).  `ServesLatest` also needs time to pass (`Expire`) and, as stated with
it, that subscriptions are no longer replaced for ever; `Sub` is finite.

In the runs of `MessageQueue` with liveness goroutines run, handlers return and requests end (`WF`);
`ClaimLeave`, `SeekLeave` and the end of `wg.Wait` are strongly fair, being branches
of a select that is met again and again.  RocketMQ's client delivers while it
runs and is not suspended.  Rebalances, crashes, Seeks and cancels have no
fairness.  In `OtelLogger` who has the lock goes on (`WF`), and `sync.RWMutex` lets in,
in the end, whoever keeps asking (`SF` of `Take`): it queues its waiters.  The other
runs check safety only.

## 4. Proofs

Every invariant and every action property that a passing run checks is a theorem, and so is
the safety part of the three refinements.  A theorem holds for all values of the
constants that meet the named ASSUMEs of the modules (any number of instances,
goroutines, messages, keys; any names, prefixes, weights and hash function).  Two
theorems need more, and say so: `PromiseIsKept` and `PairsAreWhole`, below.

* **EtcdRegistry_proofs.**  `TypeCorrect` proves `TypeOK`.
  `DoneChannelsSafe` proves `DoneChannelsOpen`: it is inductive together with
  `TypeOK`, because a new goroutine takes an unused slot, and whoever closes a
  channel removes it from `leaseDone` in the same critical section.
  `KeepersAreReachable` strengthens `KeepersReachable` with *OneLifecycleCall*:
  for an ID in `SerialIds` at most one call of Register or Deregister is under
  way, and while it is a Register the ID has no entry in `leaseDone`: the entry
  `RegisterKeep` makes then overwrites none.
  `LeasesAreOfOneId` rests on *KeysAreLeased* (a key is
  attached to a live lease) and on the fact that a lease that is granted is
  neither live nor used, so it is used for no ID but the one it was granted for;
  a lease moves only between variables of one ID.

  The theorems on keys are facts about sequences.  `PrefixesTellServicesApart`
  (`DiscoverFindsOwn`): two texts that go on with a name without a slash and then a
  slash have equal names, for the first slash is at the same place in both.
  `ServicesAreListed` (`ListingIsComplete`): what follows the namespace in a key is at
  most one slash, a name, a slash and a name, so it has exactly two parts
  (*TwoParts*), the first of which is the service; what is listed besides is the
  image of the foreign keys with our namespace as a prefix.  `NamesAssumption` asks
  for a namespace and names that `path.Join` leaves as they are (2.4), names without a
  slash, IDs that are unique within a service, and a finite set of foreign keys.
* **RegistryWatch_proofs.**  `NothingIsMissed` has the invariant that no cursor is
  ahead of `rev`: the first list is read after the watch was opened at
  `cursor`, and every list after an event at a later `rev`.  `ListsArriveInOrder`
  (`NeverOlder`) has *Ordered*: the list the reader has, those in the channel, the one
  the goroutine has read and `rev` ascend in this order, and before the first list
  was read there is nothing.  `FeedIsKept` maps every step to one of `SnapshotFeed`:
  a read of the channel gives a list between the last one and `rev`, by the same
  invariant.
* **Discovery_proofs.**  `SubscriptionsAreReachable`: whoever replaces or
  removes `current` cancels it in the same step, and only `Replace` starts a
  goroutine.  `AtMostOneLateCall`: a goroutine whose context is done and whose
  handler has been called late never has a list to send again, for an event
  sends it back to its loop.  `DiscoveryTypeCorrect`, `HandlersAreServedInOrder` and
  `SubscriptionsMissNothing` carry the invariants of `RegistryWatch` over to the
  composition: a step of the client is a step of a goroutine, for which the lemmas
  of `RegistryWatch_proofs` are cited, or it starts or cancels goroutines
  (*StartsOrCancels*), which `RegistryWatch` does in two steps.
* **LoadBalancers_proofs.**  One inductive invariant: types, the window of selections
  is one of the history (*WindowOK*), and *WindowIsEven*.  Turns are as even as the
  counter says: the positions that had their turn since the window began, up to
  wrap-around, are one ahead of the others, and each overflow of the counter may put
  some one further ahead.  `RoundsAreShared` (`RoundsAreFair`) follows for any
  length of list and any width of counter.  `SharesAreAsWeights` (`SharesAreExact`):
  the numbers that pick the n-th instance are an interval as long as its weight,
  *ShareIs*.  `KeysKeepTheirChoice` (`KeysStick`): the ring's answer is the owner of
  the nearest point, and a point's owner the last of those that share it
  (*RingIs*), so taking away others or adding others that are not chosen changes
  nothing.  The recursive functions are reasoned about with an induction over Nat
  stated for a set (*Induction*), whose proof is the pigeonhole principle of
  FiniteSetTheorems: the library's induction theorems take operators.
* **MessageQueue_proofs.**  One inductive invariant per implementation, whose
  variables the steps of the others leave alone.  *GroupInv*: a mark never passes the
  position of its claim, and whatever lies between where the group began and a mark
  or a commit was given.  *SeekInv*: `NonePassedOver`, and a call not made has no
  workers.  *RocketInv*: what a closure has in hand the client has given to no other, and
  what it has handled was given and accepted.  *ProducerInv*: a sender is at the first message without
  a result, and what is stored of it is in order.  From these `AckedAreAccepted`,
  `NothingIsPassedOver` and `BatchesKeepTheirOrder`.  `PromiseIsKept` proves the
  safety part of `KeepsPromise`: a step of a consumer is one of `AtLeastOnce`.  It
  needs *OneAtATime*: if the consumer is RocketMQ's, batches are of one message,
  which is the client's default and which no option of `rocketmq/consumer.go` (41-58)
  changes.  With larger batches it is false: line 114 returns at the first error,
  and the rest of a batch that has been tried too often, or that is broadcast, goes
  without having been given.
* **RedisCache_proofs.**  `CacheIsOnesOwn` proves the refinement `LooksAlone` whole,
  since `Cache` has no liveness.  Its invariant, *CallsAreOn*, says that every full
  key of a call is a key with the prefix of a config that the cache was given; as long
  as none of another cache's overlaps Home's, no command of theirs names a key of
  Home's (*Apart*), and Home's keys with one prefix are as different as the keys
  (*HomeKeysDiffer*).  `CacheTypeCorrect` says that a call's keys are keys under
  the configs of its own cache, and that the server keeps no empty list, set or hash.  `PairsAreWhole` is stated for a cache with two keys, which is what
  `PairsAgree` is about.
* **MongoStorage_proofs.**  `FirstWritesAreExecuted` (`FirstOnesAreExecuted`) with
  *CallsInOrder*: the writes of a call that were executed are the first of its list, as many as are not to do any more.  `InsertHasOneWinner`: a document that
  has a winner exists, so no other insert of it succeeds.  `TicketsAreUnique`: the
  counters handed out for a document ascend, up to the one in the document.
* **OtelLogger_proofs.**  `EntriesAreInForce` (`InForceAtEmission`) with
  *ReadersAreCurrent*: a call past the test of the level holds a read lock, its level
  is not below the one in force, and its format is the one in force, for a setter
  waits for all readers.  `TheKitIsWhole` (`KitIsWhole`) holds for each kit by itself,
  for no step of one touches the providers of another.

Only model-checked: the liveness properties (`SelfHeal`, `WithdrawalHolds`,
`CloseReleases`, `ServesLatest`, `CloseReturns`, `CallsReturn`, and the liveness in
`FeedKept` and `KeepsPromise`), which are out of the proof system's reach.  No module
declares a RECURSIVE operator.

## 5. Not modelled, and why

* etcd's protocol, gRPC and the clock: `EtcdStore` has the answers a caller
  can get, "runs out" stands for time.
* sarama, the RocketMQ client, go-redis, the MongoDB driver and the OpenTelemetry SDK:
  external, as far as the code meets them.
* The JSON of an instance, addresses, weights, metadata: `Data` tells apart what
  an update changes.
* UpdateStatus and UpdateMetadata write the application's instance without a
  lock while Register's goroutine may marshal it; the models take such a write
  as atomic.
* Two services that use one instance ID: `types.go` line 8 calls the ID
  unique, and the runs give each instance its own.
* Growth of the maps `watchers` and `subscribers`: nothing removes a watcher but
  Close, and nothing reads `subscribers`.
* GetService, HealthCheck, Ping, ListIndexes, ListCollections, GetConfig,
  GetCachedServices and logging in the registry: they change no state.
* SetConfig of the mq clients, and the registry's SetNamespace, SetTimeout and SetTTL: they
  write a field, without a lock, before the client is used.
* ForceFlush: a SimpleProcessor has exported every entry already.  Close of the cache and
  the store: a call of the driver.
* The text of an entry, of a message or a document: of an entry the models keep which
  of the three forms its text has.  JSON, floating-point and time formatting.
* Aggregation pipelines, skip, limit and sort: they choose among what Find reads.
* Options, defaults and the quiet zap logger: constructors that set fields.
* array, stringutil, network: pure functions of a line or two and system calls, which their
  unit tests reach.  The examples: demonstrations.

## 6. Plan

Done: all modules of section 2, their runs, and a theorem for every safety property.
What is left:

1. The safety kernels of the liveness properties: for `WithdrawalHolds`, that after a
   Deregister has returned only a goroutine that was told to stop holds a lease of the
   ID; for `CloseReturns`, that a goroutine that Close has told to stop ends with its
   handler's return.
2. `Discovery`: that the list in the cache is one the service had, and what has to
   happen for it to be older than the one a caller was returned before.
3. `RedisCache`: `PairsAreWhole` with other keys beside the two.
4. The faults of `EtcdRegistry` that no property covers: data of a renewed
   registration, two services with one ID, the goroutine that spins on a closed watch,
   and a second Register beside the goroutine of the first, with room for both.
