# A verification of the InnerCore network (NexusFabric)

This directory holds a TLA+ model of the Go program under
`src/innercore-network/`, a mesh node that discovers peers by UDP broadcast,
keeps a Kademlia-like routing table, and stores and publishes contents on top of
it. All paths below are relative to that directory. The model is translated from
the code; where the documents say something else, the code is modelled, and
section 5 says where: two of the differences are shown by runs that find a
counterexample.

Everything is checked by TLC on small instances. Theorems about every
component with a run hold for all values of the constants and are checked by TLAPS.

## 1. The system

One process is one node. `integration.Init` starts its layers in order; after
that the following goroutines share its state: the receive loop of layer 4, the
listener and the announcer of discovery, the maintenance loop of InnerCore, the
cleanup loops of the service and provider registries, the gateway, and whatever
the application calls. Nodes talk by UDP: announcements to a broadcast port,
everything else as JSON packets to a message port.

| Component | State | Operations | Talks to |
|---|---|---|---|
| Discovery, `discovery/` | own id, name, capabilities | announce, listen | calls `network.UpdateNode` and `InnerCore.SeedPeer` through a callback |
| Network table, `network/` | peer id to address, health, status | UpdateNode, RecordSuccess, RecordFailure, GetPeer, GetAllPeers | shared by all layers; one RWMutex, but entries are pointers |
| Messaging, `message/` | socket, `msgService` | receive loop, SendPacket, SendToNode, Close | the network table for addresses and health; `KademliaHandler` |
| InnerCore, `innercore/` | 256 k-buckets, supernode list, registry of pending lookups | SeedPeer, Lookup, SendFindNodeAndWait, SendStore, HandleKademliaPacket, election every 30 s | sends through `message.SendPacket`; called by the receive loop, discovery, the publisher |
| Service registry, `service/service.go` | service to providers | register, list, health, cleanup every 30 s | reads the network table inside its lock |
| Content fabric, `service/content_storage.go`, `provider.go`, `retrieval.go`, `persistence.go` | metadata, bytes, provider lists | StoreContent, RetrieveContent, cleanup every 2 min | storage engine, publisher |
| DHT publisher, `service/dht.go` | none between calls | publish | `InnerCore.Lookup`, `SendStore` |
| Storage engine, `storage/` | collection, record, version to payload | Get, Put, Delete | called by PersistContent; device registry and snapshots wrap it |
| Search index, `service/index_*.go`, `tokenizer.go` | what is announced and when, statistics; cache of buckets | Index, Remove, the loop that announces again; FeedBucket, FeedEntry, GetDHTKeysForQuery, SearchLocal, InvalidateContent, PurgeExpiredCache | a DHT behind its callers; nobody calls it yet |
| Resolver, `resolver/resolver.go` | cache of 30 s | Resolve | scans the network table through copied pointers; nobody calls it yet |
| Role routing, `resolver/role-routing.go` | none | SendToRole | the network table, `message.SendToNode`; nobody calls it yet |
| Gateway, `fallback/` | TCP sessions | relay | its parser finds no host at present |

What is hard in it:

* *Concurrency.* Two locks guard one bucket and neither covers all of its
  readers; the supernode list is read without a lock; locks are released
  between looking for a channel and using it, between finding a peer missing
  and adding it, and between the steps of storing a content.
* *The network.* UDP loses, duplicates and reorders; replies race a timer; a
  reply is matched to a call by an id that need not be unique.
* *Blocking.* A receive loop that sends into channels, a bounded channel that
  is drained too late, read locks that are taken again by their holder.
* *Time.* Deadlines tested between rounds, entries that outlive their time to
  live until a sweep, announcements that repair what a race destroyed, a ticker
  of the same period as the age it tests, caches whose times to live add up.
* *Boundaries.* The chunk threshold, the size of a datagram, versions that
  restart after a deletion, `peers[:3]` of a short list.

`PROJECT.json` lists these hazards at their lines with the properties about them.

What makes each component correct: an answer reaches the call that asked and the
receive loop is never blocked; a bucket is an LRU list without repetition and
the supernodes are its best peers; a lookup ends in time, but not before its
rounds or its time are used up, and returns what it was told; registry calls
return and report one state of the registry, which forgets expired providers; a
publication returns and reports every loss; a write under an expected version replaces what was read;
a content in the store is complete and has its metadata and manifest saved; a
peer is called unhealthy only for its own failures and recovers; what the
index believes to have announced is in the DHT, nothing it shows is older than its
times to live and it searches all of a query; a resolved name is a view the network table allowed.

## 2. Modules

| Module | Models | Run |
|---|---|---|
| `FindNodeRPC` | abstract: what a caller of SendFindNodeAndWait may rely on | implemented by `PendingLookups` |
| `PendingLookups` | `rpc.go`, `innercore.go`: registry of channels, request ids, replies, timeout | `PendingLookups` |
| `LRUBucket` | abstract: the promise of `KBucket.Insert` | implemented by `RoutingTable` |
| `RoutingTable` | `kbucket.go`, `innercore.go`: one bucket, the election, the scan | `RoutingTable` |
| `Lookup` | `lookup.go` with the elections that run meanwhile; its calls behave as `FindNodeRPC` promises | `Lookup` |
| `ServiceRegistry` | `service.go`: the registry under Go's RWMutex | `ServiceRegistry`, `ServiceRegistryDeadlock` |
| `Publisher` | `dht.go`; its lookups return what `Lookup` may | `Publisher`, `PublisherStuck` |
| `Transport` | `message.go`, `network.go`, the answering part of `rpc.go`, `integration.go` | `Transport` |
| `ContentFabric` | `content_storage.go`, `provider.go`, `persistence.go`, `retrieval.go`, StoreContent of `service.go` | `ContentFabric` |
| `VersionedRegister` | abstract: one register per record | implemented by `StorageEngine` |
| `StorageEngine` | `storage_engine.go` | `StorageEngine` |
| `Tokenizer` | `tokenizer.go`: texts to tokens, weights, the cap | in `SearchIndex` |
| `IndexWriter` | `index_writer.go`: records, statistics, the maintenance loop | in `SearchIndex` |
| `IndexReader` | `index_reader.go`: the cache of buckets, search, pages | in `SearchIndex` |
| `SearchIndex` | the three together with a DHT and a searcher | `SearchIndex` |
| `Resolver` | `resolver.go` over `network.go` | `Resolver` |
| `PendingLookups_proofs`, `StorageEngine_proofs`, `SearchIndex_proofs`, `Resolver_proofs`, `ServiceRegistry_proofs`, `Transport_proofs` | theorems about the module of the name | |
| `InnerCore_proofs` | theorems about `RoutingTable` (with `LRUBucket`) and `Lookup` | |
| `ContentFabric_proofs` | theorems about `ContentFabric` and `Publisher` | |
| `MC...` | the instances | |

A step of a model is what the code does without another goroutine being able to
interfere: a critical section, a channel operation, a system call - or, where
the code reads without the lock that the writers hold, a single store to memory
(`RoutingTable`). An operator whose name has an underscore, such as
`Enter_Early`, is not part of the model: it is a plausible mistake in the
definition of that name, kept beside it to show which property would catch it.
Every definition that stands for code is mapped to its lines in `PROJECT.json`.

**PendingLookups.** A call goes through the statements of SendFindNodeAndWait
(`pc`); `pending` is the map of channels, `chan` their buffers, `inHand` the
channel the receive loop has taken out of the map and not yet sent to, `net` the
packets. A packet stays in `net` when it is received or not, so that loss,
duplication and reordering need nothing else. `StrictClock` says whether two
readings of the nanosecond clock differ; if not, calls share a request id.

**RoutingTable.** `slots` and `len` are the slice of one bucket; Insert writes
it store by store under `b.mu`, while elections and scans copy it element by
element under `ic.mu` only. An append stores the element and the new length in
either order, which is what Go's memory model leaves open; a scan that meets
the length first dereferences nil and ends the process (`NilDereference`). A
maintenance tick elects any number of times: refreshBuckets and maintenanceLoop
each do.
`settled` is the bucket as of the last release of the lock, the abstract
variable of `LRUBucket`.

**Lookup.** `closest`, `seen`, `result` and the round as in the code; the
goroutines of a round (`asking`) answer, fail or time out in any order. A round
lasts as long as its slowest call (`longest`), which is any whole number of
seconds up to the timeout. A goroutine that got an answer (`seeding`) hands every
peer of it to SeedPeer, which inserts it into the `table` and elects anew, all
before wg.Wait returns. Discovery, other lookups and the maintenance loop elect at
any time (`StartElection`, `AppendElected`): `elected` is what the latest election
publishes, and `supernodes`, what can be read, grows to it from the empty list one
append after the other. The lookup reads the list three times without a lock, each
a step of its own (`FindSupernodes`, `TakeSupernodes`, `CollectSupernodes`), and so
may see three prefixes of three elections. `raced`, a history variable, remembers
that it met the list empty in the middle of one.

**ServiceRegistry.** The lock is Go's `sync.RWMutex`: a writer that arrives
(`waiting`) keeps new readers out and enters when the readers inside have left.
A reader takes the lock `Depth` times: once in GetServiceProviders, twice in
GetServiceInfo, three times in GetAllServices. Entries age; `Known` is the set
of devices the network table knows at registration.

**Publisher.** Each object has a goroutine: lookup, parallel STOREs to the first
`ReplicationK` results other than this node, and on failure a send into the
channel of capacity `ErrCap`, which `publish` reads when all are done. Its
definitions and those of `Lookup` that name the specification carry the module's
name (`PublishInit`, `LookupSpec`), so that one module can prove about both the
publisher and the store, and one about both the routing table and the lookup.

**Transport.** `phase` is the start-up sequence; `table` the network table, with
the health in tenths and for the data of an entry only whether it is what the
node announced or the empty entry of the receive loop; `rx` and `tx` are the
positions of the receive loop and of one sending application; `air` is the bag
of datagrams, and `Copies(air)` has a pair for each of them, so that counting
them is the cardinality of a set. Other nodes run the same program and are reduced to their
answers. `fails` is a history variable.

**ContentFabric.** A content stands for its bytes and thus for its ContentID.
`localIndex` names the call that last described it, `localData` the hashes held,
`providers` how many announcements there are of each age up to `Limit` (entries
differ in nothing else; none comes to be as old as `Limit`, which
`ProvidersInWindow` shows), `saved` the two collections of the engine. Chunks are
the intervals that the loop of splitIntoChunks cuts. A call of StoreContent caches,
announces, saves the metadata and, if there are chunks, the manifest, each a step
of its own; RetrieveContent is two.
`announced` and `overlapped` are history variables.

**StorageEngine.** `colls`, `rows` and `cell` are the three levels of nested
maps; `held` is what a caller last read, and the version it may pass later;
`epoch`, a history variable, counts deletions.

**Tokenizer, IndexWriter, IndexReader, SearchIndex.** A text is the sequence of
the words between its separators. The tokenizer's functions are operators; what
they compute for the metas and queries of an instance are constants. Tokens are
kept where they occur first, up to the cap; the result is the set of them, since
nothing that uses it depends on their order. The writer
keeps per content its keywords and the age of its last announcement; the loop's
ticker fires every `ReAnnounceInterval` and announces what is old enough; a
content that the store does not have (outside `InStore`) is forgotten there, and
the statistics go on counting it. The
reader's cache holds per keyword a bucket with the age of its fetch. An entry is
its weight and the age of its announcement. `SearchIndex` is the use that the
headers of writer and reader describe: `IndexContent` hands records out, `Send`
stores each one and feeds it to the own cache, `StartFetching` is entered when a
search found nothing, `FindValue` and `Feed` fetch each bucket in two steps, so
that indexing, invalidation and purging come in between. `dht` is what the DHT
kept of this node; `Elsewhere` what others publish. The constant `TokensReturned`
is FALSE in the code as it stands (`tokenizer.go:295`, `return nil //temporary`),
which makes every property of the index vacuous; the run sets it TRUE and so
checks the result that the function has built up to that line. `undisturbed` and
`missed` of a search are history.

**Resolver.** A goroutine's call goes through the locks it takes: Get under the
read lock (`Resolve`), the deletion of an expired record in between (`Evict`),
the copy of the pointers (`ResolveAndCache`), one look at each entry without a
lock (`Look`), and Set. Discovery, the receive loop and failed sends change
entries between any two steps. `up` and `down` are the history of a call: the
nodes it could have seen alive under its name, and not; `quiet` is the time since
an entry changed.

## 3. Runs

`Lookup`, `SearchIndex` and `Resolver` are checked for deadlock. The other runs set
`CHECK_DEADLOCK FALSE`: the calls, threads, stores and requests of their
instances are finite, and when they are through the system has really nothing
left to do. Where waiting for ever is the question, a liveness property asks it.

| Run | Instance | Shows |
|---|---|---|
| `PendingLookups` | 2 calls to one peer with different questions, strict clock | the receive loop never blocks and always comes free (`HandlerNeverBlocks`, `ReceiveLoopRecovers`), no entry outlives its call (`NoOrphanEntry`), no answer goes astray (`ReplyIntegrity`), and the calls implement `FindNodeRPC`, liveness included (`ImplementsRPC`) |
| `RoutingTable` | capacity 3, two peers inside, three inserts (known, new, one too many), maintenance ticks that repeat, a scan | at every release the bucket is the LRU list (`ImplementsLRU`, `BucketWellFormed`); when all is quiet the supernodes are current (`SupernodesCurrent`) |
| `Lookup` | 7 nodes that name each other in a chain and then in a cycle; buckets that hold nobody or two peers, one peer in the network table, one that discovery introduces, elections of two supernodes | `Terminates`, within the deadline plus one call (`ReturnsInTime`), after its first round not before the bounds are used up unless an election had just emptied the list (`UsesItsBounds`), with what was introduced or told (`ResultIsHearsay`) |
| `ServiceRegistry` | readers of depth 1 and 3, a writer and the cleanup; 2 services, 3 devices of which one is unknown and one may offer nothing | a reader sees one registry, and what it has collected stays there until it leaves (`ReadersExcludeWriters`), no expired provider is kept (`ExpiredForgotten`), and `CallsReturn` unless a reader waits for itself |
| `ServiceRegistryDeadlock` | the same | *violation* of `NoWaitCycle`: a writer comes between the read lock of GetAllServices and the one of GetServiceInfo that it calls, and both wait for ever |
| `Publisher` | metadata, manifest, one chunk; error channel as large as that; lookups that are empty, alone, repetitive | `PublishReturns`; it warns for exactly the objects nobody was sent (`EveryLossReported`) |
| `PublisherStuck` | one error slot fewer than objects | *violation* of `PublishReturns` |
| `StorageEngine` | 2 callers, 2 records of one collection, 2 payloads, 2 versions, one deletion per record; symmetric in all three sets | versions have no gap (`VersionsContiguous`), `NoLostUpdate`, `HistoryKept`, `ImplementsRegister` |
| `Transport` | one other node, 2 requests, 3 failures by chance | `UnhealthyIsEarned`, `NoAmplification`, `RemoteRecovers` |
| `ContentFabric` | 2 goroutines, 2 stores, a file of exactly the threshold and one of five chunks with a short last and two equal chunks; code's thresholds in units of 128 KB and minutes | `LocalContentComplete`, `ProvidersInWindow`, `ManifestFollowsMeta`, `SavedDescribesLocal`, `MetaMeansBytes` |
| `SearchIndex` | one content of this node under two metas with different tokens, one that its store does not have, a third of another node under a shared token; a query with a stopword and both tokens, two matches a page; a cap of two tokens; units of 10 minutes | `AnnouncedIsKept`, `ResultsAreRecent`, `TwoPhasesCoverQuery`, `PagesPartition` |
| `Resolver` | 2 goroutines, this node and 2 others; the blank device name, which is the key `.mtd`, and a service; units of 15 s | `AnswerIsRegular`, `SettledAnswersExact` |

A malformed name has no run of its own: Resolve treats it like a service, of which
it finds none. A host name differs from the blank one in who may carry it; the
theorems of section 4 hold for any names.

### Bounds and why they suffice

* Two calls are all that a request id or a channel can confuse: the registry
  relates entries pairwise, and the theorems of section 4 lift the bound.
* A capacity of 3 with two peers inside has one insert of each kind (move,
  append, reject). A shift of two elements is the shortest with a visible
  intermediate state, and a third insert makes the election stale.
* The graph of `Lookup` goes on for ever, so that the limit of rounds is reached,
  and has rounds in which one peer can time out while another answers, so that the
  deadline is reached as well. Two supernodes instead of five are the shortest list
  with a prefix that is neither empty nor all of it, and one newcomer is enough to
  make an election publish something else than the one before.
* `TTL = 1` with ages up to 2 has the three ages that the registry tells apart:
  fresh, just valid and expired.
* The channel of ten errors is scaled to two and three with as many objects:
  what matters is whether failures can outnumber slots. In the code this takes
  eleven objects, so a file of nine chunks, that is, of more than 2 MB.
* `MaxVersion` and `MaxEpoch` bound counters that grow without end in the code;
  two versions and one deletion have the read, the overwriting and the reuse of
  a version number. The theorems have no such bound.
* Three chance failures are what makes a peer unhealthy; two requests let an
  application's send meet a packet that comes in. Writes of oversized chunks fail
  always and are not counted by `MaxFailures`.
* Two stores make the two calls that can describe the same content differently.
* `SearchIndex` scales all times by 10 minutes: an entry lives for 3 units, the
  ticker has a period of 2 and the cache keeps a bucket for 3, the values of the
  code, so that a tick falls into both lifetimes. Two calls
  of Index are one for each meta: the second replaces keywords by fewer. A cap of
  two with three candidates makes the cap choose. A page takes 20 matches in the
  code and two here, so that three matches have a second page, and a short one.
  The number of calls is the only bound; the theorems have none, and hold for any
  size of a page.
* `Resolver` has a `CacheTTL` of 2 units and calls of less than one, so that
  evictions and late writes happen on both sides of an expiry. Two goroutines are
  what one record can be contested by.

### Fairness

* `PendingLookups`: a call that was started takes its next step (its goroutine
  is scheduled, the select has a timer) and the receive loop goes on. Nothing
  is assumed of the network and no call need be started.
* `Lookup`, `Publisher`: goroutines run; what they call returns, which is the
  liveness of `FindNodeRPC` and of `Lookup`. In `Lookup` strong fairness is asked of
  the two steps that wait for `ic.mu`, while others hold elections without end:
  Go's RWMutex hands itself to those that wait.
* `ServiceRegistry`: strong fairness of each reader and writer, because Go's
  RWMutex lets waiting readers in after a writer and a waiting writer in after
  the present readers, so nobody who keeps waiting for it is overtaken for ever;
  the ticker brings the cleanup back again and again.
* `Transport`: the start-up sequence goes on, and a remote node that announces
  every few seconds is heard again and again. The receive loop and the
  application may stop anywhere.
* `SearchIndex` and `Resolver` have no liveness property. Their assumptions about
  time: a batch is sent and a bucket fetched within a unit (10 minutes), the
  ticker is served in the unit it is due, a resolution takes less than 15 s.
* `ContentFabric` has no liveness property but an assumption about time: the
  ticker of the cleanup is served within its minute, so that time does not pass
  a due cleanup.

## 4. What is proved

Every invariant and every action property of a passing run is stated by a
theorem, and so are the two refinements of abstract specifications that have no
fairness. A theorem holds for every value of the constants that its module's
assumption allows. The assumptions give constants their types and say that model
values differ; those with content are named below. In each module the argument
is the same: `IInv` holds at the start, every step keeps it (one lemma for each
action or group of actions), and it implies the properties.

`PendingLookups_proofs`: `TypeOK`, `HandlerNeverBlocks`, `NoOrphanEntry` and
`ReplyIntegrity` for any set of calls, peers and questions and for both kinds of
clock, and under a strict clock that every step is a step of `FindNodeRPC` or
invisible. `HandlerNeverBlocks` is not inductive: it must be
known that a channel is nowhere else while it is in the hands of the receive
loop. `IInv` says that a call owns its channel alone - it is in the registry
(`EntryInv`), or in one hand (`HandInv`), or has a value - and that whatever
travels under an id, in the network, a hand, a buffer or a result, answers a
question that was asked under that id (`NetInv`, `ValueInv`). For the
implementation `UniqueIds` is added, which follows from the strict clock.

`InnerCore_proofs`, the routing table: `TypeOK`, `BucketWellFormed`,
`SupernodesCurrent` and `ImplementsLRU` for any capacity, peers, elections and
scans. The invariants speak of the bucket at releases of its lock, while an
insert stores it element by element; so `StoresInv` says what every prefix of
the stores of an Insert leaves in the array, in terms of the bucket before
(`settled`) - the shift has come to `at[s]` and what it has passed is one place
lower - and the step that releases the lock is the step of `LRUBucket`.
`SupernodesCurrent` is false while anything is under way; `ElectionInv` says for
whom it may be false: unless some thread still has its election to come
(`Pending`), what an election has copied is the bucket, what it has ranked is a
top of it, and what it published is too. That an election reads the bucket
without its lock does no lasting harm, because whoever changed the bucket elects
again afterwards. `RoutingAssumption` wants the bucket to start with distinct
ids and within its capacity, as does an empty one.

`InnerCore_proofs`, the lookup: `ReturnsInTime`, `ResultIsHearsay` and
`UsesItsBounds` for any network, any answers, tables, elections and bounds.
`ListInv` says what can be read without a lock: a prefix of what an election of the
present table publishes. The table only grows, by what discovery introduces and by
what is seeded (`HearsayInv`), so that any prefix of any election is hearsay. A
round that waits started before the deadline (`TimeInv`). `BoundsInv` is the
argument for `UsesItsBounds`: after the first round the table is not empty, because
a round that brought something has seeded it before wg.Wait returned and one that
brought nothing has left the loop or found supernodes; an election of a table that
is not empty publishes somebody, so only a list that is being rebuilt reads empty.
`EveryStepAdvances` is the half of `Terminates` that needs no fairness: every step
of the lookup ends a call, a stage or one of at most `MaxRounds` rounds, so that no
answers keep it going for ever. `ResultNamesSelf` (from `OutcomeInv`) is what
`Publisher` takes for granted of a lookup, and `LookupTypeCorrect` its types.

`ContentFabric_proofs`, the store: `TypeOK`, `LocalContentComplete`,
`ProvidersInWindow`, `ManifestFollowsMeta`, `SavedDescribesLocal` and
`MetaMeansBytes` for any contents, lengths, chunk sizes, times and numbers of
goroutines. That the chunks tile a file is arithmetic about offsets that are
multiples of the chunk size (`ChunksTile`), with no sum. `WindowInv`
keeps what the registry lists equal to what was announced for all that is young,
and empty beyond the time to live plus the time since the last cleanup.
`Manifest` counts: the versions of metadata that have no manifest yet are as many
as calls are at that step. `SavedDescribesLocal` holds of contents that no two
calls stored at the same time; `Described` says why: there is at most one call,
and the local store names it. `Budget` bounds versions by calls, for `TypeOK`.

`ContentFabric_proofs`, the publisher: `EveryLossReported` for any finite set of
objects and any capacity: errors in the channel and warnings drained together
count the objects that are done and were sent to nobody (`ReportInv`). Four
theorems say what the capacity means and bound the disagreement that
`PublisherStuck` shows: publish returns only if no more objects were lost than the
channel holds (`ReturnsWithinCapacity`), a worker that blocks on it blocks for good
(`StuckForGood`), a slot for every object rules that out (`RoomForAllSuffices`), and
every step leaves less to do of what is finite from the start
(`EveryStepLeavesLess`), so that blocking is the only way not to return.
`PublishTypeCorrect` needs to count: what was sent of an object and what is under
way are together at most `ReplicationK` (`SendInv`).

`StorageEngine_proofs`: for any callers, records, payloads and bounds
`TypeOK`, `VersionsContiguous`, `NoLostUpdate`, `HistoryKept`, and
`Spec => ImplementsRegister`. `VersionsContiguous` is what makes the greatest
version (`CHOOSE`) a number one can compute with; `ReadsRemembered` turns the
comparison of two numbers in PutExpecting into a statement about payloads, which
is `NoLostUpdate`. A deletion starts a new epoch of its record and so ends what
the engine owes to earlier readers.

`SearchIndex_proofs`: `AnnouncedIsKept`, `ResultsAreRecent`,
`TwoPhasesCoverQuery` and `PagesPartition` for any contents, words, metas, queries
and times. `AnnouncedIsKept` is inductive, but for what is unsent: every step that
makes a record younger hands out what Send will store, and time passes only when
all is sent. `ResultsAreRecent` asks for the ages: a record is no older than the
period plus the time since the tick (`AnnouncedInv`), what the DHT keeps or a search
has fetched is within `IndexEntryTTL` (`KeptInv`), and an entry of a bucket that can
be read is older than that by at most the age of the bucket (`CachedInv`) - which is
why FeedEntry must not renew a bucket. `PhaseInv` says of each token of a query that
it is still to be fetched, fresh, or missed. `TypeCorrect` carries the weights from
the tokenizer to the cache (`RecordsTyped`, `EntriesTyped`); ages come from `IInv`,
and that no statistic falls below zero from `RecordsInv`, which joins the statistics
and the keywords of the records. `SearchIndexAssumption` says that other nodes'
entries look like this node's and that the contents of this node are among those of
the index. That the pages of a ranking hold each match once
(`PagesShowEachOnce`) is arithmetic about intervals of positions, for any size of
a page and any short last page.

`Resolver_proofs`: `AnswerIsRegular` and `SettledAnswersExact` for any
nodes, names, goroutines and time to live. A scan has found only what was up and
passed over only what was down since its call began (`Regular`), whatever the
table does between two looks. For the second, each call and each record carries
the time the table must have rested for it to be exact: at most one unit for a
call that scans (`Slack`), one more than its age for a record (`Sound`), and both
for a call that was answered from a record - which is where `CacheTTL + 2` comes
from, and why neither an eviction of a fresh record nor a late write can do more
than that.

`ServiceRegistry_proofs`: `ReadersExcludeWriters` for any readers, writers,
nesting and time to live. The key is `CallInv`: a call holds the lock from its
first step to its last, and exactly once when it leaves, so that its last RUnlock
is the one that lets writers in; `ResultInv` says of what was collected that it is
still there and has only aged. `DeadlockIsForGood`
completes the run `ServiceRegistryDeadlock`: the cycle of waits that it reaches
never resolves, and from then on nothing is registered, forgotten or begun to be
read.

`Transport_proofs`: `UnhealthyIsEarned` for any nodes and numbers of packets
and failures; with the types of table and failures the property is inductive, and
the proof is one lemma for each operation of the table (`UpdateKeeps`,
`SuccessKeeps`, `FailureKeeps`, the last with the rounding at three tenths) and
one for each group of steps that calls them. `NoAmplification` is inductive with
the shapes of what the goroutines hold (`CountInv`): packets in the air, in the
receive loop and in a send fall or stay unless something is sent unasked
(`Balance`). `AddOne`, `TakeOne` and `AddAtMostOne` say how a bag's copies grow
and shrink.

Only model-checked: `ReceiveLoopRecovers`, the fairness in `ImplementsRPC`,
`Terminates`, `CallsReturn`, `ExpiredForgotten`, `PublishReturns` and
`RemoteRecovers`. They are liveness properties under fairness, whose proofs need
ENABLED, which the prover does not handle. Of two of them the part that is a
matter of single steps is proved (`EveryStepAdvances`, `EveryStepLeavesLess`).

Type correctness is a theorem for every module. As a run it is kept for
`RoutingTable` and `ContentFabric`, where it bounds the bucket and the versions;
elsewhere it would say nothing else than the theorem and no run repeats it.

## 5. Where code and documents differ

* *Nested read locks* (`ServiceRegistryDeadlock`). `service.go:30` promises none.
  GetAllServices takes the lock (`:329`) and calls GetServiceInfo (`:334`), which
  takes it again (`:308`): a writer that calls Lock in between waits for the outer
  read lock and the inner one waits for the writer. This is the trace of the run.
  GetServiceInfo and GetServiceProviders (`:316`, `:257`) nest in the same way.
* *A publication that never returns* (`PublisherStuck`). Its failures should end
  in warnings (`service.go:402`); `dht.go:61` has room for ten.

Seen in the models without a run of their own:

* *Shared request ids.* `rpc.go:77` forms ids from the clock and one byte of the
  target. Where `StrictClock` is FALSE two calls share an id and one may get the
  answer to the other. `NoOrphanEntry` is proved even then: a collision misdirects
  an answer but leaks nothing.
* *Unprotected scans.* `01.5_innercore.md:102` says the lock of a bucket protects
  it from concurrent access; `innercore.go:122` and `:191` read the slice without
  it, and a scan may see one peer twice and miss another.
* *The gap between announcements.* `index_writer.go:55` asks for an interval below
  `IndexEntryTTL` "so entries don't expire between announces", and the timeline of
  `04-layer-3C-search.md:246` has at 30 minutes "would expire, but re-announce
  already happened". Neither holds. The ticker has the same period as the age it
  tests, so that a record announced just after a tick, or by a tick that was a
  little late, waits for the tick after the next: 40 minutes, for 10 of which the
  DHT has nothing of a content that its publisher tracks. That is the first disjunct
  of `AnnouncedIsKept`, which without it is false.
* *Statistics.* `04-layer-3C-search.md:256-258` calls TotalKeywords unique tokens
  and LocallyOwned the contents published. Index counts a content again that it
  already tracks, while Remove subtracts once; a token that two contents share
  counts for each, so that TotalKeywords always equals TotalEntries; and a content
  that is forgotten because the store lacks it is still counted. What is proved of
  the statistics is no more than that none falls below zero (`TypeCorrect`).
* *Times to live add up.* The cache keeps a bucket for 30 minutes "so stale entries
  don't persist" (`index_reader.go:45`). A bucket that is fetched just before the
  DHT forgets an entry shows it for the cache's time on top: up to 60 minutes after
  its announcement (`ResultsAreRecent`).
* *Lookups cut short.* An election empties the list of supernodes before it fills
  it again (`innercore.go:198`). A lookup that asks at that moment whether there are
  any (`lookup.go`) ends with rounds and time to spare, although peers are known:
  the exception in `UsesItsBounds`.

Met on the way and visible in the models: a scan can
dereference nil (`NilDereference`), a packet that arrives before
`msgService` is set ends the process (`NilService`), `peers[:3]` panics on a
short result (`SliceTooShort`), a PING is answered by a PING for ever, an own
entry that became unhealthy stays so, a chunked content is never returned by
RetrieveContent although its chunks are there, and an announcement expires after
five minutes although the content is still held. In the index, a name without a
real extension loses what follows its last dot; the cap on tokens keeps an
arbitrary choice of them, since it walks a map; a search that finds some of its
tokens in the cache returns what it has and fetches nothing for the others; an
announcement that is repeated carries the full weight whatever the first one
carried; matches of equal score may change places between two pages. In the
resolver, names are lower-cased and host names are not, discovery
(`discovery.go:184`) and the receive loop (`message.go:105`) register other nodes
under the empty name, so that only this node's own name ever resolves, services
never do, and nothing evicts an entry that has fallen silent.

## 6. What is abstracted and what is not modelled

* Distances and the choice of a bucket: `xorDistance` adds up the differences of
  bytes, and `SeedPeer` takes the lowest bit of the sum. `RoutingTable` has one
  bucket and leaves the ranking of equals open.
* Scores, capabilities, names, roles: only their order or their presence.
* Hashes and keys: a content and a chunk stand for their own. Equal chunks are
  equal; different ones are assumed to differ in their hashes. Ids of devices are
  not shortened as `NodeID.String` does.
* Data races on machine words are modelled in `RoutingTable`. `Lookup` reads a list
  that is being appended to as one of its prefixes and not as a torn slice header,
  keeps lists as sets, so that repetitions in a result are not seen, and has no full
  buckets: whoever is seeded gets in. The
  fields of a network-table entry are read and written as one value.
* Nothing persists: the storage engine is in memory, so that there is no recovery
  to model, whatever the documents of layer 5 say about restarts.
* Of the search index: scores have their weights and coverage, not the recency of
  0.2 over thirty days and not the bonus that is the same for all that pass a
  filter; filters are a set of contents a query lets pass. InvalidateContent
  filters in place: no one else is taken to hold the array.

Not modelled:

* Role routing: a loop over SendToNode, which `Transport` has, without state or
  callers; roles are always "unknown" or untrusted, so that it selects nobody.
* The gateway: `splitLines` returns nil, so that no host is ever found and no
  session starts; what is left is raw TCP.
* The read-only queries of `integration.go` and the console loop of `main.go`.
* Search over the local store (`search.go`), the wrappers of the storage engine,
  scoring (a weighted sum without state), key generation (hashing), node identity
  on disk, type declarations, stubs under `node/` and `config/`.
* `DetectFileType`, `ExtractEpisodeCode` and `ExtractYear` of the tokenizer: pure
  functions of a string that nothing in the index uses.
* `arc.go`, `docs.go`, `storage.go` and `changes.go` at the root: text dumps that
  repeat the sources below `innercore-network/` and belong to no package. They are
  8,577 of the 14,236 lines that count as implementation; of the rest the mapped
  definitions cover almost half.

## 7. Plan

Done: all components with state of their own are modelled and checked; each safety
property that a run checks is stated by a theorem.

What would add most next:

1. What a lookup that found nobody does to a publication: `ResultNamesSelf`
   leaves it a result of this node alone, which `Publisher` skips; a theorem
   over both would name the objects that are lost for that reason.
2. `Distance`: `xorDistance` and the bucket index against the XOR metric over
   bounded ids; which closest peers the two orders disagree on.
3. A composition of `ContentFabric` with `Publisher`: a call of StoreContent
   that waits for publish.
4. The index called by the store, once the code does so.
5. Runs that show the gap between announcements and the miscounted statistics of
   section 5 as counterexamples, as the two disagreements before them have.
