# network-reconciler in TLA+

Models, checks and proofs about `network-reconciler`, the daemon that runs on every node of a Proxmox cluster
and keeps the node's NAT rules (nftables) and announced public addresses (`/32`s on the loopback interface,
redistributed by FRR) in step with what NetBox says and with the virtual machines that run on the node. Paths
below are relative to the repository; file names without a directory are in `internal/reconciler/`.

## 1. The system

| Component | State | Operations | Talks to |
|---|---|---|---|
| **placement store** `internal/state/store.go` | per VM: status (absent, staged, active), time of the last event, time of the last snapshot, time of staging | `SetActive`, `SetStaged`, `SetAbsent`, `UpdateFromSnapshot`, `ExpireStaged`, getters | called by event handlers, webhook deltas, the tick; read by every apply |
| **event handling** `HandleEvent` | none of its own | one case per migration, start, stop and snapshot event | store; apply (fast path); run loop (trigger) |
| **apply path** `applyMappings`, `reconcileBGP` | fingerprint of the last ruleset, mappings last applied, advertised addresses, "kernel adopted" flag, mutexes `reconcileMu` and `advMu` | resolve what each active VM gets, program nftables, converge the loopback interface | store, mapping cache, backups, `nft`, `ip` |
| **mapping cache** | mappings by VMID, mappings waiting for a name's VMID, VMIDs by name | rebuild from a fetch, apply a webhook delta | apply path, backups |
| **run loop** `Run` | trigger channel (1), delta channel (32), verification timer, fetch gate | full fetch, delta, tick | NetBox, apply path |
| **backup store** `backup.go` | per VM: wanted bytes, bytes believed on disk; flags; flusher goroutine | `warm`, `load`, `save`, `delete`, `flush`, `close` | pmxcfs directory shared by the cluster |
| **NATS subscriber** `internal/natsconn` | connection | one subscription, and so one delivery goroutine, per subject pattern | `HandleEvent` |
| **webhook server** `internal/webhook` | none | turn a NetBox webhook into a delta or a trigger | run loop |
| **webhook registration** `internal/netbox`, `main.go` | objects in NetBox | get-or-create of a webhook and an event rule, retried | NetBox |
| **NetBox fetch** `internal/netbox` | none | pages of addresses, batches of VMID lookups; the table of mappings, an empty answer, an error | run loop |
| **nftables / FRR managers** | the kernel | replace the ruleset; add, remove and list addresses | kernel |
| **startup and shutdown** `main.go` | none | subscribe, request a snapshot, prime, run; on a signal cancel Run, close backups, withdraw, flush, all under one deadline | all |
| configuration, packaging | read once | | |

What is hard here: handlers of different subjects run at once and NATS loses and reorders messages; the nodes of
a migration learn of it separately; the apply path mixes memory, kernel and files, and its commands fail one by
one; an empty NetBox answer may be knowledge or ignorance; the backup store writes behind its callers' backs;
NetBox is read in many requests while it is edited, and may execute a request whose answer was lost; the process
dies, or is stopped while handlers go on, and finds the kernel and the files as it left them. The properties
that would make each component correct:

- store: an entry can always be expired; newer events win; placement converges whatever was lost; a node that a
  VM has left for good does not keep it active.
- apply: skipping nft is safe; a rule is in place before its address is announced; a mapped VM is not withdrawn
  by failures; addresses of others stay; the kernel converges.
- backups: requests are not lost or reordered, memory tells what the disk holds, close drains.
- run loop: no trigger, delta or change is forgotten; fetches are suppressed only when redundant.
- shutdown: the process ends, and nothing of its own stays announced. Registration: a confirmed one works.
- fetch: it returns what NetBox had, and misses nothing that was there; the cache follows NetBox.

The hazards, each at its line and with the properties that face it, are in `PROJECT.json`.

## 2. Modules

| Module | Models | State and actions against the code |
|---|---|---|
| `VMRecord` | one entry of the store | one operator per method of `store.go` |
| `VMStore` | the store of a node, the handlers that write it, the hypervisor and NATS around it | `vms` is `Store.vms`; `HandleX` are the cases of `HandleEvent`; `start.finished` is two steps (`HandleStartCheck`, `HandleStartSet`), as its `Get` and `SetActive` are two critical sections; `Move`, `Lose`, `Tick` are the environment |
| `Cluster` | the stores of all nodes and one VM that migrates between them | the same handlers, one `entry` per node; `MigrateStart`, `CutOver`, `MigrateFail` publish to source and target separately; `Restart` loses a node's store and its messages. `Seen` instantiates `VMStore` for one node |
| `BackupEntry` | one VM's bytes in memory | the decisions of `enqueue` and `load` |
| `BackupStore` | `backup.go` | one action per critical section, file operation and channel operation; `flusher` is the place in `run`/`flush`, `caller` the place in `enqueue`/`load`, `closer` in `close` |
| `WriteQueue` | abstract: a queue of writes that may coalesce | what the backup store promises of the files; `BackupStore` implements it |
| `BackupRequests` | `BackupStore` plus the value last asked for | for one finding |
| `MappingCache` | the mapping cache as a value | `Rebuilt`, `DeltaToCache`, `Merged` are `rebuildMappingCache`, `applyDeltaToCache` and the merge of `syncBackupFromDelta` |
| `Reconciler` | one node: the apply path with all its sources, failures and restarts | an apply of worker `w` goes `Resolve` (the loop over active VMs), `Plan` (fingerprint, order), `Nft`/`NftFails`, `Record`, `Bgp`/`BgpFails`, `Finish`; `holder` is `reconcileMu`; the store is its set of active VMs, the backup store the entries of `BackupEntry` with atomic flush outcomes |
| `Shutdown` | `Reconciler` with the graceful stop of `main.go` | `stage` is how far `main` is: `Signal`, `Cancelled` (what Run still does with a cancelled context), `BeginDrain`, `DrainEnds` or `DrainExpires`, `FlushRoutes`, `FlushTable`, `Restart`; `flusher` is the goroutine of the backup store with its `LastFlush`; `late` says that `flushCtx` has expired. Handlers go on in every stage (`HandleBeside`) |
| `RunLoop` | `Run`, its channels, the gate, `verifyLater`, and the events that feed them | `trigger`, `deltas`, `ticks` are the channels; `TakeX` and `FetchBegin` the cases of the select; a fetch is `FetchBegin`, `FetchReads` (NetBox answers), `FetchReturns` (the gate is set), `FetchApplied`, or `FetchFails`; the timer is two steps, as its callback clears the flag and then triggers |
| `NetBox` | the fetch, request by request, and the webhooks, from the saved object to the cache | `FetchPage` is one page of `FetchNATMappings`, `FetchBatch` one batch of `fetchProxmoxVMIDs`; `SaveX` and `DeleteX` edit NetBox and render the webhook as `webhookBodyTemplate` does; `TakeWebhook` is `handleWebhook` and the delta. `past`, `steady`, `shrunk` record what NetBox had while the fetch ran |
| `Registration` | `EnsureWebhook` and its retry loop, against NetBox's two objects | one step per request; a request without an answer is `late` and may be executed at any later time, or never |
| `MCReconciler`, `MCShutdown`, `MCNetBox` | instances for TLC | tables, backups, webhooks, the order of rows |
| `*_proofs` | theorems | see section 4 |

`Reconciler` composes `MappingCache` and `BackupEntry` (INSTANCE) and abstracts `VMStore` and `BackupStore` to
what an apply sees of them; `Shutdown` extends it. `Cluster` composes one store per node and each of them
refines `VMStore`. `NetBox` extends `MappingCache`; `Reconciler` takes from it the outcome of a fetch (the
table, nothing, an error), and `RunLoop` takes an apply as one step and a VM's mapping as the version NetBox has
of it.

Abstractions worth knowing.

- `VMStore`: times are numbers and every event has its own; an event without a usable time gets the handler's
  clock in the code and is not modelled apart.
- `Cluster`: the nodes agree on the time; every migration ends with an event (a hypervisor that dies in the
  middle of one publishes none); the terminal events `migrate.synced` to the source and `migrate.failed` are not
  lost: the node is only told once, and its snapshots never mention the VM again. VM-object webhooks, which make
  every node consider a VM, are left out here and present in `VMStore`.
- `BackupStore`: the debounce and the backoff are steps, the batch is written in any order, and a rename is
  atomic.
- `MappingCache`: a VM is its VMID. Its name is looked up in the cache, where it may be shared with another VM
  or stale, so a delta without a VMID may reach a VM it is not about. NetBox renames no VM.
- `Reconciler`: `warm` succeeds, addresses parse, files decode; a mapping is a pair of addresses and a ruleset a
  set of pairs; a failing `nft` may have committed, and so may an `ip` that is killed by its context (5 s in a
  handler, `reconciler.go:349`; a signal in `Run`; `flushCtx` in `main`): `effective` are the addresses among
  the `failed` ones whose command had its effect, a fault of its own (`"kill"`). An expired context kills one
  `ip` and fails all later commands; the model allows several, and later ones that succeed. `killed` remembers
  such addresses until an `ip` succeeds on them or they are adopted. A flush batch is recorded file by file. The
  fallback apply runs without the mutex; its reads and writes of shared Go maps are a data race, and are
  modelled as whole reads and writes of them in any order. A crash keeps kernel and files and some of the
  placement, which a snapshot has announced again.
- `Shutdown`: the signal kills the command under way, before or after its effect (`Killed`), or finds none; a
  killed `nft` abandons the apply, as in the code. Every stop is followed by a start, immediately or much later.
- `RunLoop`: an apply succeeds, a VM that no table mentions may get anything a backup can hold, webhooks come
  when the change is made or never, VM-object webhooks are left out, and the gate's key is read in one step (the
  code reads active and staged VMs one after the other).
- `NetBox`: an internal address has one assignment and an external one at most one NAT (inside); signatures,
  malformed bodies and spellings of a model are left out; the VMs of the run share one name. NetBox itself is
  external: pages are offsets into a listing whose order is fixed.
- `Registration`: `url` stands for all compared fields of a webhook but its secret, and `complete` for the
  object and event types of a rule; a name is unique in NetBox.

## 3. What TLC checks

| Run | Module, config | Shows | Bounds |
|---|---|---|---|
| `store` | `VMStore.cfg` | `StagedIffStamped`, `RegressOnlyOverSnapshot`, `PlacementConverges` with any loss and reordering, and webhooks | 1 VM (the store treats VMs independently), TTL 2, the world acts until time 5, clock stops at 7: several migrations in a row, events delivered after newer ones, and an expiry after every one of them |
| `cluster` | `Cluster.cfg` | `StaleCleared`, `OneHost`, `ImplementsStore` with late and reordered events, lost snapshots and restarts of nodes | 2 nodes, TTL 2, clock until 5, 1 snapshot in flight before that: there and back again with a failed migration, a stop or a start between |
| `backup` | `BackupStore.cfg` | `QuietLoadIsDisk`, `DrainedMeansWritten`, `FlusherComes`, `EventuallyWritten`, `CloseReturns`, `ImplementsWriteQueue` | 2 VMs in a batch, contents or removal, 1 failing operation, 1 crash, 1 closer, a scan that fails or not |
| `apply` | `Reconciler.cfg` | `FingerprintTrue`, `RecordedProgrammed`, `AnnouncedTrue`, `RulesBeforeAdvertise`, `Converges` | 2 VMs, 2 public addresses, one of which moves between them; 1 handler beside Run; 7 webhooks, one with a VMID and the name of the other VM; 1 failure, a killed `ip` among them; 3 changes |
| `outage` | `ReconcilerOutage.cfg` | `KeepsServing`, `RulesConverge` | the same VMs, 2 failures of NetBox (error or empty), pmxcfs, nft, ip (no effect, or killed after it), or the process; 3 changes; no handler, no webhook, so that failed fetches race nobody |
| `shutdown` | `Shutdown.cfg` | `ForeignUntouched`, `OwnAddressesKnown`, `CleanStop`, `RulesConverge`, `Stops` | the same VMs and the table in which both addresses are of one of them (tables that change are in `apply` and `outage`); 2 faults, each an empty answer (a failing fetch is in `outage`), a failing file, nft or ip, an ip killed after its effect, a crash, a signal, with or without a killed command, or a drain that hangs; 2 changes; 1 handler, whose migration arrives while the process stops |
| `run_loop` | `RunLoop.cfg` | `Verified`, `Heeded`, `Settles`, `GateRetries` | 1 VM, channel of 1 delta (the second overflows it), 2 changes in NetBox, 2 of placement, 1 failed fetch, warm or cold start |
| `registration` | `Registration.cfg` | `ConfirmedWired`, `EventuallyConfirmed` | 2 urls and secrets, 2 lost answers, 2 edits by an operator, 1 restart with other settings |
| `netbox` | `NetBox.cfg` | `FetchSound`, `FetchComplete`, `CacheAccurate` | 2 VMs of one name, one whose VMID is nested in its addresses and one to be looked up, 2 external and 2 internal addresses, pages and batches of 1, 2 saved objects, 1 failing request or lost webhook |
| `backup_requests`, `fallback`, `empty_then_webhook` | | the findings below | the smallest instance that shows each |

Two VMs and one contested address are enough for the apply properties: an apply treats VMs alike and couples
them only through shared addresses, "is the table empty", and the one fingerprint. In `run_loop` one VM is
enough because deltas and fetches treat VMs independently and the gate only compares sets; two changes give a
delta that is refused, or older or newer than the fetch it meets (longer queues are covered by the proof of
`Heeded`, which holds for every capacity). Two failures are the shortest history in which one failure hides
another (an empty answer prunes what a failed fetch then needs, a failed command meets a restart, a drain hangs
after the signal); a stop is counted as one of them. `MaxChanges` bounds changes of NetBox and placement and
webhooks together. Pages and batches of one make every fetch a sequence of requests between which NetBox is
edited; the proofs cover every size. In `cluster` two nodes are both ends of every migration; a third one would
be a bystander until it takes the place of one of them, and the proof covers any number. Deadlock is not
checked: the bounded worlds stop.

Fairness.

- Store and cluster: clock, sweep and snapshots are a ticker and a periodic publisher (`main.go` and the event
  bus); snapshots are at most once, so the arrival of a current one is only strongly fair: infinitely many
  arrive if infinitely many are sent. In `Cluster` a terminal event arrives in the end.
- `BackupStore`: goroutines that can run do run and timers fire; nobody is obliged to save or to close, and the
  context of a close is not needed to make it return.
- `Reconciler`, `Shutdown`: the ticker keeps `Run` fetching, a handler that began ends, the flusher runs, and
  `main` proceeds. `BeginDrain` is strongly fair: with `ctx.Done` ready, a select that is entered again and
  again chooses it at some time, although triggers may win for a while.
- `RunLoop`: a case of the select that is ready again and again is chosen (Go chooses at random), fetches end by
  their timeout and snapshot batches keep completing; the ticker is only an assumption of `Settles`, so that
  `GateRetries` shows what happens without it.
- `NetBox`: ticks keep fetching; a queued delta is taken at some time although fetches come between (strong, for
  the same reason). `Registration`: the retry loop goes on until it succeeds.

No change, event, webhook, signal or failure is fair.

### Findings

1. `backup_requests`: a request made while another value of the same VM is being written is compared with the
   value before that write and may be dropped as already on disk (`backup.go:280-282`): remapping a VM back
   while its removal is written loses its backup.
2. `fallback`: the apply after a failed fetch does not hold `reconcileMu` (`reconciler.go:670`), which guards
   the fingerprint (`reconciler.go:106-108`); the fingerprint can then vouch for rules the kernel does not hold.
   For the same reason `KeepsServing`, `RecordedProgrammed` and `RulesBeforeAdvertise` are checked for workers
   that do not race it. A stop brings the same race without any failure of NetBox: a `Run` whose context is
   cancelled falls back beside the handlers. With one VM and five changes (more than `shutdown` has)
   `KeepsServing` fails in `Shutdown`, and is no property of that run: `load` does not see a backup that is just
   being written, and the fallback records as last applied what it took for a VM that a handler's apply decides
   otherwise.
3. `empty_then_webhook`: one empty answer of NetBox is survived by every apply but a webhook's, which believes
   the emptied cache for every VM (`reconciler.go:801-805`).

Seen while modelling, and not the subject of a run: the staged marker is there so that a local `start.finished`
cannot activate the VM (`store.go:18-19`), but the handler checks it and activates in two critical sections
(`reconciler.go:612`, `620`; `VMStore` and `Cluster` have both steps). The repository's `README.md:78` offers
configuring a VM by a file alone; the first successful fetch serves it once and deletes it
(`reconciler.go:821-828`). The gate is meant to open when the VMs the node holds rules for change
(`reconciler.go:412`, `432`), but its key counts staged VMs too (`reconciler.go:434`): a snapshot that finds a
staged VM running does not trigger. The quick start of the repository's `README.md:36-38` ends with setting the
NAT (inside) of the external address; the webhook of that object names no VM, so it is queued, counts as handled
and changes nothing (`reconciler.go:1156-1158`): the mapping comes with the next full fetch, which is what
`CacheAccurate` shows. A webhook that carries only a name goes to the VMID the cache has under it
(`reconciler.go:1111`, `1154`): of two VMs with one name, the one seen last gets the other's mapping until the
next fetch. And a migration that is handled while the process stops puts back what the stop removes, since
handlers are not unsubscribed first (`main.go:164`): `CleanStop` therefore speaks of undisturbed stops; after
the deletion of the table the fingerprint is still in force (`reconciler.go:884-889`), so the handler may
announce an address without its rule until the process ends.

Three limits of what the code can promise appear in the properties themselves.

- An `ip` killed by its context may have changed the interface although it failed, and `advertisedIPs` is then
  wrong (`reconciler.go:1245-1263`). "Periodic reconcile will retry" (`reconciler.go:927`) repairs that only as
  long as the next apply wants what the killed command wanted. If a VM comes back meanwhile, its address counts
  as announced and is not added; if it left meanwhile, an address that was added is known to nobody and stays,
  also after a stop, until a later process adopts it. `AnnouncedTrue`, `OwnAddressesKnown`, `CleanStop`,
  `RulesConverge` and `Converges` except exactly these addresses (`killed`).
- Retention does not outlive a process but through the files. A process that dies before it has written the
  backup of what it serves, and whose successor gets no answer to its first fetch, loses the VM: the successor
  has no mapping of it but, if `Prime`'s fetch succeeded, the cached address, so it adopts the address as
  managed and withdraws it (`reconciler.go:670`, `835`, `1240-1266`). The same goes for a file that could not be
  written. `KeepsServing` therefore protects what *this* process served (`lastApplied`) and what it *found* in
  the files (`stored`).
- `verifyLater` does not see its fetch to the end: one that fails confirms nothing and is not repeated before
  the next tick, event or snapshot (`reconciler.go:662-670`). `Verified` claims a coming fetch for a cutover
  until a fetch that began after it has returned, and nothing once that fetch has failed.

## 4. What is proved

TLAPS proves these for all values of the constants; TLC checks the properties among them on the instances above.

- **`VMStore_proofs`**: `TypeCorrect`, `StampCorrect`, `EventTimeOrder`; `LifecycleOrder`, `LifecycleRepeated`,
  `SnapshotOrder`; `SnapshotCorrects`, `PlacementStays`. The inductive invariant `IInv` is typing plus "stamped
  iff staged" of every entry; each operator of `VMRecord` is shown once to make a *good step* (typing, stamp and
  order of event times), and every action is such a step for one VM or none. The next three say which disorder
  of NATS is harmless: two lifecycle events of different times, the same one twice, two snapshots of a VM that
  is not staged. What is left, a snapshot among lifecycle events, is what `PlacementConverges` is about, and of
  that property the last step and what follows it are proved. `SnapshotCorrects`: a snapshot as old as the
  clock, the one its fairness speaks of, brings the entry into step once no lifecycle event of the VM is on its
  way, unless the entry is staged and the VM does not run, which the sweep has to end first. `PlacementStays`:
  an entry in step stays so while its VM rests. *In step* (`InStep`) says of each message ahead that it is true,
  or a snapshot that the entry has overtaken; agreement alone does not last, since an old start event may
  follow. `Timely`, that no time is ahead of the clock and that a snapshot is true until the clock moves, is
  what makes a current snapshot the newest. Assumed: `StoreAssumption`, the ranges of the bounds.
- **`Cluster_proofs`**: `TypeCorrect`, `LeftForGood` (`StaleCleared`), `NodeIsStore` (`ImplementsStore`), and
  with it `NodeStamped`, `NodeTimeOrder` and `NodeStays`, which are theorems of `VMStore_proofs` at any node of
  the cluster. `StaleCleared` says nothing of a node the VM has not left, or that has yet to hear of it, so
  `IInv` puts every node without the VM in one of three classes: *leaving* (a terminal event, newer than all
  that is ahead, is on its way), *left* (absent, with a last event no older than anything ahead), or *unheard*.
  `Timed` bounds every time by the clock, which makes each new event the newest. Assumed: terminal events are
  not lost (`ClusterAssumption`). `NodeIsStore` needs only typing and that what is migrated is running: seen
  from the observing node, every step of the cluster is a step of its store, of its hypervisor or of the
  network, a tick, or nothing; it maps messages one to one (`Stored`).
- **`BackupStore_proofs`**: `TypeCorrect`, `CloseCorrect`, `MemoryCorrect`, `FlusherAttends` (`FlusherComes`),
  `QueueImplemented` (`ImplementsWriteQueue`). `DrainedMeansWritten` is not inductive: `IInv` adds where the
  flusher may be when the store has been closed or never started, that a drained closer stays drained because
  nothing is accepted after `closed`, and what `outcome`, `batch` and `failed` say of each other.
  `MemoryCorrect` adds `Truthful`: the value in `cache` is the one on disk except for a written entry whose
  outcome is not yet recorded. It assumes that `warm` reads all files it lists: otherwise the property is false.
  `FlusherAttends` is the safety part of `EventuallyWritten` and `CloseReturns`, which fairness is not needed
  for: nobody waits for a flusher that sleeps or does not exist. `Attended` adds that the flusher of a store in
  use is there or about to be started, that one of the closers of such a store stops it, and that a failed write
  is remembered until the flusher has nudged itself. `QueueImplemented` reads each VM's queue off the unwritten
  entry of `batch` and the one of `pending`; `IInv` rules out the states in which an entry would be written
  twice or drop out unwritten.
- **`Reconciler_proofs`**: `TypeCorrect`, `ForeignCorrect`, `FingerprintCorrect`, `RecordCorrect`
  (`RecordedProgrammed`), `AdvertiseCorrect`, `AnnouncedCorrect`, `RetainedServed` (`KeepsServing`);
  `OneFetchSettles`, `SettledStays`; `MemoryCorrect`. `FingerprintCorrect`, `RecordCorrect` and
  `AdvertiseCorrect` assume `NoOverlap`: there are no handlers, or no fetch fails outright, for the fallback
  apply is the one that runs without the mutex. `ForeignCorrect` and `AnnouncedCorrect` need no such assumption,
  nor do `SettledStays` and `MemoryCorrect`. `AnnouncedCorrect` holds for failed commands in any combination;
  what it excepts, `killed`, is what the code has no way to know. The invariant `LInv` behind the three says
  that only the holder of the mutex is in an apply (`Locked`), and ties the plan of an apply to the kernel
  (`Ordered`): an apply about to change addresses has its rules in place or adds nothing. `FingerprintTrue`
  alone is not inductive, since a second worker between `nft` and `Record` would break it. `RetainedServed`
  assumes `OnlyTruth`: no webhooks (with them the property is false: `empty_then_webhook`), first backups that
  lack nothing NetBox has had mapped all along, and applies that do not overlap, because there are no handlers
  or because no fetch fails outright. `SInv` says that everything remembered of a VM, in memory, in the queue or
  on disk, is empty or contains what it has always had, that what an apply starts from is an answer of NetBox,
  that a job already resolved takes nothing of that from what was last applied, and, for the first apply after a
  restart (`StillKnown`), that what the process found in a file is not applied without (`Unread`) until it has
  been read and is remembered from then on: only a failed write ends that, and then `stored` no longer claims
  it.

  `OneFetchSettles` and `SettledStays` are what `RulesConverge` and `Converges` owe to the code rather than to
  fairness. A node is *settled* (`Settled`) when kernel and records are as NetBox and placement ask, cache and
  backups of the VMs here hold what NetBox says or nothing, and every apply under way starts from one of the two
  or ends in the target. While nothing changes and the process lives, failures keep it settled, overlapping
  applies included: each source an apply may fall back on has the same to say. `OneFetchSettles` assumes
  `NoOverlap` and says how a node gets there: once Loop holds the mutex with NetBox's present table, `Underway`
  follows its apply, which nobody disturbs, to `Caught`, whatever fingerprint, record, addresses or backups it
  met. Without further conditions the end is `Reached`: rules and announced addresses are the target's, and the
  interface differs from them by killed addresses only. If none is left when the fetch is applied, the interface
  is exact too. It needs every VM here to be mapped or to have no backup left (`Answerable`), because a
  believable answer without a VM serves its backup once more (`reconciler.go:821-828`), and that nothing fails
  or changes meanwhile. `MemoryCorrect` says that what `load` answers of a VM with nothing queued or in a batch
  is what is in its file.
- **`Shutdown_proofs`**: `StopTypeCorrect`, `OwnAddresses`, `AnnouncedThroughStops`, `StopsClean`,
  `ForeignThroughStops`, `MemoryThroughStops`, without any assumption about fetches; `ServedThroughStops`
  (`KeepsServing`), which assumes `OnlyTruth` and that there are no handlers, because a cancelled `Run` falls
  back without the mutex (finding 2): TLC checks the property without a stop (`outage`), and the theorem shows
  that every action of a stop keeps the `SInv` of `RetainedServed` as well. A lemma says that each action of
  `Reconciler` either leaves addresses and rules alone or keeps every address known; `KInv` adds to
  `OwnAddressesKnown` what a stop has achieved in each stage unless something failed or disturbed it.
  Withdrawing the addresses the process knows is enough only because no failure makes it forget one, except an
  `ip` killed after it added one: the signal itself can be what kills it, and then an undisturbed stop whose
  commands all succeed leaves that address behind.
- **`RunLoop_proofs`**: `TypeCorrect`, `VerifiedCorrect`, `HeededCorrect`, `GateHonest`, `StaysRight`.
  `Verified` is inductive. `Heeded` is not: `HInv` adds that NetBox is never behind an accepted delta, that a
  queued delta is followed by the newest of its VM (`Followed`), and that the table of a fetch on its way to the
  cache knows what was accepted too. Lemmas about a queue say what appending and taking a delta do to that.
  `GateHonest` is the safety part of `GateRetries`: the gate is open whenever the VMs here are not those of the
  last fetch. `StaysRight` is the end of `Settles`: with NetBox and the VMs at rest and no fetch failing, a
  fetch under way leaves what is wanted when it is applied, and after that so does everything else. Assumed:
  `RunLoopAssumption`, the ranges of the bounds.
- **`Registration_proofs`**: `TypeCorrect`, `RegistrationWorks` (`ConfirmedWired`). `IInv` follows the attempt:
  once the webhook is written it stays the one that was seen (`HookKept`), although late requests of earlier
  attempts are executed meanwhile; those of the same configuration can only repeat what is there.
- **`NetBox_proofs`**: `TypeCorrect`, `FetchesTrue` (`FetchSound`), `FetchesComplete` (`FetchComplete`). The
  first follows from "what was collected, and what is to be resolved, has been in NetBox since the fetch began".
  The second counts: a mapping that was there all the time and whose row is not beyond the offset has been
  collected or is pending. A row that joins the listing moves later rows away from the offset, never across it
  into what was read; only a row that leaves does that, which is why the property needs `shrunk`. Together they
  give `FetchExact`: a fetch begun after NetBox has come to rest returns its table, and with it `CacheStays`:
  once the last webhook is taken, the fetch under way makes the cache accurate for good. The others are about
  deltas. Nothing in a delta keeps it to the VM it is about: without a VMID it goes where the cache's
  `vmIDByName` sends its name, which may be stale or shared. `DeltasApart` is therefore an invariant matter: it
  needs that the cache has a VM under no other name than its own (`NamesOwn`) and that a VMID always comes with
  its name (`HooksHonest`), which fetches, losses and reorderings keep as long as NetBox renames no VM; then a
  webhook reaches no VM of another name. `DeltasCommute` is about any two deltas and any cache in which nothing
  is overlooked: their order matters only if they carry one name or are attributed to one VM. `DeltaRepeated`,
  `NamesReleased` (no mapping waits under a name whose VMID is known) and `MergedOnce` (a backup keeps one
  mapping for a public address) complete them. The first four rest on `DeltaForm`, which gives each part of the
  cache after a delta in closed form (`After`), the cases of `applyDeltaToCache` side by side.

Only model-checked: liveness (`PlacementConverges`, `OneHost`, `EventuallyWritten`, `CloseReturns`, `Converges`,
`RulesConverge`, `Stops`, `Settles`, `GateRetries`, `EventuallyConfirmed`, `CacheAccurate`), which needs
fairness and `ENABLED`. Every safety property of a passing run is a theorem. Of the properties of the form "at
last and for good", what does not need fairness is proved for all constants: that it stays (`PlacementStays`,
`NodeStays`, `SettledStays`, `StaysRight`, `CacheStays`), and which step brings it about (`SnapshotCorrects`,
`OneFetchSettles`, `StaysRight`, `CacheStays`); that this step is taken at last is left to TLC.
`OneFetchSettles` covers a fetch that meets no failure, and VMs whose backups are gone or not needed; the grace
cycle before that is left to TLC as well.

## 5. Not modelled, and what is left

Not modelled: configuration and cluster membership (read once at startup), packaging and scripts, HTTP and JSON
shapes, TLS, the text of rulesets, latency logging. Of the NATS subscriber only its delivery is modelled:
connecting and reconnecting are the library's. See `PROJECT.json` for each component.

Done: `VMRecord`, `VMStore`, `Cluster`, `BackupEntry`, `BackupStore`, `WriteQueue`, `MappingCache`,
`Reconciler`, `Shutdown`, `RunLoop`, `NetBox`, `Registration` and their theorems. Left:

1. Two backup stores over one directory, of which neither sees what the other writes after its scan.
2. VM-object webhooks in `Cluster`, which activate a VM on every node until snapshots correct it.
