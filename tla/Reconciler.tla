----------------------------- MODULE Reconciler -----------------------------
(***************************************************************************)
(* The reconciler of one node (internal/reconciler/reconciler.go): every   *)
(* source of work ends in applyMappings, which decides what each active VM *)
(* gets, programs nftables and the loopback interface, and queues backups. *)
(*                                                                         *)
(* Workers are the Run goroutine (Loop, which also runs Prime) and the     *)
(* goroutine delivering migration events (Handlers).  An apply is split at *)
(* every command it executes.  All of them hold reconcileMu but one: the   *)
(* fallback after a failed NetBox fetch.                                   *)
(*                                                                         *)
(* The placement store is reduced to its set of active VMs (see VMStore)   *)
(* and the backup store, after a successful warm, to its memory and the    *)
(* outcome of its flushes (see BackupStore).  NetBox, nft, ip and pmxcfs   *)
(* are external: a command takes effect or fails.  A failing nft may have  *)
(* committed, and so may an ip that is killed when its context expires.    *)
(***************************************************************************)
EXTENDS MappingCache, Naturals

CONSTANTS
  Loop, Handlers,
  None, Unknown,   \* no entry; nothing known
  Tables,          \* the tables NetBox may hold
  Deltas,          \* the webhook deltas that may arrive
  Foreign,         \* loopback addresses of others
  Stored,          \* the backups the process may find at first
  Faults,          \* kinds of failure to expect
  MaxFaults,       \* bound: failures
  MaxChanges       \* bound: changes of NetBox, of placement, and webhooks

Workers == {Loop} \cup Handlers

ASSUME ReconcilerAssumption ==
  /\ Loop \notin Handlers
  /\ None \notin Workers
  /\ \A pairs \in SUBSET Pair : pairs # None /\ pairs # Unknown
  /\ Tables \subseteq Table /\ EmptyTable \notin Tables
  /\ Stored \subseteq Table
  /\ Deltas \subseteq Delta
  /\ Foreign \cap External = {}
  /\ MaxFaults \in Nat /\ MaxChanges \in Nat

VARIABLES
  netbox,       \* NetBox's table
  active,       \* store.GetActive
  cache,        \* the mapping cache
  lastKey,      \* lastRulesetKey, Unknown while rulesetKeyValid is false
  lastApplied,  \* lastAppliedByVMID
  advertised, kernelSynced,
  rules,        \* kernel: the DNAT rules
  lo,           \* kernel: the loopback interface's /32s
  holder,       \* reconcileMu
  work,         \* what each worker is doing
  pending, batch, cached, disk,   \* the backup store
  changes, faults,
  \* history:
  killed,       \* addresses an ip changed although it failed; none has succeeded since
  stored        \* the backups this process found, but for those it failed to write

store == <<pending, batch, cached, disk, stored>>
apply == <<cache, lastKey, lastApplied, advertised, kernelSynced, rules, lo, killed>>
vars == <<netbox, active, apply, holder, work, store, changes, faults>>

Entry == INSTANCE BackupEntry WITH Data <- SUBSET Pair \ {{}}, Nil <- {}

Sources == {"fetch", "fallback", "delta", "cached"}

\* source, table, nothing: what an apply starts from (nothing: it has no mapping
\* at all); saw: the VMs it took as active; applied: what each gets; same:
\* rulesetUnchanged; first: advertiseFirst.
Job ==
  [pc: {"boot", "prime", "seed", "idle", "lock", "resolve", "plan", "nft", "record", "bgp", "finish"},
   source: Sources, table: Table, nothing: BOOLEAN, saw: SUBSET VMs, applied: Table,
   same: BOOLEAN, first: BOOLEAN, managed: SUBSET External]

At(pc, source, table, nothing) ==
  [pc |-> pc, source |-> source, table |-> table, nothing |-> nothing, saw |-> {},
   applied |-> EmptyTable, same |-> FALSE, first |-> FALSE, managed |-> {}]
Idle == At("idle", "fetch", EmptyTable, FALSE)
Booting == At("boot", "fetch", EmptyTable, FALSE)
Boot == [w \in Workers |-> IF w = Loop THEN Booting ELSE Idle]

TypeOK ==
  /\ netbox \in Tables
  /\ active \in SUBSET VMs
  /\ cache \in Cache
  /\ lastKey \in {Unknown} \cup SUBSET Pair
  /\ lastApplied \in Table
  /\ advertised \in SUBSET External
  /\ kernelSynced \in BOOLEAN
  /\ rules \in SUBSET Pair
  /\ lo \in SUBSET (External \cup Foreign)
  /\ holder \in Workers \cup {None}
  /\ work \in [Workers -> Job]
  /\ pending \in [VMs -> {None} \cup SUBSET Pair]
  /\ batch \in [VMs -> {None} \cup SUBSET Pair]
  /\ cached \in [VMs -> {Unknown} \cup SUBSET Pair]
  /\ disk \in Table /\ stored \in Table
  /\ killed \in SUBSET External
  /\ changes \in Nat /\ faults \in Nat

NoEntries == [v \in VMs |-> None]
NothingKnown == [v \in VMs |-> Unknown]

Init ==
  /\ netbox \in Tables
  /\ active = {}
  /\ cache = ColdCache /\ lastKey = Unknown /\ lastApplied = EmptyTable
  /\ advertised = {} /\ kernelSynced = FALSE
  /\ rules = {} /\ lo = Foreign
  /\ holder = None
  /\ work = Boot
  /\ pending = NoEntries /\ batch = NoEntries /\ cached = NothingKnown
  /\ disk \in Stored /\ stored = disk
  /\ killed = {}
  /\ changes = 0 /\ faults = 0

Fault(kind) == kind \in Faults /\ faults < MaxFaults /\ faults' = faults + 1
Change == changes < MaxChanges /\ changes' = changes + 1

-----------------------------------------------------------------------------
(* The backup store *)

\* backup.load
Load(v) == Entry!LoadedFrom(pending[v], cached[v], TRUE, {})

\* backup.all: what is stored of every VM that is known.
AllStored == [v \in VMs |-> IF cached[v] = Unknown THEN {} ELSE Load(v)]

\* backup.save of d, or backup.delete if d is empty: the pending entry it leaves
Queued(v, d) == Entry!Enqueued(pending[v], cached[v], d)

TakeBatch ==
  /\ batch = NoEntries /\ pending # NoEntries
  /\ batch' = pending
  /\ pending' = NoEntries
  /\ UNCHANGED <<netbox, active, apply, holder, work, cached, disk, stored, changes, faults>>

Persist(v) ==
  /\ batch[v] # None
  /\ batch' = [batch EXCEPT ![v] = None]
  /\ disk' = [disk EXCEPT ![v] = batch[v]]
  /\ cached' = [cached EXCEPT ![v] = batch[v]]
  /\ UNCHANGED <<netbox, active, apply, holder, work, pending, stored, changes, faults>>

PersistFails(v) ==
  /\ batch[v] # None
  /\ Fault("disk")
  /\ batch' = [batch EXCEPT ![v] = None]
  /\ cached' = [cached EXCEPT ![v] = Unknown]
  /\ pending' = [pending EXCEPT ![v] = IF @ = None THEN batch[v] ELSE @]
  /\ stored' = [stored EXCEPT ![v] = {}]
  /\ UNCHANGED <<netbox, active, apply, holder, work, disk, changes>>

-----------------------------------------------------------------------------
(* Apply: applyMappingsTimed *)

Become(w, job) == work' = [work EXCEPT ![w] = job]

\* The apply returns; a worker that holds the mutex releases it.
Done(w) == Become(w, Idle) /\ holder' = IF holder = w THEN None ELSE holder

\* authoritative: may an empty result for one VM be believed?
Believable(job) ==
  job.source # "fallback" /\ (job.source = "delta" \/ ~job.nothing \/ active = {})

\* A VM the table does not resolve is served from its backup or, where the
\* table cannot be believed, at last with what was applied before.
Served(job, v) ==
  IF v \notin active THEN {}
  ELSE IF job.table[v] # {} THEN job.table[v]
  ELSE IF job.source = "delta" THEN {}
  ELSE IF Load(v) # {} THEN Load(v)
  ELSE IF Believable(job) THEN {} ELSE lastApplied[v]

\* Mutant of Prunes: only a webhook prunes.
PrunesOnDelta(job, v) == job.table[v] = {} /\ job.source = "delta"

\* A believable answer without the VM prunes the backup that serves it.
Prunes(job, v) ==
  /\ job.table[v] = {}
  /\ job.source = "delta" \/ (Believable(job) /\ Load(v) # {})

\* The loop over activeVMs.
Resolve(w) ==
  LET job == work[w] IN
  /\ job.pc = "resolve"
  /\ pending' = [v \in VMs |->
       IF v \in active /\ (job.table[v] # {} \/ Prunes(job, v))
       THEN Queued(v, job.table[v]) ELSE pending[v]]
  /\ Become(w, [At("plan", job.source, EmptyTable, FALSE) EXCEPT
       !.saw = active, !.applied = [v \in VMs |-> Served(job, v)]])
  /\ UNCHANGED <<netbox, active, apply, holder, batch, cached, disk, stored, changes, faults>>

\* Mutant of ManagedIPs: whatever is on the interface counts as managed.
ManageAll == CachedAddresses(cache) \cup Addresses(AllStored) \cup lo

\* managedIPs
ManagedIPs == CachedAddresses(cache) \cup Addresses(AllStored)

\* Mutant of Plan: addresses always go up before the rules.
PlanEager(w) ==
  /\ work[w].pc = "plan"
  /\ Become(w, [work[w] EXCEPT
       !.pc = "bgp", !.first = TRUE, !.same = lastKey = Rules(work[w].applied),
       !.managed = IF kernelSynced THEN {} ELSE ManagedIPs])
  /\ UNCHANGED <<netbox, active, apply, holder, store, changes, faults>>

\* The order of the two halves: rules first, unless they are already in place
\* or no address is being added.
Plan(w) ==
  LET want == work[w].applied
      same == lastKey = Rules(want)
      first == same \/ Addresses(want) \subseteq advertised
  IN /\ work[w].pc = "plan"
     /\ Become(w, [work[w] EXCEPT
          !.pc = IF first THEN "bgp" ELSE "nft", !.first = first, !.same = same,
          !.managed = IF kernelSynced THEN {} ELSE ManagedIPs])
     /\ UNCHANGED <<netbox, active, apply, holder, store, changes, faults>>

\* nft -f
Nft(w) ==
  /\ work[w].pc = "nft"
  /\ rules' = Rules(work[w].applied)
  /\ Become(w, [work[w] EXCEPT !.pc = "record"])
  /\ UNCHANGED <<netbox, active, cache, lastKey, lastApplied, advertised, kernelSynced, lo,
                 killed, holder, store, changes, faults>>

\* Mutant of NftFails: the fingerprint survives a failed nft.
NftFailsQuietly(w) ==
  /\ work[w].pc = "nft"
  /\ Fault("nft")
  /\ rules' \in {rules, Rules(work[w].applied)}
  /\ Done(w)
  /\ UNCHANGED <<netbox, active, cache, lastKey, lastApplied, advertised, kernelSynced, lo,
                 killed, store, changes>>

\* A failing nft abandons the apply; what the kernel now holds is unknown.
NftAbandoned(w) ==
  /\ work[w].pc = "nft"
  /\ rules' \in {rules, Rules(work[w].applied)}
  /\ lastKey' = Unknown
  /\ Done(w)
  /\ UNCHANGED <<netbox, active, cache, lastApplied, advertised, kernelSynced, lo, killed, store,
                 changes>>

NftFails(w) == Fault("nft") /\ NftAbandoned(w)

Record(w) ==
  /\ work[w].pc = "record"
  /\ lastKey' = Rules(work[w].applied)
  /\ Become(w, [work[w] EXCEPT !.pc = IF work[w].first THEN "finish" ELSE "bgp"])
  /\ UNCHANGED <<netbox, active, cache, lastApplied, advertised, kernelSynced, rules, lo, killed,
                 holder, store, changes, faults>>

\* Mutant of Converge: adoption does not look at managed.
ConvergeAdoptingAll(w, adopt, failed, effective) ==
  LET want    == Addresses(work[w].applied)
      adopted == IF adopt THEN lo ELSE {}
      known   == advertised \cup adopted
      adds    == want \ known
      drops   == known \ want
      undone  == failed \ effective
  IN /\ failed \subseteq adds \cup drops /\ effective \subseteq failed
     /\ kernelSynced' = (kernelSynced \/ adopt)
     /\ advertised' = (known \cup (adds \ failed)) \ (drops \ failed)
     /\ lo' = (lo \cup (adds \ undone)) \ (drops \ undone)
     /\ killed' = (killed \ (adopted \cup ((adds \cup drops) \ failed))) \cup effective
     /\ Become(w, [work[w] EXCEPT !.pc =
          IF work[w].first /\ ~work[w].same THEN "nft" ELSE "finish"])
     /\ UNCHANGED <<netbox, active, cache, lastKey, lastApplied, rules, holder, store, changes>>

\* Mutant of Converge: an address counts as changed although the command failed.
ConvergeHopefully(w, adopt, failed, effective) ==
  LET want    == Addresses(work[w].applied)
      adopted == IF adopt THEN lo \cap work[w].managed ELSE {}
      known   == advertised \cup adopted
      adds    == want \ known
      drops   == known \ want
      undone  == failed \ effective
  IN /\ failed \subseteq adds \cup drops /\ effective \subseteq failed
     /\ kernelSynced' = (kernelSynced \/ adopt)
     /\ advertised' = want
     /\ lo' = (lo \cup (adds \ undone)) \ (drops \ undone)
     /\ killed' = (killed \ (adopted \cup ((adds \cup drops) \ failed))) \cup effective
     /\ Become(w, [work[w] EXCEPT !.pc =
          IF work[w].first /\ ~work[w].same THEN "nft" ELSE "finish"])
     /\ UNCHANGED <<netbox, active, cache, lastKey, lastApplied, rules, holder, store, changes>>

\* reconcileBGP, atomic under advMu: adopt what an earlier process left, once; then
\* add and remove addresses.  Those in failed do not change or, if the ip was killed
\* after its effect (its context had expired), change without the process knowing.
Converge(w, adopt, failed, effective) ==
  LET want    == Addresses(work[w].applied)
      adopted == IF adopt THEN lo \cap work[w].managed ELSE {}
      known   == advertised \cup adopted
      adds    == want \ known
      drops   == known \ want
      undone  == failed \ effective
  IN /\ failed \subseteq adds \cup drops /\ effective \subseteq failed
     /\ kernelSynced' = (kernelSynced \/ adopt)
     /\ advertised' = (known \cup (adds \ failed)) \ (drops \ failed)
     /\ lo' = (lo \cup (adds \ undone)) \ (drops \ undone)
     /\ killed' = (killed \ (adopted \cup ((adds \cup drops) \ failed))) \cup effective
     /\ Become(w, [work[w] EXCEPT !.pc =
          IF work[w].first /\ ~work[w].same THEN "nft" ELSE "finish"])
     /\ UNCHANGED <<netbox, active, cache, lastKey, lastApplied, rules, holder, store, changes>>

AdoptionDue(w) == ~kernelSynced /\ work[w].managed # {}

Bgp(w) ==
  /\ work[w].pc = "bgp"
  /\ Converge(w, AdoptionDue(w), {}, {})
  /\ UNCHANGED faults

\* The interface cannot be listed, or some ip fail or are killed.
BgpFails(w, listed, failed, effective) ==
  /\ work[w].pc = "bgp"
  /\ Fault(IF effective = {} THEN "bgp" ELSE "kill")
  /\ failed # {} \/ (AdoptionDue(w) /\ ~listed)
  /\ Converge(w, AdoptionDue(w) /\ listed, failed, effective)

\* Mutant of Finish: what was applied is merged into the record.
FinishMerging(w) ==
  /\ work[w].pc = "finish"
  /\ lastApplied' = [v \in VMs |-> lastApplied[v] \cup work[w].applied[v]]
  /\ Done(w)
  /\ UNCHANGED <<netbox, active, cache, lastKey, advertised, kernelSynced, rules, lo, killed, store,
                 changes, faults>>

Finish(w) ==
  /\ work[w].pc = "finish"
  /\ lastApplied' = work[w].applied
  /\ Done(w)
  /\ UNCHANGED <<netbox, active, cache, lastKey, advertised, kernelSynced, rules, lo, killed, store,
                 changes, faults>>

-----------------------------------------------------------------------------
(* Where applies come from *)

\* NetBox's answer: its table, or no mapping at all with HTTP 200.
Answer(table) ==
  \/ table = netbox /\ UNCHANGED faults
  \/ table = EmptyTable /\ Fault("empty")

\* Mutant of PrimeWarm: the files are not read.
PrimeCold ==
  /\ work[Loop].pc = "boot"
  /\ Become(Loop, [Booting EXCEPT !.pc = "prime"])
  /\ UNCHANGED <<netbox, active, apply, holder, store, changes, faults>>

\* Prime: warm, ...
PrimeWarm ==
  /\ work[Loop].pc = "boot"
  /\ cached' = [v \in VMs |-> IF disk[v] = {} THEN Unknown ELSE disk[v]]
  /\ Become(Loop, [Booting EXCEPT !.pc = "prime"])
  /\ UNCHANGED <<netbox, active, apply, holder, pending, batch, disk, stored, changes, faults>>

\* ... fetch, ...
PrimeFetch(table) ==
  /\ work[Loop].pc = "prime"
  /\ Answer(table)
  /\ Become(Loop, [Booting EXCEPT !.pc = "seed", !.table = table])
  /\ UNCHANGED <<netbox, active, apply, holder, store, changes>>

\* ... or fall back to the backups, if there are any, ...
PrimeUnanswered ==
  /\ work[Loop].pc = "prime"
  /\ Become(Loop, IF AllStored = EmptyTable THEN Idle
                  ELSE [Booting EXCEPT !.pc = "seed", !.table = AllStored])
  /\ UNCHANGED <<netbox, active, apply, holder, store, changes>>

PrimeFetchFails == Fault("fetch") /\ PrimeUnanswered

\* ... and seed the cache.
PrimeSeed ==
  /\ work[Loop].pc = "seed" /\ holder = None
  /\ cache' = Rebuilt(work[Loop].table)
  /\ Become(Loop, Idle)
  /\ UNCHANGED <<netbox, active, lastKey, lastApplied, advertised, kernelSynced, rules, lo,
                 killed, holder, store, changes, faults>>

\* reconcile, once a tick, a trigger or a webhook has made Run call it: the
\* fetch holds no lock.
Fetch(table) ==
  /\ work[Loop].pc = "idle"
  /\ Answer(table)
  /\ Become(Loop, At("lock", "fetch", table, table = EmptyTable))
  /\ UNCHANGED <<netbox, active, apply, holder, store, changes>>

\* Without an answer it applies what it can at once, without the mutex.
FetchUnanswered ==
  /\ work[Loop].pc = "idle"
  /\ Become(Loop, At("resolve", "fallback", EmptyTable, TRUE))
  /\ UNCHANGED <<netbox, active, apply, holder, store, changes>>

FetchFails == Fault("fetch") /\ FetchUnanswered

LockFetched ==
  /\ work[Loop].pc = "lock" /\ holder = None
  /\ holder' = Loop
  /\ cache' = Rebuilt(work[Loop].table)
  /\ Become(Loop, [work[Loop] EXCEPT !.pc = "resolve"])
  /\ UNCHANGED <<netbox, active, lastKey, lastApplied, advertised, kernelSynced, rules, lo,
                 killed, store, changes, faults>>

\* applyDeltaToState: a virtualmachine webhook with VMID and name decides
\* whether the VM is active here.
DeltaToState(d) ==
  IF ~(d.model = "virtualmachine" /\ d.id # NoVM /\ d.name # NoName) THEN active
  ELSE IF d.deleted THEN active \ {d.id} ELSE active \cup {d.id}

\* syncBackupFromDelta, with the cache c and active VMs a the delta left
DeltaToBackup(d, c, a) ==
  LET v == Attributed(c, d)
      merged == Merged(Load(v), d)
  IN IF v # NoVM /\
          \/ d.model = "virtualmachine" /\ d.deleted
          \/ d.model = "ipaddress" /\ d.internal # NoAddress /\ v \in a
               /\ (merged # {} \/ Load(v) # {})
     THEN [pending EXCEPT ![v] = Queued(v, IF d.model = "ipaddress" THEN merged ELSE {})]
     ELSE pending

\* reconcileFromWebhookDelta
TakeDelta(d) ==
  LET c == DeltaToCache(Opened(cache), d) IN
  /\ work[Loop].pc = "idle" /\ holder = None
  /\ Change
  /\ holder' = Loop
  /\ active' = DeltaToState(d)
  /\ cache' = c
  /\ pending' = DeltaToBackup(d, c, DeltaToState(d))
  /\ Become(Loop, At("resolve", "delta", c.byID, NothingCached(c)))
  /\ UNCHANGED <<netbox, lastKey, lastApplied, advertised, kernelSynced, rules, lo, killed,
                 batch, cached, disk, stored, faults>>

Toggled(v) == IF v \in active THEN active \ {v} ELSE active \cup {v}

\* The cases of HandleEvent about migrations: the store changes, unless the
\* event is stale or tells nothing new, then ...
MigrationEvent(h, v) ==
  /\ work[h].pc = "idle"
  /\ Change
  /\ active' \in {active, Toggled(v)}
  /\ Become(h, At("lock", "cached", EmptyTable, FALSE))
  /\ UNCHANGED <<netbox, apply, holder, store, faults>>

\* ... applyCachedImmediately; with a cold cache it leaves the work to Run.
LockCached(h) ==
  /\ work[h].pc = "lock" /\ holder = None
  /\ IF cache.ready
     THEN /\ holder' = h
          /\ Become(h, At("resolve", "cached", cache.byID, NothingCached(cache)))
     ELSE Become(h, Idle) /\ UNCHANGED holder
  /\ UNCHANGED <<netbox, active, apply, store, changes, faults>>

\* The other cases of HandleEvent only change the store, and trigger Run.
PlacementEvent(v) ==
  /\ Change
  /\ active' = Toggled(v)
  /\ UNCHANGED <<netbox, apply, holder, work, store, faults>>

NetBoxChanges(table) ==
  /\ Change
  /\ netbox' = table
  /\ UNCHANGED <<active, apply, holder, work, store, faults>>

\* A new process: memory is lost.
Reborn ==
  /\ cache' = ColdCache /\ lastKey' = Unknown /\ lastApplied' = EmptyTable
  /\ advertised' = {} /\ kernelSynced' = FALSE
  /\ holder' = None /\ killed' = {}
  /\ work' = Boot
  /\ pending' = NoEntries /\ batch' = NoEntries /\ cached' = NothingKnown
  /\ stored' = disk

\* The process dies and starts again: kernel and files stay, and of the VMs
\* active here some have been announced again by a snapshot.
Crash ==
  /\ Fault("crash")
  /\ active' \in SUBSET active
  /\ Reborn
  /\ UNCHANGED <<netbox, rules, lo, disk, changes>>

Apply(w) ==
  \/ Resolve(w)
  \/ Plan(w)
  \/ Nft(w)
  \/ NftFails(w)
  \/ Record(w)
  \/ Bgp(w)
  \/ \E listed \in BOOLEAN, failed \in SUBSET External, effective \in SUBSET External :
       BgpFails(w, listed, failed, effective)
  \/ Finish(w)

Run ==
  \/ PrimeWarm
  \/ \E table \in Tables \cup {EmptyTable} : PrimeFetch(table) \/ Fetch(table)
  \/ PrimeFetchFails
  \/ PrimeSeed
  \/ FetchFails
  \/ LockFetched
  \/ Apply(Loop)

Handle(h) == LockCached(h) \/ Apply(h)

Flush == TakeBatch \/ \E v \in VMs : Persist(v) \/ PersistFails(v)

Next ==
  \/ Run
  \/ \E d \in Deltas : TakeDelta(d)
  \/ \E h \in Handlers : Handle(h) \/ \E v \in VMs : MigrationEvent(h, v)
  \/ Flush
  \/ \E v \in VMs : PlacementEvent(v)
  \/ \E table \in Tables : NetBoxChanges(table)
  \/ Crash

Spec == Init /\ [][Next]_vars

\* The ticker keeps Run going, a handler that began ends, and the flusher runs.
Fairness ==
  /\ WF_vars(Run)
  /\ \A h \in Handlers : WF_vars(Handle(h))
  /\ WF_vars(Flush)

FairSpec == Spec /\ Fairness
-----------------------------------------------------------------------------
(* Properties *)

\* A fingerprint in force describes the rules the kernel holds: skipping nft on
\* an unchanged fingerprint (reconciler.go:106-108, 896) never leaves other rules
\* in place.  Between nft and the recording of its fingerprint the mutex keeps
\* other applies away.
FingerprintTrue ==
  (\A w \in Workers : work[w].pc # "record") => lastKey \in {Unknown, rules}

\* Between applies the record of what was programmed, which retention serves from
\* (reconciler.go:113-117, 946-948), is what the kernel holds, unless the last nft
\* failed: also after an apply that skipped nft, withdrew first, or gave up halfway.
Applying(w) == work[w].pc \in {"resolve", "plan", "nft", "record", "bgp", "finish"}

RecordedProgrammed ==
  (\A w \in Workers : ~Applying(w)) /\ lastKey # Unknown => rules = Rules(lastApplied)

\* An address the process takes for announced is on the interface, whichever of its
\* commands failed (reconciler.go:1245-1263, 1300): it would not be added again.  The
\* exception is an address whose removal failed after its effect, the ip having been
\* killed (frr/manager.go:56): as long as it is wanted again it is missing.
AnnouncedTrue == advertised \subseteq lo \cup killed

\* No address is put on the interface before a rule translates it
\* (reconciler.go:884-889), whatever order an apply chose and whichever commands
\* failed in earlier ones.
RulesBeforeAdvertise ==
  [][lo' \ lo \subseteq Externals(rules)]_vars

\* The loopback interface is shared: addresses put there by others are never
\* withdrawn (reconciler.go:1280-1284), across restarts and adoptions.
ForeignUntouched == Foreign \subseteq lo

\* The addresses NetBox has mapped to v all along.
AlwaysMapped(v) == {a \in External : \A table \in Tables : a \in Externals(table[v])}

\* As long as NetBox keeps an address mapped to a VM that stays active here, an
\* address that the last apply served, or that the process found in the VM's backup
\* when it started, is not withdrawn by an apply: not after failed or empty fetches,
\* failed commands, or failed writes of other backups (reconciler.go:774-789).  A
\* restart in between takes what was served but not yet written; what is left of
\* it on the interface is withdrawn if the first fetch then fails.
KeepsServing ==
  [][\A v \in VMs, w \in Workers :
       work[w].pc = "bgp" /\ work'[w].pc # "bgp" /\ v \in work[w].saw \cap active =>
         (lo \ lo') \cap Externals(lastApplied[v] \cup stored[v]) \cap AlwaysMapped(v) = {}]_vars

\* What NetBox and placement ask of this node.
Target == [v \in VMs |-> IF v \in active THEN netbox[v] ELSE {}]

\* Once changes and failures stop, the kernel gets to what they ask for and
\* stays there, however the fast path, full fetches, retained state and backups
\* interleaved before: the rules exactly, and every address announced, but one whose
\* removal was killed after its effect and that is wanted again.
RulesConverge == <>[](rules = Rules(Target) /\ Addresses(Target) \subseteq lo \cup killed)

\* As long as the process survives, nothing else stays announced either, but an
\* address whose addition was killed after its effect and that is wanted no more.
Converges ==
  <>[]LET wanted == Foreign \cup Addresses(Target) IN
      rules = Rules(Target) /\ (lo \ wanted) \cup (wanted \ lo) \subseteq killed
=============================================================================
