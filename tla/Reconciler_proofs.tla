-------------------------- MODULE Reconciler_proofs --------------------------
(***************************************************************************)
(* Proofs about the reconciler, for any VMs, addresses, NetBox tables,     *)
(* webhooks, handlers and numbers of failures and changes: its type        *)
(* invariant, and that what it takes for announced is on the interface,    *)
(* but for addresses whose ip was killed after its effect; where applies   *)
(* do not overlap, that the ruleset fingerprint and the record of what was *)
(* programmed are true and that no address is announced before its rule;   *)
(* and, where webhooks do not intervene either, that what is served, or was*)
(* found in a backup, and has been mapped all along stays announced.       *)
(*                                                                         *)
(* The last parts are about a node at rest: what has settled stays,        *)
(* whatever fails; one undisturbed fetch is enough to settle; and what is  *)
(* remembered of a backup is what is on disk.                              *)
(***************************************************************************)
EXTENDS Reconciler, TLAPS

-----------------------------------------------------------------------------
(* What the operators return *)

LEMMA EmptyTyped == EmptyTable \in Table
  BY DEF EmptyTable, Table

\* The rules of a table are pairs, and its addresses external ones.
LEMMA RulesTyped ==
  ASSUME NEW t \in Table
  PROVE  Rules(t) \in SUBSET Pair /\ Addresses(t) \in SUBSET External
<1>1. Rules(t) \in SUBSET Pair
  BY DEF Rules, Table
<1>2. QED BY <1>1 DEF Addresses, Externals, Pair

\* backup.load answers with mappings, whatever is queued or known.
LEMMA LoadTyped ==
  ASSUME TypeOK, NEW v \in VMs
  PROVE  Load(v) \in SUBSET Pair
  BY DEF TypeOK, Load, Entry!LoadedFrom, Entry!InMemory

\* backup.save leaves an entry of mappings, or none.
LEMMA QueuedTyped ==
  ASSUME TypeOK, NEW v \in VMs, NEW d \in SUBSET Pair
  PROVE  Queued(v, d) \in {None} \cup SUBSET Pair
  BY DEF TypeOK, Queued, Entry!Enqueued

LEMMA AllStoredTyped == TypeOK => AllStored \in Table
  BY LoadTyped DEF AllStored, Table

LEMMA RebuiltTyped == ASSUME NEW t \in Table PROVE Rebuilt(t) \in Cache
<1> DEFINE its(n) == IF Named(t, n) = {} THEN NoVM ELSE CHOOSE v \in Named(t, n) : TRUE
<1>1. \A n : its(n) \in VMs \cup {NoVM}
  BY DEF Named
<1> HIDE DEF its
<1>2. [n \in Names |-> its(n)] \in [Names -> VMs \cup {NoVM}]
  BY <1>1
<1>3. Rebuilt(t) = [ready |-> TRUE, byID |-> t, byName |-> NothingWaits,
                    ids |-> [n \in Names |-> its(n)]]
  BY DEF Rebuilt, its
<1>4. NothingWaits \in [Names -> SUBSET Pair]
  BY DEF NothingWaits
<1>5. QED BY <1>2, <1>3, <1>4 DEF Cache

\* The mapping cache keeps its shape under every webhook delta.
LEMMA ResolvedTyped ==
  ASSUME NEW c \in Cache, NEW d \in Delta
  PROVE  NameResolved(c, d) \in Cache
<1>1. CASE d.id # NoVM /\ d.name # NoName
  <2>1. d.id \in VMs /\ d.name \in Names
    BY <1>1 DEF Delta
  <2> DEFINE byID == [c.byID EXCEPT ![d.id] =
                        IF c.byName[d.name] # {} THEN c.byName[d.name] ELSE c.byID[d.id]]
             byName == [c.byName EXCEPT ![d.name] = {}]
             known == [c.ids EXCEPT ![d.name] = d.id]
  <2>2. byID \in Table /\ byName \in [Names -> SUBSET Pair] /\ known \in [Names -> VMs \cup {NoVM}]
    BY <2>1 DEF Cache, Table
  <2>3. NameResolved(c, d) = [ready |-> c.ready, byID |-> byID, byName |-> byName, ids |-> known]
    BY <1>1, <2>1 DEF NameResolved, Cache
  <2> HIDE DEF byID, byName, known
  <2>4. QED BY <2>2, <2>3 DEF Cache
<1>2. CASE ~(d.id # NoVM /\ d.name # NoName)
  BY <1>2 DEF NameResolved
<1>3. QED BY <1>1, <1>2

LEMMA AttributedTyped ==
  ASSUME NEW c \in Cache, NEW d \in Delta
  PROVE  Attributed(c, d) \in VMs \cup {NoVM}
  BY DEF Attributed, Delta, Cache

LEMMA DeltaTyped ==
  ASSUME NEW c0 \in Cache, NEW d \in Delta
  PROVE  DeltaToCache(c0, d) \in Cache
<1> DEFINE c == NameResolved(c0, d)
           v == Attributed(c, d)
           pairs == DeltaPairs(d)
<1>1. c \in Cache
  BY ResolvedTyped
<1>2. pairs \in SUBSET Pair
  BY DEF DeltaPairs, Delta, Pair
<1> HIDE DEF c, pairs
<1>3. v \in VMs \cup {NoVM}
  BY <1>1, AttributedTyped
<1>4. d.name \in Names \cup {NoName}
  BY DEF Delta
<1> HIDE DEF v
<1>5. VMGone(c, v, d.name) \in Cache
  BY <1>1 DEF VMGone, WithoutVM, Cache, Table
<1>6. AddressGone(c, v, d.name) \in Cache
  BY <1>1 DEF AddressGone, WithoutVM, WithoutName, Cache, Table
<1>7. ASSUME ~(v = NoVM /\ d.name = NoName) PROVE AddressSet(c, v, d.name, pairs) \in Cache
  <2>1. CASE v # NoVM
    <3>1. v \in VMs
      BY <1>3, <2>1
    <3>2. [c.byID EXCEPT ![v] = pairs] \in Table
      BY <1>1, <1>2, <3>1 DEF Cache, Table
    <3>3. [m \in Names |-> IF m = d.name THEN v ELSE c.ids[m]] \in [Names -> VMs \cup {NoVM}]
      BY <1>1, <3>1 DEF Cache
    <3>4. QED BY <1>1, <2>1, <3>2, <3>3 DEF AddressSet, Cache
  <2>2. CASE v = NoVM
    <3>1. [c.byName EXCEPT ![d.name] = pairs] \in [Names -> SUBSET Pair]
      BY <1>1, <1>2, <1>4, <1>7, <2>2 DEF Cache
    <3>2. QED BY <1>1, <2>2, <3>1 DEF AddressSet, Cache
  <2>3. QED BY <2>1, <2>2
<1>8. QED BY <1>1, <1>5, <1>6, <1>7 DEF DeltaToCache, c, v, pairs

LEMMA ColdTyped == ColdCache \in Cache
  BY EmptyTyped DEF ColdCache, NothingWaits, Cache

\* A worker's record, freshly started.
LEMMA AtTyped ==
  ASSUME NEW pc \in {"boot", "prime", "seed", "idle", "lock", "resolve"},
         NEW source \in Sources, NEW t \in Table, NEW b \in BOOLEAN
  PROVE  At(pc, source, t, b) \in Job
  BY EmptyTyped DEF At, Job

LEMMA IdleTyped == Idle \in Job /\ Booting \in Job /\ Boot \in [Workers -> Job]
  BY AtTyped, EmptyTyped DEF Idle, Booting, Boot, Sources

\* A worker's record after a step keeps its type, and so does the mutex.
LEMMA BecomeTyped ==
  ASSUME TypeOK, NEW w \in Workers, NEW job \in Job, Become(w, job)
  PROVE  work' \in [Workers -> Job]
  BY DEF TypeOK, Become

LEMMA DoneTyped ==
  ASSUME TypeOK, NEW w \in Workers, Done(w)
  PROVE  work' \in [Workers -> Job] /\ holder' \in Workers \cup {None}
  BY IdleTyped, BecomeTyped DEF TypeOK, Done

LEMMA ManagedTyped == TypeOK => ManagedIPs \in SUBSET External
<1> SUFFICES ASSUME TypeOK PROVE ManagedIPs \in SUBSET External
  OBVIOUS
<1>1. Addresses(cache.byID) \in SUBSET External /\ Addresses(AllStored) \in SUBSET External
  BY AllStoredTyped, RulesTyped DEF TypeOK, Cache
<1>2. Externals(UNION {cache.byName[n] : n \in Names}) \in SUBSET External
  BY DEF TypeOK, Cache, Externals, Pair
<1>3. QED BY <1>1, <1>2 DEF ManagedIPs, CachedAddresses

-----------------------------------------------------------------------------
(* Types *)

LEMMA InitType == Init => TypeOK
<1> SUFFICES ASSUME Init PROVE TypeOK
  OBVIOUS
<1>1. cache \in Cache /\ lastApplied \in Table /\ netbox \in Tables /\ disk \in Table
  BY EmptyTyped, ColdTyped, ReconcilerAssumption DEF Init
<1>2. pending \in [VMs -> {None} \cup SUBSET Pair] /\ batch \in [VMs -> {None} \cup SUBSET Pair]
  BY DEF Init, NoEntries
<1>3. cached \in [VMs -> {Unknown} \cup SUBSET Pair]
  BY DEF Init, NothingKnown
<1>4. work \in [Workers -> Job]
  BY IdleTyped DEF Init
<1>5. QED BY <1>1, <1>2, <1>3, <1>4 DEF Init, TypeOK

\* reconcileBGP keeps the types, whichever commands fail.
LEMMA ConvergeType ==
  ASSUME TypeOK, NEW w \in Workers, NEW adopt \in BOOLEAN, NEW failed \in SUBSET External,
         NEW effective \in SUBSET External, Converge(w, adopt, failed, effective), faults' \in Nat
  PROVE  TypeOK'
<1> USE DEF TypeOK
<1> DEFINE job == work[w]
<1>1. job \in Job /\ Addresses(job.applied) \in SUBSET External
  BY RulesTyped DEF Job
<1>2. [job EXCEPT !.pc = IF job.first /\ ~job.same THEN "nft" ELSE "finish"] \in Job
  BY <1>1 DEF Job
<1>3. work' \in [Workers -> Job]
  BY <1>2, BecomeTyped DEF Converge
<1>4. kernelSynced' \in BOOLEAN
  BY DEF Converge
<1>5. /\ advertised' \in SUBSET External /\ lo' \in SUBSET (External \cup Foreign)
      /\ killed' \in SUBSET External
  BY <1>1 DEF Converge, Job
<1>6. QED BY <1>3, <1>4, <1>5 DEF Converge, store

\* Every command of an apply keeps the types.
LEMMA ApplyType ==
  ASSUME TypeOK, NEW w \in Workers, Apply(w)
  PROVE  TypeOK'
<1> USE DEF TypeOK
<1> DEFINE job == work[w]
<1>0. job \in Job /\ Rules(job.applied) \in SUBSET Pair /\ Addresses(job.applied) \in SUBSET External
  BY RulesTyped DEF Job
<1>1. CASE Resolve(w)
  <2>1. pending' \in [VMs -> {None} \cup SUBSET Pair]
    BY <1>0, <1>1, QueuedTyped DEF Resolve, Job, Table
  <2>2. ASSUME NEW v \in VMs PROVE Served(job, v) \in SUBSET Pair
    BY <1>0, LoadTyped DEF Served, Job, Table
  <2>3. [v \in VMs |-> Served(job, v)] \in Table
    BY <2>2 DEF Table
  <2>4. [At("plan", job.source, EmptyTable, FALSE) EXCEPT
           !.saw = active, !.applied = [v \in VMs |-> Served(job, v)]] \in Job
    BY <1>0, <2>3, EmptyTyped DEF At, Job
  <2>5. work' \in [Workers -> Job]
    BY <1>1, <2>4, BecomeTyped DEF Resolve
  <2>6. QED BY <1>1, <2>1, <2>5 DEF Resolve, apply
<1>2. CASE Plan(w)
  <2> DEFINE same == lastKey = Rules(job.applied)
             first == same \/ Addresses(job.applied) \subseteq advertised
             managed == IF kernelSynced THEN {} ELSE ManagedIPs
  <2>1. same \in BOOLEAN /\ first \in BOOLEAN /\ managed \in SUBSET External
    BY ManagedTyped
  <2>2. Become(w, [job EXCEPT !.pc = IF first THEN "bgp" ELSE "nft", !.first = first,
                              !.same = same, !.managed = managed])
    BY <1>2 DEF Plan
  <2> HIDE DEF same, first, managed
  <2>3. [job EXCEPT !.pc = IF first THEN "bgp" ELSE "nft", !.first = first,
                    !.same = same, !.managed = managed] \in Job
    BY <1>0, <2>1 DEF Job
  <2>4. work' \in [Workers -> Job]
    BY <2>2, <2>3, BecomeTyped
  <2>5. QED BY <1>2, <2>4 DEF Plan, apply, store
<1>3. CASE Nft(w)
  <2>1. [job EXCEPT !.pc = "record"] \in Job
    BY <1>0 DEF Job
  <2>2. work' \in [Workers -> Job]
    BY <1>3, <2>1, BecomeTyped DEF Nft
  <2>3. QED BY <1>0, <1>3, <2>2 DEF Nft, store
<1>4. CASE NftFails(w)
  <2>1. work' \in [Workers -> Job] /\ holder' \in Workers \cup {None}
    BY <1>4, DoneTyped DEF NftFails, NftAbandoned
  <2>2. QED BY <1>0, <1>4, <2>1 DEF NftFails, NftAbandoned, store, Fault
<1>5. CASE Record(w)
  <2>1. [job EXCEPT !.pc = IF job.first THEN "finish" ELSE "bgp"] \in Job
    BY <1>0 DEF Job
  <2>2. work' \in [Workers -> Job]
    BY <1>5, <2>1, BecomeTyped DEF Record
  <2>3. QED BY <1>0, <1>5, <2>2 DEF Record, store
<1>6. CASE Bgp(w)
  <2> DEFINE adopt == AdoptionDue(w)
  <2>1. adopt \in BOOLEAN
    BY DEF AdoptionDue
  <2>2. Converge(w, adopt, {}, {}) /\ faults' \in Nat
    BY <1>6 DEF Bgp
  <2> HIDE DEF adopt
  <2>3. {} \in SUBSET External
    OBVIOUS
  <2>4. QED BY <2>1, <2>2, <2>3, ConvergeType
<1>7. ASSUME NEW listed \in BOOLEAN, NEW failed \in SUBSET External,
             NEW effective \in SUBSET External, BgpFails(w, listed, failed, effective)
      PROVE  TypeOK'
  <2> DEFINE adopt == AdoptionDue(w) /\ listed
  <2>1. adopt \in BOOLEAN
    BY DEF AdoptionDue
  <2>2. Converge(w, adopt, failed, effective) /\ faults' \in Nat
    BY <1>7 DEF BgpFails, Fault
  <2> HIDE DEF adopt
  <2>3. QED BY <2>1, <2>2, ConvergeType
<1>8. CASE Finish(w)
  <2>1. work' \in [Workers -> Job] /\ holder' \in Workers \cup {None}
    BY <1>8, DoneTyped DEF Finish
  <2>2. QED BY <1>0, <1>8, <2>1 DEF Finish, store, Job
<1>9. QED BY <1>1, <1>2, <1>3, <1>4, <1>5, <1>6, <1>7, <1>8 DEF Apply

\* Every other step keeps the types.
LEMMA RunType ==
  ASSUME TypeOK, Run
  PROVE  TypeOK'
<1> USE DEF TypeOK
<1> DEFINE job == work[Loop]
<1>0. Loop \in Workers /\ job \in Job /\ job.table \in Table
  BY DEF Workers, Job
<1>1. CASE PrimeWarm
  <2>1. cached' \in [VMs -> {Unknown} \cup SUBSET Pair]
    BY <1>1 DEF PrimeWarm, Table
  <2>2. [Booting EXCEPT !.pc = "prime"] \in Job
    BY IdleTyped DEF Job
  <2>3. work' \in [Workers -> Job]
    BY <1>0, <1>1, <2>2, BecomeTyped DEF PrimeWarm
  <2>4. QED BY <1>1, <2>1, <2>3 DEF PrimeWarm, apply
<1>2. ASSUME NEW table \in Tables \cup {EmptyTable}, PrimeFetch(table) \/ Fetch(table)
      PROVE  TypeOK'
  <2>1. table \in Table
    BY EmptyTyped, ReconcilerAssumption
  <2>2. faults' \in Nat
    BY <1>2 DEF PrimeFetch, Fetch, Answer, Fault
  <2>3. [Booting EXCEPT !.pc = "seed", !.table = table] \in Job
    BY <2>1, IdleTyped DEF Job
  <2>4. At("lock", "fetch", table, table = EmptyTable) \in Job
    <3> DEFINE none == table = EmptyTable
    <3>1. none \in BOOLEAN
      OBVIOUS
    <3> HIDE DEF none
    <3>2. At("lock", "fetch", table, none) \in Job
      BY <2>1, <3>1, AtTyped DEF Sources
    <3>3. QED BY <3>2 DEF none
  <2>5. CASE PrimeFetch(table)
    <3>1. work' \in [Workers -> Job]
      BY <1>0, <2>3, <2>5, BecomeTyped DEF PrimeFetch
    <3>2. QED BY <2>2, <2>5, <3>1 DEF PrimeFetch, apply, store
  <2>6. CASE Fetch(table)
    <3>1. work' \in [Workers -> Job]
      BY <1>0, <2>4, <2>6, BecomeTyped DEF Fetch
    <3>2. QED BY <2>2, <2>6, <3>1 DEF Fetch, apply, store
  <2>7. QED BY <1>2, <2>5, <2>6
<1>3. CASE PrimeFetchFails
  <2>1. [Booting EXCEPT !.pc = "seed", !.table = AllStored] \in Job
    BY AllStoredTyped, IdleTyped DEF Job
  <2>2. work' \in [Workers -> Job]
    BY <1>0, <1>3, <2>1, BecomeTyped, IdleTyped DEF PrimeFetchFails, PrimeUnanswered
  <2>3. QED BY <1>3, <2>2 DEF PrimeFetchFails, PrimeUnanswered, Fault, apply, store
<1>4. CASE PrimeSeed
  <2>1. work' \in [Workers -> Job]
    BY <1>0, <1>4, BecomeTyped, IdleTyped DEF PrimeSeed
  <2>2. QED BY <1>0, <1>4, <2>1, RebuiltTyped DEF PrimeSeed, store
<1>5. CASE FetchFails
  <2>1. work' \in [Workers -> Job]
    BY <1>0, <1>5, BecomeTyped, AtTyped, EmptyTyped DEF FetchFails, FetchUnanswered, Sources
  <2>2. QED BY <1>5, <2>1 DEF FetchFails, FetchUnanswered, Fault, apply, store
<1>6. CASE LockFetched
  <2>1. [job EXCEPT !.pc = "resolve"] \in Job
    BY <1>0 DEF Job
  <2>2. work' \in [Workers -> Job]
    BY <1>0, <1>6, <2>1, BecomeTyped DEF LockFetched
  <2>3. QED BY <1>0, <1>6, <2>2, RebuiltTyped DEF LockFetched, store
<1>7. CASE Apply(Loop)
  BY <1>0, <1>7, ApplyType
<1>8. QED BY <1>1, <1>2, <1>3, <1>4, <1>5, <1>6, <1>7 DEF Run

\* A delta queues mappings for the backup of one VM at most.
LEMMA DeltaQueues ==
  ASSUME TypeOK, NEW c \in Cache, NEW d \in Delta, NEW a
  PROVE  \/ DeltaToBackup(d, c, a) = pending
         \/ \E v \in VMs, q \in SUBSET Pair :
              DeltaToBackup(d, c, a) = [pending EXCEPT ![v] = Queued(v, q)]
<1> DEFINE v == Attributed(c, d)
           q == IF d.model = "ipaddress" THEN Merged(Load(v), d) ELSE {}
<1>1. CASE v = NoVM
  BY <1>1 DEF DeltaToBackup
<1>2. CASE v # NoVM
  <2>1. v \in VMs
    BY <1>2, AttributedTyped
  <2>2. q \in SUBSET Pair
    <3>1. DeltaPairs(d) \in SUBSET Pair
      BY DEF DeltaPairs, Delta, Pair
    <3>2. QED BY <2>1, <3>1, LoadTyped DEF Merged
  <2>3. DeltaToBackup(d, c, a) \in {pending, [pending EXCEPT ![v] = Queued(v, q)]}
    BY DEF DeltaToBackup
  <2> HIDE DEF v, q
  <2>4. QED BY <2>1, <2>2, <2>3
<1>3. QED BY <1>1, <1>2

\* Taking a webhook delta keeps the types.
LEMMA TakeDeltaType ==
  ASSUME TypeOK, NEW d \in Deltas, TakeDelta(d)
  PROVE  TypeOK'
<1> DEFINE c == DeltaToCache(Opened(cache), d)
           none == NothingCached(c)
<1> USE DEF TypeOK
<1>1. d \in Delta
  BY ReconcilerAssumption
<1>2. c \in Cache
  <2>1. Opened(cache) \in Cache
    BY DEF Opened, Cache
  <2>2. QED BY <1>1, <2>1, DeltaTyped
<1>3. active' \in SUBSET VMs
  BY <1>1 DEF TakeDelta, DeltaToState, Delta
<1>4. pending' \in [VMs -> {None} \cup SUBSET Pair]
  <2>1. pending' = pending \/ \E v \in VMs, q \in SUBSET Pair :
                                pending' = [pending EXCEPT ![v] = Queued(v, q)]
    BY <1>1, <1>2, DeltaQueues DEF TakeDelta
  <2>2. QED BY <2>1, QueuedTyped
<1>5. work' \in [Workers -> Job]
  <2>1. none \in BOOLEAN /\ c.byID \in Table /\ Loop \in Workers
    BY <1>2 DEF NothingCached, Cache, Workers
  <2>2. Become(Loop, At("resolve", "delta", c.byID, none))
    BY DEF TakeDelta
  <2> HIDE DEF none, c
  <2>3. At("resolve", "delta", c.byID, none) \in Job
    BY <2>1, AtTyped DEF Sources
  <2>4. QED BY <2>1, <2>2, <2>3, BecomeTyped
<1>6. QED BY <1>2, <1>3, <1>4, <1>5 DEF TakeDelta, Change, Workers

\* The migration handler's own steps keep the types.
LEMMA HandleType ==
  ASSUME TypeOK, NEW h \in Handlers, Handle(h) \/ \E v \in VMs : MigrationEvent(h, v)
  PROVE  TypeOK'
<1> USE DEF TypeOK
<1>0. h \in Workers
  BY DEF Workers
<1>1. CASE LockCached(h)
  <2> DEFINE none == NothingCached(cache)
  <2>1. none \in BOOLEAN /\ cache.byID \in Table
    BY DEF NothingCached, Cache
  <2>2. \/ Become(h, At("resolve", "cached", cache.byID, none)) /\ holder' = h
        \/ Become(h, Idle) /\ holder' = holder
    BY <1>1 DEF LockCached
  <2> HIDE DEF none
  <2>3. At("resolve", "cached", cache.byID, none) \in Job
    BY <2>1, AtTyped DEF Sources
  <2>4. work' \in [Workers -> Job]
    BY <1>0, <2>2, <2>3, BecomeTyped, IdleTyped
  <2>5. QED BY <1>0, <1>1, <2>2, <2>4 DEF LockCached, apply, store
<1>2. CASE Apply(h)
  BY <1>0, <1>2, ApplyType
<1>3. ASSUME NEW v \in VMs, MigrationEvent(h, v)
      PROVE  TypeOK'
  <2>1. work' \in [Workers -> Job]
    BY <1>0, <1>3, BecomeTyped, AtTyped, EmptyTyped DEF MigrationEvent, Sources
  <2>2. QED BY <1>3, <2>1 DEF MigrationEvent, Change, Toggled, apply, store
<1>4. QED BY <1>1, <1>2, <1>3 DEF Handle

LEMMA NextType == TypeOK /\ [Next]_vars => TypeOK'
<1> SUFFICES ASSUME TypeOK, [Next]_vars PROVE TypeOK'
  OBVIOUS
<1> USE DEF TypeOK
<1>1. CASE Run
  BY <1>1, RunType
<1>2. ASSUME NEW d \in Deltas, TakeDelta(d) PROVE TypeOK'
  BY <1>2, TakeDeltaType
<1>3. ASSUME NEW h \in Handlers, Handle(h) \/ \E v \in VMs : MigrationEvent(h, v)
      PROVE  TypeOK'
  BY <1>3, HandleType
<1>4. CASE TakeBatch
  BY <1>4 DEF TakeBatch, NoEntries, apply
<1>5. ASSUME NEW v \in VMs, Persist(v) PROVE TypeOK'
  BY <1>5 DEF Persist, Table, apply
<1>6. ASSUME NEW v \in VMs, PersistFails(v) PROVE TypeOK'
  BY <1>6 DEF PersistFails, Fault, Table, apply
<1>7. ASSUME NEW v \in VMs, PlacementEvent(v) PROVE TypeOK'
  BY <1>7 DEF PlacementEvent, Toggled, Change, apply, store
<1>8. ASSUME NEW table \in Tables, NetBoxChanges(table) PROVE TypeOK'
  BY <1>8 DEF NetBoxChanges, Change, apply, store
<1>9. CASE Crash
  <2>1. cache' \in Cache /\ lastApplied' \in Table
    BY <1>9, EmptyTyped, ColdTyped DEF Crash, Reborn
  <2>2. /\ pending' \in [VMs -> {None} \cup SUBSET Pair]
        /\ batch' \in [VMs -> {None} \cup SUBSET Pair]
        /\ cached' \in [VMs -> {Unknown} \cup SUBSET Pair]
    BY <1>9 DEF Crash, Reborn, NoEntries, NothingKnown
  <2>3. work' \in [Workers -> Job] /\ holder' \in Workers \cup {None}
    BY <1>9, IdleTyped DEF Crash, Reborn
  <2>4. active' \in SUBSET VMs /\ faults' \in Nat
    BY <1>9 DEF Crash, Reborn, Fault
  <2>5. QED BY <1>9, <2>1, <2>2, <2>3, <2>4 DEF Crash, Reborn
<1>10. CASE UNCHANGED vars
  BY <1>10 DEF vars, apply, store
<1>11. QED BY <1>1, <1>2, <1>3, <1>4, <1>5, <1>6, <1>7, <1>8, <1>9, <1>10 DEF Next, Flush

\* Every variable keeps its type, whatever fails and however applies, webhooks
\* and flushes interleave.
THEOREM TypeCorrect == Spec => []TypeOK
  BY InitType, NextType, PTL DEF Spec
-----------------------------------------------------------------------------
(* The loopback interface *)

LEMMA PCs ==
  /\ Idle.pc = "idle" /\ Booting.pc = "boot"
  /\ \A pc, source, t, b : At(pc, source, t, b).pc = pc
  /\ Loop \in Workers /\ Handlers \subseteq Workers
  BY DEF Idle, Booting, At, Workers

\* A step in which the process does not die
Alive ==
  \/ Run
  \/ \E d \in Deltas : TakeDelta(d)
  \/ \E h \in Handlers : Handle(h) \/ \E v \in VMs : MigrationEvent(h, v)
  \/ Flush
  \/ \E v \in VMs : PlacementEvent(v)
  \/ \E table \in Tables : NetBoxChanges(table)
  \/ UNCHANGED vars

\* While it lives the interface, and what the process knows of it, change only
\* where reconcileBGP runs.
Kept == UNCHANGED <<lo, advertised, killed>>

LEMMA OnlyConvergeChanges ==
  ASSUME Alive, ~Kept
  PROVE  \E w \in Workers, adopt \in BOOLEAN, failed, effective \in SUBSET External :
           /\ work[w].pc = "bgp" /\ Converge(w, adopt, failed, effective)
           /\ effective # {} => Fault("kill")
<1>1. ASSUME NEW w \in Workers, Apply(w)
      PROVE  Kept \/ \E adopt \in BOOLEAN, failed, effective \in SUBSET External :
                        /\ work[w].pc = "bgp" /\ Converge(w, adopt, failed, effective)
                        /\ effective # {} => Fault("kill")
  <2>1. CASE Bgp(w)
    <3>1. AdoptionDue(w) \in BOOLEAN
      BY DEF AdoptionDue
    <3>2. QED BY <2>1, <3>1 DEF Bgp
  <2>2. ASSUME NEW listed \in BOOLEAN, NEW failed \in SUBSET External,
               NEW effective \in SUBSET External, BgpFails(w, listed, failed, effective)
        PROVE  \E adopt \in BOOLEAN, f, e \in SUBSET External :
                 /\ work[w].pc = "bgp" /\ Converge(w, adopt, f, e)
                 /\ e # {} => Fault("kill")
    <3> DEFINE adopt == AdoptionDue(w) /\ listed
    <3>1. adopt \in BOOLEAN
      BY DEF AdoptionDue
    <3>2. /\ work[w].pc = "bgp" /\ Converge(w, adopt, failed, effective)
          /\ effective # {} => Fault("kill")
      BY <2>2 DEF BgpFails
    <3> HIDE DEF adopt
    <3>3. QED BY <3>1, <3>2
  <2>3. CASE Resolve(w) \/ Plan(w) \/ Nft(w) \/ NftFails(w) \/ Record(w) \/ Finish(w)
    BY <2>3 DEF Kept, Resolve, Plan, Nft, NftFails, NftAbandoned, Record, Finish, apply
  <2>4. QED BY <1>1, <2>1, <2>2, <2>3 DEF Apply
<1>2. CASE Run
  BY <1>1, <1>2, PCs DEF Kept, Run, PrimeWarm, PrimeFetch, Fetch, PrimeFetchFails, PrimeUnanswered, PrimeSeed,
                          FetchFails, FetchUnanswered, LockFetched, apply
<1>3. CASE \E h \in Handlers : Handle(h) \/ \E v \in VMs : MigrationEvent(h, v)
  BY <1>1, <1>3, PCs DEF Kept, Handle, LockCached, MigrationEvent, apply
<1>4. CASE (\E d \in Deltas : TakeDelta(d)) \/ Flush
  BY <1>4 DEF Kept, TakeDelta, Flush, TakeBatch, Persist, PersistFails, apply
<1>5. CASE (\E v \in VMs : PlacementEvent(v)) \/ (\E table \in Tables : NetBoxChanges(table))
  BY <1>5 DEF Kept, PlacementEvent, NetBoxChanges, apply
<1>6. CASE UNCHANGED vars
  BY <1>6 DEF Kept, vars, apply
<1>7. QED BY <1>2, <1>3, <1>4, <1>5, <1>6 DEF Alive

LEMMA ForeignStep == TypeOK /\ ForeignUntouched /\ [Next]_vars => ForeignUntouched'
<1> SUFFICES ASSUME TypeOK, Foreign \subseteq lo, [Next]_vars, lo' # lo
             PROVE  Foreign \subseteq lo'
  BY DEF ForeignUntouched
<1>1. PICK w \in Workers, adopt \in BOOLEAN, failed, effective \in SUBSET External :
         work[w].pc = "bgp" /\ Converge(w, adopt, failed, effective)
  <2>1. ~Crash
    BY DEF Crash
  <2>2. QED BY <2>1, OnlyConvergeChanges DEF Kept, Alive, Next
<1>2. lo \ lo' \subseteq advertised \cup work[w].managed
  BY <1>1 DEF Converge
<1>3. advertised \subseteq External /\ work[w].managed \subseteq External
  BY DEF TypeOK, Job
<1>4. QED BY <1>2, <1>3, ReconcilerAssumption

\* Addresses of others are never withdrawn, whatever fails, races or restarts.
THEOREM ForeignCorrect == Spec => []ForeignUntouched
<1>1. Init => ForeignUntouched
  BY DEF Init, ForeignUntouched
<1>2. Spec => []TypeOK
  BY InitType, NextType, PTL DEF Spec
<1>3. QED BY <1>1, <1>2, ForeignStep, PTL DEF Spec

\* A command changes both the interface and the record of it, or neither, or it was
\* killed after its effect; the record is lost with the process.
LEMMA AnnouncedStep == AnnouncedTrue /\ [Next]_vars => AnnouncedTrue'
<1> SUFFICES ASSUME AnnouncedTrue, [Next]_vars, ~Kept PROVE AnnouncedTrue'
  BY DEF AnnouncedTrue, Kept
<1>1. CASE Crash
  BY <1>1 DEF Crash, Reborn, AnnouncedTrue
<1>2. CASE ~Crash
  <2>1. PICK w \in Workers, adopt \in BOOLEAN, failed, effective \in SUBSET External :
           work[w].pc = "bgp" /\ Converge(w, adopt, failed, effective)
    BY <1>2, OnlyConvergeChanges DEF Alive, Next
  <2>2. QED BY <2>1 DEF Converge, AnnouncedTrue
<1>3. QED BY <1>1, <1>2

\* What the process takes for announced is on the interface, whichever commands
\* failed and however applies overlapped, but for what an ip removed although it
\* failed: a killed command is all that parts the two (reconciler.go:1245-1266).
THEOREM AnnouncedCorrect == Spec => []AnnouncedTrue
<1>1. Init => AnnouncedTrue
  BY DEF Init, AnnouncedTrue
<1>2. QED BY <1>1, AnnouncedStep, PTL DEF Spec
-----------------------------------------------------------------------------
(* The mutex, the fingerprint and the order of an apply *)

\* Two applies overlap only where the fallback after a failed fetch, which does not
\* take reconcileMu, meets the apply of a handler.
NoOverlap == Handlers = {} \/ "fetch" \notin Faults

\* A worker applies only with the mutex, or there is no other worker.
Locked == Handlers = {} \/ \A w \in Workers : Applying(w) => holder = w

\* nft has installed what is about to be recorded, and what an apply ends with;
\* before addresses change their rules are in place, unless none is added.
Ordered ==
  \A w \in Workers :
    /\ work[w].pc \in {"record", "finish"} => rules = Rules(work[w].applied)
    /\ work[w].pc = "bgp" =>
         \/ rules = Rules(work[w].applied)
         \/ /\ work[w].first /\ ~work[w].same
            /\ Addresses(work[w].applied) \subseteq advertised

LInv == TypeOK /\ Locked /\ Ordered /\ FingerprintTrue /\ RecordedProgrammed

LEMMA InitLInv == Init => LInv
<1> SUFFICES ASSUME Init PROVE LInv
  OBVIOUS
<1>1. \A w \in Workers : work[w].pc \in {"boot", "idle"}
  BY PCs DEF Init, Boot
<1>2. QED BY <1>1, InitType DEF Init, LInv, Locked, Ordered, Applying, FingerprintTrue, RecordedProgrammed

\* A worker that does not apply, or that only resolves, disturbs nothing.
LEMMA BesideLInv ==
  ASSUME LInv, NEW w \in Workers, NEW job, Become(w, job),
         ~Applying(w), job.pc \notin {"plan", "nft", "record", "bgp", "finish"},
         job.pc = "resolve" => Handlers = {} \/ (holder' = w /\ holder = None),
         job.pc # "resolve" => holder' = holder,
         UNCHANGED <<rules, lastKey, lastApplied, advertised>>
  PROVE  (Locked /\ Ordered /\ FingerprintTrue /\ RecordedProgrammed)'
<1> USE DEF LInv, TypeOK
<1>1. work'[w] = job /\ \A u \in Workers : u # w => work'[u] = work[u]
  BY DEF Become
<1>2. Handlers = {} \/ holder # None \/ \A u \in Workers : ~Applying(u)
  BY ReconcilerAssumption DEF Locked
<1>3. Locked'
  BY <1>1, <1>2 DEF Locked, Applying
<1>4. Ordered'
  BY <1>1 DEF Ordered
<1>5. FingerprintTrue'
  BY <1>1 DEF FingerprintTrue, Applying
<1>6. RecordedProgrammed'
  BY <1>1 DEF RecordedProgrammed, Applying
<1>7. QED BY <1>3, <1>4, <1>5, <1>6

\* A step of the worker that holds the mutex: nobody else applies, so only what
\* it leaves for itself has to be shown.
LEMMA HolderLInv ==
  ASSUME LInv, NEW w \in Workers, NEW job, Become(w, job), Applying(w),
         holder' = holder \/ job.pc = "idle",
         job.pc \in {"record", "finish"} => rules' = Rules(job.applied),
         job.pc = "bgp" => \/ rules' = Rules(job.applied)
                           \/ /\ job.first /\ ~job.same
                              /\ Addresses(job.applied) \subseteq advertised',
         job.pc \notin {"plan", "nft", "record", "bgp", "finish"} => lastKey' = Unknown \/ rules' = Rules(lastApplied'),
         job.pc # "record" => lastKey' \in {Unknown, rules'}
  PROVE  (Locked /\ Ordered /\ FingerprintTrue /\ RecordedProgrammed)'
<1> USE DEF LInv, TypeOK
<1>1. work'[w] = job /\ \A u \in Workers : u # w => work'[u] = work[u]
  BY DEF Become
<1>2. (Handlers = {} \/ holder = w) /\ \A u \in Workers : u # w => ~Applying(u)
  BY DEF Locked, Workers
<1>3. Locked'
  BY <1>1, <1>2 DEF Locked, Applying
<1>4. Ordered'
  BY <1>1, <1>2 DEF Ordered, Applying
<1>5. FingerprintTrue'
  BY <1>1 DEF FingerprintTrue
<1>6. RecordedProgrammed'
  BY <1>1 DEF RecordedProgrammed, Applying
<1>7. QED BY <1>3, <1>4, <1>5, <1>6

\* Each command of an apply under the mutex.
LEMMA ApplyLInv ==
  ASSUME LInv, NEW w \in Workers, Apply(w)
  PROVE  (Locked /\ Ordered /\ FingerprintTrue /\ RecordedProgrammed)'
<1> DEFINE job == work[w]
<1> USE DEF LInv, TypeOK
<1>0. /\ Applying(w) /\ job \in Job /\ job.applied \in Table
      /\ Rules(job.applied) # Unknown
      /\ job.pc # "record" => lastKey \in {Unknown, rules}
  <2>1. Applying(w)
    BY DEF Apply, Resolve, Plan, Nft, NftFails, NftAbandoned, Record, Bgp, BgpFails, Finish, Applying
  <2>2. job \in Job /\ job.applied \in Table
    BY DEF Job
  <2>3. \A u \in Workers : u # w => ~Applying(u)
    BY <2>1 DEF Locked, Workers
  <2>4. QED BY <2>1, <2>2, <2>3, RulesTyped, ReconcilerAssumption DEF FingerprintTrue, Applying
<1>1. CASE Resolve(w)
  <2> DEFINE new == [At("plan", job.source, EmptyTable, FALSE) EXCEPT
                       !.saw = active, !.applied = [v \in VMs |-> Served(job, v)]]
  <2>1. Become(w, new) /\ job.pc = "resolve"
    BY <1>1 DEF Resolve
  <2>2. new.pc = "plan"
    BY DEF At
  <2> HIDE DEF new
  <2>3. UNCHANGED <<holder, rules, lastKey>>
    BY <1>1 DEF Resolve, apply
  <2>4. QED BY <1>0, <2>1, <2>2, <2>3, HolderLInv
<1>2. CASE Plan(w)
  <2> DEFINE same == lastKey = Rules(job.applied)
             first == same \/ Addresses(job.applied) \subseteq advertised
             new == [job EXCEPT !.pc = IF first THEN "bgp" ELSE "nft", !.first = first,
                       !.same = same, !.managed = IF kernelSynced THEN {} ELSE ManagedIPs]
  <2>1. Become(w, new) /\ job.pc = "plan"
    BY <1>2 DEF Plan
  <2>2. UNCHANGED <<holder, rules, lastKey, advertised>>
    BY <1>2 DEF Plan, apply
  <2>3. same => rules = Rules(job.applied)
    BY <1>0, <2>1
  <2> HIDE DEF same
  <2>4. /\ new.pc \in {"bgp", "nft"} /\ new.applied = job.applied
        /\ new.same = same /\ new.first = first
        /\ new.pc = "bgp" => first
    BY <1>0 DEF Job
  <2>5. first => same \/ Addresses(job.applied) \subseteq advertised
    OBVIOUS
  <2> HIDE DEF new, first
  <2>6. QED BY <1>0, <2>1, <2>2, <2>3, <2>4, <2>5, HolderLInv
<1>3. CASE Nft(w)
  <2> DEFINE new == [job EXCEPT !.pc = "record"]
  <2>1. Become(w, new) /\ rules' = Rules(job.applied) /\ holder' = holder
    BY <1>3 DEF Nft
  <2>2. new.pc = "record" /\ new.applied = job.applied
    BY <1>0 DEF Job
  <2> HIDE DEF new
  <2>3. QED BY <1>0, <2>1, <2>2, HolderLInv
<1>4. CASE NftFails(w)
  <2>1. Become(w, Idle) /\ lastKey' = Unknown
    BY <1>4 DEF NftFails, NftAbandoned, Done
  <2>2. QED BY <1>0, <2>1, PCs, HolderLInv
<1>5. CASE Record(w)
  <2> DEFINE new == [job EXCEPT !.pc = IF job.first THEN "finish" ELSE "bgp"]
  <2>1. /\ Become(w, new) /\ job.pc = "record" /\ lastKey' = Rules(job.applied)
        /\ UNCHANGED <<rules, holder>>
    BY <1>5 DEF Record
  <2>2. new.pc \in {"finish", "bgp"} /\ new.applied = job.applied
    BY <1>0 DEF Job
  <2>3. rules = Rules(job.applied)
    BY <2>1 DEF Ordered
  <2> HIDE DEF new
  <2>4. QED BY <1>0, <2>1, <2>2, <2>3, HolderLInv
<1>6. ASSUME NEW adopt, NEW failed, NEW effective, Converge(w, adopt, failed, effective),
             job.pc = "bgp"
      PROVE  (Locked /\ Ordered /\ FingerprintTrue /\ RecordedProgrammed)'
  <2> DEFINE new == [job EXCEPT !.pc = IF job.first /\ ~job.same THEN "nft" ELSE "finish"]
  <2>1. Become(w, new) /\ UNCHANGED <<rules, lastKey, holder>>
    BY <1>6 DEF Converge
  <2>2. new.pc \in {"nft", "finish"} /\ new.applied = job.applied
    BY <1>0 DEF Job
  <2>3. new.pc = "finish" => rules = Rules(job.applied)
    BY <1>0, <1>6 DEF Ordered, Job
  <2> HIDE DEF new
  <2>4. QED BY <1>0, <1>6, <2>1, <2>2, <2>3, HolderLInv
<1>7. CASE Bgp(w)
  BY <1>6, <1>7 DEF Bgp
<1>8. ASSUME NEW listed \in BOOLEAN, NEW failed \in SUBSET External,
             NEW effective \in SUBSET External, BgpFails(w, listed, failed, effective)
      PROVE  (Locked /\ Ordered /\ FingerprintTrue /\ RecordedProgrammed)'
  <2> DEFINE adopt == AdoptionDue(w) /\ listed
  <2>1. Converge(w, adopt, failed, effective) /\ job.pc = "bgp"
    BY <1>8 DEF BgpFails
  <2> HIDE DEF adopt
  <2>2. QED BY <1>6, <2>1
<1>9. CASE Finish(w)
  <2>1. /\ Become(w, Idle) /\ job.pc = "finish" /\ UNCHANGED <<rules, lastKey>>
        /\ lastApplied' = job.applied
    BY <1>9 DEF Finish, Done
  <2>2. rules = Rules(job.applied)
    BY <2>1 DEF Ordered
  <2>3. QED BY <1>0, <2>1, <2>2, PCs, HolderLInv
<1>10. QED BY <1>1, <1>2, <1>3, <1>4, <1>5, <1>7, <1>8, <1>9 DEF Apply

\* Every step keeps the mutex, the fingerprint, the order and the record.
LEMMA NextLInv ==
  ASSUME NoOverlap
  PROVE  LInv /\ [Next]_vars => LInv'
<1> SUFFICES ASSUME LInv, [Next]_vars PROVE (Locked /\ Ordered /\ FingerprintTrue /\ RecordedProgrammed)'
  BY NextType DEF LInv
<1> USE DEF LInv
<1>1. ASSUME NEW w \in Workers, Apply(w) PROVE (Locked /\ Ordered /\ FingerprintTrue /\ RecordedProgrammed)'
  BY <1>1, ApplyLInv
<1>2. CASE PrimeWarm \/ PrimeSeed \/ LockFetched
  <2>1. PICK job : /\ Become(Loop, job) /\ work[Loop].pc \in {"boot", "seed", "lock"}
                   /\ job.pc \in {"prime", "idle", "resolve"}
                   /\ job.pc = "resolve" => holder = None /\ holder' = Loop
                   /\ job.pc # "resolve" => holder' = holder
    <3>1. CASE PrimeWarm
      BY <3>1, IdleTyped DEF PrimeWarm, Job
    <3>2. CASE PrimeSeed
      BY <3>2, PCs DEF PrimeSeed
    <3>3. CASE LockFetched
      <4>1. work[Loop] \in Job
        BY PCs DEF TypeOK
      <4>2. [work[Loop] EXCEPT !.pc = "resolve"].pc = "resolve"
        BY <4>1 DEF Job
      <4>3. QED BY <3>3, <4>2 DEF LockFetched
    <3>4. QED BY <1>2, <3>1, <3>2, <3>3
  <2>2. UNCHANGED <<rules, lastKey, lastApplied, advertised>>
    BY <1>2 DEF PrimeWarm, PrimeSeed, LockFetched, apply
  <2>3. QED BY <2>1, <2>2, PCs, BesideLInv DEF Applying
<1>3. ASSUME NEW table, PrimeFetch(table) \/ Fetch(table)
      PROVE  (Locked /\ Ordered /\ FingerprintTrue /\ RecordedProgrammed)'
  <2>1. PICK job : /\ Become(Loop, job) /\ work[Loop].pc \in {"prime", "idle"}
                   /\ job.pc \in {"seed", "lock"}
    <3>1. CASE PrimeFetch(table)
      <4>1. [Booting EXCEPT !.pc = "seed", !.table = table].pc = "seed"
        BY IdleTyped DEF Job
      <4>2. QED BY <3>1, <4>1 DEF PrimeFetch
    <3>2. CASE Fetch(table)
      BY <3>2, PCs DEF Fetch
    <3>3. QED BY <1>3, <3>1, <3>2
  <2>2. UNCHANGED <<holder, rules, lastKey, lastApplied, advertised>>
    BY <1>3 DEF PrimeFetch, Fetch, apply
  <2>3. QED BY <2>1, <2>2, PCs, BesideLInv DEF Applying
<1>4. CASE PrimeFetchFails \/ FetchFails
  <2>1. Handlers = {}
    BY <1>4 DEF PrimeFetchFails, FetchFails, Fault, NoOverlap
  <2>2. PICK job : /\ Become(Loop, job) /\ work[Loop].pc \in {"prime", "idle"}
                   /\ job.pc \in {"seed", "idle", "resolve"}
    <3>1. CASE PrimeFetchFails
      <4>1. [Booting EXCEPT !.pc = "seed", !.table = AllStored].pc = "seed"
        BY IdleTyped DEF Job
      <4>2. QED BY <3>1, <4>1, PCs DEF PrimeFetchFails, PrimeUnanswered
    <3>2. CASE FetchFails
      <4>1. At("resolve", "fallback", EmptyTable, TRUE).pc = "resolve"
        BY DEF At
      <4>2. QED BY <3>2, <4>1 DEF FetchFails, FetchUnanswered
    <3>3. QED BY <1>4, <3>1, <3>2
  <2>3. UNCHANGED <<holder, rules, lastKey, lastApplied, advertised>>
    BY <1>4 DEF PrimeFetchFails, PrimeUnanswered, FetchFails, FetchUnanswered, apply
  <2>4. QED BY <2>1, <2>2, <2>3, PCs, BesideLInv DEF Applying
<1>5. ASSUME NEW d \in Deltas, TakeDelta(d) PROVE (Locked /\ Ordered /\ FingerprintTrue /\ RecordedProgrammed)'
  <2>1. PICK job : /\ Become(Loop, job) /\ work[Loop].pc = "idle" /\ job.pc = "resolve"
                   /\ holder = None /\ holder' = Loop
                   /\ UNCHANGED <<rules, lastKey, lastApplied, advertised>>
    BY <1>5, PCs DEF TakeDelta
  <2>2. QED BY <2>1, PCs, BesideLInv DEF Applying
<1>6. ASSUME NEW h \in Handlers, LockCached(h) PROVE (Locked /\ Ordered /\ FingerprintTrue /\ RecordedProgrammed)'
  <2>1. PICK job : /\ Become(h, job) /\ work[h].pc = "lock"
                   /\ job.pc \in {"idle", "resolve"}
                   /\ job.pc = "resolve" => holder = None /\ holder' = h
                   /\ job.pc # "resolve" => holder' = holder
                   /\ UNCHANGED <<rules, lastKey, lastApplied, advertised>>
    BY <1>6, PCs DEF LockCached, apply
  <2>2. QED BY <2>1, PCs, BesideLInv DEF Applying
<1>7. ASSUME NEW h \in Handlers, NEW v \in VMs, MigrationEvent(h, v)
      PROVE  (Locked /\ Ordered /\ FingerprintTrue /\ RecordedProgrammed)'
  <2>1. PICK job : /\ Become(h, job) /\ work[h].pc = "idle" /\ job.pc = "lock"
                   /\ UNCHANGED <<holder, rules, lastKey, lastApplied, advertised>>
    <3>1. At("lock", "cached", EmptyTable, FALSE).pc = "lock"
      BY DEF At
    <3>2. UNCHANGED <<holder, rules, lastKey, lastApplied, advertised>>
      BY <1>7 DEF MigrationEvent, apply
    <3>3. work[h].pc = "idle" /\ Become(h, At("lock", "cached", EmptyTable, FALSE))
      BY <1>7 DEF MigrationEvent
    <3>4. QED BY <3>1, <3>2, <3>3
  <2>2. QED BY <2>1, PCs, BesideLInv DEF Applying
<1>8. CASE UNCHANGED <<work, holder, rules, lastKey, lastApplied, advertised>>
  BY <1>8 DEF Locked, Ordered, FingerprintTrue, RecordedProgrammed, Applying
<1>9. CASE Flush \/ (\E v \in VMs : PlacementEvent(v)) \/ (\E table \in Tables : NetBoxChanges(table))
  BY <1>8, <1>9 DEF Flush, TakeBatch, Persist, PersistFails, PlacementEvent, NetBoxChanges, apply
<1>10. CASE Crash
  <2>1. \A w \in Workers : work'[w].pc \in {"boot", "idle"}
    BY <1>10, PCs DEF Crash, Reborn, Boot
  <2>2. lastKey' = Unknown
    BY <1>10 DEF Crash, Reborn
  <2>3. QED BY <2>1, <2>2 DEF Locked, Ordered, FingerprintTrue, RecordedProgrammed, Applying
<1>11. CASE UNCHANGED vars
  BY <1>8, <1>11 DEF vars, apply
<1>12. QED
  BY <1>1, <1>2, <1>3, <1>4, <1>5, <1>6, <1>7, <1>9, <1>10, <1>11, PCs DEF Next, Run, Handle

\* Where applies do not overlap, a fingerprint in force describes the rules in the
\* kernel, whatever failed before: skipping nft is safe.
THEOREM FingerprintCorrect ==
  ASSUME NoOverlap
  PROVE  Spec => []FingerprintTrue
<1>1. LInv => FingerprintTrue
  BY DEF LInv
<1>2. QED BY <1>1, InitLInv, NextLInv, PTL DEF Spec

\* Where applies do not overlap, the record of what was programmed is true between
\* them, whichever half of an apply was skipped, came first or failed.
THEOREM RecordCorrect ==
  ASSUME NoOverlap
  PROVE  Spec => []RecordedProgrammed
<1>1. LInv => RecordedProgrammed
  BY DEF LInv
<1>2. QED BY <1>1, InitLInv, NextLInv, PTL DEF Spec

LEMMA AddsHaveRules ==
  LInv /\ [Next]_vars => [lo' \ lo \subseteq Externals(rules)]_vars
<1> SUFFICES ASSUME LInv, [Next]_vars, ~(lo' \subseteq lo)
             PROVE  lo' \ lo \subseteq Externals(rules)
  OBVIOUS
<1>1. PICK w \in Workers, adopt \in BOOLEAN, failed, effective \in SUBSET External :
         work[w].pc = "bgp" /\ Converge(w, adopt, failed, effective)
  <2>1. ~Crash
    BY DEF Crash
  <2>2. QED BY <2>1, OnlyConvergeChanges DEF Kept, Alive, Next
<1>2. lo' \ lo \subseteq Addresses(work[w].applied) \ advertised
  BY <1>1 DEF Converge
<1>3. \/ rules = Rules(work[w].applied)
      \/ Addresses(work[w].applied) \subseteq advertised
  BY <1>1 DEF LInv, Ordered
<1>4. QED BY <1>2, <1>3 DEF Addresses

\* Where applies do not overlap, no address is announced before a rule translates
\* it: the order chosen from the fingerprint is always the safe one.
THEOREM AdvertiseCorrect ==
  ASSUME NoOverlap
  PROVE  Spec => RulesBeforeAdvertise
<1> DEFINE Step == lo' \ lo \subseteq Externals(rules)
<1>1. LInv /\ [Next]_vars => [Step]_vars
  BY AddsHaveRules
<1>2. Spec => []LInv
  BY InitLInv, NextLInv, PTL DEF Spec
<1>3. QED BY <1>1, <1>2, PTL DEF Spec, RulesBeforeAdvertise
-----------------------------------------------------------------------------
(* Retained state: what is served is not taken back *)

\* KeepsServing is proved where NetBox's answers are all the node is told: there
\* are no webhooks, the first backups lack nothing that has been mapped all along,
\* and two applies never overlap (the fallback runs without the mutex).
OnlyTruth ==
  /\ Deltas = {}
  /\ NoOverlap
  /\ \A table \in Stored, v \in VMs : table[v] = {} \/ AlwaysMapped(v) \subseteq Externals(table[v])

Solo == \A u, w \in Workers : Applying(u) /\ Applying(w) => u = w

\* Some mappings of v are none, or lack nothing v has had all along.
Whole(v, pairs) == pairs = {} \/ AlwaysMapped(v) \subseteq Externals(pairs)

\* What is remembered of a VM, in memory, in the queue or in its file, is whole.
Remembered ==
  \A v \in VMs :
    /\ Whole(v, lastApplied[v]) /\ Whole(v, disk[v]) /\ Whole(v, stored[v])
    /\ pending[v] # None => Whole(v, pending[v])
    /\ batch[v] # None => Whole(v, batch[v])
    /\ cached[v] # Unknown => Whole(v, cached[v])

\* Of a VM with a backup at the start, unless writing it failed, something is known
\* as soon as the files have been read, and nothing asks for its removal.
Found(v) == stored[v] # {} /\ AlwaysMapped(v) # {}

StillKnown ==
  \A v \in VMs : Found(v) =>
    /\ pending[v] # {} /\ batch[v] # {}
    /\ IF work[Loop].pc = "boot" THEN disk[v] # {} ELSE cached[v] \notin {Unknown, {}}

\* Nobody applies before the files have been read.
Unread == work[Loop].pc = "boot" => ~cache.ready /\ \A w \in Workers : ~Applying(w)

\* What an apply starts from is an answer of NetBox; the cache is one too, but
\* for a node that never applies from it.
Answers == Tables \cup {EmptyTable}

CacheAnswered == (Handlers = {} \/ cache.byID \in Answers) /\ cache.byName = NothingWaits

Answered ==
  \A w \in Workers :
    /\ work[w].pc = "seed" => Handlers = {} \/ work[w].table \in Answers
    /\ (work[w].pc = "resolve" \/ (w = Loop /\ work[w].pc = "lock")) =>
         /\ work[w].table \in Answers
         /\ work[w].nothing <=> work[w].table = EmptyTable
         /\ work[w].source # "delta"

\* An apply takes nothing from an active VM that it has had all along.
Resolved(w) == work[w].pc \in {"plan", "nft", "record", "bgp", "finish"}

Retains ==
  \A w \in Workers : Resolved(w) =>
    \A v \in VMs :
      /\ Whole(v, work[w].applied[v])
      /\ v \in work[w].saw =>
           Externals(lastApplied[v] \cup stored[v]) \cap AlwaysMapped(v)
             \subseteq Externals(work[w].applied[v])

SInv == Remembered /\ StillKnown /\ Unread /\ CacheAnswered /\ Answered /\ Retains

LEMMA ExternalsUnion ==
  ASSUME NEW p, NEW q
  PROVE  Externals(p \cup q) = Externals(p) \cup Externals(q)
  BY DEF Externals

LEMMA AnswerWhole ==
  ASSUME NEW table \in Answers, NEW v \in VMs, table # EmptyTable
  PROVE  AlwaysMapped(v) \subseteq Externals(table[v])
  BY DEF Answers, AlwaysMapped

LEMMA MemoryWhole ==
  ASSUME TypeOK, Remembered, NEW v \in VMs
  PROVE  /\ Whole(v, Load(v))
         /\ \A d \in SUBSET Pair :
              Whole(v, d) /\ Queued(v, d) # None => Whole(v, Queued(v, d))
<1>1. Whole(v, Load(v))
  BY DEF TypeOK, Remembered, Whole, Load, Entry!LoadedFrom, Entry!InMemory
<1>2. ASSUME NEW d \in SUBSET Pair, Whole(v, d), Queued(v, d) # None
      PROVE  Whole(v, Queued(v, d))
  BY <1>2 DEF Remembered, Queued, Entry!Enqueued
<1>3. QED BY <1>1, <1>2

LEMMA InitSInv == OnlyTruth /\ Init => SInv
<1> SUFFICES ASSUME OnlyTruth, Init PROVE SInv
  OBVIOUS
<1>1. \A w \in Workers : work[w].pc \in {"boot", "idle"}
  BY PCs DEF Init, Boot
<1>2. Remembered
  BY DEF Init, OnlyTruth, Remembered, Whole, EmptyTable, NoEntries, NothingKnown
<1>3. StillKnown
  BY PCs, ReconcilerAssumption DEF Init, StillKnown, Found, NoEntries, Boot
<1>4. Unread
  BY <1>1 DEF Init, Unread, Applying, ColdCache
<1>5. QED BY <1>1, <1>2, <1>3, <1>4
  DEF Init, SInv, CacheAnswered, Answered, Retains, Resolved, ColdCache, Answers

\* A worker that does not change addresses next leaves what is retained alone.
LEMMA BesideSInv ==
  ASSUME SInv, TypeOK, NEW w \in Workers, NEW job, Become(w, job),
         job.pc \notin {"plan", "nft", "record", "bgp", "finish"},
         job.pc = "seed" => Handlers = {} \/ job.table \in Answers,
         (job.pc = "resolve" \/ (w = Loop /\ job.pc = "lock")) =>
           /\ job.table \in Answers
           /\ job.nothing <=> job.table = EmptyTable
           /\ job.source # "delta",
         job.pc # "boot", job.pc = "resolve" => work[Loop].pc # "boot",
         cache' = cache \/ work'[Loop].pc # "boot",
         IF work[Loop].pc = "boot" /\ work'[Loop].pc # "boot"
         THEN StillKnown' ELSE UNCHANGED <<pending, batch, cached, disk>>,
         UNCHANGED <<lastApplied, stored>>
  PROVE  (StillKnown /\ Unread /\ Answered /\ Retains)'
<1> USE DEF SInv, TypeOK
<1>1. work'[w] = job /\ \A u \in Workers : u # w => work'[u] = work[u]
  BY DEF Become
<1>2. Answered'
  BY <1>1 DEF Answered
<1>3. Retains'
  BY <1>1 DEF Retains, Resolved
<1>4. work[Loop].pc # "boot" => work'[Loop].pc # "boot"
  BY <1>1, PCs
<1>5. Unread'
  BY <1>1, <1>4, PCs DEF Unread, Applying
<1>6. StillKnown'
  BY <1>4 DEF StillKnown, Found
<1>7. QED BY <1>2, <1>3, <1>5, <1>6

\* A worker goes on with what it has resolved.
LEMMA OnwardSInv ==
  ASSUME SInv, TypeOK, NEW w \in Workers, NEW job, Become(w, job), Resolved(w),
         job.pc \in {"nft", "record", "bgp", "finish"},
         job.applied = work[w].applied, job.saw = work[w].saw,
         UNCHANGED <<lastApplied, cache, store>>
  PROVE  SInv'
<1> USE DEF SInv, TypeOK
<1>1. work'[w] = job /\ \A u \in Workers : u # w => work'[u] = work[u]
  BY DEF Become
<1>2. Answered'
  BY <1>1 DEF Answered
<1>3. Retains'
  BY <1>1 DEF Retains, Resolved, store
<1>4. work[Loop].pc # "boot"
  BY DEF Unread, Resolved, Applying
<1>5. work'[Loop].pc # "boot"
  BY <1>1, <1>4, PCs
<1>6. Unread' /\ StillKnown'
  BY <1>4, <1>5 DEF Unread, StillKnown, Found, store
<1>7. QED BY <1>2, <1>3, <1>6 DEF Remembered, CacheAnswered, store

\* A backup that was found and is still known is what a VM is served from at last.
LEMMA FoundLoaded ==
  ASSUME SInv, TypeOK, NEW v \in VMs, Found(v), work[Loop].pc # "boot"
  PROVE  Load(v) # {}
<1>1. pending[v] # {} /\ cached[v] # {} /\ cached[v] # Unknown
  BY DEF SInv, StillKnown
<1>2. CASE pending[v] = None
  BY <1>1, <1>2 DEF Load, Entry!LoadedFrom, Entry!InMemory
<1>3. CASE pending[v] # None
  <2>1. pending[v] # Unknown
    BY <1>3, ReconcilerAssumption DEF TypeOK
  <2>2. QED BY <1>1, <1>3, <2>1 DEF Load, Entry!LoadedFrom, Entry!InMemory
<1>4. QED BY <1>2, <1>3

\* Where it counts, the decision for one VM retains what it has had all along:
\* a table without the VM is either not believed or no answer about it.
LEMMA ServedRetains ==
  ASSUME SInv, TypeOK, NEW w \in Workers, work[w].pc = "resolve", NEW v \in VMs
  PROVE  /\ Whole(v, Served(work[w], v))
         /\ v \in active => Externals(lastApplied[v] \cup stored[v]) \cap AlwaysMapped(v)
                              \subseteq Externals(Served(work[w], v))
<1> DEFINE job == work[w]
<1>0. /\ job.table \in Answers /\ (job.nothing <=> job.table = EmptyTable) /\ job.source # "delta"
      /\ Whole(v, lastApplied[v]) /\ Whole(v, Load(v))
  BY MemoryWhole DEF SInv, Answered, Remembered
<1>1. CASE v \notin active
  BY <1>1 DEF Served, Whole
<1>2. CASE v \in active /\ job.table[v] # {}
  <2>1. job.table # EmptyTable
    BY <1>2 DEF EmptyTable
  <2>2. AlwaysMapped(v) \subseteq Externals(job.table[v])
    BY <1>0, <2>1, AnswerWhole
  <2>3. Served(job, v) = job.table[v]
    BY <1>2 DEF Served
  <2>4. QED BY <2>2, <2>3 DEF Whole
<1>3. CASE v \in active /\ job.table[v] = {} /\ Load(v) # {}
  <2>1. Served(job, v) = Load(v)
    BY <1>0, <1>3 DEF Served
  <2>2. QED BY <1>0, <1>3, <2>1 DEF Whole
<1>4. CASE v \in active /\ job.table[v] = {} /\ Load(v) = {} /\ Believable(job)
  <2>1. job.table # EmptyTable
    BY <1>0, <1>4 DEF Believable
  <2>2. AlwaysMapped(v) \subseteq Externals({})
    BY <1>0, <1>4, <2>1, AnswerWhole
  <2>3. Served(job, v) = {}
    BY <1>0, <1>4 DEF Served
  <2>4. QED BY <2>2, <2>3 DEF Whole
<1>5. CASE v \in active /\ job.table[v] = {} /\ Load(v) = {} /\ ~Believable(job)
  <2>1. Served(job, v) = lastApplied[v]
    BY <1>0, <1>5 DEF Served
  <2>2. work[Loop].pc # "boot"
    BY DEF SInv, Unread, Applying
  <2>3. stored[v] = {} \/ AlwaysMapped(v) = {}
    BY <1>5, <2>2, FoundLoaded DEF Found
  <2>4. Externals(lastApplied[v] \cup stored[v]) \cap AlwaysMapped(v)
          \subseteq Externals(Served(job, v))
    BY <2>1, <2>3
  <2>5. QED BY <1>0, <2>1, <2>4
<1>6. QED BY <1>1, <1>2, <1>3, <1>4, <1>5

LEMMA ResolveSInv ==
  ASSUME SInv, TypeOK, NEW w \in Workers, Resolve(w)
  PROVE  SInv'
<1> USE DEF SInv
<1> DEFINE job == work[w]
           new == [At("plan", job.source, EmptyTable, FALSE) EXCEPT
                     !.saw = active, !.applied = [v \in VMs |-> Served(job, v)]]
<1>1. work'[w] = new /\ \A u \in Workers : u # w => work'[u] = work[u]
  BY DEF Resolve, Become, TypeOK
<1>2. new.pc = "plan" /\ new.saw = active /\ \A v \in VMs : new.applied[v] = Served(job, v)
  BY DEF At
<1> HIDE DEF new
<1>3. UNCHANGED <<lastApplied, cache, batch, cached, disk, stored>> /\ job.pc = "resolve"
  BY DEF Resolve, apply
<1>4. Remembered'
  <2> SUFFICES ASSUME NEW v \in VMs, pending'[v] # None PROVE Whole(v, pending'[v])
    BY <1>3 DEF Remembered
  <2>1. CASE pending'[v] = pending[v]
    BY <2>1 DEF Remembered
  <2>2. CASE pending'[v] = Queued(v, job.table[v])
    <3>1. job.table \in Answers /\ job.table[v] \in SUBSET Pair
      BY <1>3 DEF Answered, TypeOK, Job, Table
    <3>2. job.table[v] # {} => job.table # EmptyTable
      BY DEF EmptyTable
    <3>3. Whole(v, job.table[v])
      BY <3>1, <3>2, AnswerWhole DEF Whole
    <3>4. QED BY <2>2, <3>1, <3>3, MemoryWhole
  <2>3. QED BY <2>1, <2>2 DEF Resolve
<1>5. Answered'
  BY <1>1, <1>2 DEF Answered
<1>6. Retains'
  BY <1>1, <1>2, <1>3, ServedRetains DEF Retains, Resolved
<1>7. work[Loop].pc # "boot" /\ work'[Loop].pc # "boot"
  <2>1. work[Loop].pc # "boot"
    BY <1>3 DEF Unread, Applying
  <2>2. QED BY <1>1, <1>2, <2>1, PCs
<1>8. StillKnown'
  <2> SUFFICES ASSUME NEW v \in VMs, Found(v) PROVE pending'[v] # {}
    BY <1>3, <1>7 DEF StillKnown, Found
  <2>1. job.table \in Answers /\ (job.nothing <=> job.table = EmptyTable) /\ job.source # "delta"
    BY <1>3 DEF Answered
  <2>2. v \in active /\ Prunes(job, v) => AlwaysMapped(v) = {}
    <3> SUFFICES ASSUME v \in active, Prunes(job, v) PROVE AlwaysMapped(v) = {}
      OBVIOUS
    <3>1. job.table # EmptyTable /\ job.table[v] = {}
      BY <2>1 DEF Prunes, Believable
    <3>2. QED BY <2>1, <3>1, AnswerWhole DEF Externals
  <2>3. \/ pending'[v] = pending[v]
        \/ job.table[v] # {} /\ pending'[v] = Queued(v, job.table[v])
    BY <2>2 DEF Resolve, StillKnown, Found
  <2>4. pending[v] # {}
    BY DEF StillKnown
  <2>5. QED BY <2>3, <2>4 DEF Queued, Entry!Enqueued
<1>9. QED BY <1>3, <1>4, <1>5, <1>6, <1>7, <1>8 DEF CacheAnswered, Unread

LEMMA FinishSInv ==
  ASSUME SInv, TypeOK, Solo, NEW w \in Workers, Finish(w)
  PROVE  SInv'
<1> USE DEF SInv
<1>1. /\ work'[w] = Idle /\ \A u \in Workers : u # w => work'[u] = work[u]
      /\ lastApplied' = work[w].applied /\ work[w].pc = "finish"
      /\ UNCHANGED <<cache, pending, batch, cached, disk, stored>>
  BY DEF Finish, Done, Become, TypeOK, store
<1>2. Remembered'
  BY <1>1 DEF Remembered, Retains, Resolved
<1>3. Answered'
  BY <1>1, PCs DEF Answered
<1>4. \A u \in Workers : ~Resolved(u)'
  BY <1>1, PCs DEF Solo, Applying, Resolved
<1>5. work[Loop].pc # "boot" /\ work'[Loop].pc # "boot"
  <2>1. work[Loop].pc # "boot"
    BY <1>1 DEF Unread, Applying
  <2>2. QED BY <1>1, <2>1, PCs
<1>6. StillKnown' /\ Unread'
  BY <1>1, <1>5 DEF StillKnown, Found, Unread
<1>7. QED BY <1>1, <1>2, <1>3, <1>4, <1>6 DEF CacheAnswered, Retains

LEMMA ApplySInv ==
  ASSUME SInv, TypeOK, Solo, NEW w \in Workers, Apply(w)
  PROVE  SInv'
<1> DEFINE job == work[w]
<1>0. job \in Job
  BY DEF TypeOK
<1>1. CASE Resolve(w)
  BY <1>1, ResolveSInv
<1>2. CASE Finish(w)
  BY <1>2, FinishSInv
<1>3. CASE NftFails(w)
  <2>1. Become(w, Idle) /\ UNCHANGED <<lastApplied, cache, store>> /\ job.pc = "nft"
    BY <1>3 DEF NftFails, NftAbandoned, Done
  <2>2. work[Loop].pc # "boot"
    BY <2>1 DEF SInv, Unread, Applying
  <2>3. (StillKnown /\ Unread /\ Answered /\ Retains)'
    BY <2>1, <2>2, PCs, BesideSInv DEF store
  <2>4. QED BY <2>1, <2>3 DEF SInv, Remembered, CacheAnswered, store
<1>4. ASSUME NEW adopt, NEW failed, NEW effective, Converge(w, adopt, failed, effective),
             job.pc = "bgp"
      PROVE  SInv'
  <2> DEFINE new == [job EXCEPT !.pc = IF job.first /\ ~job.same THEN "nft" ELSE "finish"]
  <2>1. Become(w, new) /\ UNCHANGED <<lastApplied, cache, store>>
    BY <1>4 DEF Converge
  <2>2. new.pc \in {"nft", "finish"} /\ new.applied = job.applied /\ new.saw = job.saw
    BY <1>0 DEF Job
  <2> HIDE DEF new
  <2>3. QED BY <1>4, <2>1, <2>2, OnwardSInv DEF Resolved
<1>5. CASE Plan(w)
  <2> DEFINE same == lastKey = Rules(job.applied)
             first == same \/ Addresses(job.applied) \subseteq advertised
             managed == IF kernelSynced THEN {} ELSE ManagedIPs
             new == [job EXCEPT !.pc = IF first THEN "bgp" ELSE "nft", !.first = first,
                       !.same = same, !.managed = managed]
  <2>1. Become(w, new) /\ job.pc = "plan"
    BY <1>5 DEF Plan
  <2>2. UNCHANGED <<lastApplied, cache, store>>
    BY <1>5 DEF Plan, apply
  <2> HIDE DEF first, same, managed
  <2>3. new.pc \in {"bgp", "nft"} /\ new.applied = job.applied /\ new.saw = job.saw
    BY <1>0 DEF Job
  <2> HIDE DEF new
  <2>4. QED BY <2>1, <2>2, <2>3, OnwardSInv DEF Resolved
<1>6. CASE Nft(w) \/ Record(w)
  <2>1. PICK pc \in {"record", "finish", "bgp"} : Become(w, [job EXCEPT !.pc = pc])
    BY <1>6 DEF Nft, Record
  <2>2. job.pc \in {"nft", "record"} /\ UNCHANGED <<lastApplied, cache, store>>
    BY <1>6 DEF Nft, Record
  <2> DEFINE new == [job EXCEPT !.pc = pc]
  <2>3. new.pc \in {"record", "finish", "bgp"} /\ new.applied = job.applied /\ new.saw = job.saw
    BY <1>0 DEF Job
  <2>4. Become(w, new)
    BY <2>1
  <2> HIDE DEF new
  <2>5. QED BY <2>2, <2>3, <2>4, OnwardSInv DEF Resolved
<1>7. CASE Bgp(w)
  BY <1>4, <1>7 DEF Bgp
<1>8. ASSUME NEW listed \in BOOLEAN, NEW failed \in SUBSET External,
             NEW effective \in SUBSET External, BgpFails(w, listed, failed, effective)
      PROVE  SInv'
  <2> DEFINE adopt == AdoptionDue(w) /\ listed
  <2>1. Converge(w, adopt, failed, effective) /\ job.pc = "bgp"
    BY <1>8 DEF BgpFails
  <2> HIDE DEF adopt
  <2>2. QED BY <1>4, <2>1
<1>9. QED BY <1>1, <1>2, <1>3, <1>5, <1>6, <1>7, <1>8 DEF Apply

LEMMA RunSInv ==
  ASSUME SInv, TypeOK, Solo, OnlyTruth, Run
  PROVE  SInv'
<1> DEFINE job == work[Loop]
<1>0. Loop \in Workers /\ job \in Job /\ Booting \in Job
  BY PCs, IdleTyped DEF TypeOK
<1>1. CASE PrimeWarm
  <2>1. /\ Become(Loop, [Booting EXCEPT !.pc = "prime"]) /\ job.pc = "boot"
        /\ UNCHANGED <<lastApplied, cache, pending, batch, disk, stored>>
    BY <1>1 DEF PrimeWarm, apply
  <2>2. [Booting EXCEPT !.pc = "prime"].pc = "prime"
    BY <1>0 DEF Job
  <2> DEFINE new == [Booting EXCEPT !.pc = "prime"]
  <2>3. work'[Loop] = new
    BY <1>0, <2>1 DEF Become, TypeOK
  <2>4. StillKnown'
    <3> SUFFICES ASSUME NEW v \in VMs, Found(v) PROVE cached'[v] \notin {Unknown, {}}
      BY <2>1, <2>2, <2>3 DEF SInv, StillKnown, Found
    <3>1. disk[v] # {} /\ disk[v] # Unknown
      BY <2>1, ReconcilerAssumption DEF SInv, StillKnown, TypeOK, Table
    <3>2. QED BY <1>1, <3>1 DEF PrimeWarm
  <2> HIDE DEF new
  <2>5. (StillKnown /\ Unread /\ Answered /\ Retains)'
    BY <1>0, <2>1, <2>2, <2>3, <2>4, BesideSInv DEF new
  <2>6. Remembered'
    BY <1>1, <2>1 DEF PrimeWarm, SInv, Remembered, Whole
  <2>7. QED BY <2>1, <2>5, <2>6 DEF SInv, CacheAnswered
<1>2. ASSUME NEW table \in Tables \cup {EmptyTable}, PrimeFetch(table) \/ Fetch(table)
      PROVE  SInv'
  <2>1. PICK new :
          /\ Become(Loop, new) /\ new.pc \in {"seed", "lock"} /\ new.table = table
          /\ new.pc = "lock" => (new.nothing <=> table = EmptyTable) /\ new.source = "fetch"
    <3>1. CASE PrimeFetch(table)
      <4>1. LET new == [Booting EXCEPT !.pc = "seed", !.table = table]
            IN new.pc = "seed" /\ new.table = table
        BY <1>0 DEF Job
      <4>2. QED BY <3>1, <4>1 DEF PrimeFetch
    <3>2. CASE Fetch(table)
      <4>1. LET new == At("lock", "fetch", table, table = EmptyTable)
            IN new.pc = "lock" /\ new.table = table /\ (new.nothing <=> table = EmptyTable) /\ new.source = "fetch"
        BY DEF At
      <4>2. QED BY <3>2, <4>1 DEF Fetch
    <3>3. QED BY <1>2, <3>1, <3>2
  <2>2. UNCHANGED <<lastApplied, cache, store>> /\ job.pc # "boot"
    BY <1>2 DEF PrimeFetch, Fetch, apply
  <2>3. (StillKnown /\ Unread /\ Answered /\ Retains)'
    BY <1>0, <2>1, <2>2, BesideSInv DEF Answers, store
  <2>4. QED BY <2>2, <2>3 DEF SInv, Remembered, CacheAnswered, store
<1>3. CASE PrimeFetchFails
  <2>1. Handlers = {}
    BY <1>3 DEF PrimeFetchFails, Fault, OnlyTruth, NoOverlap
  <2>2. PICK new : Become(Loop, new) /\ new.pc \in {"idle", "seed"}
    <3>1. [Booting EXCEPT !.pc = "seed", !.table = AllStored].pc = "seed"
      BY <1>0 DEF Job
    <3>2. QED BY <1>3, <3>1, PCs DEF PrimeFetchFails, PrimeUnanswered
  <2>3. UNCHANGED <<lastApplied, cache, store>> /\ job.pc # "boot"
    BY <1>3 DEF PrimeFetchFails, PrimeUnanswered, apply
  <2>4. (StillKnown /\ Unread /\ Answered /\ Retains)'
    BY <1>0, <2>1, <2>2, <2>3, BesideSInv DEF store
  <2>5. QED BY <2>3, <2>4 DEF SInv, Remembered, CacheAnswered, store
<1>4. CASE PrimeSeed
  <2>1. /\ Become(Loop, Idle) /\ cache' = Rebuilt(job.table) /\ job.pc = "seed"
        /\ UNCHANGED <<lastApplied, store>>
    BY <1>4 DEF PrimeSeed
  <2>2. work'[Loop].pc # "boot"
    BY <1>0, <2>1, PCs DEF Become, TypeOK
  <2>3. (StillKnown /\ Unread /\ Answered /\ Retains)'
    BY <1>0, <2>1, <2>2, PCs, BesideSInv DEF store
  <2>4. CacheAnswered'
    BY <1>0, <2>1 DEF SInv, Answered, CacheAnswered, Rebuilt
  <2>5. QED BY <2>1, <2>3, <2>4 DEF SInv, Remembered, store
<1>5. CASE FetchFails
  <2> DEFINE new == At("resolve", "fallback", EmptyTable, TRUE)
  <2>1. Become(Loop, new) /\ UNCHANGED <<lastApplied, cache, store>> /\ job.pc # "boot"
    BY <1>5 DEF FetchFails, FetchUnanswered, apply
  <2>2. new.pc = "resolve" /\ new.source = "fallback" /\ new.table = EmptyTable /\ new.nothing = TRUE
    BY DEF At
  <2> HIDE DEF new
  <2>3. (StillKnown /\ Unread /\ Answered /\ Retains)'
    BY <1>0, <2>1, <2>2, BesideSInv DEF Answers, store
  <2>4. QED BY <2>1, <2>3 DEF SInv, Remembered, CacheAnswered, store
<1>6. CASE LockFetched
  <2> DEFINE new == [job EXCEPT !.pc = "resolve"]
  <2>1. /\ Become(Loop, new) /\ cache' = Rebuilt(job.table) /\ job.pc = "lock"
        /\ UNCHANGED <<lastApplied, store>>
    BY <1>6 DEF LockFetched
  <2>2. /\ new.pc = "resolve" /\ new.source = job.source /\ new.table = job.table
        /\ new.nothing = job.nothing
    BY <1>0 DEF Job
  <2> HIDE DEF new
  <2>3. job.table \in Answers /\ (job.nothing <=> job.table = EmptyTable) /\ job.source # "delta"
    BY <1>0, <2>1 DEF SInv, Answered
  <2>4. work'[Loop].pc # "boot"
    BY <1>0, <2>1, <2>2 DEF Become, TypeOK
  <2>5. (StillKnown /\ Unread /\ Answered /\ Retains)'
    BY <1>0, <2>1, <2>2, <2>3, <2>4, BesideSInv DEF store
  <2>6. CacheAnswered'
    BY <2>1, <2>3 DEF CacheAnswered, Rebuilt
  <2>7. QED BY <2>1, <2>5, <2>6 DEF SInv, Remembered, store
<1>7. CASE Apply(Loop)
  BY <1>0, <1>7, ApplySInv
<1>8. QED BY <1>1, <1>2, <1>3, <1>4, <1>5, <1>6, <1>7 DEF Run

LEMMA NextSInv ==
  ASSUME OnlyTruth
  PROVE  SInv /\ TypeOK /\ Solo /\ [Next]_vars => SInv'
<1> SUFFICES ASSUME SInv, TypeOK, Solo, [Next]_vars PROVE SInv'
  OBVIOUS
<1>1. CASE Run
  BY <1>1, RunSInv
<1>2. ASSUME NEW h \in Handlers, Handle(h) PROVE SInv'
  <2>1. CASE LockCached(h)
    <3> DEFINE new == At("resolve", "cached", cache.byID, NothingCached(cache))
    <3>1. h \in Workers /\ UNCHANGED <<lastApplied, cache, store>>
      BY <2>1, PCs DEF LockCached, apply
    <3>2. /\ new.pc = "resolve" /\ new.source = "cached" /\ new.table = cache.byID
          /\ new.nothing <=> cache.byID = EmptyTable
      BY DEF At, NothingCached, SInv, CacheAnswered
    <3>3. cache.byID \in Answers
      BY <1>2 DEF SInv, CacheAnswered
    <3>4. (Become(h, new) /\ cache.ready) \/ Become(h, Idle)
      BY <2>1 DEF LockCached
    <3> HIDE DEF new
    <3>5. work'[Loop] = work[Loop] /\ (cache.ready => work[Loop].pc # "boot")
      BY <1>2, <3>1, <3>4, PCs, ReconcilerAssumption DEF Become, TypeOK, SInv, Unread
    <3>6. (StillKnown /\ Unread /\ Answered /\ Retains)'
      BY <3>1, <3>2, <3>3, <3>4, <3>5, PCs, BesideSInv DEF store
    <3>7. QED BY <3>1, <3>6 DEF SInv, Remembered, CacheAnswered, store
  <2>2. QED BY <1>2, <2>1, PCs, ApplySInv DEF Handle
<1>3. ASSUME NEW h \in Handlers, NEW v \in VMs, MigrationEvent(h, v) PROVE SInv'
  <2> DEFINE new == At("lock", "cached", EmptyTable, FALSE)
  <2>1. h \in Workers /\ h # Loop /\ Become(h, new) /\ UNCHANGED <<lastApplied, cache, store>>
    BY <1>3, PCs, ReconcilerAssumption DEF MigrationEvent, apply
  <2>2. new.pc = "lock"
    BY DEF At
  <2> HIDE DEF new
  <2>3. work'[Loop] = work[Loop]
    BY <2>1, PCs DEF Become, TypeOK
  <2>4. (StillKnown /\ Unread /\ Answered /\ Retains)'
    BY <2>1, <2>2, <2>3, BesideSInv DEF store
  <2>5. QED BY <2>1, <2>4 DEF SInv, Remembered, CacheAnswered, store
<1>4. ASSUME UNCHANGED <<work, lastApplied, cache>>, Remembered', StillKnown',
             \A v \in VMs : stored'[v] \in {{}, stored[v]}
      PROVE  SInv'
  <2>1. Unread'
    BY <1>4 DEF SInv, Unread, Applying
  <2>2. Retains'
    <3> SUFFICES ASSUME NEW w \in Workers, Resolved(w), NEW v \in VMs, v \in work[w].saw
                 PROVE  Externals(lastApplied[v] \cup stored'[v]) \cap AlwaysMapped(v)
                          \subseteq Externals(work[w].applied[v])
      BY <1>4 DEF SInv, Retains, Resolved, AlwaysMapped
    <3>1. Externals(lastApplied[v] \cup stored[v]) \cap AlwaysMapped(v)
            \subseteq Externals(work[w].applied[v])
      BY DEF SInv, Retains
    <3>2. Externals(lastApplied[v] \cup stored'[v]) \subseteq Externals(lastApplied[v] \cup stored[v])
      BY <1>4 DEF Externals
    <3>3. QED BY <3>1, <3>2
  <2>3. (CacheAnswered /\ Answered)'
    BY <1>4 DEF SInv, CacheAnswered, Answered
  <2>4. QED BY <1>4, <2>1, <2>2, <2>3 DEF SInv
<1>5. CASE Flush
  <2>1. CASE TakeBatch
    <3>1. Remembered'
      BY <2>1 DEF TakeBatch, apply, SInv, Remembered, NoEntries
    <3>2. StillKnown'
      BY <2>1, ReconcilerAssumption DEF TakeBatch, SInv, StillKnown, Found, NoEntries
    <3>3. QED BY <1>4, <2>1, <3>1, <3>2 DEF TakeBatch, apply
  <2>2. ASSUME NEW v \in VMs, Persist(v) PROVE SInv'
    <3>1. Remembered'
      BY <2>2 DEF Persist, apply, SInv, Remembered, TypeOK
    <3>2. StillKnown'
      <4>1. batch[v] # Unknown
        BY <2>2, ReconcilerAssumption DEF Persist, TypeOK
      <4>2. None # {}
        BY ReconcilerAssumption
      <4>3. QED BY <2>2, <4>1, <4>2 DEF Persist, SInv, StillKnown, Found, TypeOK, Table
    <3>3. QED BY <1>4, <2>2, <3>1, <3>2 DEF Persist, apply
  <2>3. ASSUME NEW v \in VMs, PersistFails(v) PROVE SInv'
    <3>1. Remembered'
      BY <2>3 DEF PersistFails, apply, SInv, Remembered, TypeOK, Table, Whole
    <3>2. StillKnown'
      BY <2>3 DEF PersistFails, SInv, StillKnown, Found, TypeOK, Table
    <3>3. \A u \in VMs : stored'[u] \in {{}, stored[u]}
      BY <2>3 DEF PersistFails, TypeOK, Table
    <3>4. QED BY <1>4, <2>3, <3>1, <3>2, <3>3 DEF PersistFails, apply
  <2>4. QED BY <1>5, <2>1, <2>2, <2>3 DEF Flush
<1>6. CASE (\E v \in VMs : PlacementEvent(v)) \/ (\E table \in Tables : NetBoxChanges(table))
  BY <1>4, <1>6 DEF PlacementEvent, NetBoxChanges, apply, store, SInv, Remembered, StillKnown, Found
<1>7. CASE Crash
  <2>1. \A w \in Workers : work'[w].pc \in {"boot", "idle"}
    BY <1>7, PCs DEF Crash, Reborn, Boot
  <2>2. Remembered'
    BY <1>7 DEF Crash, Reborn, SInv, Remembered, Whole, EmptyTable, NoEntries, NothingKnown
  <2>3. CacheAnswered'
    BY <1>7 DEF Crash, Reborn, CacheAnswered, ColdCache, Answers
  <2>4. StillKnown'
    <3>1. /\ work'[Loop].pc = "boot" /\ stored' = disk /\ disk' = disk
          /\ pending' = NoEntries /\ batch' = NoEntries
      BY <1>7, PCs DEF Crash, Reborn, Boot
    <3>2. QED BY <3>1, ReconcilerAssumption DEF StillKnown, Found, NoEntries
  <2>5. Unread'
    BY <1>7, <2>1 DEF Crash, Reborn, ColdCache, Unread, Applying
  <2>6. QED BY <2>1, <2>2, <2>3, <2>4, <2>5 DEF SInv, Answered, Retains, Resolved
<1>8. CASE UNCHANGED vars
  BY <1>4, <1>8 DEF vars, apply, store, SInv, Remembered, StillKnown, Found
<1>9. ~\E d \in Deltas : TakeDelta(d)
  BY DEF OnlyTruth
<1>10. QED BY <1>1, <1>2, <1>3, <1>5, <1>6, <1>7, <1>8, <1>9 DEF Next

\* No two applies at a time
LEMMA SoloCorrect ==
  ASSUME NoOverlap
  PROVE  Spec => []Solo
<1>1. LInv => Solo
  BY DEF LInv, Locked, Solo, Workers
<1>2. QED BY <1>1, InitLInv, NextLInv, PTL DEF Spec

LEMMA DropsNothingServed ==
  ASSUME SInv, TypeOK, [Next]_vars, NEW v \in VMs, NEW w \in Workers,
         work[w].pc = "bgp", work'[w].pc # "bgp", v \in work[w].saw \cap active
  PROVE  (lo \ lo') \cap Externals(lastApplied[v] \cup stored[v]) \cap AlwaysMapped(v) = {}
<1>1. CASE lo' = lo
  BY <1>1
<1>2. CASE lo' # lo
  <2>1. PICK u \in Workers, adopt \in BOOLEAN, failed, effective \in SUBSET External :
           work[u].pc = "bgp" /\ Converge(u, adopt, failed, effective)
    <3>1. ~Crash
      BY <1>2 DEF Crash
    <3>2. QED BY <1>2, <3>1, OnlyConvergeChanges DEF Kept, Alive, Next
  <2>2. u = w
    BY <2>1 DEF Converge, Become, TypeOK
  <2>3. (lo \ lo') \cap Addresses(work[w].applied) = {}
    BY <2>1, <2>2 DEF Converge
  <2>4. Externals(work[w].applied[v]) \subseteq Addresses(work[w].applied)
    BY DEF Addresses, Rules, Externals
  <2>5. Externals(lastApplied[v] \cup stored[v]) \cap AlwaysMapped(v)
          \subseteq Externals(work[w].applied[v])
    BY DEF SInv, Retains, Resolved
  <2>6. QED BY <2>3, <2>4, <2>5
<1>3. QED BY <1>1, <1>2

\* Failed and empty fetches, failed commands, writes of other backups that fail, and
\* in every process anew after a crash: of what NetBox has mapped all along to a VM
\* active here an apply withdraws neither what the last one served nor what the
\* process found in the VM's backup.  What was served before a restart and had not
\* been written by then is not covered.
THEOREM RetainedServed ==
  ASSUME OnlyTruth
  PROVE  Spec => KeepsServing
<1> DEFINE Step ==
      \A v \in VMs, w \in Workers :
        work[w].pc = "bgp" /\ work'[w].pc # "bgp" /\ v \in work[w].saw \cap active =>
          (lo \ lo') \cap Externals(lastApplied[v] \cup stored[v]) \cap AlwaysMapped(v) = {}
<1>1. SInv /\ TypeOK /\ [Next]_vars => [Step]_vars
  BY DropsNothingServed
<1>2. NoOverlap
  BY DEF OnlyTruth
<1>3. Spec => []SInv
  BY <1>2, InitSInv, NextSInv, SoloCorrect, TypeCorrect, PTL DEF Spec
<1>4. QED BY <1>1, <1>3, TypeCorrect, PTL DEF Spec, KeepsServing
-----------------------------------------------------------------------------
(***************************************************************************)
(* What has settled stays.  That a node gets there is RulesConverge, which *)
(* rests on fairness; that failures cannot take it away again does not.    *)
(***************************************************************************)

\* NetBox, placement and the webhooks rest and the process lives.
Undisturbed == UNCHANGED changes /\ ~Crash

\* The backup of an active VM holds what NetBox says, or does not know it yet.
Agreed(v) ==
  /\ pending[v] \in {None, netbox[v]} /\ batch[v] \in {None, netbox[v]}
  /\ cached[v] \in {Unknown, {}, netbox[v]}

\* An apply starts from NetBox's table, or from no answer at all.
Faithful(job) ==
  \/ job.table = netbox
  \/ job.table = EmptyTable /\ job.nothing /\ job.source # "delta"

Fits(w, job) ==
  /\ job.pc \notin {"boot", "prime", "seed"}
  /\ job.pc = "resolve" \/ (w = Loop /\ job.pc = "lock") => Faithful(job)
  /\ job.pc \in {"plan", "nft", "record", "bgp", "finish"} => job.applied = Target

JobsSettled == \A w \in Workers : Fits(w, work[w])
CacheSettled == cache.byID = netbox \/ NothingCached(cache)
BackupsSettled == \A v \in active : Agreed(v)
RulesSettled == rules = Rules(Target) /\ lastKey \in {Unknown, rules} /\ lastApplied = Target
KernelSettled == RulesSettled /\ Addresses(Target) \subseteq advertised \cap lo

Settled == KernelSettled /\ CacheSettled /\ BackupsSettled /\ JobsSettled

\* Nothing is announced that nobody asks for.
Exact == lo = Foreign \cup Addresses(Target)

LEMMA TargetTyped == TypeOK => Target \in Table
  BY ReconcilerAssumption DEF TypeOK, Target, Table

\* A worker's step disturbs no other worker.
LEMMA JobsStay ==
  ASSUME TypeOK, JobsSettled, UNCHANGED <<netbox, active>>,
         NEW w \in Workers, NEW job, Become(w, job), Fits(w, job)
  PROVE  JobsSettled'
<1>1. work'[w] = job /\ \A u \in Workers : u # w => work'[u] = work[u]
  BY DEF Become, TypeOK
<1>2. Target' = Target
  BY DEF Target
<1>3. ASSUME NEW u \in Workers PROVE Fits(u, work[u])'
  <2>1. Fits(u, work'[u])
    BY <1>1 DEF JobsSettled
  <2>2. QED BY <1>2, <2>1 DEF Fits, Faithful
<1>4. QED BY <1>3 DEF JobsSettled

\* What a backup answers for an active VM is what NetBox says, or nothing.
LEMMA LoadAgrees ==
  ASSUME TypeOK, BackupsSettled, NEW v \in active
  PROVE  Load(v) \in {{}, netbox[v]}
<1>1. v \in VMs /\ Agreed(v)
  BY DEF TypeOK, BackupsSettled
<1>2. netbox[v] \in SUBSET Pair
  BY <1>1, ReconcilerAssumption DEF TypeOK, Table
<1>3. netbox[v] # None /\ netbox[v] # Unknown
  BY <1>2, ReconcilerAssumption
<1>4. QED BY <1>1, <1>3 DEF Agreed, Load, Entry!LoadedFrom, Entry!InMemory

\* Every apply resolves to what NetBox and placement ask for, also one that
\* starts from an empty answer or from none.
LEMMA ServesTarget ==
  ASSUME TypeOK, Settled, NEW w \in Workers, work[w].pc = "resolve"
  PROVE  [v \in VMs |-> Served(work[w], v)] = Target
<1> DEFINE job == work[w]
<1>1. Faithful(job) /\ lastApplied = Target
  BY DEF Settled, JobsSettled, Fits, KernelSettled, RulesSettled
<1>2. ASSUME NEW v \in VMs PROVE Served(job, v) = IF v \in active THEN netbox[v] ELSE {}
  <2>1. CASE v \notin active
    BY <2>1 DEF Served
  <2>2. CASE v \in active /\ job.table[v] # {}
    <3>1. job.table = netbox
      BY <1>1, <2>2 DEF Faithful, EmptyTable
    <3>2. QED BY <2>2, <3>1 DEF Served
  <2>3. CASE v \in active /\ job.table[v] = {}
    <3>1. Load(v) \in {{}, netbox[v]} /\ lastApplied[v] = netbox[v]
      BY <1>1, <2>3, LoadAgrees DEF Settled, Target
    <3>2. CASE job.table = netbox
      BY <2>3, <3>1, <3>2 DEF Served
    <3>3. CASE job.table = EmptyTable /\ job.nothing /\ job.source # "delta"
      <4>1. ~Believable(job)
        BY <2>3, <3>3 DEF Believable
      <4>2. QED BY <2>3, <3>1, <3>3, <4>1 DEF Served
    <3>4. QED BY <1>1, <3>2, <3>3 DEF Faithful
  <2>4. QED BY <2>1, <2>2, <2>3
<1>3. QED BY <1>2 DEF Target

LEMMA ResolveSettled ==
  ASSUME TypeOK, Settled, NEW w \in Workers, Resolve(w)
  PROVE  Settled' /\ (Exact => Exact')
<1> USE DEF Settled
<1> DEFINE job == work[w]
           served == [v \in VMs |-> Served(job, v)]
           new == [At("plan", job.source, EmptyTable, FALSE) EXCEPT !.saw = active, !.applied = served]
<1>1. /\ job.pc = "resolve" /\ Become(w, new)
      /\ UNCHANGED <<netbox, active, apply, batch, cached>>
  BY DEF Resolve
<1>2. served = Target
  BY <1>1, ServesTarget
<1> HIDE DEF served
<1>3. new.pc = "plan" /\ new.applied = Target
  BY <1>2 DEF At
<1> HIDE DEF new
<1>4. JobsSettled'
  BY <1>1, <1>3, JobsStay DEF Fits
<1>5. Target' = Target
  BY <1>1 DEF Target
<1>6. KernelSettled' /\ CacheSettled' /\ (Exact => Exact')
  BY <1>1, <1>5 DEF apply, KernelSettled, RulesSettled, CacheSettled, NothingCached, Exact
<1>7. ASSUME NEW v \in active PROVE Agreed(v)'
  <2>1. v \in VMs /\ Agreed(v) /\ Faithful(job)
    BY <1>1 DEF TypeOK, BackupsSettled, JobsSettled, Fits
  <2>2. CASE job.table[v] # {} \/ Prunes(job, v)
    <3>1. job.table = netbox
      <4>1. CASE job.table = EmptyTable /\ job.nothing /\ job.source # "delta"
        BY <1>7, <2>1, <2>2, <4>1 DEF Prunes, Believable, EmptyTable
      <4>2. QED BY <2>1, <4>1 DEF Faithful
    <3>2. pending'[v] = Queued(v, netbox[v])
      BY <1>7, <2>1, <2>2, <3>1 DEF Resolve
    <3>3. pending'[v] \in {None, netbox[v]}
      BY <2>1, <3>2 DEF Agreed, Queued, Entry!Enqueued
    <3>4. QED BY <1>1, <2>1, <3>3 DEF Agreed
  <2>3. CASE ~(job.table[v] # {} \/ Prunes(job, v))
    <3>1. pending'[v] = pending[v]
      BY <2>1, <2>3 DEF Resolve
    <3>2. QED BY <1>1, <2>1, <3>1 DEF Agreed
  <2>4. QED BY <2>2, <2>3
<1>8. QED BY <1>1, <1>4, <1>6, <1>7 DEF BackupsSettled

\* Nothing is missing on the interface: a command that fails, and an adoption,
\* can at most leave or take away what nobody asks for.
LEMMA ConvergeSettled ==
  ASSUME TypeOK, Settled, NEW w \in Workers, NEW adopt, NEW failed, NEW effective,
         work[w].pc = "bgp", Converge(w, adopt, failed, effective)
  PROVE  Settled' /\ (Exact => Exact')
<1> USE DEF Settled
<1> DEFINE job == work[w]
           new == [job EXCEPT !.pc = IF job.first /\ ~job.same THEN "nft" ELSE "finish"]
           want == Addresses(Target)
           known == advertised \cup IF adopt THEN lo \cap job.managed ELSE {}
<1>1. job \in Job /\ job.applied = Target
  BY DEF TypeOK, JobsSettled, Fits
<1>2. /\ Become(w, new)
      /\ UNCHANGED <<netbox, active, cache, lastKey, lastApplied, rules, store>>
  BY DEF Converge
<1>3. new.pc \in {"nft", "finish"} /\ new.applied = Target
  BY <1>1 DEF Job
<1> HIDE DEF new
<1>4. JobsSettled'
  BY <1>2, <1>3, JobsStay DEF Fits
<1>5. Target' = Target
  BY <1>2 DEF Target
<1> DEFINE undone == failed \ effective
<1>6. /\ failed \subseteq (want \ known) \cup (known \ want)
      /\ advertised' = (known \cup ((want \ known) \ failed)) \ ((known \ want) \ failed)
      /\ lo' = (lo \cup ((want \ known) \ undone)) \ ((known \ want) \ undone)
  BY <1>1 DEF Converge
<1>7. want \subseteq advertised \cap lo /\ job.managed \subseteq External
  BY <1>1 DEF KernelSettled, RulesSettled, Job
<1> HIDE DEF want, job, undone
<1>8. want \subseteq advertised' \cap lo'
  BY <1>6, <1>7
<1>9. lo = Foreign \cup want => lo' = Foreign \cup want
  <2>1. advertised \subseteq External /\ Foreign \cap External = {}
    BY ReconcilerAssumption DEF TypeOK
  <2>2. QED BY <1>6, <1>7, <2>1
<1>10. QED BY <1>2, <1>4, <1>5, <1>8, <1>9
  DEF want, KernelSettled, RulesSettled, CacheSettled, BackupsSettled, Agreed, NothingCached, Exact, store

LEMMA ApplySettled ==
  ASSUME TypeOK, Settled, NEW w \in Workers, Apply(w)
  PROVE  Settled' /\ (Exact => Exact')
<1> DEFINE job == work[w]
<1>0. job \in Job /\ Fits(w, job)
  BY DEF TypeOK, Settled, JobsSettled
<1>1. ASSUME NEW new, Become(w, new), Fits(w, new),
             UNCHANGED <<netbox, active, cache, advertised, lo, store>>,
             rules' = rules, lastKey' \in {Unknown, rules}, lastApplied' = lastApplied
      PROVE  Settled' /\ (Exact => Exact')
  <2>1. JobsSettled' /\ Target' = Target
    BY <1>1, JobsStay DEF Settled, Target
  <2>2. QED BY <1>1, <2>1
    DEF Settled, KernelSettled, RulesSettled, CacheSettled, BackupsSettled, Agreed, NothingCached, Exact, store
<1>2. CASE Resolve(w)
  BY <1>2, ResolveSettled
<1>3. CASE Plan(w)
  <2> DEFINE first == lastKey = Rules(job.applied) \/ Addresses(job.applied) \subseteq advertised
             same == lastKey = Rules(job.applied)
             managed == IF kernelSynced THEN {} ELSE ManagedIPs
             new == [job EXCEPT !.pc = IF first THEN "bgp" ELSE "nft", !.first = first,
                       !.same = same, !.managed = managed]
  <2>1. /\ Become(w, new) /\ job.pc = "plan"
        /\ UNCHANGED <<netbox, active, cache, lastKey, lastApplied, advertised, rules, lo, store>>
    BY <1>3 DEF Plan, apply
  <2> HIDE DEF first, same, managed
  <2>2. new.pc \in {"bgp", "nft"} /\ new.applied = job.applied
    BY <1>0 DEF Job
  <2> HIDE DEF new
  <2>3. Fits(w, new)
    BY <1>0, <2>1, <2>2 DEF Fits
  <2>4. lastKey' \in {Unknown, rules}
    BY <2>1 DEF Settled, KernelSettled, RulesSettled
  <2>5. QED BY <1>1, <2>1, <2>3, <2>4
<1>4. CASE Nft(w)
  <2> DEFINE new == [job EXCEPT !.pc = "record"]
  <2>1. /\ Become(w, new) /\ job.pc = "nft" /\ rules' = Rules(job.applied)
        /\ UNCHANGED <<netbox, active, cache, lastKey, lastApplied, advertised, lo, store>>
    BY <1>4 DEF Nft
  <2>2. new.pc = "record" /\ new.applied = job.applied
    BY <1>0 DEF Job
  <2> HIDE DEF new
  <2>3. Fits(w, new) /\ rules' = rules /\ lastKey' \in {Unknown, rules}
    BY <1>0, <2>1, <2>2 DEF Fits, Settled, KernelSettled, RulesSettled
  <2>4. QED BY <1>1, <2>1, <2>3
<1>5. CASE NftFails(w)
  <2>1. /\ Become(w, Idle) /\ job.pc = "nft" /\ rules' \in {rules, Rules(job.applied)}
        /\ lastKey' = Unknown
        /\ UNCHANGED <<netbox, active, cache, lastApplied, advertised, lo, store>>
    BY <1>5 DEF NftFails, NftAbandoned, Done
  <2>2. Fits(w, Idle) /\ rules' = rules
    BY <1>0, <2>1, PCs DEF Fits, Settled, KernelSettled, RulesSettled
  <2>3. QED BY <1>1, <2>1, <2>2
<1>6. CASE Record(w)
  <2> DEFINE new == [job EXCEPT !.pc = IF job.first THEN "finish" ELSE "bgp"]
  <2>1. /\ Become(w, new) /\ job.pc = "record" /\ lastKey' = Rules(job.applied)
        /\ UNCHANGED <<netbox, active, cache, rules, lastApplied, advertised, lo, store>>
    BY <1>6 DEF Record
  <2>2. new.pc \in {"finish", "bgp"} /\ new.applied = job.applied
    BY <1>0 DEF Job
  <2> HIDE DEF new
  <2>3. Fits(w, new) /\ lastKey' = rules
    BY <1>0, <2>1, <2>2 DEF Fits, Settled, KernelSettled, RulesSettled
  <2>4. QED BY <1>1, <2>1, <2>3
<1>7. CASE Bgp(w)
  BY <1>7, ConvergeSettled DEF Bgp
<1>8. CASE \E listed \in BOOLEAN, failed, effective \in SUBSET External :
            BgpFails(w, listed, failed, effective)
  <2>1. PICK listed \in BOOLEAN, failed, effective \in SUBSET External :
          BgpFails(w, listed, failed, effective)
    BY <1>8
  <2> DEFINE adopt == AdoptionDue(w) /\ listed
  <2>2. Converge(w, adopt, failed, effective) /\ job.pc = "bgp"
    BY <2>1 DEF BgpFails
  <2> HIDE DEF adopt
  <2>3. QED BY <2>2, ConvergeSettled
<1>9. CASE Finish(w)
  <2>1. /\ Become(w, Idle) /\ job.pc = "finish" /\ lastApplied' = job.applied
        /\ UNCHANGED <<netbox, active, cache, lastKey, rules, advertised, lo, store>>
    BY <1>9 DEF Finish, Done
  <2>2. Fits(w, Idle) /\ lastApplied' = lastApplied /\ lastKey' \in {Unknown, rules}
    BY <1>0, <2>1, PCs DEF Fits, Settled, KernelSettled, RulesSettled
  <2>3. QED BY <1>1, <2>1, <2>2
<1>10. QED BY <1>2, <1>3, <1>4, <1>5, <1>6, <1>7, <1>8, <1>9 DEF Apply

\* A step outside an apply that changes no mapping the node serves from.
LEMMA BesideSettled ==
  ASSUME TypeOK, Settled, NEW w \in Workers, NEW job, Become(w, job), Fits(w, job),
         UNCHANGED <<netbox, active, lastKey, lastApplied, advertised, rules, lo, store>>,
         CacheSettled'
  PROVE  Settled' /\ (Exact => Exact')
<1>1. JobsSettled' /\ Target' = Target
  BY JobsStay DEF Settled, Target
<1>2. QED BY <1>1
  DEF Settled, KernelSettled, RulesSettled, BackupsSettled, Agreed, Exact, store

LEMMA RunSettled ==
  ASSUME TypeOK, Settled, Run
  PROVE  Settled' /\ (Exact => Exact')
<1> DEFINE job == work[Loop]
<1>0. /\ Loop \in Workers /\ job \in Job /\ Fits(Loop, job)
      /\ CacheSettled /\ job.pc \notin {"boot", "prime", "seed"}
  BY PCs DEF TypeOK, Settled, JobsSettled, Fits
<1>1. ~PrimeWarm /\ ~PrimeFetchFails /\ ~PrimeSeed /\ \A table : ~PrimeFetch(table)
  <2>1. PrimeWarm => job.pc = "boot"
    BY DEF PrimeWarm
  <2>2. PrimeFetchFails => job.pc = "prime"
    BY DEF PrimeFetchFails, PrimeUnanswered
  <2>3. PrimeSeed => job.pc = "seed"
    BY DEF PrimeSeed
  <2>4. ASSUME NEW table, PrimeFetch(table) PROVE job.pc = "prime"
    BY <2>4 DEF PrimeFetch
  <2>5. QED BY <1>0, <2>1, <2>2, <2>3, <2>4
<1>2. ASSUME NEW table, Fetch(table) PROVE Settled' /\ (Exact => Exact')
  <2> DEFINE new == At("lock", "fetch", table, table = EmptyTable)
  <2>1. /\ Become(Loop, new) /\ UNCHANGED <<netbox, active, apply, store>>
        /\ table \in {netbox, EmptyTable}
    BY <1>2 DEF Fetch, Answer
  <2>2. new.pc = "lock" /\ new.source = "fetch" /\ new.table = table /\ new.nothing = (table = EmptyTable)
    BY DEF At
  <2> HIDE DEF new
  <2>3. Fits(Loop, new)
    BY <2>1, <2>2 DEF Fits, Faithful
  <2>4. CacheSettled'
    BY <1>0, <2>1 DEF CacheSettled, NothingCached, apply
  <2>5. QED BY <1>0, <2>1, <2>3, <2>4, BesideSettled DEF apply
<1>3. CASE FetchFails
  <2> DEFINE new == At("resolve", "fallback", EmptyTable, TRUE)
  <2>1. Become(Loop, new) /\ UNCHANGED <<netbox, active, apply, store>>
    BY <1>3 DEF FetchFails, FetchUnanswered
  <2>2. new.pc = "resolve" /\ new.source = "fallback" /\ new.table = EmptyTable /\ new.nothing = TRUE
    BY DEF At
  <2> HIDE DEF new
  <2>3. Fits(Loop, new)
    BY <2>2 DEF Fits, Faithful
  <2>4. CacheSettled'
    BY <1>0, <2>1 DEF CacheSettled, NothingCached, apply
  <2>5. QED BY <1>0, <2>1, <2>3, <2>4, BesideSettled DEF apply
<1>4. CASE LockFetched
  <2> DEFINE new == [job EXCEPT !.pc = "resolve"]
  <2>1. /\ Become(Loop, new) /\ cache' = Rebuilt(job.table) /\ job.pc = "lock"
        /\ UNCHANGED <<netbox, active, lastKey, lastApplied, advertised, rules, lo, store>>
    BY <1>4 DEF LockFetched
  <2>2. /\ new.pc = "resolve" /\ new.source = job.source /\ new.table = job.table
        /\ new.nothing = job.nothing
    BY <1>0 DEF Job
  <2> HIDE DEF new
  <2>3. Faithful(job)
    BY <1>0, <2>1 DEF Fits
  <2>4. Fits(Loop, new)
    BY <2>2, <2>3 DEF Fits, Faithful
  <2>5. CacheSettled'
    BY <2>1, <2>3 DEF Faithful, CacheSettled, NothingCached, Rebuilt
  <2>6. QED BY <1>0, <2>1, <2>4, <2>5, BesideSettled
<1>5. CASE Apply(Loop)
  BY <1>0, <1>5, ApplySettled
<1>6. QED BY <1>1, <1>2, <1>3, <1>4, <1>5 DEF Run

LEMMA LockCachedSettled ==
  ASSUME TypeOK, Settled, NEW h \in Handlers, LockCached(h)
  PROVE  Settled' /\ (Exact => Exact')
<1> DEFINE new == At("resolve", "cached", cache.byID, NothingCached(cache))
<1>1. /\ Become(h, new) \/ Become(h, Idle)
      /\ UNCHANGED <<netbox, active, apply, store>>
  BY DEF LockCached
<1>2. /\ new.pc = "resolve" /\ new.source = "cached" /\ new.table = cache.byID
      /\ new.nothing = NothingCached(cache)
  BY DEF At
<1> HIDE DEF new
<1>3. h \in Workers /\ CacheSettled
  BY PCs DEF Settled
<1>4. Fits(h, new) /\ Fits(h, Idle)
  BY <1>2, <1>3, PCs, ReconcilerAssumption DEF Fits, Faithful, CacheSettled, NothingCached
<1>5. CacheSettled'
  BY <1>1, <1>3 DEF CacheSettled, NothingCached, apply
<1>6. QED BY <1>1, <1>3, <1>4, <1>5, BesideSettled DEF apply

LEMMA FlushSettled ==
  ASSUME TypeOK, Settled, Flush
  PROVE  Settled' /\ (Exact => Exact')
<1>1. UNCHANGED <<netbox, active, apply, work>>
  BY DEF Flush, TakeBatch, Persist, PersistFails
<1>2. Target' = Target
  BY <1>1 DEF Target
<1>3. JobsSettled'
  BY <1>1, <1>2 DEF Settled, JobsSettled, Fits, Faithful
<1>4. active \subseteq VMs /\ BackupsSettled
  BY DEF TypeOK, Settled
<1>5. BackupsSettled'
  <2>1. CASE TakeBatch
    BY <1>1, <1>4, <2>1 DEF TakeBatch, BackupsSettled, Agreed, NoEntries
  <2>2. ASSUME NEW v \in VMs, Persist(v) PROVE BackupsSettled'
    BY <1>1, <1>4, <2>2 DEF Persist, BackupsSettled, Agreed, TypeOK
  <2>3. ASSUME NEW v \in VMs, PersistFails(v) PROVE BackupsSettled'
    BY <1>1, <1>4, <2>3 DEF PersistFails, BackupsSettled, Agreed, TypeOK
  <2>4. QED BY <2>1, <2>2, <2>3 DEF Flush
<1>6. QED BY <1>1, <1>2, <1>3, <1>5
  DEF Settled, KernelSettled, RulesSettled, CacheSettled, NothingCached, Exact, apply

LEMMA StepSettled ==
  ASSUME TypeOK, Settled, [Next]_vars, Undisturbed
  PROVE  Settled' /\ (Exact => Exact')
<1>1. ~Change
  BY DEF Undisturbed, Change, TypeOK
<1>2. CASE Run
  BY <1>2, RunSettled
<1>3. ASSUME NEW h \in Handlers, Handle(h) PROVE Settled' /\ (Exact => Exact')
  BY <1>3, LockCachedSettled, ApplySettled, PCs DEF Handle
<1>4. CASE Flush
  BY <1>4, FlushSettled
<1>5. CASE UNCHANGED vars
  <2>1. Target' = Target
    BY <1>5 DEF vars, Target
  <2>2. QED BY <1>5, <2>1 DEF vars, store, apply, Settled, KernelSettled, RulesSettled, CacheSettled,
         NothingCached, BackupsSettled, Agreed, JobsSettled, Fits, Faithful, Exact
<1>6. /\ \A d \in Deltas : ~TakeDelta(d)
      /\ \A h \in Handlers, v \in VMs : ~MigrationEvent(h, v)
      /\ \A v \in VMs : ~PlacementEvent(v)
      /\ \A table \in Tables : ~NetBoxChanges(table)
  BY <1>1 DEF TakeDelta, MigrationEvent, PlacementEvent, NetBoxChanges
<1>7. QED BY <1>2, <1>3, <1>4, <1>5, <1>6 DEF Next, Undisturbed

\* Once a node has settled, failures alone do not disturb it: while NetBox,
\* placement and the webhooks rest and the process lives, no failed or empty
\* fetch, failed command or backup write, and no apply without the mutex
\* (reconciler.go:774-847) changes a rule, takes an address from a VM
\* or announces one that nobody asks for.
THEOREM SettledStays ==
  Spec => /\ [](Settled /\ [][Undisturbed]_vars =>
                   [](rules = Rules(Target) /\ Addresses(Target) \subseteq lo))
          /\ [](Settled /\ Exact /\ [][Undisturbed]_vars =>
                   [](rules = Rules(Target) /\ lo = Foreign \cup Addresses(Target)))
<1>1. TypeOK /\ Settled /\ [Next]_vars /\ [Undisturbed]_vars => Settled'
  <2>1. Settled /\ UNCHANGED vars => Settled'
    <3> SUFFICES ASSUME Settled, UNCHANGED vars PROVE Settled'
      OBVIOUS
    <3>1. Target' = Target
      BY DEF vars, Target
    <3>2. QED BY <3>1 DEF vars, store, apply, Settled, KernelSettled, RulesSettled, CacheSettled,
           NothingCached, BackupsSettled, Agreed, JobsSettled, Fits, Faithful
  <2>2. QED BY <2>1, StepSettled
<1>2. TypeOK /\ Settled /\ Exact /\ [Next]_vars /\ [Undisturbed]_vars => Exact'
  <2>1. Exact /\ UNCHANGED vars => Exact'
    BY DEF vars, apply, Exact, Target
  <2>2. QED BY <2>1, StepSettled
<1>3. Settled => rules = Rules(Target) /\ Addresses(Target) \subseteq lo
  BY DEF Settled, KernelSettled, RulesSettled
<1>4. Settled /\ Exact => rules = Rules(Target) /\ lo = Foreign \cup Addresses(Target)
  BY DEF Settled, KernelSettled, RulesSettled, Exact
<1>5. QED BY <1>1, <1>2, <1>3, <1>4, TypeCorrect, PTL DEF Spec
-----------------------------------------------------------------------------
(***************************************************************************)
(* How a node settles.  That Run fetches again is fairness; that one fetch *)
(* is enough, whatever went before, is not.                                *)
(***************************************************************************)

\* Nothing changes and nothing fails; a crash is a failure.
Quiet == UNCHANGED <<changes, faults>>

\* NetBox maps every VM here, or no backup of it is left that could serve it.
Answerable == \A v \in active : netbox[v] # {} \/ Agreed(v)

\* Loop has NetBox's present table and the mutex, and is about to apply it.
Fetched == work[Loop].pc = "resolve" /\ work[Loop].source = "fetch" /\ work[Loop].table = netbox

\* An apply starts from NetBox's table and has reason to believe it.
Informed(job) == job.table = netbox /\ ~job.nothing /\ job.source \in {"fetch", "cached"}

Planned(job) == job.pc \in {"plan", "nft", "record", "bgp", "finish"}

\* reconcileBGP has run in this apply.
Announced(job) == job.pc = "finish" \/ (job.first /\ job.pc \in {"nft", "record"})

\* The apply of that fetch, which nobody else disturbs.
Underway ==
  /\ cache.byID = netbox /\ Answerable
  /\ Applying(Loop) /\ (Handlers = {} \/ holder = Loop)
  /\ work[Loop].pc = "resolve" => Informed(work[Loop])
  /\ Planned(work[Loop]) => work[Loop].applied = Target
  /\ Announced(work[Loop]) => advertised = Addresses(Target)

Right(w, job) ==
  /\ job.pc \notin {"boot", "prime", "seed"}
  /\ job.pc = "resolve" \/ (w = Loop /\ job.pc = "lock") => Informed(job)
  /\ Planned(job) => job.applied = Target

\* What it leaves, and every later apply keeps.
Caught ==
  /\ cache.byID = netbox /\ Answerable
  /\ RulesSettled /\ advertised = Addresses(Target)
  /\ \A w \in Workers : Right(w, work[w])

\* What a fetch has brought is in the cache when it is applied, and counts as
\* nothing only if it is empty; and handlers have no part in Prime.
FInv ==
  /\ work[Loop].source = "fetch" =>
       /\ work[Loop].pc = "resolve" => cache.byID = work[Loop].table
       /\ work[Loop].pc \in {"lock", "resolve"} => work[Loop].nothing = (work[Loop].table = EmptyTable)
  /\ \A h \in Handlers : work[h].pc \notin {"boot", "prime", "seed"}

\* An apply goes forward and leaves what it starts from alone.
LEMMA ApplyMoves ==
  ASSUME TypeOK, NEW w \in Workers, Apply(w)
  PROVE  /\ Applying(w) /\ UNCHANGED <<netbox, active, cache>>
         /\ \E job : Become(w, job) /\ (Planned(job) \/ job.pc = "idle")
<1> DEFINE job == work[w]
<1>1. job \in Job
  BY DEF TypeOK
<1>2. ASSUME NEW pc PROVE [job EXCEPT !.pc = pc].pc = pc
  BY <1>1 DEF Job
<1>3. CASE Resolve(w)
  <2> DEFINE new == [At("plan", job.source, EmptyTable, FALSE) EXCEPT
                       !.saw = active, !.applied = [v \in VMs |-> Served(job, v)]]
  <2>1. new.pc = "plan"
    BY DEF At
  <2>2. Become(w, new) /\ job.pc = "resolve" /\ UNCHANGED <<netbox, active, cache>>
    BY <1>3 DEF Resolve, apply
  <2> HIDE DEF new
  <2>3. QED BY <2>1, <2>2 DEF Planned, Applying
<1>4. CASE Plan(w)
  <2> DEFINE first == lastKey = Rules(job.applied) \/ Addresses(job.applied) \subseteq advertised
             same == lastKey = Rules(job.applied)
             managed == IF kernelSynced THEN {} ELSE ManagedIPs
             new == [job EXCEPT !.pc = IF first THEN "bgp" ELSE "nft", !.first = first,
                       !.same = same, !.managed = managed]
  <2>1. Become(w, new) /\ job.pc = "plan" /\ UNCHANGED <<netbox, active, cache>>
    BY <1>4 DEF Plan, apply
  <2> HIDE DEF first, same, managed
  <2>2. new.pc \in {"bgp", "nft"}
    BY <1>1 DEF Job
  <2> HIDE DEF new
  <2>3. QED BY <2>1, <2>2 DEF Planned, Applying
<1>5. CASE Nft(w) \/ Record(w)
  BY <1>2, <1>5 DEF Nft, Record, Planned, Applying
<1>6. CASE NftFails(w) \/ Finish(w)
  BY <1>6, PCs DEF NftFails, NftAbandoned, Finish, Done, Applying
<1>7. ASSUME NEW adopt, NEW failed, NEW effective, job.pc = "bgp",
             Converge(w, adopt, failed, effective)
      PROVE  /\ UNCHANGED <<netbox, active, cache>>
             /\ \E new : Become(w, new) /\ Planned(new)
  BY <1>2, <1>7 DEF Converge, Planned
<1>8. CASE Bgp(w)
  BY <1>7, <1>8 DEF Bgp, Applying
<1>9. CASE \E listed \in BOOLEAN, failed, effective \in SUBSET External :
            BgpFails(w, listed, failed, effective)
  BY <1>7, <1>9 DEF BgpFails, Applying
<1>10. QED BY <1>3, <1>4, <1>5, <1>6, <1>8, <1>9 DEF Apply

LEMMA InitFInv == Init => FInv
  BY PCs, ReconcilerAssumption DEF Init, FInv, Boot, Workers

\* A step of a worker that leaves the cache alone.
LEMMA BecomeFInv ==
  ASSUME TypeOK, FInv, NEW w \in Workers, NEW job, Become(w, job),
         cache' = cache \/ (w = Loop /\ job.pc # "resolve"),
         w \in Handlers => job.pc \notin {"boot", "prime", "seed"},
         w = Loop /\ job.source = "fetch" => job.pc # "resolve",
         w = Loop /\ job.source = "fetch" /\ job.pc = "lock" => job.nothing = (job.table = EmptyTable)
  PROVE  FInv'
<1>1. work'[w] = job /\ \A u \in Workers : u # w => work'[u] = work[u]
  BY DEF Become, TypeOK
<1>2. Loop \in Workers /\ Handlers \subseteq Workers
  BY PCs
<1>3. CASE w = Loop
  BY <1>1, <1>2, <1>3, ReconcilerAssumption DEF FInv
<1>4. CASE w # Loop
  <2>1. work'[Loop] = work[Loop] /\ cache' = cache
    BY <1>1, <1>2, <1>4
  <2>2. QED BY <1>1, <1>2, <2>1 DEF FInv
<1>5. QED BY <1>3, <1>4

LEMMA ApplyFInv ==
  ASSUME TypeOK, FInv, NEW w \in Workers, Apply(w)
  PROVE  FInv'
  BY ApplyMoves, BecomeFInv DEF Planned

LEMMA RunFInv ==
  ASSUME TypeOK, FInv, Run
  PROVE  FInv'
<1> DEFINE job == work[Loop]
<1>0. Loop \in Workers /\ Loop \notin Handlers /\ job \in Job
  BY PCs, ReconcilerAssumption DEF TypeOK
<1>1. ASSUME NEW pc \in {"prime", "seed"}, NEW t
      PROVE  [Booting EXCEPT !.pc = pc].pc = pc /\ [Booting EXCEPT !.pc = pc, !.table = t].pc = pc
  BY DEF Booting, At
<1>2. CASE PrimeWarm
  BY <1>0, <1>1, <1>2, BecomeFInv DEF PrimeWarm, apply
<1>3. ASSUME NEW table, PrimeFetch(table) PROVE FInv'
  BY <1>0, <1>1, <1>3, BecomeFInv DEF PrimeFetch, apply
<1>4. CASE PrimeFetchFails
  BY <1>0, <1>1, <1>4, BecomeFInv, PCs DEF PrimeFetchFails, PrimeUnanswered, apply
<1>5. CASE PrimeSeed
  BY <1>0, <1>5, BecomeFInv, PCs DEF PrimeSeed
<1>6. ASSUME NEW table, Fetch(table) PROVE FInv'
  <2> DEFINE new == At("lock", "fetch", table, table = EmptyTable)
  <2>1. new.pc = "lock" /\ new.table = table /\ new.nothing = (table = EmptyTable)
    BY DEF At
  <2>2. Become(Loop, new) /\ cache' = cache
    BY <1>6 DEF Fetch, apply
  <2> HIDE DEF new
  <2>3. QED BY <1>0, <2>1, <2>2, BecomeFInv
<1>7. CASE FetchFails
  <2> DEFINE new == At("resolve", "fallback", EmptyTable, TRUE)
  <2>1. new.pc = "resolve" /\ new.source = "fallback"
    BY DEF At
  <2>2. Become(Loop, new) /\ cache' = cache
    BY <1>7 DEF FetchFails, FetchUnanswered, apply
  <2> HIDE DEF new
  <2>3. QED BY <1>0, <2>1, <2>2, BecomeFInv
<1>8. CASE LockFetched
  <2> DEFINE new == [job EXCEPT !.pc = "resolve"]
  <2>1. /\ work'[Loop] = new /\ cache'.byID = job.table /\ job.pc = "lock"
        /\ \A u \in Workers : u # Loop => work'[u] = work[u]
    BY <1>0, <1>8 DEF LockFetched, Become, TypeOK, Rebuilt
  <2>2. new.source = job.source /\ new.table = job.table /\ new.nothing = job.nothing
    BY <1>0 DEF Job
  <2> HIDE DEF new
  <2>3. \A h \in Handlers : work'[h] = work[h]
    BY <1>0, <2>1, PCs
  <2>4. QED BY <2>1, <2>2, <2>3 DEF FInv
<1>9. CASE Apply(Loop)
  BY <1>0, <1>9, ApplyFInv
<1>10. QED BY <1>2, <1>3, <1>4, <1>5, <1>6, <1>7, <1>8, <1>9 DEF Run

LEMMA NextFInv == TypeOK /\ FInv /\ [Next]_vars => FInv'
<1> SUFFICES ASSUME TypeOK, FInv, [Next]_vars PROVE FInv'
  OBVIOUS
<1>0. Loop \in Workers /\ Loop \notin Handlers
  BY PCs, ReconcilerAssumption
<1>1. CASE Run
  BY <1>1, RunFInv
<1>2. ASSUME NEW d \in Deltas, TakeDelta(d) PROVE FInv'
  <2> DEFINE c == DeltaToCache(Opened(cache), d)
             new == At("resolve", "delta", c.byID, NothingCached(c))
  <2>1. new.pc = "resolve" /\ new.source = "delta"
    BY DEF At
  <2>2. Become(Loop, new)
    BY <1>2 DEF TakeDelta
  <2> HIDE DEF new
  <2>3. work'[Loop] = new /\ \A u \in Workers : u # Loop => work'[u] = work[u]
    BY <1>0, <2>2 DEF Become, TypeOK
  <2>4. \A h \in Handlers : work'[h] = work[h]
    BY <1>0, <2>3, PCs
  <2>5. QED BY <2>1, <2>3, <2>4 DEF FInv
<1>3. ASSUME NEW h \in Handlers, Handle(h) PROVE FInv'
  <2>1. h \in Workers /\ h # Loop
    BY <1>0, PCs
  <2>2. CASE LockCached(h)
    BY <2>1, <2>2, BecomeFInv, PCs DEF LockCached, apply
  <2>3. QED BY <1>3, <2>1, <2>2, ApplyFInv DEF Handle
<1>4. ASSUME NEW h \in Handlers, NEW v \in VMs, MigrationEvent(h, v) PROVE FInv'
  <2>1. h \in Workers /\ h # Loop
    BY <1>0, PCs
  <2> DEFINE new == At("lock", "cached", EmptyTable, FALSE)
  <2>2. Become(h, new) /\ cache' = cache
    BY <1>4 DEF MigrationEvent, apply
  <2>3. new.pc = "lock"
    BY DEF At
  <2> HIDE DEF new
  <2>4. QED BY <2>1, <2>2, <2>3, BecomeFInv
<1>5. CASE Crash
  <2>1. work' = Boot
    BY <1>5 DEF Crash, Reborn
  <2>2. QED BY <1>0, <2>1, PCs DEF FInv, Boot
<1>6. CASE Flush \/ (\E v \in VMs : PlacementEvent(v)) \/ \E table \in Tables : NetBoxChanges(table)
  BY <1>6 DEF Flush, TakeBatch, Persist, PersistFails, PlacementEvent, NetBoxChanges, FInv, apply
<1>7. CASE UNCHANGED vars
  BY <1>7 DEF vars, apply, FInv
<1>8. QED BY <1>1, <1>2, <1>3, <1>4, <1>5, <1>6, <1>7 DEF Next

\* An informed apply gives every VM what NetBox says.
LEMMA InformedServes ==
  ASSUME TypeOK, Answerable, NEW job, Informed(job)
  PROVE  /\ [v \in VMs |-> Served(job, v)] = Target
         /\ \A v \in active : netbox[v] = {} => ~Prunes(job, v)
<1>1. ASSUME NEW v \in active, netbox[v] = {} PROVE Load(v) = {}
  <2>1. v \in VMs /\ Agreed(v)
    BY <1>1 DEF TypeOK, Answerable
  <2>2. {} # None /\ {} # Unknown
    BY ReconcilerAssumption
  <2>3. QED BY <1>1, <2>1, <2>2 DEF Agreed, Load, Entry!LoadedFrom, Entry!InMemory
<1>2. job.table = netbox /\ Believable(job) /\ job.source # "delta"
  BY DEF Informed, Believable
<1>3. ASSUME NEW v \in VMs PROVE Served(job, v) = IF v \in active THEN netbox[v] ELSE {}
  BY <1>1, <1>2 DEF Served
<1>4. QED BY <1>1, <1>2, <1>3 DEF Target, Prunes

\* Resolving from an informed answer plans what is asked for, and brings back
\* no backup that was gone.
LEMMA InformedResolve ==
  ASSUME TypeOK, Answerable, NEW w \in Workers, Informed(work[w]), Resolve(w)
  PROVE  /\ Answerable' /\ Target' = Target
         /\ \E job : Become(w, job) /\ job.pc = "plan" /\ job.applied = Target
<1> DEFINE served == [v \in VMs |-> Served(work[w], v)]
           new == [At("plan", work[w].source, EmptyTable, FALSE) EXCEPT !.saw = active, !.applied = served]
<1>1. Become(w, new) /\ UNCHANGED <<netbox, active, batch, cached>>
  BY DEF Resolve
<1>2. served = Target /\ \A v \in active : netbox[v] = {} => ~Prunes(work[w], v)
  BY InformedServes
<1> HIDE DEF served
<1>3. new.pc = "plan" /\ new.applied = Target
  BY <1>2 DEF At
<1>4. ASSUME NEW v \in active, netbox[v] = {} PROVE pending'[v] = pending[v]
  BY <1>2, <1>4 DEF Resolve, Informed, TypeOK
<1> HIDE DEF new
<1>5. Answerable'
  BY <1>1, <1>4 DEF Answerable, Agreed
<1>6. QED BY <1>1, <1>3, <1>5 DEF Target

\* Whatever the flusher does, or fails to do, a backup that is gone stays gone.
LEMMA FlushAnswerable ==
  ASSUME TypeOK, Answerable, Flush
  PROVE  Answerable'
<1> SUFFICES ASSUME NEW v \in active, netbox[v] = {} PROVE Agreed(v)'
  BY DEF Flush, TakeBatch, Persist, PersistFails, Answerable
<1>1. v \in VMs /\ Agreed(v)
  BY DEF TypeOK, Answerable
<1>2. CASE TakeBatch
  BY <1>1, <1>2 DEF TakeBatch, Agreed, NoEntries
<1>3. ASSUME NEW u \in VMs, Persist(u) PROVE Agreed(v)'
  BY <1>1, <1>3 DEF Persist, Agreed, TypeOK
<1>4. ASSUME NEW u \in VMs, PersistFails(u) PROVE Agreed(v)'
  BY <1>1, <1>4 DEF PersistFails, Agreed, TypeOK
<1>5. QED BY <1>2, <1>3, <1>4 DEF Flush

\* With every command succeeding, exactly what is asked for is announced.
LEMMA ConvergeExact ==
  ASSUME TypeOK, NEW w \in Workers, NEW adopt, Converge(w, adopt, {}, {})
  PROVE  advertised' = Addresses(work[w].applied)
  BY DEF Converge

\* What a step of an apply that does not fail does, whoever applies.
LEMMA SoundApply ==
  ASSUME TypeOK, NEW w \in Workers, Apply(w), ~Resolve(w), UNCHANGED faults,
         work[w].applied = Target
  PROVE  /\ UNCHANGED <<netbox, active, cache, store>> /\ Target' = Target
         /\ rules' \in {rules, Rules(Target)}
         /\ lastKey' \in {lastKey, Rules(Target)}
         /\ lastApplied' \in {lastApplied, Target}
         /\ advertised' \in {advertised, Addresses(Target)}
         /\ \/ \E job : /\ Become(w, job) /\ Planned(job) /\ job.applied = Target
                        /\ holder' = holder
                        /\ Announced(job) => Announced(work[w]) \/ advertised' = Addresses(Target)
                        /\ UNCHANGED lastApplied
            \/ /\ work[w].pc = "finish" /\ Done(w) /\ lastApplied' = Target
               /\ UNCHANGED <<rules, lastKey, advertised>>
<1> DEFINE job == work[w]
<1>0. job \in Job /\ faults \in Nat
  BY DEF TypeOK
<1>1. \A kind : ~Fault(kind)
  BY <1>0 DEF Fault
<1>2. ~NftFails(w) /\ \A listed, failed, effective : ~BgpFails(w, listed, failed, effective)
  BY <1>1 DEF NftFails, BgpFails
<1>3. CASE Plan(w)
  <2> DEFINE first == lastKey = Rules(job.applied) \/ Addresses(job.applied) \subseteq advertised
             same == lastKey = Rules(job.applied)
             managed == IF kernelSynced THEN {} ELSE ManagedIPs
             new == [job EXCEPT !.pc = IF first THEN "bgp" ELSE "nft", !.first = first,
                       !.same = same, !.managed = managed]
  <2>1. /\ Become(w, new) /\ holder' = holder
        /\ UNCHANGED <<netbox, active, cache, lastKey, lastApplied, advertised, rules, store>>
    BY <1>3 DEF Plan, apply
  <2> HIDE DEF same, managed
  <2>2. /\ new.pc = (IF first THEN "bgp" ELSE "nft") /\ new.first = first
        /\ new.applied = Target
    BY <1>0 DEF Job
  <2> HIDE DEF new, first
  <2>3. Planned(new) /\ ~Announced(new)
    BY <2>2 DEF Planned, Announced
  <2>4. QED BY <2>1, <2>2, <2>3 DEF Target
<1>4. CASE Nft(w)
  <2> DEFINE new == [job EXCEPT !.pc = "record"]
  <2>1. /\ Become(w, new) /\ holder' = holder /\ job.pc = "nft" /\ rules' = Rules(Target)
        /\ UNCHANGED <<netbox, active, cache, lastKey, lastApplied, advertised, store>>
    BY <1>4 DEF Nft
  <2>2. new.pc = "record" /\ new.first = job.first /\ new.applied = Target
    BY <1>0 DEF Job
  <2> HIDE DEF new
  <2>3. Planned(new) /\ (Announced(new) => Announced(job))
    BY <2>1, <2>2 DEF Planned, Announced
  <2>4. QED BY <2>1, <2>2, <2>3 DEF Target
<1>5. CASE Record(w)
  <2> DEFINE new == [job EXCEPT !.pc = IF job.first THEN "finish" ELSE "bgp"]
  <2>1. /\ Become(w, new) /\ holder' = holder /\ job.pc = "record" /\ lastKey' = Rules(Target)
        /\ UNCHANGED <<netbox, active, cache, rules, lastApplied, advertised, store>>
    BY <1>5 DEF Record
  <2>2. /\ new.pc = (IF job.first THEN "finish" ELSE "bgp") /\ new.first = job.first
        /\ new.applied = Target
    BY <1>0 DEF Job
  <2> HIDE DEF new
  <2>3. Planned(new) /\ (Announced(new) => Announced(job))
    BY <2>1, <2>2 DEF Planned, Announced
  <2>4. QED BY <2>1, <2>2, <2>3 DEF Target
<1>6. CASE Bgp(w)
  <2> DEFINE new == [job EXCEPT !.pc = IF job.first /\ ~job.same THEN "nft" ELSE "finish"]
  <2>1. /\ Become(w, new) /\ holder' = holder
        /\ UNCHANGED <<netbox, active, cache, lastKey, rules, lastApplied, store>>
    BY <1>6 DEF Bgp, Converge
  <2>2. new.pc \in {"nft", "finish"} /\ new.applied = Target
    BY <1>0 DEF Job
  <2>3. advertised' = Addresses(Target)
    BY <1>6, ConvergeExact DEF Bgp
  <2> HIDE DEF new
  <2>4. Planned(new)
    BY <2>2 DEF Planned
  <2>5. QED BY <2>1, <2>2, <2>3, <2>4 DEF Target
<1>7. CASE Finish(w)
  BY <1>7 DEF Finish, Target, store
<1>8. QED BY <1>2, <1>3, <1>4, <1>5, <1>6, <1>7 DEF Apply

\* The fetch under way keeps the node to itself, and ends with what is asked for.
LEMMA UnderwayStep ==
  ASSUME LInv, FInv, NoOverlap, Underway, [Next]_vars, Quiet
  PROVE  (Underway \/ Caught)'
<1> DEFINE job == work[Loop]
<1> USE DEF LInv
<1>0. /\ Loop \in Workers /\ Loop \notin Handlers /\ Handlers \subseteq Workers
      /\ job \in Job /\ \A u \in Workers : u # Loop => u \in Handlers
      /\ changes \in Nat /\ faults \in Nat
  BY PCs, ReconcilerAssumption DEF TypeOK, Workers
<1>1. \A kind : ~Fault(kind)
  BY <1>0 DEF Quiet, Fault
<1>2. ~Change
  BY <1>0 DEF Quiet, Change
<1>3. \A u \in Workers : u # Loop => ~Applying(u)
  BY <1>0, ReconcilerAssumption DEF Underway, Locked
<1>4. CASE Resolve(Loop)
  <2>1. job.pc = "resolve" /\ UNCHANGED <<cache, netbox, holder>>
    BY <1>4 DEF Resolve, apply
  <2>2. PICK new : Become(Loop, new) /\ new.pc = "plan" /\ new.applied = Target
    BY <1>0, <1>4, <2>1, InformedResolve DEF Underway
  <2>3. Answerable' /\ Target' = Target
    BY <1>0, <1>4, <2>1, InformedResolve DEF Underway
  <2>4. work'[Loop] = new
    BY <1>0, <2>2 DEF Become, TypeOK
  <2>5. QED BY <2>1, <2>2, <2>3, <2>4 DEF Underway, Applying, Planned, Announced
<1>5. CASE Apply(Loop) /\ ~Resolve(Loop)
  <2>1. job.applied = Target
    <3>1. Planned(job)
      BY <1>5 DEF Apply, Plan, Nft, NftFails, NftAbandoned, Record, Bgp, BgpFails, Finish, Planned
    <3>2. QED BY <3>1 DEF Underway
  <2>2. /\ UNCHANGED <<netbox, active, cache, store>> /\ Target' = Target
        /\ advertised' \in {advertised, Addresses(Target)}
    BY <1>0, <1>5, <2>1, SoundApply DEF Quiet
  <2>3. Answerable'
    BY <2>2 DEF Underway, Answerable, Agreed, store
  <2>4. CASE \E new : /\ Become(Loop, new) /\ Planned(new) /\ new.applied = Target
                      /\ holder' = holder
                      /\ Announced(new) => Announced(job) \/ advertised' = Addresses(Target)
    <3>1. PICK new : /\ Become(Loop, new) /\ Planned(new) /\ new.applied = Target
                     /\ holder' = holder
                     /\ Announced(new) => Announced(job) \/ advertised' = Addresses(Target)
      BY <2>4
    <3>2. work'[Loop] = new
      BY <1>0, <3>1 DEF Become, TypeOK
    <3>3. Applying(Loop)' /\ new.pc # "resolve"
      BY <3>1, <3>2 DEF Planned, Applying
    <3>4. QED BY <2>2, <2>3, <3>1, <3>2, <3>3 DEF Underway, Planned, Announced
  <2>5. CASE /\ job.pc = "finish" /\ Done(Loop) /\ lastApplied' = Target
             /\ UNCHANGED <<rules, lastKey, advertised>>
    <3>1. rules = Rules(Target)
      BY <1>0, <2>1, <2>5 DEF Ordered
    <3>2. lastKey \in {Unknown, rules}
      BY <1>0, <1>3, <2>5 DEF FingerprintTrue, Applying
    <3>3. advertised = Addresses(Target)
      BY <2>5 DEF Underway, Announced
    <3>5. RulesSettled' /\ advertised' = Addresses(Target')
      BY <2>2, <2>5, <3>1, <3>2, <3>3 DEF RulesSettled
    <3>6. ASSUME NEW u \in Workers PROVE Right(u, work[u])'
      <4>1. CASE u = Loop
        <5>1. work'[u] = Idle
          BY <1>0, <2>5, <4>1 DEF Done, Become, TypeOK
        <5>2. QED BY <5>1, PCs DEF Right, Planned
      <4>2. CASE u # Loop
        <5>1. work'[u] = work[u] /\ u \in Handlers
          BY <1>0, <2>5, <4>2 DEF Done, Become, TypeOK
        <5>2. QED BY <1>3, <4>2, <5>1 DEF Right, Planned, Applying, FInv
      <4>3. QED BY <4>1, <4>2
    <3>7. QED BY <2>2, <2>3, <3>5, <3>6 DEF Caught, Underway
  <2>6. QED BY <1>0, <1>5, <2>1, <2>4, <2>5, SoundApply DEF Quiet
<1>6. CASE Run /\ ~Apply(Loop)
  <2>1. Run => \/ Apply(Loop)
               \/ job.pc \in {"boot", "prime", "seed", "idle", "lock"}
    BY DEF Run, PrimeWarm, PrimeFetch, Fetch, PrimeFetchFails, PrimeUnanswered, PrimeSeed, FetchFails,
           FetchUnanswered, LockFetched
  <2>2. QED BY <1>6, <2>1 DEF Underway, Applying
<1>7. ASSUME NEW h \in Handlers, Handle(h) PROVE FALSE
  <2>1. h \in Workers /\ h # Loop /\ holder = Loop /\ holder # None
    BY <1>0, ReconcilerAssumption DEF Underway
  <2>2. ~Apply(h)
    BY <1>3, <2>1, ApplyMoves
  <2>3. QED BY <1>7, <2>1, <2>2 DEF Handle, LockCached
<1>8. CASE Flush
  <2>1. UNCHANGED <<netbox, active, apply, holder, work>>
    BY <1>8 DEF Flush, TakeBatch, Persist, PersistFails
  <2>2. Answerable'
    BY <1>8, FlushAnswerable DEF Underway
  <2>3. QED BY <2>1, <2>2 DEF Underway, Applying, Informed, Planned, Announced, Target, apply
<1>9. CASE UNCHANGED vars
  BY <1>9 DEF vars, apply, store, Underway, Answerable, Agreed, Applying, Informed, Planned, Announced, Target
<1>10. /\ \A d \in Deltas : ~TakeDelta(d)
       /\ \A h \in Handlers, v \in VMs : ~MigrationEvent(h, v)
       /\ \A v \in VMs : ~PlacementEvent(v)
       /\ \A table \in Tables : ~NetBoxChanges(table)
       /\ ~Crash
  BY <1>1, <1>2 DEF TakeDelta, MigrationEvent, PlacementEvent, NetBoxChanges, Crash
<1>11. QED BY <1>4, <1>5, <1>6, <1>7, <1>8, <1>9, <1>10 DEF Next

\* A worker's step that fits disturbs no other.
LEMMA CaughtJobs ==
  ASSUME TypeOK, \A w \in Workers : Right(w, work[w]), UNCHANGED <<netbox, active>>,
         NEW w \in Workers, NEW job, Become(w, job), Right(w, job)
  PROVE  \A u \in Workers : Right(u, work[u])'
<1>1. work'[w] = job /\ \A u \in Workers : u # w => work'[u] = work[u]
  BY DEF Become, TypeOK
<1>2. Target' = Target
  BY DEF Target
<1>3. ASSUME NEW u \in Workers PROVE Right(u, work[u])'
  <2>1. Right(u, work'[u])
    BY <1>1
  <2>2. QED BY <1>2, <2>1 DEF Right, Informed
<1>4. QED BY <1>3

\* A step outside an apply of what has been caught up with.
LEMMA BesideCaught ==
  ASSUME TypeOK, Caught, NEW w \in Workers, NEW job, Become(w, job), Right(w, job),
         UNCHANGED <<netbox, active, lastKey, lastApplied, advertised, rules, lo, store>>,
         cache'.byID = netbox
  PROVE  Caught'
<1>1. \A u \in Workers : Right(u, work[u])'
  BY CaughtJobs DEF Caught
<1>2. Target' = Target
  BY DEF Target
<1>3. QED BY <1>1, <1>2 DEF Caught, RulesSettled, Answerable, Agreed, store

LEMMA ApplyCaught ==
  ASSUME TypeOK, Caught, UNCHANGED faults, NEW w \in Workers, Apply(w)
  PROVE  Caught'
<1> DEFINE job == work[w]
<1>0. Right(w, job)
  BY DEF Caught
<1>1. CASE Resolve(w)
  <2>1. job.pc = "resolve" /\ UNCHANGED <<netbox, active, apply>>
    BY <1>1 DEF Resolve
  <2>2. Informed(job)
    BY <1>0, <2>1 DEF Right
  <2>3. PICK new : Become(w, new) /\ new.pc = "plan" /\ new.applied = Target
    BY <1>1, <2>2, InformedResolve DEF Caught
  <2>4. Answerable' /\ Target' = Target
    BY <1>1, <2>2, InformedResolve DEF Caught
  <2>5. Right(w, new)
    BY <2>3 DEF Right
  <2>6. \A u \in Workers : Right(u, work[u])'
    BY <2>1, <2>3, <2>5, CaughtJobs DEF Caught
  <2>7. QED BY <2>1, <2>4, <2>6 DEF Caught, RulesSettled, apply
<1>2. CASE ~Resolve(w)
  <2>1. job.applied = Target
    <3>1. Planned(job)
      BY <1>2 DEF Apply, Plan, Nft, NftFails, NftAbandoned, Record, Bgp, BgpFails, Finish, Planned
    <3>2. QED BY <1>0, <3>1 DEF Right
  <2>2. /\ UNCHANGED <<netbox, active, cache, store>> /\ Target' = Target
        /\ rules' \in {rules, Rules(Target)} /\ lastKey' \in {lastKey, Rules(Target)}
        /\ lastApplied' \in {lastApplied, Target}
        /\ advertised' \in {advertised, Addresses(Target)}
    BY <1>2, <2>1, SoundApply
  <2>3. \E new : Become(w, new) /\ Right(w, new)
    <3>1. Right(w, Idle)
      BY PCs DEF Right, Planned
    <3>2. ASSUME NEW new, Planned(new), new.applied = Target PROVE Right(w, new)
      BY <3>2 DEF Right, Planned
    <3>3. QED BY <1>2, <2>1, <3>1, <3>2, SoundApply DEF Done
  <2>4. \A u \in Workers : Right(u, work[u])'
    BY <2>2, <2>3, CaughtJobs DEF Caught
  <2>5. Answerable'
    BY <2>2 DEF Caught, Answerable, Agreed, store
  <2>6. RulesSettled' /\ advertised' = Addresses(Target')
    BY <2>2 DEF Caught, RulesSettled
  <2>7. QED BY <2>2, <2>4, <2>5, <2>6 DEF Caught
<1>3. QED BY <1>1, <1>2

\* What the node has caught up with it keeps, whatever it applies next.
LEMMA CaughtStep ==
  ASSUME TypeOK, FInv, Caught, [Next]_vars, Quiet
  PROVE  Caught'
<1> DEFINE job == work[Loop]
<1>0. /\ Loop \in Workers /\ Loop \notin Handlers /\ Handlers \subseteq Workers
      /\ job \in Job /\ Right(Loop, job) /\ cache.byID = netbox
      /\ changes \in Nat /\ faults \in Nat
  BY PCs, ReconcilerAssumption DEF TypeOK, Caught
<1>1. \A kind : ~Fault(kind)
  BY <1>0 DEF Quiet, Fault
<1>2. ~Change
  BY <1>0 DEF Quiet, Change
<1>3. netbox # EmptyTable
  BY ReconcilerAssumption DEF TypeOK
<1>5. ASSUME NEW w \in Workers, Apply(w) PROVE Caught'
  BY <1>5, ApplyCaught DEF Quiet
<1>6. ASSUME NEW table, Fetch(table) PROVE Caught'
  <2> DEFINE new == At("lock", "fetch", table, table = EmptyTable)
  <2>1. Become(Loop, new) /\ table = netbox /\ UNCHANGED <<netbox, active, apply, store>>
    BY <1>1, <1>6 DEF Fetch, Answer
  <2>2. new.pc = "lock" /\ new.source = "fetch" /\ new.table = table /\ new.nothing = (table = EmptyTable)
    BY DEF At
  <2> HIDE DEF new
  <2>3. Right(Loop, new)
    BY <1>3, <2>1, <2>2 DEF Right, Informed, Planned
  <2>4. QED BY <1>0, <2>1, <2>3, BesideCaught DEF apply
<1>7. CASE LockFetched
  <2> DEFINE new == [job EXCEPT !.pc = "resolve"]
  <2>1. /\ Become(Loop, new) /\ job.pc = "lock" /\ cache'.byID = job.table
        /\ UNCHANGED <<netbox, active, lastKey, lastApplied, advertised, rules, lo, store>>
    BY <1>7 DEF LockFetched, Rebuilt
  <2>2. new.pc = "resolve" /\ new.source = job.source /\ new.table = job.table /\ new.nothing = job.nothing
    BY <1>0 DEF Job
  <2> HIDE DEF new
  <2>3. Informed(job)
    BY <1>0, <2>1 DEF Right
  <2>4. Right(Loop, new)
    BY <2>2, <2>3 DEF Right, Informed, Planned
  <2>5. QED BY <1>0, <2>1, <2>3, <2>4, BesideCaught DEF Informed
<1>8. CASE Run
  <2>1. ~FetchFails /\ ~PrimeWarm /\ ~PrimeFetchFails /\ ~PrimeSeed /\ \A table : ~PrimeFetch(table)
    BY <1>0, <1>1 DEF FetchFails, PrimeWarm, PrimeFetchFails, PrimeSeed, PrimeFetch, Right
  <2>2. QED BY <1>0, <1>5, <1>6, <1>7, <1>8, <2>1 DEF Run
<1>9. ASSUME NEW h \in Handlers, LockCached(h) PROVE Caught'
  <2> DEFINE new == At("resolve", "cached", cache.byID, NothingCached(cache))
  <2>1. /\ Become(h, new) \/ Become(h, Idle)
        /\ UNCHANGED <<netbox, active, apply, store>>
    BY <1>9 DEF LockCached
  <2>2. new.pc = "resolve" /\ new.source = "cached" /\ new.table = netbox /\ ~new.nothing
    BY <1>0, <1>3 DEF At, NothingCached
  <2> HIDE DEF new
  <2>3. Right(h, new) /\ Right(h, Idle) /\ h \in Workers
    BY <1>0, <2>2, PCs DEF Right, Informed, Planned
  <2>4. QED BY <1>0, <2>1, <2>3, BesideCaught DEF apply
<1>10. CASE Flush
  <2>1. UNCHANGED <<netbox, active, apply, holder, work>>
    BY <1>10 DEF Flush, TakeBatch, Persist, PersistFails
  <2>2. Answerable'
    BY <1>10, FlushAnswerable DEF Caught
  <2>3. Target' = Target
    BY <2>1 DEF Target
  <2>4. QED BY <2>1, <2>2, <2>3 DEF Caught, RulesSettled, Right, Informed, Planned, apply
<1>11. CASE UNCHANGED vars
  <2>1. Target' = Target
    BY <1>11 DEF vars, Target
  <2>2. QED BY <1>11, <2>1
    DEF vars, apply, store, Caught, RulesSettled, Answerable, Agreed, Right, Informed, Planned
<1>12. /\ \A d \in Deltas : ~TakeDelta(d)
       /\ \A h \in Handlers, v \in VMs : ~MigrationEvent(h, v)
       /\ \A v \in VMs : ~PlacementEvent(v)
       /\ \A table \in Tables : ~NetBoxChanges(table)
       /\ ~Crash
  BY <1>1, <1>2 DEF TakeDelta, MigrationEvent, PlacementEvent, NetBoxChanges, Crash
<1>13. QED BY <1>0, <1>5, <1>8, <1>9, <1>10, <1>11, <1>12 DEF Next, Handle

LEMMA FetchedUnderway ==
  ASSUME TypeOK, Locked, FInv, Fetched, Answerable
  PROVE  Underway
<1> DEFINE job == work[Loop]
<1>1. job.table = netbox /\ cache.byID = netbox /\ ~job.nothing
  BY ReconcilerAssumption DEF TypeOK, FInv, Fetched
<1>2. Applying(Loop) /\ (Handlers = {} \/ holder = Loop)
  BY PCs DEF Fetched, Applying, Locked
<1>3. QED BY <1>1, <1>2 DEF Fetched, Underway, Informed, Planned, Announced

\* Unless it has been killed before, the process knows all it has announced, but for
\* what an ip added although it failed.
OwnOnly == lo \subseteq Foreign \cup advertised \cup killed

LEMMA OwnStep ==
  ASSUME "crash" \notin Faults, OwnOnly, [Next]_vars
  PROVE  OwnOnly'
<1> SUFFICES ASSUME ~Kept PROVE OwnOnly'
  BY DEF OwnOnly, Kept
<1>1. PICK w \in Workers, adopt \in BOOLEAN, failed, effective \in SUBSET External :
         work[w].pc = "bgp" /\ Converge(w, adopt, failed, effective)
  <2>1. ~Crash
    BY DEF Crash, Fault
  <2>2. QED BY <2>1, OnlyConvergeChanges DEF Alive, Next
<1>2. QED BY <1>1 DEF Converge, OwnOnly

\* Only a failing ip changes an address behind the process's back.
LEMMA QuietKills ==
  ASSUME TypeOK, [Next]_vars, Quiet, killed = {}
  PROVE  killed' = {}
<1> SUFFICES ASSUME ~Kept PROVE killed' = {}
  BY DEF Kept
<1>1. \A kind : ~Fault(kind)
  BY DEF TypeOK, Quiet, Fault
<1>2. PICK w \in Workers, adopt \in BOOLEAN, failed, effective \in SUBSET External :
         Converge(w, adopt, failed, effective) /\ (effective # {} => Fault("kill"))
  <2>1. ~Crash
    BY <1>1 DEF Crash
  <2>2. QED BY <2>1, OnlyConvergeChanges DEF Alive, Next
<1>3. QED BY <1>1, <1>2 DEF Converge

\* The node has caught up, but for addresses a killed ip changed.
Reached ==
  /\ RulesSettled /\ advertised = Addresses(Target)
  /\ Addresses(Target) \subseteq lo \cup killed
  /\ "crash" \notin Faults => lo \subseteq Foreign \cup Addresses(Target) \cup killed

\* Whatever failed, was lost or overtaken before, one fetch is enough: with NetBox,
\* placement and webhooks at rest and no further failure, the apply of NetBox's
\* present table (reconciler.go:657-697, 746-952) and every later one end with the rules
\* NetBox asks for, its addresses announced and no other that the process knows
\* of, unless an ip killed earlier has changed an address behind its back; provided
\* each VM here is mapped or no backup of it is left to be served once more, and
\* applies do not overlap.  If no such address is left when the fetch is applied,
\* the interface is exact and, once the flusher is done with old backups, the node
\* has settled.
THEOREM OneFetchSettles ==
  ASSUME NoOverlap
  PROVE  Spec => /\ [](Fetched /\ Answerable /\ [][Quiet]_vars =>
                         [](work[Loop].pc = "idle" => Reached))
                 /\ [](Fetched /\ Answerable /\ killed = {} /\ [][Quiet]_vars =>
                         [](work[Loop].pc = "idle" =>
                              /\ "crash" \notin Faults => Exact
                              /\ BackupsSettled => Settled))
<1> DEFINE Own == "crash" \in Faults \/ OwnOnly
           Idles == work[Loop].pc = "idle"
           Good == Idles => Reached
           Best == Idles => /\ "crash" \notin Faults => Exact
                            /\ BackupsSettled => Settled
           Unkilled == killed = {}
<1>1. TypeOK /\ Locked /\ FInv /\ Fetched /\ Answerable => Underway
  BY FetchedUnderway
<1>2. LInv /\ FInv /\ Underway /\ [Next]_vars /\ [Quiet]_vars => Underway' \/ Caught'
  <2>1. UNCHANGED vars => Quiet
    BY DEF vars, Quiet
  <2>2. QED BY <2>1, UnderwayStep
<1>3. TypeOK /\ FInv /\ Caught /\ [Next]_vars /\ [Quiet]_vars => Caught'
  <2>1. UNCHANGED vars => Quiet
    BY DEF vars, Quiet
  <2>2. QED BY <2>1, CaughtStep
<1>4. Underway => Good /\ Best
  BY DEF Underway, Applying
<1>5. AnnouncedTrue /\ Own /\ Caught => Good
  BY DEF Caught, Reached, OwnOnly, AnnouncedTrue
<1>6. TypeOK /\ ForeignUntouched /\ AnnouncedTrue /\ Own /\ Caught /\ Unkilled => Best
  <2> SUFFICES ASSUME TypeOK, ForeignUntouched, AnnouncedTrue, Own, Caught, Unkilled
               PROVE  /\ "crash" \notin Faults => Exact
                      /\ BackupsSettled => Settled
    OBVIOUS
  <2>1. JobsSettled /\ CacheSettled
    BY DEF Caught, Right, Informed, Planned, JobsSettled, Fits, Faithful, CacheSettled
  <2>2. KernelSettled
    BY DEF Caught, KernelSettled, AnnouncedTrue
  <2>3. "crash" \notin Faults => Exact
    BY DEF Caught, Exact, OwnOnly, AnnouncedTrue, ForeignUntouched
  <2>4. QED BY <2>1, <2>2, <2>3 DEF Settled
<1>7. Init => FInv /\ Own
  BY InitFInv DEF Init, OwnOnly
<1>8. Own /\ [Next]_vars => Own'
  BY OwnStep
<1>9. TypeOK /\ Unkilled /\ [Next]_vars /\ [Quiet]_vars => Unkilled'
  <2>1. UNCHANGED vars => Quiet
    BY DEF vars, Quiet
  <2>2. QED BY <2>1, QuietKills
<1>10. Spec => []FInv /\ []Own
  BY <1>7, <1>8, NextFInv, TypeCorrect, PTL DEF Spec
<1>11. Spec => []LInv
  BY InitLInv, NextLInv, PTL DEF Spec
<1>12. LInv => TypeOK /\ Locked
  BY DEF LInv
<1> HIDE DEF Own, Good, Best, Unkilled
<1>13. Spec => [](Fetched /\ Answerable /\ [][Quiet]_vars => []Good)
  BY <1>1, <1>2, <1>3, <1>4, <1>5, <1>10, <1>11, <1>12, AnnouncedCorrect, PTL DEF Spec
<1>14. Spec => [](Fetched /\ Answerable /\ Unkilled /\ [][Quiet]_vars => []Best)
  BY <1>1, <1>2, <1>3, <1>4, <1>6, <1>9, <1>10, <1>11, <1>12,
     AnnouncedCorrect, ForeignCorrect, PTL DEF Spec
<1>15. QED BY <1>13, <1>14, PTL DEF Good, Best, Unkilled
-----------------------------------------------------------------------------
(* The backups in memory *)

\* What memory knows of a file is what is in it; of a VM of which it knows
\* nothing, and has nothing on its way, there is no file once Prime has looked.
MInv ==
  \A v \in VMs :
    /\ cached[v] \in {Unknown, disk[v]}
    /\ work[Loop].pc # "boot" /\ pending[v] = None /\ batch[v] = None /\ cached[v] = Unknown =>
         disk[v] = {}

\* What retention serves a VM with nothing on its way to the disk is what the
\* next process would find of it.
MemoryTrue ==
  work[Loop].pc # "boot" =>
    \A v \in VMs : pending[v] = None /\ batch[v] = None => Load(v) = disk[v]

\* Queueing may add a request and drops none; the files are the flusher's.
Queueing ==
  /\ UNCHANGED <<batch, cached, disk>>
  /\ \A v \in VMs : pending'[v] = None => pending[v] = None
  /\ work[Loop].pc = "boot" => work'[Loop].pc = "boot"

LEMMA QueueingMInv == MInv /\ Queueing => MInv'
  BY DEF MInv, Queueing

LEMMA QueuedSomething ==
  ASSUME NEW v \in VMs, NEW d \in SUBSET Pair, Queued(v, d) = None
  PROVE  pending[v] = None
  BY ReconcilerAssumption DEF Queued, Entry!Enqueued

LEMMA ApplyQueueing ==
  ASSUME TypeOK, NEW w \in Workers, Apply(w)
  PROVE  Queueing
<1> DEFINE job == work[w]
<1>0. job \in Job /\ job.pc # "boot" /\ \A u \in Workers : u # w => work'[u] = work[u]
  BY DEF TypeOK, Apply, Resolve, Plan, Nft, NftFails, NftAbandoned, Record, Bgp, BgpFails,
         Converge, Finish, Become, Done
<1>1. work[Loop].pc = "boot" => work'[Loop].pc = "boot"
  BY <1>0, PCs
<1>2. CASE Resolve(w)
  <2>1. ASSUME NEW v \in VMs, pending'[v] = None PROVE pending[v] = None
    <3>1. job.table[v] \in SUBSET Pair
      BY <1>0 DEF Job, Table
    <3>2. pending'[v] = Queued(v, job.table[v]) \/ pending'[v] = pending[v]
      BY <1>2 DEF Resolve
    <3>3. QED BY <2>1, <3>1, <3>2, QueuedSomething
  <2>2. QED BY <1>1, <1>2, <2>1 DEF Resolve, Queueing
<1>3. CASE ~Resolve(w)
  <2>1. UNCHANGED store
    BY <1>3 DEF Apply, Plan, Nft, NftFails, NftAbandoned, Record, Bgp, BgpFails, Converge, Finish
  <2>2. QED BY <1>1, <2>1 DEF Queueing, store
<1>4. QED BY <1>2, <1>3

\* warm reads every file there is.
LEMMA WarmMInv ==
  ASSUME TypeOK, MInv, PrimeWarm
  PROVE  MInv'
<1>1. /\ \A v \in VMs : cached'[v] = IF disk[v] = {} THEN Unknown ELSE disk[v]
      /\ UNCHANGED <<pending, batch, disk>>
  BY DEF PrimeWarm
<1>2. \A v \in VMs : disk[v] # Unknown
  BY ReconcilerAssumption DEF TypeOK, Table
<1>3. QED BY <1>1, <1>2 DEF MInv

LEMMA RunMInv ==
  ASSUME TypeOK, MInv, Run
  PROVE  MInv'
<1>1. CASE Apply(Loop)
  BY <1>1, ApplyQueueing, QueueingMInv, PCs
<1>2. CASE PrimeWarm
  BY <1>2, WarmMInv
<1>3. CASE ~Apply(Loop) /\ ~PrimeWarm
  <2>1. UNCHANGED store /\ work[Loop].pc # "boot"
    BY <1>3 DEF Run, PrimeFetch, Fetch, PrimeFetchFails, PrimeUnanswered, PrimeSeed, FetchFails,
                FetchUnanswered, LockFetched
  <2>2. QED BY <2>1, QueueingMInv DEF Queueing, store
<1>4. QED BY <1>1, <1>2, <1>3

LEMMA DeltaMInv ==
  ASSUME TypeOK, MInv, NEW d \in Deltas, TakeDelta(d)
  PROVE  MInv'
<1>1. work[Loop].pc # "boot" /\ UNCHANGED <<batch, cached, disk>>
  BY DEF TakeDelta
<1>2. DeltaToCache(Opened(cache), d) \in Cache /\ d \in Delta
  <2>1. Opened(cache) \in Cache
    BY DEF TypeOK, Opened, Cache
  <2>2. QED BY <2>1, DeltaTyped, ReconcilerAssumption
<1>3. pending' = pending \/ \E v \in VMs, q \in SUBSET Pair :
                              pending' = [pending EXCEPT ![v] = Queued(v, q)]
  BY <1>2, DeltaQueues DEF TakeDelta
<1>4. \A v \in VMs : pending'[v] = None => pending[v] = None
  BY <1>3, QueuedSomething DEF TypeOK
<1>5. QED BY <1>1, <1>4, QueueingMInv DEF Queueing

LEMMA FlushMInv ==
  ASSUME TypeOK, MInv, Flush
  PROVE  MInv'
<1>1. work' = work
  BY DEF Flush, TakeBatch, Persist, PersistFails
<1>2. CASE TakeBatch
  BY <1>1, <1>2 DEF TakeBatch, MInv, NoEntries
<1>3. ASSUME NEW v \in VMs, Persist(v) PROVE MInv'
  <2>1. /\ batch[v] \in SUBSET Pair /\ batch[v] # Unknown
        /\ UNCHANGED pending
        /\ batch' = [batch EXCEPT ![v] = None]
        /\ disk' = [disk EXCEPT ![v] = batch[v]] /\ cached' = [cached EXCEPT ![v] = batch[v]]
    BY <1>3, ReconcilerAssumption DEF Persist, TypeOK
  <2>2. QED BY <1>1, <2>1 DEF MInv, TypeOK, Table
<1>4. ASSUME NEW v \in VMs, PersistFails(v) PROVE MInv'
  <2>1. /\ batch[v] # None /\ UNCHANGED disk
        /\ batch' = [batch EXCEPT ![v] = None]
        /\ cached' = [cached EXCEPT ![v] = Unknown]
        /\ pending' = [pending EXCEPT ![v] = IF @ = None THEN batch[v] ELSE @]
    BY <1>4 DEF PersistFails
  <2>2. QED BY <1>1, <2>1 DEF MInv, TypeOK
<1>5. QED BY <1>2, <1>3, <1>4 DEF Flush

LEMMA RebornMInv == Reborn => MInv'
  BY PCs DEF Reborn, MInv, NothingKnown, Boot, Booting, At

LEMMA NextMInv == TypeOK /\ MInv /\ [Next]_vars => MInv'
<1> SUFFICES ASSUME TypeOK, MInv, [Next]_vars PROVE MInv'
  OBVIOUS
<1>1. CASE Run
  BY <1>1, RunMInv
<1>2. ASSUME NEW h \in Handlers, Handle(h) PROVE MInv'
  <2>1. CASE Apply(h)
    BY <2>1, ApplyQueueing, QueueingMInv, PCs
  <2>2. CASE LockCached(h)
    <3>1. work'[Loop] = work[Loop] /\ UNCHANGED store
      BY <2>2, PCs, ReconcilerAssumption DEF LockCached, Become, TypeOK
    <3>2. QED BY <3>1, QueueingMInv DEF Queueing, store
  <2>3. QED BY <1>2, <2>1, <2>2 DEF Handle
<1>3. ASSUME NEW h \in Handlers, NEW v \in VMs, MigrationEvent(h, v) PROVE MInv'
  <2>1. work'[Loop] = work[Loop] /\ UNCHANGED store
    BY <1>3, PCs, ReconcilerAssumption DEF MigrationEvent, Become, TypeOK
  <2>2. QED BY <2>1, QueueingMInv DEF Queueing, store
<1>4. CASE (\E v \in VMs : PlacementEvent(v)) \/ (\E table \in Tables : NetBoxChanges(table))
           \/ UNCHANGED vars
  <2>1. UNCHANGED <<work, store>>
    BY <1>4 DEF PlacementEvent, NetBoxChanges, vars
  <2>2. QED BY <2>1, QueueingMInv DEF Queueing, store
<1>5. CASE Crash
  BY <1>5, RebornMInv DEF Crash
<1>6. QED BY <1>1, <1>2, <1>3, <1>4, <1>5, DeltaMInv, FlushMInv DEF Next

LEMMA InitMInv == Init => MInv
  BY PCs DEF Init, MInv, NothingKnown, Boot

LEMMA MInvMemory == TypeOK /\ MInv => MemoryTrue
<1> SUFFICES ASSUME TypeOK, MInv, work[Loop].pc # "boot", NEW v \in VMs,
                    pending[v] = None, batch[v] = None
             PROVE  Load(v) = disk[v]
  BY DEF MemoryTrue
<1>1. cached[v] \in {Unknown, disk[v]} /\ (cached[v] = Unknown => disk[v] = {})
  BY DEF MInv
<1>2. disk[v] # Unknown
  BY ReconcilerAssumption DEF TypeOK, Table
<1>3. QED BY <1>1, <1>2 DEF Load, Entry!LoadedFrom, Entry!InMemory

\* Whatever applies, webhooks, failed writes and crashes do to the backups, what
\* retention would serve of a VM with nothing on its way to the disk
\* (reconciler.go:811-816, backup.go:156-167) is what a restart would find.
THEOREM MemoryCorrect == Spec => []MemoryTrue
  BY InitMInv, NextMInv, MInvMemory, TypeCorrect, PTL DEF Spec
=============================================================================
