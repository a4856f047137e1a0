------------------------------ MODULE RunLoop -------------------------------
(***************************************************************************)
(* What makes the reconciler work and when: the select of Run, the trigger *)
(* and delta channels, the delayed verification of a cutover, and the gate *)
(* that keeps snapshots from fetching every time                           *)
(* (internal/reconciler/reconciler.go).                                    *)
(*                                                                         *)
(* The mapping of a VM is the version NetBox has of it; an apply is one    *)
(* step that programs a version for each active VM (see Reconciler for     *)
(* what happens inside).  A VM without a cached mapping gets nothing, what *)
(* it had, or any version a backup may hold.  Webhooks reach the node when *)
(* the change is made, or are lost; none is about a VM object.             *)
(* NetBox, the event bus, the ticker and timers are external.              *)
(***************************************************************************)
EXTENDS Integers, Sequences

CONSTANTS
  VMs, None,
  DeltaCap,     \* capacity of webhookDeltaCh
  MaxChanges,   \* bound: changes in NetBox
  MaxMoves,     \* bound: changes of placement
  MaxFaults     \* bound: fetches that fail

ASSUME RunLoopAssumption ==
  /\ None \notin Nat
  /\ DeltaCap \in Nat \ {0}
  /\ MaxChanges \in Nat /\ MaxMoves \in Nat /\ MaxFaults \in Nat

VARIABLES
  netbox,      \* NetBox: the version of each VM's mapping
  status,      \* the placement store
  cache,       \* the mapping cache; None: no mapping of the VM
  ready,       \* mappingCacheReady
  applied,     \* the version programmed; None: nothing
  trigger,     \* reconcileCh holds a trigger
  deltas,      \* webhookDeltaCh
  ticks,       \* ticker.C holds a tick
  loop,        \* Run: where reconcile is, and the table it fetched
  handler,     \* the goroutine of migration events
  verifyPending,
  firing,      \* verification timers that have fired and not yet triggered
  lastKey,     \* lastActiveKey
  due,         \* lastFullFetch is at least an interval ago
  changes, moves, faults,
  accepted,    \* history: the newest version of each VM accepted as a delta
  unverified,  \* history: see Progress and FetchFails
  fetchedFor   \* history: the VMs here when the last successful fetch returned

queues == <<trigger, deltas, ticks>>
timers == <<verifyPending, firing>>
programmed == <<cache, ready, applied>>
bounds == <<changes, moves, faults>>
vars == <<netbox, status, programmed, queues, loop, handler, timers, lastKey, due, bounds,
          accepted, unverified, fetchedFor>>

Version == 0 .. MaxChanges
Table == [VMs -> Version \cup {None}]
NoTable == [v \in VMs |-> None]
Status == {"absent", "staged", "active"}

\* The fetch that confirms the last cutover applied from the cache: it has yet to
\* begin, it is under way, or there is none to wait for.
Progress == {"waiting", "asked", "none"}

TypeOK ==
  /\ netbox \in [VMs -> Version]
  /\ status \in [VMs -> Status]
  /\ cache \in Table /\ ready \in BOOLEAN
  /\ applied \in Table
  /\ trigger \in BOOLEAN /\ ticks \in BOOLEAN
  /\ deltas \in Seq(VMs \X Version) /\ Len(deltas) <= DeltaCap
  /\ loop \in [pc: {"select", "asking", "read", "returned"}, table: Table]
  /\ handler \in {"idle", "apply", "cutover", "verify"}
  /\ verifyPending \in BOOLEAN /\ firing \in Nat
  /\ lastKey \in SUBSET VMs /\ due \in BOOLEAN
  /\ changes \in Version /\ moves \in Nat /\ faults \in Nat
  /\ accepted \in [VMs -> Version] /\ unverified \in Progress
  /\ fetchedFor \in SUBSET VMs

At(pc, table) == [pc |-> pc, table |-> table]

\* Run starts after Prime, which may have left the cache cold.
Init ==
  /\ netbox = [v \in VMs |-> 0]
  /\ status = [v \in VMs |-> "absent"]
  /\ ready \in BOOLEAN
  /\ cache = [v \in VMs |-> IF ready THEN 0 ELSE None]
  /\ applied = NoTable
  /\ trigger = FALSE /\ deltas = <<>> /\ ticks = FALSE
  /\ loop = At("select", NoTable)
  /\ handler = "idle"
  /\ verifyPending = FALSE /\ firing = 0
  /\ lastKey = {} /\ due = TRUE
  /\ changes = 0 /\ moves = 0 /\ faults = 0
  /\ accepted = [v \in VMs |-> 0] /\ unverified = "none" /\ fetchedFor = {}

\* Program what the table t says of the active VMs.
Program(t) ==
  applied' \in {f \in Table : \A v \in VMs :
    IF status[v] # "active" THEN f[v] = None
    ELSE IF t[v] # None THEN f[v] = t[v]
    ELSE f[v] \in {None, applied[v]} \cup 0 .. netbox[v]}

-----------------------------------------------------------------------------
(* Outside *)

\* A change in NetBox, and its webhook: the delta is queued, or if the channel is
\* full a full fetch is requested instead.
NetBoxChanges(v) ==
  /\ changes < MaxChanges
  /\ changes' = changes + 1
  /\ netbox' = [netbox EXCEPT ![v] = @ + 1]
  /\ UNCHANGED <<status, programmed, ticks, loop, handler, timers, lastKey, due,
                 moves, faults, unverified, fetchedFor>>

\* Mutant of WebhookQueued: the channel has no limit.
WebhookQueuedAlways(v) ==
  /\ NetBoxChanges(v)
  /\ deltas' = Append(deltas, <<v, netbox[v] + 1>>)
  /\ accepted' = [accepted EXCEPT ![v] = netbox[v] + 1]
  /\ UNCHANGED trigger

WebhookQueued(v) ==
  /\ NetBoxChanges(v)
  /\ Len(deltas) < DeltaCap
  /\ deltas' = Append(deltas, <<v, netbox[v] + 1>>)
  /\ accepted' = [accepted EXCEPT ![v] = netbox[v] + 1]
  /\ UNCHANGED trigger

WebhookRefused(v) ==
  /\ NetBoxChanges(v)
  /\ Len(deltas) >= DeltaCap
  /\ trigger' = TRUE
  /\ UNCHANGED <<deltas, accepted>>

WebhookLost(v) ==
  /\ NetBoxChanges(v)
  /\ UNCHANGED <<trigger, deltas, accepted>>

\* The channel of a ticker holds one tick.
Ticker ==
  /\ ticks' = TRUE
  /\ UNCHANGED <<netbox, status, programmed, trigger, deltas, loop, handler, timers,
                 lastKey, due, bounds, accepted, unverified, fetchedFor>>

TimePasses ==
  /\ due' = TRUE
  /\ UNCHANGED <<netbox, status, programmed, queues, loop, handler, timers,
                 lastKey, bounds, accepted, unverified, fetchedFor>>

-----------------------------------------------------------------------------
(* HandleEvent *)

Moves == moves < MaxMoves /\ moves' = moves + 1

Placed(v, s) == status' \in {status, [status EXCEPT ![v] = s]}

\* A migration event changes the store unless it is stale, then ...
MigrationEvent(v, s, cutover) ==
  /\ handler = "idle"
  /\ Moves
  /\ cutover => s # "staged"
  /\ cutover \/ s # "active"
  /\ Placed(v, s)
  /\ handler' = IF cutover THEN "cutover" ELSE "apply"
  /\ UNCHANGED <<netbox, programmed, queues, loop, timers, lastKey, due, changes, faults,
                 accepted, unverified, fetchedFor>>

\* ... applies the cache under the mutex, or leaves it to Run if it is cold ...
HandlerApplies ==
  /\ handler \in {"apply", "cutover"}
  /\ IF ready
     THEN /\ Program(cache)
          /\ handler' = IF handler = "cutover" THEN "verify" ELSE "idle"
          /\ unverified' = IF handler = "cutover" THEN "waiting" ELSE unverified
          /\ UNCHANGED trigger
     ELSE /\ trigger' = TRUE
          /\ handler' = "idle"
          /\ UNCHANGED <<applied, unverified>>
  /\ UNCHANGED <<netbox, status, cache, ready, deltas, ticks, loop, timers, lastKey, due,
                 bounds, accepted, fetchedFor>>

\* ... and after a cutover schedules its verification, unless one is scheduled.
VerifyLater ==
  /\ handler = "verify"
  /\ handler' = "idle"
  /\ verifyPending' = TRUE
  /\ UNCHANGED <<netbox, status, programmed, queues, loop, firing, lastKey, due, bounds,
                 accepted, unverified, fetchedFor>>

\* Start and stop events change the store and trigger; a start while staged is
\* ignored.
LifecycleEvent(v, s) ==
  /\ Moves
  /\ s = "active" => status[v] # "staged"
  /\ Placed(v, s)
  /\ trigger' = TRUE
  /\ UNCHANGED <<netbox, programmed, deltas, ticks, loop, handler, timers, lastKey, due,
                 changes, faults, accepted, unverified, fetchedFor>>

\* A snapshot only changes the store; a staged VM stays staged until it runs.
Snapshot(v, s) ==
  /\ Moves
  /\ s = "absent" => status[v] # "staged"
  /\ status' = [status EXCEPT ![v] = s]
  /\ UNCHANGED <<netbox, programmed, queues, loop, handler, timers, lastKey, due,
                 changes, faults, accepted, unverified, fetchedFor>>

\* activeStateKey
Key == {v \in VMs : status[v] # "absent"}

\* shouldFullFetchForSnapshot
GateOpen == Key # lastKey \/ due

SnapshotComplete ==
  /\ GateOpen
  /\ trigger' = TRUE
  /\ UNCHANGED <<netbox, status, programmed, deltas, ticks, loop, handler, timers, lastKey,
                 due, bounds, accepted, unverified, fetchedFor>>

-----------------------------------------------------------------------------
(* The timer of verifyLater *)

TimerFires ==
  /\ verifyPending
  /\ verifyPending' = FALSE
  /\ firing' = firing + 1
  /\ UNCHANGED <<netbox, status, programmed, queues, loop, handler, lastKey, due, bounds,
                 accepted, unverified, fetchedFor>>

TimerTriggers ==
  /\ firing > 0
  /\ firing' = firing - 1
  /\ trigger' = TRUE
  /\ UNCHANGED <<netbox, status, programmed, deltas, ticks, loop, handler, verifyPending,
                 lastKey, due, bounds, accepted, unverified, fetchedFor>>

-----------------------------------------------------------------------------
(* Run *)

\* Mutant of TakeTick: the tick only expires.
TakeTickSweeping ==
  /\ loop.pc = "select" /\ ticks
  /\ ticks' = FALSE
  /\ \E expired \in SUBSET {v \in VMs : status[v] = "staged"} :
       status' = [v \in VMs |-> IF v \in expired THEN "absent" ELSE status[v]]
  /\ UNCHANGED <<netbox, programmed, trigger, deltas, loop, handler, timers, lastKey, due,
                 bounds, accepted, unverified, fetchedFor>>

\* The tick expires staged VMs and triggers.
TakeTick ==
  /\ loop.pc = "select" /\ ticks
  /\ ticks' = FALSE
  /\ trigger' = TRUE
  /\ \E expired \in SUBSET {v \in VMs : status[v] = "staged"} :
       status' = [v \in VMs |-> IF v \in expired THEN "absent" ELSE status[v]]
  /\ UNCHANGED <<netbox, programmed, deltas, loop, handler, timers, lastKey, due, bounds,
                 accepted, unverified, fetchedFor>>

\* reconcileFromWebhookDelta; a VM without a cached mapping is withdrawn.
TakeDelta ==
  /\ loop.pc = "select" /\ deltas # <<>>
  /\ deltas' = Tail(deltas)
  /\ ready' = TRUE
  /\ cache' = [cache EXCEPT ![Head(deltas)[1]] = Head(deltas)[2]]
  /\ applied' = [v \in VMs |-> IF status[v] = "active" THEN cache'[v] ELSE None]
  /\ UNCHANGED <<netbox, status, trigger, ticks, loop, handler, timers, lastKey, due, bounds,
                 accepted, unverified, fetchedFor>>

\* reconcile: the fetch is under way, ...
FetchBegin ==
  /\ loop.pc = "select" /\ trigger
  /\ trigger' = FALSE
  /\ loop' = At("asking", NoTable)
  /\ unverified' = IF unverified = "waiting" THEN "asked" ELSE unverified
  /\ UNCHANGED <<netbox, status, programmed, deltas, ticks, handler, timers, lastKey, due,
                 bounds, accepted, fetchedFor>>

\* ... NetBox answers, ...
FetchReads ==
  /\ loop.pc = "asking"
  /\ loop' = At("read", netbox)
  /\ UNCHANGED <<netbox, status, programmed, queues, handler, timers, lastKey, due, bounds,
                 accepted, unverified, fetchedFor>>

\* Mutant of FetchReturns: triggers that came during the fetch count as served by it.
FetchReturnsDraining ==
  /\ loop.pc = "read"
  /\ loop' = [loop EXCEPT !.pc = "returned"]
  /\ lastKey' = Key /\ due' = FALSE
  /\ fetchedFor' = Key
  /\ trigger' = FALSE
  /\ UNCHANGED <<netbox, status, programmed, deltas, ticks, handler, timers, bounds,
                 accepted, unverified>>

\* ... the gate is set, ...
FetchReturns ==
  /\ loop.pc = "read"
  /\ loop' = [loop EXCEPT !.pc = "returned"]
  /\ lastKey' = Key /\ due' = FALSE
  /\ fetchedFor' = Key
  /\ UNCHANGED <<netbox, status, programmed, queues, handler, timers, bounds, accepted,
                 unverified>>

\* Mutant of FetchApplied: deltas that came during the fetch count as contained in it.
FetchAppliedDraining ==
  /\ loop.pc = "returned"
  /\ loop' = At("select", NoTable)
  /\ cache' = loop.table /\ ready' = TRUE
  /\ deltas' = <<>>
  /\ Program(loop.table)
  /\ unverified' = IF unverified = "asked" THEN "none" ELSE unverified
  /\ UNCHANGED <<netbox, status, trigger, ticks, handler, timers, lastKey, due, bounds,
                 accepted, fetchedFor>>

\* ... and what was fetched is cached and applied.
FetchApplied ==
  /\ loop.pc = "returned"
  /\ loop' = At("select", NoTable)
  /\ cache' = loop.table /\ ready' = TRUE
  /\ Program(loop.table)
  /\ unverified' = IF unverified = "asked" THEN "none" ELSE unverified
  /\ UNCHANGED <<netbox, status, queues, handler, timers, lastKey, due, bounds, accepted,
                 fetchedFor>>

\* Mutant of FetchFails: the gate is set for a fetch that failed, too.
FetchFailsRecorded ==
  /\ loop.pc = "asking"
  /\ faults < MaxFaults
  /\ faults' = faults + 1
  /\ loop' = At("select", NoTable)
  /\ Program(NoTable)
  /\ unverified' = IF unverified = "asked" THEN "none" ELSE unverified
  /\ lastKey' = Key /\ due' = FALSE
  /\ UNCHANGED <<netbox, status, cache, ready, queues, handler, timers, changes, moves,
                 accepted, fetchedFor>>

\* Without an answer the gate stays as it is and VMs keep what they have.  The
\* cutover it was to confirm is not, and nothing more is asked for it.
FetchFails ==
  /\ loop.pc = "asking"
  /\ faults < MaxFaults
  /\ faults' = faults + 1
  /\ loop' = At("select", NoTable)
  /\ Program(NoTable)
  /\ unverified' = IF unverified = "asked" THEN "none" ELSE unverified
  /\ UNCHANGED <<netbox, status, cache, ready, queues, handler, timers, lastKey, due,
                 changes, moves, accepted, fetchedFor>>
-----------------------------------------------------------------------------
Outside ==
  \/ \E v \in VMs : WebhookQueued(v)
  \/ \E v \in VMs : WebhookRefused(v)
  \/ \E v \in VMs : WebhookLost(v)
  \/ Ticker
  \/ TimePasses

Events ==
  \/ \E v \in VMs, s \in Status, cutover \in BOOLEAN : MigrationEvent(v, s, cutover)
  \/ \E v \in VMs, s \in {"absent", "active"} : LifecycleEvent(v, s)
  \/ \E v \in VMs, s \in {"absent", "active"} : Snapshot(v, s)
  \/ SnapshotComplete

Fetch == FetchReads \/ FetchReturns \/ FetchApplied \/ FetchFails

Next ==
  \/ Outside \/ Events
  \/ HandlerApplies \/ VerifyLater
  \/ TimerFires \/ TimerTriggers
  \/ TakeTick \/ TakeDelta \/ FetchBegin \/ Fetch

Spec == Init /\ [][Next]_vars

\* Go's select chooses among the ready cases at random, so a case that is ready again
\* and again is chosen; a fetch has a timeout, a goroutine and a timer run on, and
\* the node publishes snapshots.  Neither the ticker nor the clock is relied on.
Fairness ==
  /\ SF_vars(TakeTick) /\ SF_vars(TakeDelta) /\ SF_vars(FetchBegin)
  /\ WF_vars(Fetch)
  /\ WF_vars(HandlerApplies) /\ WF_vars(VerifyLater)
  /\ WF_vars(TimerFires) /\ WF_vars(TimerTriggers)
  /\ WF_vars(SnapshotComplete)

FairSpec == Spec /\ Fairness

-----------------------------------------------------------------------------
(* Properties *)

\* A cutover applied from the cache is followed by a fetch that began after it: one
\* is under way or coming, by a trigger, a timer, or a handler about to start the
\* timer (reconciler.go:390-401).  Only a cutover whose fetch failed may have none
\* coming: that one is not repeated before the next tick, event or snapshot
\* (reconciler.go:662-670).
Verified ==
  /\ unverified = "waiting" => trigger \/ verifyPending \/ firing > 0 \/ handler = "verify"
  /\ unverified = "asked" => loop.pc # "select"

IsQueued(v, n) == \E i \in 1 .. Len(deltas) : deltas[i] = <<v, n>>

Holds(table, v, n) == table[v] # None /\ table[v] >= n

\* A delta the webhook server was told is accepted is in the cache or will be: no
\* fetch that read NetBox before it takes it back for good
\* (reconciler.go:245-254, 378-387, 672-697).
Heeded ==
  \A v \in VMs : accepted[v] > 0 =>
    Holds(cache, v, accepted[v]) \/ IsQueued(v, accepted[v])

\* When NetBox and placement rest and the ticker runs, what is programmed becomes
\* what they say, whatever deltas, events and fetches were lost
\* (reconciler.go:371-377).
Wanted == [v \in VMs |-> IF status[v] = "active" THEN netbox[v] ELSE None]

Settles == []<>ticks => <>[](applied = Wanted)

\* Snapshots alone bring a fetch for the VMs that are here: a failed one does not
\* use up the signal (reconciler.go:412-430, 663-667).
GateRetries == <>[](fetchedFor = Key)
=============================================================================
