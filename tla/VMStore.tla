------------------------------ MODULE VMStore -------------------------------
(***************************************************************************)
(* The placement store of one node, written by the goroutines that feed it *)
(* (internal/state/store.go and the store writes of HandleEvent,           *)
(* applyDeltaToState and expireStagedVMs in                                *)
(* internal/reconciler/reconciler.go), against the hypervisor whose        *)
(* placement it tracks.                                                    *)
(*                                                                         *)
(* Each NATS subscription of subscriber.go has a delivery goroutine of its *)
(* own, so handlers of different subjects run concurrently; a handler is   *)
(* one atomic store operation except for start.finished, which reads the   *)
(* entry and writes it in two steps.  Core NATS delivers at most once.     *)
(* Ordering between publishers is not guaranteed, so any message in flight *)
(* may be delivered next; that also covers reordering within a subject.    *)
(*                                                                         *)
(* The hypervisor and its event bus are external to the repository: they   *)
(* are modelled by the events the handlers expect.                         *)
(***************************************************************************)
EXTENDS VMRecord

CONSTANTS
  VMs,         \* VMIDs
  TTL,         \* stagedTTL
  Horizon,     \* bound: hypervisor and NetBox act, and processes die, only before this time
  MaxTime,     \* bound: the clock saturates here
  Lossy,       \* kinds of message NATS may lose
  Webhooks     \* NetBox virtualmachine webhooks to expect: "updated", "deleted"

Lifecycle == {"migrate.started", "migrate.synced", "migrate.departed",
              "migrate.failed", "start.finished", "stop.finished"}

ASSUME StoreAssumption ==
  /\ TTL \in Nat /\ Horizon \in Nat /\ MaxTime \in Nat
  /\ Horizon <= MaxTime
  /\ Lossy \subseteq Lifecycle \cup {"snapshot"}
  /\ Webhooks \subseteq {"updated", "deleted"}

\* "migrate.departed" is migrate.synced seen by the source node; stop, shutdown
\* and destroy are handled alike and share "stop.finished".
Message ==
  [kind: Lifecycle, vm: VMs, t: Nat \ {0}] \cup
  [kind: {"snapshot"}, vm: VMs, t: Nat \ {0}, running: BOOLEAN]

VARIABLES
  vms,       \* Store.vms
  starting,  \* start.finished messages whose handler has passed its Get check
  clock,     \* now; every event gets a time of its own
  where,     \* hypervisor: where each VM is, seen from this node
  net        \* messages in flight

vars == <<vms, starting, clock, where, net>>

Places == {"elsewhere", "incoming", "stopped", "running"}

TypeOK ==
  /\ vms \in [VMs -> Record]
  /\ starting \in SUBSET Message
  /\ clock \in Nat \ {0}
  /\ where \in [VMs -> Places]
  /\ net \in SUBSET Message

Init ==
  /\ vms = [v \in VMs |-> NoRecord]
  /\ starting = {}
  /\ clock = 1
  /\ where \in [VMs -> Places \ {"incoming"}]
  /\ net = {}

Event(kind, v) == [kind |-> kind, vm |-> v, t |-> clock + 1]

-----------------------------------------------------------------------------
(* The hypervisor: a placement change publishes its lifecycle event. *)

Move(v, from, to, kind) ==
  /\ clock < Horizon
  /\ where[v] = from
  /\ where' = [where EXCEPT ![v] = to]
  /\ clock' = clock + 1
  /\ net' = net \cup {Event(kind, v)}
  /\ UNCHANGED <<vms, starting>>

MigrateIn(v)  == Move(v, "elsewhere", "incoming", "migrate.started")
CutOver(v)    == Move(v, "incoming", "running", "migrate.synced")
MigrateFail(v) == Move(v, "incoming", "elsewhere", "migrate.failed")
MigrateOut(v) == Move(v, "running", "elsewhere", "migrate.departed")
Start(v)      == Move(v, "stopped", "running", "start.finished")
Stop(v)       == Move(v, "running", "stopped", "stop.finished")

\* The target's own qemu start, part of every inbound migration.
StartIncoming(v) == Move(v, "incoming", "incoming", "start.finished")

\* A migration killed without a terminal event.
MigrateAbort(v) ==
  /\ clock < Horizon
  /\ where[v] = "incoming"
  /\ where' = [where EXCEPT ![v] = "elsewhere"]
  /\ clock' = clock + 1
  /\ UNCHANGED <<vms, starting, net>>

\* Snapshots list the guests of this node; a VM that left is not mentioned.
PublishSnapshot(v) ==
  /\ where[v] # "elsewhere"
  /\ net' = net \cup {[kind |-> "snapshot", vm |-> v, t |-> clock,
                       running |-> where[v] = "running"]}
  /\ UNCHANGED <<vms, starting, clock, where>>

Tick ==
  /\ clock < MaxTime
  /\ clock' = clock + 1
  /\ UNCHANGED <<vms, starting, where, net>>

Lose(m) ==
  /\ m.kind \in Lossy
  /\ net' = net \ {m}
  /\ UNCHANGED <<vms, starting, clock, where>>

-----------------------------------------------------------------------------
(* The handlers. *)

\* Deliver m, replacing its VM's entry by r.
Receive(m, r) ==
  /\ net' = net \ {m}
  /\ vms' = [vms EXCEPT ![m.vm] = r]
  /\ UNCHANGED <<starting, clock, where>>

HandleMigrateStarted(m) ==
  /\ m.kind = "migrate.started"
  /\ Receive(m, StageRecord(vms[m.vm], m.t))

HandleMigrateSynced(m) ==
  /\ m.kind = "migrate.synced"
  /\ Receive(m, SetRecord(vms[m.vm], "active", m.t, 0))

HandleGone(m) ==
  /\ m.kind \in {"migrate.departed", "migrate.failed", "stop.finished"}
  /\ Receive(m, SetRecord(vms[m.vm], "absent", m.t, 0))

HandleSnapshot(m) ==
  /\ m.kind = "snapshot"
  /\ Receive(m, SnapshotRecord(vms[m.vm], m.running, m.t))

\* The start subscription has one goroutine: the next start.finished waits
\* until the previous one has been handled.
HandleStartCheck(m) ==
  /\ m.kind = "start.finished"
  /\ starting = {}
  /\ net' = net \ {m}
  /\ starting' = IF vms[m.vm].status = "staged" THEN {} ELSE {m}
  /\ UNCHANGED <<vms, clock, where>>

HandleStartSet(m) ==
  /\ starting' = starting \ {m}
  /\ vms' = [vms EXCEPT ![m.vm] = SetRecord(@, "active", m.t, 0)]
  /\ UNCHANGED <<clock, where, net>>

\* A NetBox virtualmachine webhook, whatever node the VM is on.
WebhookDelta(v, event) ==
  /\ clock < Horizon
  /\ clock' = clock + 1
  /\ vms' = [vms EXCEPT ![v] =
       SetRecord(@, IF event = "deleted" THEN "absent" ELSE "active", clock + 1, 0)]
  /\ UNCHANGED <<starting, where, net>>

\* The sweep of every periodic tick.
ExpireStaged ==
  /\ clock >= TTL
  /\ vms' = [v \in VMs |-> ExpireRecord(vms[v], clock - TTL)]
  /\ UNCHANGED <<starting, clock, where, net>>

\* The process starts anew with an empty store; core NATS keeps nothing for it.
Restart ==
  /\ clock < Horizon
  /\ vms' = [v \in VMs |-> NoRecord]
  /\ starting' = {} /\ net' = {}
  /\ UNCHANGED <<clock, where>>

Deliver(m) ==
  \/ HandleMigrateStarted(m)
  \/ HandleMigrateSynced(m)
  \/ HandleGone(m)
  \/ HandleSnapshot(m)
  \/ HandleStartCheck(m)

Hypervisor(v) ==
  \/ MigrateIn(v)
  \/ CutOver(v)
  \/ MigrateFail(v)
  \/ MigrateOut(v)
  \/ Start(v)
  \/ Stop(v)
  \/ StartIncoming(v)
  \/ MigrateAbort(v)
  \/ PublishSnapshot(v)

Next ==
  \/ \E v \in VMs : Hypervisor(v)
  \/ Tick
  \/ \E m \in net : Deliver(m) \/ Lose(m)
  \/ \E m \in starting : HandleStartSet(m)
  \/ \E v \in VMs, event \in Webhooks : WebhookDelta(v, event)
  \/ ExpireStaged
  \/ Restart

Spec == Init /\ [][Next]_vars

\* The clock runs, the ticker sweeps, a handler that began ends, and the
\* event bus keeps publishing snapshots of which infinitely many arrive.
Fairness ==
  /\ WF_vars(Tick)
  /\ WF_vars(ExpireStaged)
  /\ \A v \in VMs : WF_vars(PublishSnapshot(v))
  /\ \A v \in VMs : SF_vars(\E m \in net : m.vm = v /\ m.t = clock /\ HandleSnapshot(m))
  /\ \A v \in VMs : WF_vars(\E m \in starting : m.vm = v /\ HandleStartSet(m))

FairSpec == Spec /\ Fairness
-----------------------------------------------------------------------------
(* Properties *)

\* The sweep can always find a staged entry: StagedAt is set exactly while an
\* entry is staged, whatever rejected, stale or concurrent writes came before
\* (store.go:45-48; an entry staged without a time would be skipped forever).
StagedIffStamped ==
  \A v \in VMs : vms[v].status = "staged" <=> vms[v].stagedAt # 0

\* While the process lives, an entry's event time goes backward only where a
\* snapshot had left its mark and a lifecycle event overrides it
\* (store.go:186-190): between two lifecycle events, or for a snapshot against
\* anything, the newer wins.
RegressOnlyOverSnapshot ==
  [][\A v \in VMs :
       vms'[v].lastEvent < vms[v].lastEvent /\ vms'[v] # NoRecord =>
         vms[v].observedAt > 0 /\ vms'[v].observedAt = 0]_vars

\* Once placement stops changing the store agrees with it about every VM this
\* node's snapshots still mention, whatever was lost, late or reordered before
\* and whichever migrations were abandoned or webhooks activated it: exactly
\* the running ones are active.  (Nothing but its own lifecycle events ever
\* clears a VM that is elsewhere: snapshots do not mention it.)
PlacementConverges ==
  <>[](\A v \in VMs : where[v] # "elsewhere" =>
         (vms[v].status = "active" <=> where[v] = "running"))
=============================================================================
