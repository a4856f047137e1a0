------------------------------- MODULE Cluster -------------------------------
(***************************************************************************)
(* One VM and the placement stores of all nodes: the events that a live    *)
(* migration publishes reach the reconcilers of its source and target as   *)
(* separate messages, late and in any order, and each of them decides for  *)
(* itself (HandleEvent in internal/reconciler/reconciler.go).              *)
(*                                                                         *)
(* A node's handlers are those of VMStore; so are the assumptions on the   *)
(* hypervisor.  Nodes agree on the time, a migration ends with a terminal  *)
(* event, and NetBox's virtualmachine webhooks, which tell every node that *)
(* the VM is there, are left out.                                          *)
(***************************************************************************)
EXTENDS VMRecord, FiniteSets

CONSTANTS
  Nodes,
  Observer,      \* any one of them
  None,          \* no migration
  TTL,           \* stagedTTL
  Horizon,       \* bound: VM and processes change only before this time
  MaxTime,       \* bound: the clock saturates here
  MaxSnapshots,  \* bound: snapshots in flight before MaxTime
  Lossy          \* kinds of message NATS may lose

\* The events that tell a node the VM is no longer its concern; one
\* migrate.synced is "migrate.departed" to the source, "migrate.synced" to the target.
Terminal == {"migrate.departed", "migrate.failed"}
Lifecycle == Terminal \cup {"migrate.started", "migrate.synced", "start.finished", "stop.finished"}

ASSUME ClusterAssumption ==
  /\ None \notin Nodes /\ Observer \in Nodes
  /\ TTL \in Nat /\ Horizon \in Nat /\ MaxTime \in Nat /\ MaxSnapshots \in Nat
  /\ Horizon <= MaxTime
  /\ Lossy \subseteq (Lifecycle \cup {"snapshot"}) \ Terminal

Message ==
  [node: Nodes, kind: Lifecycle, t: Nat \ {0}] \cup
  [node: Nodes, kind: {"snapshot"}, t: Nat \ {0}, running: BOOLEAN]

VARIABLES
  entry,     \* each node's entry of the VM
  starting,  \* start.finished messages whose handler has passed its check
  clock,
  host,      \* where the VM is, ...
  running,   \* ... whether it runs there, ...
  target,    \* ... and where it is being migrated
  net        \* messages in flight

vars == <<entry, starting, clock, host, running, target, net>>

TypeOK ==
  /\ entry \in [Nodes -> Record]
  /\ starting \in SUBSET Message
  /\ clock \in Nat \ {0}
  /\ host \in Nodes /\ running \in BOOLEAN
  /\ target \in Nodes \cup {None} /\ target # host
  /\ net \in SUBSET Message

Init ==
  /\ entry = [n \in Nodes |-> NoRecord]
  /\ starting = {}
  /\ clock = 1
  /\ host \in Nodes /\ running \in BOOLEAN /\ target = None
  /\ net = {}

-----------------------------------------------------------------------------
(* The hypervisors *)

\* At a new time the messages of the given kinds are sent to the given nodes.
Publish(kinds, to) ==
  /\ clock < Horizon
  /\ clock' = clock + 1
  /\ net' = net \cup {[node |-> to[k], kind |-> k, t |-> clock + 1] : k \in kinds}
  /\ UNCHANGED <<entry, starting>>

PublishTo(kind, n) == Publish({kind}, [k \in {kind} |-> n])

MigrateStart(n) ==
  /\ running /\ target = None /\ n # host
  /\ target' = n
  /\ PublishTo("migrate.started", n)
  /\ UNCHANGED <<host, running>>

\* The target's own qemu start.
StartIncoming ==
  /\ target # None
  /\ PublishTo("start.finished", target)
  /\ UNCHANGED <<host, running, target>>

CutOver ==
  /\ target # None
  /\ host' = target /\ target' = None
  /\ Publish({"migrate.synced", "migrate.departed"}, [k \in {"migrate.synced", "migrate.departed"} |->
                                        IF k = "migrate.synced" THEN target ELSE host])
  /\ UNCHANGED running

MigrateFail ==
  /\ target # None
  /\ target' = None
  /\ PublishTo("migrate.failed", target)
  /\ UNCHANGED <<host, running>>

StartStop ==
  /\ target = None
  /\ running' = ~running
  /\ PublishTo(IF running THEN "stop.finished" ELSE "start.finished", host)
  /\ UNCHANGED <<host, target>>

\* A node's snapshot mentions the VM if it is there, or coming.
PublishSnapshot(n) ==
  /\ n \in {host, target}
  /\ clock < MaxTime => Cardinality({m \in net : m.kind = "snapshot"}) < MaxSnapshots
  /\ net' = net \cup {[node |-> n, kind |-> "snapshot", t |-> clock,
                       running |-> n = host /\ running]}
  /\ UNCHANGED <<entry, starting, clock, host, running, target>>

Tick ==
  /\ clock < MaxTime
  /\ clock' = clock + 1
  /\ UNCHANGED <<entry, starting, host, running, target, net>>

placement == <<clock, host, running, target>>

Lose(m) ==
  /\ m.kind \in Lossy
  /\ net' = net \ {m}
  /\ UNCHANGED <<entry, starting, placement>>

-----------------------------------------------------------------------------
(* The reconcilers *)

\* Deliver m; its node's entry becomes r.
Receive(m, r) ==
  /\ net' = net \ {m}
  /\ entry' = [entry EXCEPT ![m.node] = r]
  /\ UNCHANGED <<starting, placement>>

HandleStarted(m) == m.kind = "migrate.started" /\ Receive(m, StageRecord(entry[m.node], m.t))

HandleSynced(m) ==
  m.kind = "migrate.synced" /\ Receive(m, SetRecord(entry[m.node], "active", m.t, 0))

\* Mutant of HandleGone: the source waits for its next snapshot.
HandleGoneUnlessSource(m) ==
  /\ m.kind \in Terminal \cup {"stop.finished"}
  /\ Receive(m, IF m.kind = "migrate.departed" THEN entry[m.node]
                ELSE SetRecord(entry[m.node], "absent", m.t, 0))

HandleGone(m) ==
  /\ m.kind \in Terminal \cup {"stop.finished"}
  /\ Receive(m, SetRecord(entry[m.node], "absent", m.t, 0))

HandleSnapshot(m) ==
  m.kind = "snapshot" /\ Receive(m, SnapshotRecord(entry[m.node], m.running, m.t))

\* Mutant of HandleStartCheck: nobody looks whether the VM is staged.
HandleStartBlind(m) ==
  /\ m.kind = "start.finished"
  /\ \A k \in starting : k.node # m.node
  /\ net' = net \ {m}
  /\ starting' = starting \cup {m}
  /\ UNCHANGED <<entry, placement>>

\* One goroutine per node handles start.finished, in two steps.
HandleStartCheck(m) ==
  /\ m.kind = "start.finished"
  /\ \A k \in starting : k.node # m.node
  /\ net' = net \ {m}
  /\ starting' = IF entry[m.node].status = "staged" THEN starting ELSE starting \cup {m}
  /\ UNCHANGED <<entry, placement>>

HandleStartSet(m) ==
  /\ starting' = starting \ {m}
  /\ entry' = [entry EXCEPT ![m.node] = SetRecord(@, "active", m.t, 0)]
  /\ UNCHANGED <<net, placement>>

ExpireStaged(n) ==
  /\ clock >= TTL
  /\ entry' = [entry EXCEPT ![n] = ExpireRecord(@, clock - TTL)]
  /\ UNCHANGED <<starting, net, placement>>

\* A node's process starts anew: what it knew and what was under way to it is gone.
Restart(n) ==
  /\ clock < Horizon
  /\ entry' = [entry EXCEPT ![n] = NoRecord]
  /\ starting' = {m \in starting : m.node # n}
  /\ net' = {m \in net : m.node # n}
  /\ UNCHANGED placement

Deliver(m) ==
  \/ HandleStarted(m)
  \/ HandleSynced(m)
  \/ HandleGone(m)
  \/ HandleSnapshot(m)
  \/ HandleStartCheck(m)

Next ==
  \/ \E n \in Nodes : MigrateStart(n)
  \/ StartIncoming
  \/ CutOver
  \/ MigrateFail
  \/ StartStop
  \/ Tick
  \/ \E n \in Nodes : PublishSnapshot(n) \/ ExpireStaged(n) \/ Restart(n)
  \/ \E m \in net : Deliver(m) \/ Lose(m)
  \/ \E m \in starting : HandleStartSet(m)

Spec == Init /\ [][Next]_vars

\* As in VMStore, at every node; and a terminal event that is not lost arrives.
Fairness ==
  /\ WF_vars(Tick)
  /\ \A n \in Nodes :
       /\ WF_vars(ExpireStaged(n))
       /\ WF_vars(PublishSnapshot(n))
       /\ WF_vars(\E m \in starting : m.node = n /\ HandleStartSet(m))
       /\ WF_vars(\E m \in net : m.node = n /\ m.kind \in Terminal /\ HandleGone(m))
       /\ SF_vars(\E m \in net : m.node = n /\ m.t = clock /\ HandleSnapshot(m))

FairSpec == Spec /\ Fairness
-----------------------------------------------------------------------------
(* Properties *)

\* What may still change the entry of node n
Ahead(n) == {m \in net \cup starting : m.node = n}

\* A node on which the VM neither is nor is going to be considers it active only
\* while a terminal event is under way to it that is newer than everything else it
\* has seen or will still get: no order of delivery, no snapshot published before
\* the cutover, no restart and no start racing a migration (store.go:181-210,
\* reconciler.go:581-596) activates the VM on a node it has left for good.
StaleCleared ==
  \A n \in Nodes \ {host, target} :
    entry[n].status = "active" =>
      \E m \in Ahead(n) :
        /\ m.kind \in Terminal
        /\ m.t >= entry[n].lastEvent
        /\ \A k \in Ahead(n) : k.t <= m.t

\* Once placement rests, the VM is active on its host, if it runs, and on no other
\* node: two nodes announcing its addresses, or none, do not last.
OneHost == <>[](\A n \in Nodes : entry[n].status = "active" <=> n = host /\ running)

\* What one node sees of the cluster.
Where(n) ==
  IF n = target THEN "incoming" ELSE IF n # host THEN "elsewhere"
  ELSE IF running THEN "running" ELSE "stopped"

AsStored(m) ==
  IF m.kind = "snapshot" THEN [kind |-> m.kind, vm |-> 0, t |-> m.t, running |-> m.running]
  ELSE [kind |-> m.kind, vm |-> 0, t |-> m.t]

Stored(messages) == {AsStored(m) : m \in {k \in messages : k.node = Observer}}

Seen ==
  INSTANCE VMStore WITH
    VMs <- {0}, Webhooks <- {},
    vms <- [v \in {0} |-> entry[Observer]],
    where <- [v \in {0} |-> Where(Observer)],
    starting <- Stored(starting),
    net <- Stored(net)

\* Any node of the cluster behaves as the single node of VMStore does against an
\* arbitrary hypervisor: what holds there (subscriber.go:89-138) holds at it.
ImplementsStore == Seen!Spec
=============================================================================
