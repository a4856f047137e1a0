--------------------------- MODULE Cluster_proofs ---------------------------
(***************************************************************************)
(* Proofs about the placement of one VM over all nodes, for any set of     *)
(* nodes, any bounds and any loss of the messages that may be lost: the    *)
(* type invariant, and that a node the VM has left for good considers it   *)
(* active only until the newest event under way to it arrives.             *)
(*                                                                         *)
(* StaleCleared is not inductive: it does not say why a node that has      *)
(* heard the terminal event is not activated by what was overtaken.  The   *)
(* invariant says that a node without the VM waits for that event, has     *)
(* taken it and is absent with an event time that makes all that is still  *)
(* under way stale, or knows nothing and nothing is under way.             *)
(*                                                                         *)
(* The last part shows that what one node does and hears is a behaviour of *)
(* VMStore: a step of its store, of its hypervisor or of the network, a    *)
(* tick of the clock, or nothing that the node can see; so that what is    *)
(* proved of VMStore, that a placement once reached stays among it, holds  *)
(* at every node.                                                          *)
(***************************************************************************)
EXTENDS Cluster, TLAPS

USE ClusterAssumption DEF ClusterAssumption

\* A write types the entry and takes over the event's time or keeps the entry's.
Wrote(r, s, t) == s \in Record /\ s.lastEvent \in {r.lastEvent, t}

\* Absent because of an event that is newer than t.
Overtaken(r, t) == r.status = "absent" /\ r.observedAt = 0 /\ t < r.lastEvent

LEMMA SetWrites ==
  ASSUME NEW r \in Record, NEW status \in {"absent", "active", "staged"}, NEW t \in Nat,
         NEW obs \in Nat
  PROVE  Wrote(r, SetRecord(r, status, t, obs), t)
  BY DEF Wrote, SetRecord, Stale, Record, Status

LEMMA StageWrites ==
  ASSUME NEW r \in Record, NEW t \in Nat
  PROVE  Wrote(r, StageRecord(r, t), t)
<1> DEFINE s == SetRecord(r, "staged", t, 0)
<1>1. Wrote(r, s, t)
  BY SetWrites
<1> HIDE DEF s
<1>2. StageRecord(r, t) = IF s.status = "staged" THEN [s EXCEPT !.stagedAt = t] ELSE s
  BY DEF StageRecord, s
<1>3. QED BY <1>1, <1>2 DEF Wrote, Record

LEMMA SnapshotWrites ==
  ASSUME NEW r \in Record, NEW up \in BOOLEAN, NEW t \in Nat
  PROVE  Wrote(r, SnapshotRecord(r, up, t), t)
<1>1. \A status \in {"absent", "active"} : Wrote(r, SetRecord(r, status, t, t), t)
  BY SetWrites
<1>2. Wrote(r, r, t) /\ Wrote(r, [r EXCEPT !.observedAt = t], t)
  BY DEF Wrote, Record
<1>3. QED BY <1>1, <1>2 DEF SnapshotRecord

LEMMA ExpireWrites ==
  ASSUME NEW r \in Record, NEW cutoff \in Int
  PROVE  /\ ExpireRecord(r, cutoff) \in Record
         /\ ExpireRecord(r, cutoff).lastEvent = r.lastEvent
         /\ r.status \in {"absent", "none"} => ExpireRecord(r, cutoff) = r
  BY DEF ExpireRecord, Record, Status

\* A write older than the event that made the entry absent is ignored.
LEMMA OvertakenIgnored ==
  ASSUME NEW r \in Record, NEW t \in Nat \ {0}, Overtaken(r, t), NEW up \in BOOLEAN
  PROVE  /\ \A status \in Status : SetRecord(r, status, t, 0) = r
         /\ StageRecord(r, t) = r
         /\ SnapshotRecord(r, up, t) = r
<1>1. \A status \in Status, obs \in {0, t} : SetRecord(r, status, t, obs) = r
  BY DEF SetRecord, Stale, Overtaken, Record, Status
<1>2. QED BY <1>1 DEF StageRecord, SnapshotRecord, Overtaken, Record, Status

\* The terminal event itself is never stale for what it dominates.
LEMMA GoneTaken ==
  ASSUME NEW r \in Record, NEW t \in Nat, r.lastEvent <= t
  PROVE  SetRecord(r, "absent", t, 0)
           = [status |-> "absent", lastEvent |-> t, observedAt |-> 0, stagedAt |-> 0]
  BY DEF SetRecord, Stale, Record

-----------------------------------------------------------------------------

\* What every message and entry satisfies, wherever the VM is.
Timed ==
  /\ \A m \in starting : m.kind = "start.finished"
  /\ \A m \in net \cup starting : m.t <= clock
  /\ \A n \in Nodes : entry[n].lastEvent <= clock

\* All that is under way to n is older than t, or a terminal event as old as t.
Bounded(n, t) == \A k \in Ahead(n) : k.t <= t /\ (k.kind \notin Terminal => k.t < t)

Leaving(n) ==
  \E m \in net :
    m.node = n /\ m.kind \in Terminal /\ entry[n].lastEvent <= m.t /\ Bounded(n, m.t)

Left(n) ==
  entry[n].status = "absent" /\ entry[n].observedAt = 0 /\ Bounded(n, entry[n].lastEvent)

Unheard(n) == entry[n] = NoRecord /\ Ahead(n) = {}

Resolved(n) == Leaving(n) \/ Left(n) \/ Unheard(n)

IInv == TypeOK /\ Timed /\ \A n \in Nodes \ {host, target} : Resolved(n)

LEMMA MessageTyped ==
  ASSUME NEW m \in Message
  PROVE  /\ m.node \in Nodes /\ m.t \in Nat \ {0}
         /\ m.kind \in Lifecycle \cup {"snapshot"}
         /\ m.kind = "snapshot" => m.running \in BOOLEAN
  BY DEF Message, Lifecycle, Terminal

LEMMA InitIInv == Init => IInv
  BY DEF Init, IInv, TypeOK, Timed, Resolved, Unheard, Ahead, NoRecord, Record, Status

\* A node whose entry and messages stay as they are stays resolved.
LEMMA ResolvedKept ==
  ASSUME IInv, NEW n \in Nodes, Resolved(n),
         entry'[n] = entry[n], Ahead(n)' = Ahead(n),
         \A m \in net : m.node = n /\ m.kind \in Terminal => m \in net'
  PROVE  Resolved(n)'
<1>1. ASSUME NEW t, Bounded(n, t) PROVE Bounded(n, t)'
  BY <1>1 DEF Bounded
<1>2. QED BY <1>1 DEF Resolved, Leaving, Left, Unheard

\* Delivering a message is one write to one entry.
LEMMA ReceiveStep ==
  ASSUME IInv, NEW m \in net, NEW r, Receive(m, r),
         Wrote(entry[m.node], r, m.t),
         m.kind \in Terminal => r = SetRecord(entry[m.node], "absent", m.t, 0),
         Overtaken(entry[m.node], m.t) => r = entry[m.node]
  PROVE  IInv'
<1> DEFINE x == m.node
<1>1. x \in Nodes /\ m.t \in Nat \ {0} /\ entry \in [Nodes -> Record]
  BY MessageTyped DEF IInv, TypeOK
<1>2. /\ net' = net \ {m} /\ entry' = [entry EXCEPT ![x] = r]
      /\ UNCHANGED <<starting, clock, host, running, target>>
  BY DEF Receive, placement
<1>3. TypeOK'
  BY <1>1, <1>2 DEF IInv, TypeOK, Wrote
<1>4. Timed'
  BY <1>1, <1>2 DEF IInv, Timed, Wrote
<1>5. ASSUME NEW n \in Nodes \ {host, target}, n # x PROVE Resolved(n)'
  BY <1>1, <1>2, <1>5, ResolvedKept DEF IInv, Ahead
<1>6. ASSUME x \notin {host, target} PROVE Resolved(x)'
  <2>1. Resolved(x) /\ entry'[x] = r /\ r \in Record /\ entry[x] \in Record
    BY <1>1, <1>2, <1>6 DEF IInv, Wrote
  <2>2. m \in Ahead(x) /\ Ahead(x)' \subseteq Ahead(x)
    BY <1>2 DEF Ahead
  <2>3. ASSUME NEW t, Bounded(x, t) PROVE Bounded(x, t)'
    BY <2>2, <2>3 DEF Bounded
  <2>4. CASE Leaving(x)
    <3>1. PICK w \in net : /\ w.node = x /\ w.kind \in Terminal
                           /\ entry[x].lastEvent <= w.t /\ Bounded(x, w.t)
      BY <2>4 DEF Leaving
    <3>2. w.t \in Nat /\ m.t <= w.t
      BY <3>1, <2>2, MessageTyped DEF Bounded, IInv, TypeOK
    <3>3. CASE w = m
      <4>1. r = [status |-> "absent", lastEvent |-> m.t, observedAt |-> 0, stagedAt |-> 0]
        BY <3>1, <3>3, <1>1, <2>1, GoneTaken
      <4>2. QED BY <4>1, <3>1, <3>3, <2>1, <2>3 DEF Resolved, Left
    <3>4. CASE w # m
      <4>1. w \in net' /\ r.lastEvent <= w.t
        BY <3>1, <3>2, <3>4, <1>2 DEF Wrote
      <4>2. QED BY <4>1, <3>1, <2>1, <2>3 DEF Resolved, Leaving
    <3>5. QED BY <3>3, <3>4
  <2>5. CASE Left(x)
    <3>1. CASE m.kind \in Terminal
      <4>1. m.t <= entry[x].lastEvent
        BY <2>2, <2>5 DEF Left, Bounded
      <4>2. CASE m.t = entry[x].lastEvent
        <5>1. r = [status |-> "absent", lastEvent |-> m.t, observedAt |-> 0, stagedAt |-> 0]
          BY <4>2, <3>1, <1>1, <2>1, GoneTaken
        <5>2. QED BY <5>1, <4>2, <2>1, <2>3, <2>5 DEF Resolved, Left
      <4>3. CASE m.t < entry[x].lastEvent
        <5>1. r = entry[x]
          BY <4>3, <2>5 DEF Left, Overtaken
        <5>2. QED BY <5>1, <2>1, <2>3, <2>5 DEF Resolved, Left
      <4>4. m.t \in Nat /\ entry[x].lastEvent \in Nat
        BY <1>1, <2>1 DEF Record
      <4>5. m.t = entry[x].lastEvent \/ m.t < entry[x].lastEvent
        BY <4>1, <4>4
      <4>6. QED BY <4>2, <4>3, <4>5
    <3>2. CASE m.kind \notin Terminal
      <4>1. r = entry[x]
        BY <3>2, <2>2, <2>5 DEF Left, Bounded, Overtaken
      <4>2. QED BY <4>1, <2>1, <2>3, <2>5 DEF Resolved, Left
    <3>3. QED BY <3>1, <3>2
  <2>6. CASE Unheard(x)
    BY <2>2, <2>6 DEF Unheard
  <2>7. QED BY <2>1, <2>4, <2>5, <2>6 DEF Resolved
<1>7. QED BY <1>2, <1>3, <1>4, <1>5, <1>6 DEF IInv

LEMMA DeliverStep ==
  ASSUME IInv, NEW m \in net, Deliver(m)
  PROVE  IInv'
<1> DEFINE e == entry[m.node]
<1>1. /\ e \in Record /\ m \in Message /\ m.t \in Nat \ {0}
      /\ m.kind = "snapshot" => m.running \in BOOLEAN
  BY MessageTyped DEF IInv, TypeOK
<1>2. CASE HandleStarted(m)
  <2>1. Receive(m, StageRecord(e, m.t)) /\ m.kind \notin Terminal
    BY <1>2 DEF HandleStarted, Terminal
  <2>2. QED BY <2>1, <1>1, StageWrites, OvertakenIgnored, ReceiveStep
<1>3. CASE HandleSynced(m)
  <2>1. Receive(m, SetRecord(e, "active", m.t, 0)) /\ m.kind \notin Terminal
    BY <1>3 DEF HandleSynced, Terminal
  <2>2. Wrote(e, SetRecord(e, "active", m.t, 0), m.t)
    BY <1>1, SetWrites
  <2>3. Overtaken(e, m.t) => SetRecord(e, "active", m.t, 0) = e
    BY <1>1, OvertakenIgnored DEF Status
  <2>4. QED BY <2>1, <2>2, <2>3, ReceiveStep
<1>4. CASE HandleGone(m)
  <2>1. Receive(m, SetRecord(e, "absent", m.t, 0))
    BY <1>4 DEF HandleGone
  <2>2. Wrote(e, SetRecord(e, "absent", m.t, 0), m.t)
    BY <1>1, SetWrites
  <2>3. Overtaken(e, m.t) => SetRecord(e, "absent", m.t, 0) = e
    BY <1>1, OvertakenIgnored DEF Status
  <2>4. QED BY <2>1, <2>2, <2>3, ReceiveStep
<1>5. CASE HandleSnapshot(m)
  <2>1. /\ Receive(m, SnapshotRecord(e, m.running, m.t)) /\ m.running \in BOOLEAN
        /\ m.kind \notin Terminal
    BY <1>1, <1>5 DEF HandleSnapshot, Terminal
  <2>2. QED BY <2>1, <1>1, SnapshotWrites, OvertakenIgnored, ReceiveStep
<1>6. CASE HandleStartCheck(m)
  <2>1. /\ net' = net \ {m} /\ starting' \in {starting, starting \cup {m}}
        /\ m.kind = "start.finished"
        /\ UNCHANGED <<entry, clock, host, running, target>>
    BY <1>6 DEF HandleStartCheck, placement
  <2>2. TypeOK' /\ Timed'
    BY <2>1, <1>1 DEF IInv, TypeOK, Timed
  <2>3. ASSUME NEW n \in Nodes \ {host, target} PROVE Resolved(n)'
    <3>1. Resolved(n) /\ entry'[n] = entry[n] /\ Ahead(n)' \subseteq Ahead(n)
      BY <2>1 DEF IInv, Ahead
    <3>2. ASSUME NEW t, Bounded(n, t) PROVE Bounded(n, t)'
      BY <3>1, <3>2 DEF Bounded
    <3>3. \A w \in net : w.kind \in Terminal => w \in net'
      BY <2>1 DEF Terminal
    <3>4. CASE Leaving(n)
      BY <3>1, <3>2, <3>3, <3>4 DEF Resolved, Leaving
    <3>5. CASE Left(n) \/ Unheard(n)
      BY <3>1, <3>2, <3>5 DEF Resolved, Left, Unheard
    <3>6. QED BY <3>1, <3>4, <3>5 DEF Resolved
  <2>4. QED BY <2>1, <2>2, <2>3 DEF IInv
<1>7. QED BY <1>2, <1>3, <1>4, <1>5, <1>6 DEF Deliver

\* The second half of start.finished writes as a delivery does.
LEMMA StartSetStep ==
  ASSUME IInv, NEW m \in starting, HandleStartSet(m)
  PROVE  IInv'
<1> DEFINE x == m.node
           r == SetRecord(entry[x], "active", m.t, 0)
<1>1. /\ x \in Nodes /\ m.t \in Nat \ {0} /\ entry \in [Nodes -> Record]
      /\ m.kind = "start.finished"
  BY MessageTyped DEF IInv, TypeOK, Timed
<1>2. Wrote(entry[x], r, m.t) /\ (Overtaken(entry[x], m.t) => r = entry[x])
  BY <1>1, SetWrites, OvertakenIgnored DEF Status
<1> HIDE DEF r
<1>3. /\ starting' = starting \ {m} /\ entry' = [entry EXCEPT ![x] = r]
      /\ UNCHANGED <<net, clock, host, running, target>>
  BY DEF HandleStartSet, placement, r
<1>4. TypeOK'
  BY <1>1, <1>2, <1>3 DEF IInv, TypeOK, Wrote
<1>5. Timed'
  BY <1>1, <1>2, <1>3 DEF IInv, Timed, Wrote
<1>6. ASSUME NEW n \in Nodes \ {host, target} PROVE Resolved(n)'
  <2>1. Resolved(n) /\ Ahead(n)' \subseteq Ahead(n) /\ net' = net
    BY <1>3 DEF IInv, Ahead
  <2>2. ASSUME NEW t, Bounded(n, t) PROVE Bounded(n, t)'
    BY <2>1, <2>2 DEF Bounded
  <2>3. CASE n # x
    <3>1. entry'[n] = entry[n]
      BY <2>3, <1>1, <1>3
    <3>2. QED BY <3>1, <2>1, <2>2 DEF Resolved, Leaving, Left, Unheard
  <2>4. CASE n = x
    <3>1. m \in Ahead(n) /\ entry'[n] = r
      BY <2>4, <1>1, <1>3 DEF Ahead
    <3>2. CASE Leaving(n)
      <4>1. PICK w \in net : /\ w.node = n /\ w.kind \in Terminal
                             /\ entry[n].lastEvent <= w.t /\ Bounded(n, w.t)
        BY <3>2 DEF Leaving
      <4>2. r.lastEvent <= w.t
        BY <4>1, <3>1, <2>4, <1>2 DEF Bounded, Wrote
      <4>3. QED BY <4>1, <4>2, <3>1, <2>1, <2>2 DEF Resolved, Leaving
    <3>3. CASE Left(n)
      <4>1. r = entry[n]
        BY <3>1, <3>3, <2>4, <1>1, <1>2 DEF Left, Bounded, Overtaken, Terminal
      <4>2. QED BY <4>1, <3>1, <3>3, <2>2 DEF Resolved, Left
    <3>4. CASE Unheard(n)
      BY <3>1, <3>4 DEF Unheard
    <3>5. QED BY <2>1, <3>2, <3>3, <3>4 DEF Resolved
  <2>5. QED BY <2>3, <2>4
<1>7. QED BY <1>3, <1>4, <1>5, <1>6 DEF IInv

LEMMA ExpireStep ==
  ASSUME IInv, NEW n \in Nodes, ExpireStaged(n)
  PROVE  IInv'
<1> DEFINE r == ExpireRecord(entry[n], clock - TTL)
<1>1. entry \in [Nodes -> Record] /\ clock \in Nat
  BY DEF IInv, TypeOK
<1>2. /\ r \in Record /\ r.lastEvent = entry[n].lastEvent
      /\ entry[n].status \in {"absent", "none"} => r = entry[n]
  BY <1>1, ExpireWrites
<1> HIDE DEF r
<1>3. /\ entry' = [entry EXCEPT ![n] = r]
      /\ UNCHANGED <<net, starting, clock, host, running, target>>
  BY DEF ExpireStaged, placement, r
<1>4. TypeOK' /\ Timed'
  BY <1>1, <1>2, <1>3 DEF IInv, TypeOK, Timed
<1>5. ASSUME NEW k \in Nodes \ {host, target} PROVE Resolved(k)'
  <2>1. /\ Resolved(k) /\ Ahead(k)' = Ahead(k) /\ net' = net
        /\ entry'[k].lastEvent = entry[k].lastEvent
        /\ entry[k].status \in {"absent", "none"} => entry'[k] = entry[k]
    BY <1>1, <1>2, <1>3 DEF IInv, Ahead
  <2>2. ASSUME NEW t, Bounded(k, t) PROVE Bounded(k, t)'
    BY <2>1, <2>2 DEF Bounded
  <2>3. CASE Leaving(k)
    BY <2>1, <2>2, <2>3 DEF Resolved, Leaving
  <2>4. CASE Left(k) \/ Unheard(k)
    BY <2>1, <2>2, <2>4 DEF Resolved, Left, Unheard, NoRecord
  <2>5. QED BY <2>1, <2>3, <2>4 DEF Resolved
<1>6. QED BY <1>3, <1>4, <1>5 DEF IInv

LEMMA RestartStep ==
  ASSUME IInv, NEW n \in Nodes, Restart(n)
  PROVE  IInv'
<1>1. /\ entry' = [entry EXCEPT ![n] = NoRecord]
      /\ starting' = {m \in starting : m.node # n} /\ net' = {m \in net : m.node # n}
      /\ UNCHANGED <<clock, host, running, target>>
  BY DEF Restart, placement
<1>2. NoRecord \in Record /\ NoRecord.lastEvent = 0
  BY DEF NoRecord, Record, Status
<1>3. TypeOK' /\ Timed'
  BY <1>1, <1>2 DEF IInv, TypeOK, Timed
<1>4. ASSUME NEW k \in Nodes \ {host, target}, k # n PROVE Resolved(k)'
  <2>1. entry'[k] = entry[k] /\ Ahead(k)' = Ahead(k) /\ \A m \in net : m.node = k => m \in net'
    BY <1>1, <1>4 DEF IInv, TypeOK, Ahead
  <2>2. QED BY <2>1, ResolvedKept DEF IInv
<1>5. Resolved(n)'
  BY <1>1 DEF IInv, TypeOK, Ahead, Resolved, Unheard
<1>6. QED BY <1>1, <1>3, <1>4, <1>5 DEF IInv

-----------------------------------------------------------------------------

\* What a step of the hypervisors does to the nodes: everything stays, but for
\* messages that are new to some of them.
Quiet(n) ==
  /\ entry' = entry /\ starting' = starting
  /\ \A m \in net \cup net' : m.node = n => (m \in net <=> m \in net')

LEMMA QuietResolved ==
  ASSUME IInv, NEW n \in Nodes, Resolved(n), Quiet(n)
  PROVE  Resolved(n)'
<1>1. Ahead(n)' = Ahead(n)
  BY DEF Ahead, Quiet
<1>2. QED BY <1>1, ResolvedKept DEF Quiet

\* A lifecycle event is published to one node that the VM is on or comes to.
LEMMA PublishToStep ==
  ASSUME IInv, NEW kind \in Lifecycle, NEW x \in Nodes, PublishTo(kind, x)
  PROVE  /\ entry' = entry /\ starting' = starting
         /\ net' = net \cup {[node |-> x, kind |-> kind, t |-> clock + 1]}
         /\ clock' = clock + 1
         /\ net' \in SUBSET Message /\ Timed'
         /\ \A n \in Nodes \ {x} : Quiet(n)
<1> DEFINE m == [node |-> x, kind |-> kind, t |-> clock + 1]
<1>1. /\ entry' = entry /\ starting' = starting /\ net' = net \cup {m} /\ clock' = clock + 1
  BY DEF PublishTo, Publish
<1>2. m \in Message
  BY DEF Message, IInv, TypeOK
<1>3. net' \in SUBSET Message
  BY <1>1, <1>2 DEF IInv, TypeOK
<1>4. Timed'
  <2>1. clock \in Nat /\ m.t = clock + 1 /\ clock' = clock + 1
    BY <1>1 DEF IInv, TypeOK
  <2>2. ASSUME NEW k \in net' \cup starting' PROVE k.t <= clock'
    <3>1. CASE k = m
      BY <3>1, <2>1
    <3>2. CASE k \in net \cup starting
      BY <3>2, <2>1, MessageTyped DEF IInv, Timed, TypeOK
    <3>3. QED BY <3>1, <3>2, <1>1
  <2>3. ASSUME NEW n \in Nodes PROVE entry'[n].lastEvent <= clock'
    BY <2>1, <1>1 DEF IInv, Timed, TypeOK, Record
  <2>4. QED BY <2>2, <2>3, <1>1 DEF IInv, Timed
<1>5. ASSUME NEW n \in Nodes \ {x} PROVE Quiet(n)
  BY <1>1 DEF Quiet
<1>6. QED BY <1>1, <1>3, <1>4, <1>5

\* The node that gets a terminal event now waits for it: it is the newest.
LEMMA TerminalResolved ==
  ASSUME IInv, NEW n \in Nodes, NEW m \in net',
         m.node = n, m.kind \in Terminal, m.t = clock + 1,
         entry' = entry, starting' = starting,
         \A k \in net' : k.node = n => k = m \/ k \in net
  PROVE  Resolved(n)'
<1>1. clock \in Nat /\ entry[n].lastEvent \in Nat /\ entry[n].lastEvent <= clock
  BY DEF IInv, TypeOK, Timed, Record
<1>2. ASSUME NEW k \in net \cup starting PROVE k.t < m.t
  BY <1>1, <1>2, MessageTyped DEF IInv, TypeOK, Timed
<1>3. ASSUME NEW k \in Ahead(n)' PROVE k.t <= m.t /\ (k.kind \notin Terminal => k.t < m.t)
  <2>1. k = m \/ k \in net \cup starting
    BY <1>3 DEF Ahead
  <2>2. CASE k = m
    BY <2>2, <1>1
  <2>3. CASE k \in net \cup starting
    BY <2>3, <1>1, <1>2, MessageTyped DEF IInv, TypeOK
  <2>4. QED BY <2>1, <2>2, <2>3
<1>4. Bounded(n, m.t)'
  BY <1>3 DEF Bounded
<1>5. QED BY <1>1, <1>4 DEF Resolved, Leaving

LEMMA HypervisorStep ==
  ASSUME IInv,
         \/ \E n \in Nodes : MigrateStart(n)
         \/ StartIncoming \/ CutOver \/ MigrateFail \/ StartStop
  PROVE  IInv'
<1>1. /\ host \in Nodes /\ running \in BOOLEAN /\ target \in Nodes \cup {None}
      /\ target # host /\ clock \in Nat \ {0} /\ entry \in [Nodes -> Record]
  BY DEF IInv, TypeOK
<1>2. CASE \E n \in Nodes : MigrateStart(n)
  <2>1. PICK n \in Nodes : MigrateStart(n)
    BY <1>2
  <2>2. /\ PublishTo("migrate.started", n) /\ target' = n /\ host' = host
        /\ running' = running /\ n # host /\ target = None
    BY <2>1 DEF MigrateStart
  <2>3. "migrate.started" \in Lifecycle
    BY DEF Lifecycle
  <2>4. TypeOK' /\ Timed' /\ \A k \in Nodes \ {n} : Quiet(k)
    BY <1>1, <2>2, <2>3, PublishToStep DEF IInv, TypeOK
  <2>5. QED BY <2>2, <2>4, QuietResolved DEF IInv
<1>3. CASE StartIncoming
  <2>1. /\ PublishTo("start.finished", target) /\ UNCHANGED <<host, running, target>>
        /\ target \in Nodes
    BY <1>1, <1>3 DEF StartIncoming
  <2>2. "start.finished" \in Lifecycle
    BY DEF Lifecycle
  <2>3. TypeOK' /\ Timed' /\ \A k \in Nodes \ {target} : Quiet(k)
    BY <1>1, <2>1, <2>2, PublishToStep DEF IInv, TypeOK
  <2>4. QED BY <2>1, <2>3, QuietResolved DEF IInv
<1>4. CASE MigrateFail
  <2>1. /\ PublishTo("migrate.failed", target) /\ UNCHANGED <<host, running>>
        /\ target \in Nodes /\ target' = None
    BY <1>1, <1>4 DEF MigrateFail
  <2>2. "migrate.failed" \in Lifecycle \cap Terminal
    BY DEF Lifecycle, Terminal
  <2>3. /\ TypeOK' /\ Timed' /\ \A k \in Nodes \ {target} : Quiet(k)
        /\ entry' = entry /\ starting' = starting
        /\ net' = net \cup {[node |-> target, kind |-> "migrate.failed", t |-> clock + 1]}
    BY <1>1, <2>1, <2>2, PublishToStep DEF IInv, TypeOK
  <2>4. PICK x \in Nodes : x = target
    BY <2>1
  <2>5. Resolved(x)'
    <3> DEFINE m == [node |-> x, kind |-> "migrate.failed", t |-> clock + 1]
    <3>1. m \in net' /\ m.node = x /\ m.kind \in Terminal /\ m.t = clock + 1
      BY <2>2, <2>3, <2>4
    <3>2. \A k \in net' : k.node = x => k = m \/ k \in net
      BY <2>3, <2>4
    <3> HIDE DEF m
    <3>3. QED BY <3>1, <3>2, <2>3, TerminalResolved
  <2>6. ASSUME NEW n \in Nodes \ {host', target'} PROVE Resolved(n)'
    BY <2>1, <2>3, <2>4, <2>5, <2>6, QuietResolved DEF IInv
  <2>7. QED BY <2>3, <2>6 DEF IInv
<1>5. CASE StartStop
  <2> DEFINE kind == IF running THEN "stop.finished" ELSE "start.finished"
  <2>1. /\ PublishTo(kind, host) /\ UNCHANGED <<host, target>> /\ running' = ~running
        /\ kind \in Lifecycle
    BY <1>5 DEF StartStop, Lifecycle
  <2>2. TypeOK' /\ Timed' /\ \A k \in Nodes \ {host} : Quiet(k)
    BY <1>1, <2>1, PublishToStep DEF IInv, TypeOK
  <2>3. QED BY <2>1, <2>2, QuietResolved DEF IInv
<1>6. CASE CutOver
  <2> DEFINE synced == [node |-> target, kind |-> "migrate.synced", t |-> clock + 1]
             departed == [node |-> host, kind |-> "migrate.departed", t |-> clock + 1]
  <2>1. /\ target \in Nodes /\ host' = target /\ target' = None /\ running' = running
        /\ entry' = entry /\ starting' = starting /\ clock' = clock + 1
        /\ net' = net \cup {synced, departed}
    BY <1>1, <1>6 DEF CutOver, Publish
  <2>2. synced \in Message /\ departed \in Message
    BY <1>1, <2>1 DEF Message, Lifecycle, Terminal
  <2>3. TypeOK'
    BY <1>1, <2>1, <2>2 DEF IInv, TypeOK
  <2>4. Timed'
    <3>1. ASSUME NEW k \in net \cup starting PROVE k.t <= clock'
      BY <1>1, <2>1, MessageTyped DEF IInv, Timed, TypeOK
    <3>2. ASSUME NEW n \in Nodes PROVE entry'[n].lastEvent <= clock'
      BY <1>1, <2>1 DEF IInv, Timed, Record
    <3>3. synced.t <= clock' /\ departed.t <= clock'
      BY <1>1, <2>1
    <3>4. QED BY <3>1, <3>2, <3>3, <2>1 DEF IInv, Timed
  <2>5. PICK x \in Nodes : x = host
    BY <1>1
  <2>6. Resolved(x)'
    <3> DEFINE m == [node |-> x, kind |-> "migrate.departed", t |-> clock + 1]
    <3>1. m \in net' /\ m.node = x /\ m.kind \in Terminal /\ m.t = clock + 1
      BY <2>1, <2>5 DEF Terminal
    <3>2. \A k \in net' : k.node = x => k = m \/ k \in net
      BY <1>1, <2>1, <2>5
    <3> HIDE DEF m
    <3>3. QED BY <3>1, <3>2, <2>1, TerminalResolved
  <2>7. ASSUME NEW n \in Nodes \ {host, target} PROVE Resolved(n)'
    <3>1. Quiet(n)
      BY <2>1, <2>7 DEF Quiet
    <3>2. QED BY <3>1, QuietResolved DEF IInv
  <2>8. ASSUME NEW n \in Nodes \ {host', target'} PROVE Resolved(n)'
    BY <2>1, <2>5, <2>6, <2>7, <2>8
  <2>9. QED BY <2>3, <2>4, <2>8 DEF IInv
<1>7. QED BY <1>2, <1>3, <1>4, <1>5, <1>6

LEMMA SnapshotStep ==
  ASSUME IInv, NEW n \in Nodes, PublishSnapshot(n)
  PROVE  IInv'
<1> DEFINE m == [node |-> n, kind |-> "snapshot", t |-> clock, running |-> n = host /\ running]
<1>1. /\ n \in {host, target} /\ net' = net \cup {m}
      /\ UNCHANGED <<entry, starting, clock, host, running, target>>
  BY DEF PublishSnapshot
<1>2. m \in Message
  BY DEF Message, IInv, TypeOK
<1>3. TypeOK'
  BY <1>1, <1>2 DEF IInv, TypeOK
<1>4. Timed'
  <2>1. m.t <= clock
    BY DEF IInv, TypeOK
  <2>2. QED BY <2>1, <1>1 DEF IInv, Timed
<1>5. ASSUME NEW k \in Nodes \ {host, target} PROVE Resolved(k)'
  <2>1. Quiet(k)
    BY <1>1, <1>5 DEF Quiet
  <2>2. QED BY <2>1, QuietResolved DEF IInv
<1>6. QED BY <1>1, <1>3, <1>4, <1>5 DEF IInv

LEMMA TickStep ==
  ASSUME IInv, Tick
  PROVE  IInv'
<1>1. clock' = clock + 1 /\ clock \in Nat \ {0}
      /\ UNCHANGED <<entry, starting, host, running, target, net>>
  BY DEF Tick, IInv, TypeOK
<1>2. TypeOK'
  BY <1>1 DEF IInv, TypeOK
<1>3. Timed'
  <2>1. \A m \in net \cup starting : m.t \in Nat
    BY MessageTyped DEF IInv, TypeOK
  <2>2. \A n \in Nodes : entry[n].lastEvent \in Nat
    BY DEF IInv, TypeOK, Record
  <2>3. QED BY <1>1, <2>1, <2>2 DEF IInv, Timed
<1>4. \A n \in Nodes : Quiet(n)
  BY <1>1 DEF Quiet
<1>5. QED BY <1>1, <1>2, <1>3, <1>4, QuietResolved DEF IInv

\* A terminal event is not lost.
LEMMA LoseStep ==
  ASSUME IInv, NEW m \in net, Lose(m)
  PROVE  IInv'
<1>1. /\ m.kind \notin Terminal /\ net' = net \ {m}
      /\ UNCHANGED <<entry, starting, clock, host, running, target>>
  BY DEF Lose, placement
<1>2. TypeOK' /\ Timed'
  BY <1>1 DEF IInv, TypeOK, Timed
<1>3. ASSUME NEW n \in Nodes \ {host, target} PROVE Resolved(n)'
  <2>1. Resolved(n) /\ Ahead(n)' \subseteq Ahead(n)
    BY <1>1 DEF IInv, Ahead
  <2>2. ASSUME NEW t, Bounded(n, t) PROVE Bounded(n, t)'
    BY <2>1, <2>2 DEF Bounded
  <2>3. QED BY <1>1, <2>1, <2>2 DEF Resolved, Leaving, Left, Unheard
<1>4. QED BY <1>1, <1>2, <1>3 DEF IInv

LEMMA NextIInv == IInv /\ [Next]_vars => IInv'
<1> SUFFICES ASSUME IInv, [Next]_vars PROVE IInv'
  OBVIOUS
<1>1. CASE UNCHANGED vars
  BY <1>1 DEF vars, IInv, TypeOK, Timed, Resolved, Leaving, Left, Unheard, Bounded, Ahead
<1>2. CASE (\E n \in Nodes : MigrateStart(n)) \/ StartIncoming \/ CutOver \/ MigrateFail \/ StartStop
  BY <1>2, HypervisorStep
<1>3. CASE Tick
  BY <1>3, TickStep
<1>4. CASE \E n \in Nodes : PublishSnapshot(n) \/ ExpireStaged(n) \/ Restart(n)
  BY <1>4, SnapshotStep, ExpireStep, RestartStep
<1>5. CASE \E m \in net : Deliver(m) \/ Lose(m)
  BY <1>5, DeliverStep, LoseStep
<1>6. CASE \E m \in starting : HandleStartSet(m)
  BY <1>6, StartSetStep
<1>7. QED BY <1>1, <1>2, <1>3, <1>4, <1>5, <1>6 DEF Next

LEMMA SpecIInv == Spec => []IInv
  BY InitIInv, NextIInv, PTL DEF Spec

\* Entries, messages and placement have their types; the VM is never migrated to
\* the node it is on.
THEOREM TypeCorrect == Spec => []TypeOK
<1>1. IInv => TypeOK
  BY DEF IInv
<1>2. QED BY <1>1, SpecIInv, PTL

\* On any number of nodes and through any number of migrations, a node the VM has
\* left for good considers it active only until the terminal event under way to
\* it arrives (store.go:164-200, reconciler.go:581-596).
THEOREM LeftForGood == Spec => []StaleCleared
<1>1. IInv => StaleCleared
  <2> SUFFICES ASSUME IInv, NEW n \in Nodes \ {host, target}, entry[n].status = "active"
               PROVE  \E m \in Ahead(n) :
                        /\ m.kind \in Terminal
                        /\ m.t >= entry[n].lastEvent
                        /\ \A k \in Ahead(n) : k.t <= m.t
    BY DEF StaleCleared
  <2>1. Leaving(n)
    BY DEF IInv, Resolved, Left, Unheard, NoRecord
  <2>2. PICK m \in net : /\ m.node = n /\ m.kind \in Terminal
                         /\ entry[n].lastEvent <= m.t /\ Bounded(n, m.t)
    BY <2>1 DEF Leaving
  <2>3. m \in Ahead(n) /\ m.t \in Nat /\ entry[n].lastEvent \in Nat
    BY <2>2, MessageTyped DEF Ahead, IInv, TypeOK, Record
  <2>4. QED BY <2>2, <2>3 DEF Bounded
<1>2. QED BY <1>1, SpecIInv, PTL

-----------------------------------------------------------------------------
(* Each node behaves as VMStore says *)

LEMMA OneEntry ==
  ASSUME NEW x, NEW y
  PROVE  /\ [v \in {0} |-> x][0] = x
         /\ [[v \in {0} |-> x] EXCEPT ![0] = y] = [v \in {0} |-> y]
  OBVIOUS

\* Two messages to the observer that look alike to it are one.
LEMMA StoredApart ==
  ASSUME NEW a \in Message, NEW b \in Message, a.node = b.node, AsStored(a) = AsStored(b)
  PROVE  a = b
<1>1. \A m \in Message : AsStored(m).kind = m.kind /\ AsStored(m).t = m.t
  BY DEF AsStored
<1>2. CASE a.kind = "snapshot"
  <2>1. b.kind = "snapshot"
    BY <1>1, <1>2
  <2>2. AsStored(a).running = a.running /\ AsStored(b).running = b.running
    BY <1>2, <2>1 DEF AsStored
  <2>3. QED BY <1>1, <1>2, <2>1, <2>2 DEF Message, Lifecycle, Terminal
<1>3. CASE a.kind # "snapshot"
  BY <1>1, <1>3 DEF Message, Lifecycle, Terminal
<1>4. QED BY <1>2, <1>3

LEMMA StoredRemoved ==
  ASSUME NEW S \in SUBSET Message, NEW m \in S
  PROVE  /\ m.node = Observer => /\ AsStored(m) \in Stored(S)
                                 /\ Stored(S \ {m}) = Stored(S) \ {AsStored(m)}
         /\ m.node # Observer => Stored(S \ {m}) = Stored(S)
<1>1. CASE m.node = Observer
  <2>1. \A k \in S \ {m} : k.node = Observer => AsStored(k) # AsStored(m)
    BY <1>1, StoredApart
  <2>2. QED BY <1>1, <2>1 DEF Stored
<1>2. CASE m.node # Observer
  BY <1>2 DEF Stored
<1>3. QED BY <1>1, <1>2

LEMMA StoredAdded ==
  ASSUME NEW S, NEW m
  PROVE  Stored(S \cup {m}) = IF m.node = Observer THEN Stored(S) \cup {AsStored(m)} ELSE Stored(S)
  BY DEF Stored

\* A migration is one of a running VM.
Live == target # None => running

LEMMA NextLive == Live /\ [Next]_vars => Live'
  BY DEF Live, Next, vars, MigrateStart, StartIncoming, CutOver, MigrateFail, StartStop, Tick,
         PublishSnapshot, ExpireStaged, Restart, Deliver, HandleStarted, HandleSynced, HandleGone,
         HandleSnapshot, HandleStartCheck, Receive, Lose, HandleStartSet, Publish, PublishTo, placement

\* VMStore brings its own instance of VMRecord.
LEMMA SeenRecord ==
  /\ Seen!NoRecord = NoRecord
  /\ \A r, s, t, o : Seen!SetRecord(r, s, t, o) = SetRecord(r, s, t, o)
  /\ \A r, t : Seen!StageRecord(r, t) = StageRecord(r, t)
  /\ \A r, up, t : Seen!SnapshotRecord(r, up, t) = SnapshotRecord(r, up, t)
  /\ \A r, c : Seen!ExpireRecord(r, c) = ExpireRecord(r, c)
<1>1. \A r, s, t, o : Seen!SetRecord(r, s, t, o) = SetRecord(r, s, t, o)
  BY DEF Seen!SetRecord, SetRecord, Seen!Stale, Stale
<1>2. QED
  BY <1>1 DEF Seen!NoRecord, NoRecord, Seen!StageRecord, StageRecord, Seen!SnapshotRecord,
              SnapshotRecord, Seen!ExpireRecord, ExpireRecord

LEMMA SeenInit == Init => Seen!Init
<1> SUFFICES ASSUME Init PROVE Seen!Init
  OBVIOUS
<1>1. entry[Observer] = Seen!NoRecord
  BY SeenRecord DEF Init
<1>2. Stored(starting) = {} /\ Stored(net) = {}
  BY DEF Init, Stored
<1>3. Where(Observer) \in Seen!Places \ {"incoming"}
  BY DEF Init, Where, Seen!Places
<1>4. QED BY <1>1, <1>2, <1>3 DEF Init, Seen!Init

\* What the observer sees of a published event: its own message, or a tick.
LEMMA SeenPublished ==
  ASSUME NEW kind \in Lifecycle, NEW n, PublishTo(kind, n), clock \in Nat
  PROVE  /\ clock < Horizon /\ clock < MaxTime /\ clock' = clock + 1
         /\ UNCHANGED <<entry, starting>> /\ Stored(starting)' = Stored(starting)
         /\ Stored(net)' = IF n = Observer
              THEN Stored(net) \cup {[kind |-> kind, vm |-> 0, t |-> clock + 1]} ELSE Stored(net)
<1> DEFINE m == [node |-> n, kind |-> kind, t |-> clock + 1]
<1>1. clock < Horizon /\ clock' = clock + 1 /\ UNCHANGED <<entry, starting>>
  BY DEF PublishTo, Publish
<1>2. net' = net \cup {m}
  BY DEF PublishTo, Publish
<1>3. AsStored(m) = [kind |-> kind, vm |-> 0, t |-> clock + 1]
  BY DEF AsStored, Lifecycle, Terminal
<1>4. Stored(net \cup {m}) = IF n = Observer THEN Stored(net) \cup {AsStored(m)} ELSE Stored(net)
  <2>1. m.node = n
    OBVIOUS
  <2> HIDE DEF m
  <2>2. QED BY <2>1, StoredAdded
<1>5. Stored(net)' = Stored(net \cup {m})
  BY <1>2 DEF Stored
<1>6. Stored(starting)' = Stored(starting)
  BY <1>1 DEF Stored
<1>7. QED BY <1>1, <1>3, <1>4, <1>5, <1>6

\* A step that moves the observer's view of the VM and sends it an event.
LEMMA SeenMove ==
  ASSUME NEW from, NEW to, NEW kind,
         clock < Horizon, clock' = clock + 1, UNCHANGED <<entry, starting>>,
         Where(Observer) = from, Where(Observer)' = to,
         Stored(net)' = Stored(net) \cup {[kind |-> kind, vm |-> 0, t |-> clock + 1]}
  PROVE  Seen!Move(0, from, to, kind)
<1>1. /\ [v \in {0} |-> Where(Observer)][0] = from
      /\ [v \in {0} |-> Where(Observer)]' = [[v \in {0} |-> Where(Observer)] EXCEPT ![0] = to]
  BY OneEntry
<1>2. /\ [v \in {0} |-> entry[Observer]]' = [v \in {0} |-> entry[Observer]]
      /\ Stored(starting)' = Stored(starting)
  BY DEF Stored
<1>3. QED BY <1>1, <1>2 DEF Seen!Move, Seen!Event

\* What does not concern the observer is at most a tick to it.
LEMMA SeenNothing ==
  ASSUME entry'[Observer] = entry[Observer], Stored(starting)' = Stored(starting),
         Stored(net)' = Stored(net), Where(Observer)' = Where(Observer)
  PROVE  /\ clock < MaxTime /\ clock' = clock + 1 => Seen!Tick
         /\ clock' = clock => UNCHANGED Seen!vars
  BY DEF Seen!Tick, Seen!vars

Steps == Seen!Next \/ UNCHANGED Seen!vars

LEMMA SeenHypervisor ==
  ASSUME TypeOK, Live,
         \/ \E n \in Nodes : MigrateStart(n)
         \/ StartIncoming \/ CutOver \/ MigrateFail \/ StartStop
  PROVE  Steps
<1> USE DEF TypeOK
<1>1. ASSUME NEW n \in Nodes, MigrateStart(n) PROVE Steps
  <2>1. PublishTo("migrate.started", n) /\ n # host /\ target = None /\ running /\ target' = n
        /\ UNCHANGED <<host, running>>
    BY <1>1 DEF MigrateStart
  <2>2. CASE n = Observer
    <3>1. Where(Observer) = "elsewhere" /\ Where(Observer)' = "incoming"
      BY <2>1, <2>2 DEF Where
    <3>2. Seen!MigrateIn(0)
      BY <2>1, <2>2, <3>1, SeenPublished, SeenMove DEF Seen!MigrateIn, Lifecycle
    <3>3. QED BY <3>2 DEF Steps, Seen!Next, Seen!Hypervisor
  <2>3. CASE n # Observer
    <3>1. Where(Observer)' = Where(Observer)
      BY <2>1, <2>3 DEF Where
    <3>2. Seen!Tick
      BY <2>1, <2>3, <3>1, SeenPublished, SeenNothing DEF Lifecycle
    <3>3. QED BY <3>2 DEF Steps, Seen!Next
  <2>4. QED BY <2>2, <2>3
<1>2. ASSUME StartIncoming PROVE Steps
  <2>1. PublishTo("start.finished", target) /\ target # None /\ UNCHANGED <<host, running, target>>
    BY <1>2 DEF StartIncoming
  <2>2. Where(Observer)' = Where(Observer)
    BY <2>1 DEF Where
  <2>3. CASE target = Observer
    <3>1. Where(Observer) = "incoming"
      BY <2>3 DEF Where
    <3>2. Seen!StartIncoming(0)
      BY <2>1, <2>2, <2>3, <3>1, SeenPublished, SeenMove DEF Seen!StartIncoming, Lifecycle
    <3>3. QED BY <3>2 DEF Steps, Seen!Next, Seen!Hypervisor
  <2>4. CASE target # Observer
    <3>1. Seen!Tick
      BY <2>1, <2>2, <2>4, SeenPublished, SeenNothing DEF Lifecycle
    <3>2. QED BY <3>1 DEF Steps, Seen!Next
  <2>5. QED BY <2>3, <2>4
<1>3. ASSUME CutOver PROVE Steps
  <2> DEFINE synced == [node |-> target, kind |-> "migrate.synced", t |-> clock + 1]
             departed == [node |-> host, kind |-> "migrate.departed", t |-> clock + 1]
  <2>1. /\ target # None /\ target # host /\ running
        /\ host' = target /\ target' = None /\ running' = running
        /\ clock < Horizon /\ clock < MaxTime /\ clock' = clock + 1 /\ UNCHANGED <<entry, starting>>
    BY <1>3 DEF CutOver, Publish, Live
  <2>2. net' = (net \cup {synced}) \cup {departed}
    BY <1>3 DEF CutOver, Publish
  <2>3. /\ synced.node = target /\ departed.node = host
        /\ AsStored(synced) = [kind |-> "migrate.synced", vm |-> 0, t |-> clock + 1]
        /\ AsStored(departed) = [kind |-> "migrate.departed", vm |-> 0, t |-> clock + 1]
    BY DEF AsStored
  <2> HIDE DEF synced, departed
  <2>4. Stored(net)' =
          IF Observer = host THEN Stored(net) \cup {AsStored(departed)}
          ELSE IF Observer = target THEN Stored(net) \cup {AsStored(synced)} ELSE Stored(net)
    BY <2>1, <2>2, <2>3, StoredAdded DEF Stored
  <2>5. CASE Observer = host
    <3>1. Where(Observer) = "running" /\ Where(Observer)' = "elsewhere"
      BY <2>1, <2>5 DEF Where
    <3>2. Seen!MigrateOut(0)
      BY <2>1, <2>3, <2>4, <2>5, <3>1, SeenMove DEF Seen!MigrateOut
    <3>3. QED BY <3>2 DEF Steps, Seen!Next, Seen!Hypervisor
  <2>6. CASE Observer = target
    <3>1. Where(Observer) = "incoming" /\ Where(Observer)' = "running"
      BY <2>1, <2>6 DEF Where
    <3>2. Seen!CutOver(0)
      BY <2>1, <2>3, <2>4, <2>6, <3>1, SeenMove DEF Seen!CutOver
    <3>3. QED BY <3>2 DEF Steps, Seen!Next, Seen!Hypervisor
  <2>7. CASE Observer \notin {host, target}
    <3>1. Where(Observer)' = Where(Observer)
      BY <2>1, <2>7 DEF Where
    <3>2. Seen!Tick
      BY <2>1, <2>4, <2>7, <3>1, SeenNothing DEF Stored
    <3>3. QED BY <3>2 DEF Steps, Seen!Next
  <2>8. QED BY <2>5, <2>6, <2>7
<1>4. ASSUME MigrateFail PROVE Steps
  <2>1. PublishTo("migrate.failed", target) /\ target # None /\ target # host /\ target' = None
        /\ UNCHANGED <<host, running>>
    BY <1>4 DEF MigrateFail
  <2>2. CASE target = Observer
    <3>1. Where(Observer) = "incoming" /\ Where(Observer)' = "elsewhere"
      BY <2>1, <2>2 DEF Where
    <3>2. Seen!MigrateFail(0)
      BY <2>1, <2>2, <3>1, SeenPublished, SeenMove DEF Seen!MigrateFail, Lifecycle, Terminal
    <3>3. QED BY <3>2 DEF Steps, Seen!Next, Seen!Hypervisor
  <2>3. CASE target # Observer
    <3>1. Where(Observer)' = Where(Observer)
      BY <2>1, <2>3 DEF Where
    <3>2. Seen!Tick
      BY <2>1, <2>3, <3>1, SeenPublished, SeenNothing DEF Lifecycle, Terminal
    <3>3. QED BY <3>2 DEF Steps, Seen!Next
  <2>4. QED BY <2>2, <2>3
<1>5. ASSUME StartStop PROVE Steps
  <2>1. PublishTo(IF running THEN "stop.finished" ELSE "start.finished", host)
        /\ target = None /\ running' = ~running /\ UNCHANGED <<host, target>>
    BY <1>5 DEF StartStop
  <2>2. CASE host = Observer /\ running
    <3>1. Where(Observer) = "running" /\ Where(Observer)' = "stopped"
      BY <2>1, <2>2 DEF Where
    <3>2. PublishTo("stop.finished", host)
      BY <2>1, <2>2
    <3>3. Seen!Stop(0)
      BY <2>2, <3>1, <3>2, SeenPublished, SeenMove DEF Seen!Stop, Lifecycle
    <3>4. QED BY <3>3 DEF Steps, Seen!Next, Seen!Hypervisor
  <2>3. CASE host = Observer /\ ~running
    <3>1. Where(Observer) = "stopped" /\ Where(Observer)' = "running"
      BY <2>1, <2>3 DEF Where
    <3>2. PublishTo("start.finished", host)
      BY <2>1, <2>3
    <3>3. Seen!Start(0)
      BY <2>3, <3>1, <3>2, SeenPublished, SeenMove DEF Seen!Start, Lifecycle
    <3>4. QED BY <3>3 DEF Steps, Seen!Next, Seen!Hypervisor
  <2>4. CASE host # Observer
    <3>1. Where(Observer)' = Where(Observer)
      BY <2>1, <2>4 DEF Where
    <3>2. PICK kind \in Lifecycle : PublishTo(kind, host)
      BY <2>1 DEF Lifecycle
    <3>3. Seen!Tick
      BY <2>4, <3>1, <3>2, SeenPublished, SeenNothing
    <3>4. QED BY <3>3 DEF Steps, Seen!Next
  <2>5. QED BY <2>2, <2>3, <2>4
<1>6. QED BY <1>1, <1>2, <1>3, <1>4, <1>5

\* The clock, snapshots, sweeps and restarts
LEMMA SeenWorld ==
  ASSUME TypeOK,
         Tick \/ \E n \in Nodes : PublishSnapshot(n) \/ ExpireStaged(n) \/ Restart(n)
  PROVE  Steps
<1> USE DEF TypeOK
<1>1. ASSUME Tick PROVE Steps
  <2>1. Seen!Tick
    BY <1>1, SeenNothing DEF Tick, Stored, Where
  <2>2. QED BY <2>1 DEF Steps, Seen!Next
<1>2. ASSUME NEW n \in Nodes, PublishSnapshot(n) PROVE Steps
  <2> DEFINE m == [node |-> n, kind |-> "snapshot", t |-> clock, running |-> n = host /\ running]
  <2>1. /\ n \in {host, target} /\ net' = net \cup {m}
        /\ UNCHANGED <<entry, starting, clock, host, running, target>>
    BY <1>2 DEF PublishSnapshot
  <2>2. /\ m.node = n
        /\ AsStored(m) = [kind |-> "snapshot", vm |-> 0, t |-> clock, running |-> n = host /\ running]
    BY DEF AsStored
  <2> HIDE DEF m
  <2>3. Stored(net)' = IF n = Observer THEN Stored(net) \cup {AsStored(m)} ELSE Stored(net)
    BY <2>1, <2>2, StoredAdded DEF Stored
  <2>4. CASE n = Observer
    <3>1. Where(n) # "elsewhere" /\ ((Where(n) = "running") = (n = host /\ running))
      BY <2>1 DEF Where
    <3>2. [v \in {0} |-> Where(Observer)][0] = Where(Observer)
      BY OneEntry
    <3>3. Stored(net)' = Stored(net) \cup {[kind |-> "snapshot", vm |-> 0, t |-> clock,
                                            running |-> Where(Observer) = "running"]}
      BY <2>2, <2>3, <2>4, <3>1
    <3>4. UNCHANGED <<[v \in {0} |-> entry[Observer]], Stored(starting), clock, [v \in {0} |-> Where(Observer)]>>
      BY <2>1 DEF Stored, Where
    <3>5. Seen!PublishSnapshot(0)
      BY <2>4, <3>1, <3>2, <3>3, <3>4 DEF Seen!PublishSnapshot
    <3>6. QED BY <3>5 DEF Steps, Seen!Next, Seen!Hypervisor
  <2>5. CASE n # Observer
    BY <2>1, <2>3, <2>5, SeenNothing DEF Steps, Where, Stored
  <2>6. QED BY <2>4, <2>5
<1>3. ASSUME NEW n \in Nodes, ExpireStaged(n) PROVE Steps
  <2>1. /\ clock >= TTL /\ UNCHANGED <<starting, clock, host, running, target, net>>
        /\ entry'[Observer] = IF n = Observer THEN ExpireRecord(entry[n], clock - TTL) ELSE entry[Observer]
    BY <1>3 DEF ExpireStaged, placement
  <2>2. UNCHANGED <<Stored(starting), Stored(net), Where(Observer)>>
    BY <2>1 DEF Stored, Where
  <2>3. CASE n = Observer
    <3>1. [v \in {0} |-> entry[Observer]]' =
             [v \in {0} |-> Seen!ExpireRecord([w \in {0} |-> entry[Observer]][v], clock - TTL)]
      BY <2>1, <2>3, OneEntry, SeenRecord
    <3>2. Seen!ExpireStaged
      BY <2>1, <2>2, <3>1 DEF Seen!ExpireStaged
    <3>3. QED BY <3>2 DEF Steps, Seen!Next
  <2>4. CASE n # Observer
    BY <2>1, <2>2, <2>4, SeenNothing DEF Steps
  <2>5. QED BY <2>3, <2>4
<1>4. ASSUME NEW n \in Nodes, Restart(n) PROVE Steps
  <2>1. /\ clock < Horizon /\ UNCHANGED <<clock, host, running, target>>
        /\ entry'[Observer] = IF n = Observer THEN NoRecord ELSE entry[Observer]
        /\ starting' = {m \in starting : m.node # n} /\ net' = {m \in net : m.node # n}
    BY <1>4 DEF Restart, placement
  <2>2. Where(Observer)' = Where(Observer)
    BY <2>1 DEF Where
  <2>3. CASE n = Observer
    <3>1. Stored(starting)' = {} /\ Stored(net)' = {}
      BY <2>1, <2>3 DEF Stored
    <3>2. Seen!Restart
      BY <2>1, <2>2, <2>3, <3>1, SeenRecord DEF Seen!Restart
    <3>3. QED BY <3>2 DEF Steps, Seen!Next
  <2>4. CASE n # Observer
    <3>1. Stored(starting)' = Stored(starting) /\ Stored(net)' = Stored(net)
      BY <2>1, <2>4 DEF Stored
    <3>2. QED BY <2>1, <2>2, <2>4, <3>1, SeenNothing DEF Steps
  <2>5. QED BY <2>3, <2>4
<1>5. QED BY <1>1, <1>2, <1>3, <1>4

\* A message that the observer's handler takes, giving its entry the value r
LEMMA SeenReceived ==
  ASSUME TypeOK, NEW m \in net, NEW r, Receive(m, r)
  PROVE  /\ UNCHANGED <<starting, clock, host, running, target>>
         /\ m.node # Observer => UNCHANGED Seen!vars
         /\ m.node = Observer =>
              /\ AsStored(m) \in Stored(net)
              /\ entry[Observer] = entry[m.node]
              /\ r = entry'[Observer]
              /\ Seen!Receive(AsStored(m), r)
<1>1. /\ net' = net \ {m} /\ entry' = [entry EXCEPT ![m.node] = r]
      /\ UNCHANGED <<starting, clock, host, running, target>>
  BY DEF Receive, placement
<1>2. /\ entry \in [Nodes -> Record] /\ Stored(starting)' = Stored(starting)
      /\ Where(Observer)' = Where(Observer) /\ Stored(net)' = Stored(net \ {m})
  BY <1>1 DEF TypeOK, Stored, Where
<1>3. CASE m.node # Observer
  <2>1. Stored(net)' = Stored(net) /\ entry'[Observer] = entry[Observer]
    BY <1>1, <1>2, <1>3, StoredRemoved DEF TypeOK
  <2>2. QED BY <1>1, <1>2, <1>3, <2>1, SeenNothing
<1>4. CASE m.node = Observer
  <2>1. /\ AsStored(m) \in Stored(net) /\ Stored(net)' = Stored(net) \ {AsStored(m)}
        /\ entry'[Observer] = r /\ AsStored(m).vm = 0
    BY <1>1, <1>2, <1>4, StoredRemoved DEF TypeOK, AsStored
  <2>2. [v \in {0} |-> entry[Observer]]' = [[v \in {0} |-> entry[Observer]] EXCEPT ![AsStored(m).vm] = r]
    BY <2>1, OneEntry
  <2>3. Seen!Receive(AsStored(m), r)
    BY <1>1, <1>2, <2>1, <2>2 DEF Seen!Receive
  <2>4. QED BY <1>1, <1>4, <2>1, <2>3
<1>5. QED BY <1>3, <1>4

\* The observer's handlers and those of the other nodes
LEMMA SeenDelivered ==
  ASSUME TypeOK, NEW m \in net, Deliver(m)
  PROVE  Steps
<1> DEFINE s == AsStored(m)
           r == entry[m.node]
<1>1. /\ s.kind = m.kind /\ s.t = m.t /\ s.vm = 0
      /\ m.kind = "snapshot" => s.running = m.running
  BY DEF AsStored
<1>2. [v \in {0} |-> entry[Observer]][s.vm] = entry[Observer]
  BY <1>1, OneEntry
<1>3. ASSUME NEW e, Receive(m, e),
             m.node = Observer /\ Seen!Receive(s, e) /\ entry[Observer] = r => Seen!Deliver(s)
      PROVE  Steps
  <2>1. m.node = Observer => s \in Stored(net) /\ Seen!Deliver(s)
    BY <1>3, SeenReceived
  <2>2. m.node # Observer => UNCHANGED Seen!vars
    BY <1>3, SeenReceived
  <2>3. QED BY <2>1, <2>2 DEF Steps, Seen!Next
<1> HIDE DEF s
<1>4. CASE HandleStarted(m)
  BY <1>1, <1>2, <1>3, <1>4, SeenRecord DEF HandleStarted, Seen!Deliver, Seen!HandleMigrateStarted
<1>5. CASE HandleSynced(m)
  BY <1>1, <1>2, <1>3, <1>5, SeenRecord DEF HandleSynced, Seen!Deliver, Seen!HandleMigrateSynced
<1>6. CASE HandleGone(m)
  BY <1>1, <1>2, <1>3, <1>6, SeenRecord DEF HandleGone, Terminal, Seen!Deliver, Seen!HandleGone
<1>7. CASE HandleSnapshot(m)
  BY <1>1, <1>2, <1>3, <1>7, SeenRecord DEF HandleSnapshot, Seen!Deliver, Seen!HandleSnapshot
<1>8. CASE HandleStartCheck(m)
  <2>1. /\ m.kind = "start.finished" /\ \A k \in starting : k.node # m.node
        /\ net' = net \ {m} /\ UNCHANGED <<entry, clock, host, running, target>>
        /\ starting' = IF r.status = "staged" THEN starting ELSE starting \cup {m}
    BY <1>8 DEF HandleStartCheck, placement
  <2>2. Where(Observer)' = Where(Observer) /\ Stored(net)' = Stored(net \ {m})
    BY <2>1 DEF Where, Stored
  <2>3. Stored(starting)' = IF r.status = "staged" \/ m.node # Observer
                            THEN Stored(starting) ELSE Stored(starting) \cup {s}
    <3>1. Stored(starting \cup {m}) = IF m.node = Observer THEN Stored(starting) \cup {s}
                                      ELSE Stored(starting)
      BY StoredAdded DEF s
    <3>2. QED BY <2>1, <3>1 DEF Stored
  <2>4. CASE m.node = Observer
    <3>1. Stored(starting) = {}
      BY <2>1, <2>4 DEF Stored
    <3>2. s \in Stored(net) /\ Stored(net)' = Stored(net) \ {s}
      BY <2>2, <2>4, StoredRemoved DEF TypeOK, s
    <3>3. Seen!HandleStartCheck(s)
      BY <1>1, <1>2, <2>1, <2>2, <2>3, <2>4, <3>1, <3>2 DEF Seen!HandleStartCheck
    <3>4. QED BY <3>2, <3>3 DEF Steps, Seen!Next, Seen!Deliver
  <2>5. CASE m.node # Observer
    <3>1. Stored(net)' = Stored(net)
      BY <2>2, <2>5, StoredRemoved DEF TypeOK
    <3>2. QED BY <2>1, <2>2, <2>3, <2>5, <3>1, SeenNothing DEF Steps
  <2>6. QED BY <2>4, <2>5
<1>9. QED BY <1>4, <1>5, <1>6, <1>7, <1>8 DEF Deliver

LEMMA SeenLost ==
  ASSUME TypeOK, NEW m \in net, Lose(m)
  PROVE  Steps
<1>1. /\ m.kind \in Lossy /\ net' = net \ {m}
      /\ UNCHANGED <<entry, starting, clock, host, running, target>>
  BY DEF Lose, placement
<1>2. Where(Observer)' = Where(Observer) /\ Stored(net)' = Stored(net \ {m})
      /\ Stored(starting)' = Stored(starting)
  BY <1>1 DEF Where, Stored
<1>3. CASE m.node = Observer
  <2>1. /\ AsStored(m) \in Stored(net) /\ Stored(net)' = Stored(net) \ {AsStored(m)}
        /\ AsStored(m).kind = m.kind
    BY <1>2, <1>3, StoredRemoved DEF TypeOK, AsStored
  <2>2. Seen!Lose(AsStored(m))
    BY <1>1, <1>2, <2>1 DEF Seen!Lose
  <2>3. QED BY <2>1, <2>2 DEF Steps, Seen!Next
<1>4. CASE m.node # Observer
  <2>1. Stored(net)' = Stored(net)
    BY <1>2, <1>4, StoredRemoved DEF TypeOK
  <2>2. QED BY <1>1, <1>2, <2>1, SeenNothing DEF Steps
<1>5. QED BY <1>3, <1>4

LEMMA SeenStartSet ==
  ASSUME TypeOK, NEW m \in starting, HandleStartSet(m)
  PROVE  Steps
<1>1. /\ starting' = starting \ {m} /\ UNCHANGED <<net, clock, host, running, target>>
      /\ entry' = [entry EXCEPT ![m.node] = SetRecord(entry[m.node], "active", m.t, 0)]
  BY DEF HandleStartSet, placement
<1>2. /\ Where(Observer)' = Where(Observer) /\ Stored(net)' = Stored(net)
      /\ Stored(starting)' = Stored(starting \ {m})
  BY <1>1 DEF Where, Stored
<1>3. CASE m.node = Observer
  <2>1. /\ AsStored(m) \in Stored(starting) /\ Stored(starting)' = Stored(starting) \ {AsStored(m)}
        /\ AsStored(m).t = m.t /\ AsStored(m).vm = 0
        /\ entry'[Observer] = Seen!SetRecord(entry[Observer], "active", m.t, 0)
    BY <1>1, <1>2, <1>3, StoredRemoved, SeenRecord DEF TypeOK, AsStored
  <2>2. [v \in {0} |-> entry[Observer]]' =
          [[v \in {0} |-> entry[Observer]] EXCEPT
             ![AsStored(m).vm] = Seen!SetRecord([v \in {0} |-> entry[Observer]][AsStored(m).vm], "active", AsStored(m).t, 0)]
    BY <2>1, OneEntry
  <2>3. Seen!HandleStartSet(AsStored(m))
    BY <1>1, <1>2, <2>1, <2>2 DEF Seen!HandleStartSet
  <2>4. QED BY <2>1, <2>3 DEF Steps, Seen!Next
<1>4. CASE m.node # Observer
  <2>1. Stored(starting)' = Stored(starting) /\ entry'[Observer] = entry[Observer]
    BY <1>1, <1>2, <1>4, StoredRemoved DEF TypeOK
  <2>2. QED BY <1>1, <1>2, <2>1, SeenNothing DEF Steps
<1>5. QED BY <1>3, <1>4

LEMMA SeenNext == TypeOK /\ Live /\ [Next]_vars => [Seen!Next]_(Seen!vars)
<1> SUFFICES ASSUME TypeOK, Live, [Next]_vars PROVE Steps
  BY DEF Steps
<1>1. CASE UNCHANGED vars
  BY <1>1 DEF vars, Steps, Seen!vars, Stored, Where
<1>2. CASE (\E n \in Nodes : MigrateStart(n)) \/ StartIncoming \/ CutOver \/ MigrateFail \/ StartStop
  BY <1>2, SeenHypervisor
<1>3. CASE Tick \/ \E n \in Nodes : PublishSnapshot(n) \/ ExpireStaged(n) \/ Restart(n)
  BY <1>3, SeenWorld
<1>4. CASE \E m \in net : Deliver(m) \/ Lose(m)
  BY <1>4, SeenDelivered, SeenLost
<1>5. CASE \E m \in starting : HandleStartSet(m)
  BY <1>5, SeenStartSet
<1>6. QED BY <1>1, <1>2, <1>3, <1>4, <1>5 DEF Next

\* Whatever the other nodes do, any one node behaves as VMStore says it may: every
\* step of the cluster is, seen from it, a step of its store, its hypervisor or its
\* messages, a tick, or nothing (reconciler.go:540-660, subscriber.go:89-138).
THEOREM NodeIsStore == Spec => ImplementsStore
<1>1. Init => Live
  BY DEF Init, Live
<1>2. Spec => []Live
  BY <1>1, NextLive, PTL DEF Spec
<1>3. QED BY <1>2, TypeCorrect, SeenInit, SeenNext, PTL DEF Spec, ImplementsStore, Seen!Spec
-----------------------------------------------------------------------------
(***************************************************************************)
(* What is proved of VMStore, at any node of the cluster: the theorems of  *)
(* VMStore_proofs about the instance that NodeIsStore shows the node to    *)
(* implement.                                                              *)
(***************************************************************************)

Store ==
  INSTANCE VMStore_proofs WITH
    VMs <- {0}, Webhooks <- {},
    vms <- [v \in {0} |-> entry[Observer]],
    where <- [v \in {0} |-> Where(Observer)],
    starting <- Stored(starting),
    net <- Stored(net)

LEMMA StoreAssumed == Store!StoreAssumption
  BY DEF Store!StoreAssumption, Lifecycle, Store!Lifecycle, Terminal

\* Both instances of VMStore are the same formula.
LEMMA SeenIsStore == Seen!Spec => Store!Spec
<1>1. Seen!Init <=> Store!Init
  BY DEF Store!Init, Seen!Init, Store!NoRecord, Seen!NoRecord, Store!Places, Seen!Places, Stored, Where
<1>2. Seen!Next <=> Store!Next
  BY DEF Store!Next, Seen!Next, Store!Hypervisor, Seen!Hypervisor, Store!Move, Seen!Move,
         Store!MigrateIn, Seen!MigrateIn, Store!CutOver, Seen!CutOver,
         Store!MigrateFail, Seen!MigrateFail, Store!MigrateOut, Seen!MigrateOut,
         Store!Start, Seen!Start, Store!Stop, Seen!Stop, Store!StartIncoming, Seen!StartIncoming,
         Store!MigrateAbort, Seen!MigrateAbort, Store!Event, Seen!Event,
         Store!PublishSnapshot, Seen!PublishSnapshot, Store!Tick, Seen!Tick,
         Store!Lose, Seen!Lose, Store!Deliver, Seen!Deliver, Store!Receive, Seen!Receive,
         Store!HandleMigrateStarted, Seen!HandleMigrateStarted,
         Store!HandleMigrateSynced, Seen!HandleMigrateSynced, Store!HandleGone, Seen!HandleGone,
         Store!HandleSnapshot, Seen!HandleSnapshot, Store!HandleStartCheck, Seen!HandleStartCheck,
         Store!HandleStartSet, Seen!HandleStartSet, Store!WebhookDelta, Seen!WebhookDelta,
         Store!ExpireStaged, Seen!ExpireStaged, Store!Restart, Seen!Restart,
         Store!NoRecord, Seen!NoRecord, Store!StageRecord, Seen!StageRecord,
         Store!SetRecord, Seen!SetRecord, Store!SnapshotRecord, Seen!SnapshotRecord,
         Store!ExpireRecord, Seen!ExpireRecord, Store!Stale, Seen!Stale,
         Store!Message, Seen!Message, Store!Lifecycle, Seen!Lifecycle, Store!Record, Seen!Record,
         Store!Status, Seen!Status
<1>3. UNCHANGED Seen!vars <=> UNCHANGED Store!vars
  BY DEF Store!vars, Seen!vars
<1>4. [Seen!Next]_(Seen!vars) => [Store!Next]_(Store!vars)
  BY <1>2, <1>3
<1>5. QED BY <1>1, <1>4, PTL DEF Store!Spec, Seen!Spec

\* At every node, through migrations there and back, failed ones and restarts, the
\* entry carries a stamp exactly while it is staged: the sweep of that node can
\* expire it (store.go:70-84, 104-130).
THEOREM NodeStamped ==
  Spec => [](entry[Observer].status = "staged" <=> entry[Observer].stagedAt # 0)
<1>1. Store!Spec => []Store!StagedIffStamped
  BY Store!StampCorrect, StoreAssumed
<1>2. Store!StagedIffStamped => (entry[Observer].status = "staged" <=> entry[Observer].stagedAt # 0)
  BY DEF Store!StagedIffStamped
<1>3. QED BY <1>1, <1>2, NodeIsStore, SeenIsStore, PTL DEF ImplementsStore

\* At every node the event time of the entry goes back only when a lifecycle event
\* overrides a snapshot, or with the entry (store.go:181-210).
THEOREM NodeTimeOrder ==
  Spec => [][entry'[Observer].lastEvent < entry[Observer].lastEvent /\ entry'[Observer] # NoRecord =>
               entry[Observer].observedAt > 0 /\ entry'[Observer].observedAt = 0]_entry
<1> DEFINE before == [v \in {0} |-> entry[Observer]]
           Forward == \A v \in {0} :
             before'[v].lastEvent < before[v].lastEvent /\ before'[v] # Store!NoRecord =>
               before[v].observedAt > 0 /\ before'[v].observedAt = 0
           Onward ==
             entry'[Observer].lastEvent < entry[Observer].lastEvent /\ entry'[Observer] # NoRecord =>
               entry[Observer].observedAt > 0 /\ entry'[Observer].observedAt = 0
<1>1. Store!Spec => [][Forward]_(Store!vars)
  BY Store!EventTimeOrder, StoreAssumed DEF Store!RegressOnlyOverSnapshot
<1>2. TypeOK /\ [Forward]_(Store!vars) => [Onward]_entry
  <2> SUFFICES ASSUME TypeOK, [Forward]_(Store!vars), entry' # entry PROVE Onward
    OBVIOUS
  <2>1. CASE Forward
    BY <2>1 DEF Store!NoRecord, NoRecord
  <2>2. CASE UNCHANGED Store!vars
    <3>1. before' = before
      BY <2>2 DEF Store!vars
    <3>2. before'[0] = before[0]
      BY <3>1
    <3>3. entry'[Observer] = entry[Observer] /\ entry[Observer].lastEvent \in Nat
      BY <3>2 DEF TypeOK, Record
    <3>4. QED BY <3>3
  <2>3. QED BY <2>1, <2>2
<1>3. QED BY <1>1, <1>2, NodeIsStore, SeenIsStore, TypeCorrect, PTL DEF ImplementsStore

\* Once a node says of the VM what the hypervisors do, and so does what is on its
\* way to the node, the node keeps announcing the VM exactly if it is its host and
\* the VM runs, for as long as the VM rests and the process lives
\* (store.go:104-130, 181-210).
THEOREM NodeStays ==
  Spec => [](Store!InStep(0) /\ [][Store!Resting(0)]_(Store!vars) =>
               [](entry[Observer].status = "active" <=> Observer = host /\ running))
<1>1. Store!Spec => [](Store!StoreInStep /\ [][Store!StoreResting]_(Store!vars) => []Store!StoreAgrees)
  BY Store!StoreStays, StoreAssumed
<1>2. /\ Store!InStep(0) => Store!StoreInStep
      /\ [Store!Resting(0)]_(Store!vars) => [Store!StoreResting]_(Store!vars)
  BY DEF Store!StoreInStep, Store!StoreResting
<1>3. TypeOK /\ Store!StoreAgrees =>
        (entry[Observer].status = "active" <=> Observer = host /\ running)
  BY DEF TypeOK, Store!StoreAgrees, Store!Agrees, Where
<1>4. QED BY <1>1, <1>2, <1>3, NodeIsStore, SeenIsStore, TypeCorrect, PTL DEF ImplementsStore
=============================================================================
