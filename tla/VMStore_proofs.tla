--------------------------- MODULE VMStore_proofs ---------------------------
(***************************************************************************)
(* Proofs about the placement store, for any set of VMs, any clock bound   *)
(* and any loss: its type invariant, that an entry carries a StagedAt      *)
(* stamp exactly while it is staged, when an event time may go back, which *)
(* orders of delivery make no difference, that one current snapshot brings *)
(* an entry into step with the hypervisor, and that an entry in step stays *)
(* so while its VM rests.                                                  *)
(*                                                                         *)
(* The argument is about one entry: every step of the system replaces an   *)
(* entry by the result of one operator of VMRecord, so the lemmas below    *)
(* establish each fact for each operator, and the theorems only find the   *)
(* operator each action applies.                                           *)
(***************************************************************************)
EXTENDS VMStore, TLAPS

\* The stamp condition of one entry; a VM without an entry has no event time.
Stamped(r) ==
  /\ r.status = "staged" <=> r.stagedAt # 0
  /\ r.status = "none" => r.lastEvent = 0

\* One entry's step respects the event-time rule of RegressOnlyOverSnapshot.
Ordered(r, n) ==
  n.lastEvent < r.lastEvent /\ n # NoRecord => r.observedAt > 0 /\ n.observedAt = 0

\* A legal write for one entry.
GoodStep(r, n) == n \in Record /\ Stamped(n) /\ Ordered(r, n)

\* So is losing it.
LEMMA NoRecordGood == \A r : GoodStep(r, NoRecord)
  BY DEF GoodStep, Ordered, Stamped, NoRecord, Record, Status

\* Store.set returns a well-formed entry for every write but a staging one.
LEMMA SetGood ==
  ASSUME NEW r \in Record, Stamped(r),
         NEW status \in {"absent", "active"}, NEW t \in Nat \ {0}, NEW obs \in {0, t}
  PROVE  GoodStep(r, SetRecord(r, status, t, obs))
  BY DEF SetRecord, Stale, Stamped, Ordered, GoodStep, Record, Status

\* Store.SetStaged stamps exactly the entries it leaves staged.
LEMMA StageGood ==
  ASSUME NEW r \in Record, Stamped(r), NEW t \in Nat \ {0}
  PROVE  GoodStep(r, StageRecord(r, t))
  BY DEF StageRecord, SetRecord, Stale, Stamped, Ordered, GoodStep, Record, Status

\* Store.UpdateFromSnapshot keeps the stamp of a staged entry it leaves alone.
LEMMA SnapshotGood ==
  ASSUME NEW r \in Record, Stamped(r), NEW running \in BOOLEAN, NEW obs \in Nat \ {0}
  PROVE  GoodStep(r, SnapshotRecord(r, running, obs))
<1>1. CASE r.observedAt > obs \/ (r.status = "staged" /\ ~running)
  BY <1>1 DEF SnapshotRecord, Stamped, Ordered, GoodStep, Record, Status
<1>2. CASE ~(r.observedAt > obs \/ (r.status = "staged" /\ ~running))
  <2>1. SnapshotRecord(r, running, obs)
          = SetRecord(r, IF running THEN "active" ELSE "absent", obs, obs)
    BY <1>2 DEF SnapshotRecord
  <2>2. QED BY <2>1, SetGood
<1>3. QED BY <1>1, <1>2

\* Store.ExpireStaged clears the stamp together with the status.
LEMMA ExpireGood ==
  ASSUME NEW r \in Record, Stamped(r), NEW cutoff \in Int
  PROVE  GoodStep(r, ExpireRecord(r, cutoff))
<1>1. CASE ExpireRecord(r, cutoff) = r
  BY <1>1 DEF Ordered, GoodStep, Record
<1>2. CASE ExpireRecord(r, cutoff) = [r EXCEPT !.status = "absent", !.stagedAt = 0]
  <2> DEFINE n == [r EXCEPT !.status = "absent", !.stagedAt = 0]
  <2>1. n \in Record /\ n.status = "absent" /\ n.stagedAt = 0 /\ n.lastEvent = r.lastEvent
    BY DEF Record, Status
  <2>2. QED BY <1>2, <2>1 DEF Stamped, Ordered, GoodStep, Record
<1>3. QED BY <1>1, <1>2 DEF ExpireRecord

IInv == TypeOK /\ \A v \in VMs : Stamped(vms[v])

LEMMA InitIInv == Init => IInv
  BY DEF Init, IInv, TypeOK, Stamped, NoRecord, Record, Status, Places, Message

\* Every step turns each entry into itself or into a legal write of it.
AllGood == \A v \in VMs : vms'[v] = vms[v] \/ GoodStep(vms[v], vms'[v])

\* Delivering a message writes the result of one store operation to its entry.
LEMMA DeliverGood ==
  ASSUME IInv, NEW m \in net, Deliver(m)
  PROVE  TypeOK' /\ AllGood
<1> USE DEF IInv, TypeOK
<1>1. m \in Message /\ m.vm \in VMs /\ m.t \in Nat \ {0}
  BY DEF Message
<1>2. vms[m.vm] \in Record /\ Stamped(vms[m.vm])
  BY <1>1 DEF Stamped
<1>3. ASSUME NEW r, GoodStep(vms[m.vm], r), Receive(m, r)
      PROVE  TypeOK' /\ AllGood
  BY <1>1, <1>3 DEF Receive, AllGood, GoodStep
<1>4. CASE HandleMigrateStarted(m)
  BY <1>1, <1>2, <1>3, <1>4, StageGood DEF HandleMigrateStarted
<1>5. CASE HandleMigrateSynced(m)
  BY <1>1, <1>2, <1>3, <1>5, SetGood DEF HandleMigrateSynced
<1>6. CASE HandleGone(m)
  BY <1>1, <1>2, <1>3, <1>6, SetGood DEF HandleGone
<1>7. CASE HandleSnapshot(m)
  <2>1. m.running \in BOOLEAN
    BY <1>1, <1>7 DEF HandleSnapshot, Message, Lifecycle
  <2>2. QED
    BY <1>1, <1>2, <1>3, <1>7, <2>1, SnapshotGood DEF HandleSnapshot
<1>8. CASE HandleStartCheck(m)
  BY <1>8 DEF HandleStartCheck, AllGood
<1>9. QED
  BY <1>4, <1>5, <1>6, <1>7, <1>8 DEF Deliver

LEMMA StepGood ==
  ASSUME IInv, [Next]_vars
  PROVE  TypeOK' /\ AllGood
<1> USE DEF IInv, TypeOK
<1>1. ASSUME NEW v \in VMs, Hypervisor(v)
      PROVE  TypeOK' /\ AllGood
  <2>1. clock + 1 \in Nat \ {0}
    OBVIOUS
  <2>2. ASSUME NEW from \in Places, NEW to \in Places, NEW kind \in Lifecycle,
               Move(v, from, to, kind)
        PROVE  TypeOK' /\ AllGood
    <3>1. Event(kind, v) \in Message
      BY <2>1 DEF Event, Message
    <3>2. QED BY <2>1, <2>2, <3>1 DEF Move, AllGood
  <2>3. CASE MigrateAbort(v)
    BY <2>1, <2>3 DEF MigrateAbort, AllGood, Places
  <2>4. CASE PublishSnapshot(v)
    <3> DEFINE running == where[v] = "running"
    <3>1. running \in BOOLEAN
      OBVIOUS
    <3>2. [kind |-> "snapshot", vm |-> v, t |-> clock, running |-> running] \in Message
      <4> HIDE DEF running
      <4>1. QED BY <3>1 DEF Message
    <3>3. QED BY <2>4, <3>2 DEF PublishSnapshot, AllGood
  <2>5. QED
    BY <1>1, <2>2, <2>3, <2>4
    DEF Hypervisor, MigrateIn, CutOver, MigrateFail, MigrateOut, Start, Stop,
        StartIncoming, Places, Lifecycle
<1>2. CASE Tick
  BY <1>2 DEF Tick, AllGood
<1>3. ASSUME NEW m \in net, Deliver(m)
      PROVE  TypeOK' /\ AllGood
  BY <1>3, DeliverGood
<1>4. ASSUME NEW m \in net, Lose(m)
      PROVE  TypeOK' /\ AllGood
  BY <1>4 DEF Lose, AllGood
<1>5. ASSUME NEW m \in starting, HandleStartSet(m)
      PROVE  TypeOK' /\ AllGood
  <2>1. m.vm \in VMs /\ m.t \in Nat \ {0}
    BY DEF Message
  <2>2. GoodStep(vms[m.vm], SetRecord(vms[m.vm], "active", m.t, 0))
    BY <2>1, SetGood DEF Stamped
  <2>3. QED BY <1>5, <2>1, <2>2 DEF HandleStartSet, AllGood, GoodStep
<1>6. ASSUME NEW v \in VMs, NEW event \in Webhooks, WebhookDelta(v, event)
      PROVE  TypeOK' /\ AllGood
  <2>1. clock + 1 \in Nat \ {0}
    OBVIOUS
  <2>2. ASSUME NEW status \in {"absent", "active"}
        PROVE  GoodStep(vms[v], SetRecord(vms[v], status, clock + 1, 0))
    BY <2>1, SetGood DEF Stamped
  <2>3. QED BY <1>6, <2>1, <2>2 DEF WebhookDelta, AllGood, GoodStep
<1>7. CASE ExpireStaged
  <2>1. \A v \in VMs : GoodStep(vms[v], ExpireRecord(vms[v], clock - TTL))
    BY ExpireGood, StoreAssumption DEF Stamped
  <2>2. QED BY <1>7, <2>1 DEF ExpireStaged, AllGood, GoodStep
<1>8. CASE Restart
  <2>1. \A v \in VMs : vms'[v] = NoRecord
    BY <1>8 DEF Restart
  <2>2. TypeOK'
    BY <1>8, NoRecordGood DEF Restart, GoodStep
  <2>3. QED BY <2>1, <2>2, NoRecordGood DEF AllGood
<1>9. CASE UNCHANGED vars
  BY <1>9 DEF vars, AllGood
<1>10. QED
  BY <1>1, <1>2, <1>3, <1>4, <1>5, <1>6, <1>7, <1>8, <1>9 DEF Next

LEMMA NextIInv == IInv /\ [Next]_vars => IInv'
<1> SUFFICES ASSUME IInv, [Next]_vars PROVE IInv'
  OBVIOUS
<1>1. TypeOK' /\ AllGood
  BY StepGood
<1>2. QED
  BY <1>1 DEF IInv, AllGood, GoodStep

LEMMA Invariance == Spec => []IInv
  BY InitIInv, NextIInv, PTL DEF Spec

\* Every state of the store is well typed.
THEOREM TypeCorrect == Spec => []TypeOK
<1>1. IInv => TypeOK
  BY DEF IInv
<1>2. QED BY <1>1, Invariance, PTL

\* The TTL sweep can always date a staged entry: no sequence of stale,
\* concurrent or lost events leaves one without a stamp (store.go:132).
THEOREM StampCorrect == Spec => []StagedIffStamped
<1>1. IInv => StagedIffStamped
  BY DEF IInv, StagedIffStamped, Stamped
<1>2. QED BY <1>1, Invariance, PTL

\* Only a lifecycle event over a snapshot-derived entry, or a new process, turns
\* an entry's clock back.
THEOREM EventTimeOrder == Spec => RegressOnlyOverSnapshot
<1> DEFINE Step == \A v \in VMs :
             vms'[v].lastEvent < vms[v].lastEvent /\ vms'[v] # NoRecord =>
               vms[v].observedAt > 0 /\ vms'[v].observedAt = 0
<1>1. IInv /\ [Next]_vars => [Step]_vars
  <2> SUFFICES ASSUME IInv, [Next]_vars PROVE Step
    OBVIOUS
  <2>1. AllGood
    BY StepGood
  <2>2. \A v \in VMs : vms[v].lastEvent \in Nat
    BY DEF IInv, TypeOK, Record
  <2>3. QED BY <2>1, <2>2 DEF AllGood, GoodStep, Ordered
<1>2. QED
  BY <1>1, Invariance, PTL DEF Spec, RegressOnlyOverSnapshot
-----------------------------------------------------------------------------
(***************************************************************************)
(* Order and repetition.  NATS may deliver the lifecycle events of a VM in *)
(* any order, and the store has no other protection than their times.      *)
(***************************************************************************)

\* What a lifecycle event of time t makes of an entry: SetStaged, SetActive and
\* SetAbsent of store.go.
After(r, status, t) ==
  IF status = "staged" THEN StageRecord(r, t) ELSE SetRecord(r, status, t, 0)

\* All that Get, GetActive and Stale look at; only ExpireStaged looks at stagedAt.
Placement(r) == <<r.status, r.lastEvent, r.observedAt>>

\* The later event decides, whatever entry they meet.
LEMMA AfterPlaces ==
  ASSUME NEW r \in Record, NEW status \in {"absent", "staged", "active"}, NEW t \in Nat \ {0}
  PROVE  /\ After(r, status, t) \in Record
         /\ Placement(After(r, status, t)) =
              IF Stale(r, t, 0) THEN Placement(r) ELSE <<status, t, 0>>
  BY DEF After, StageRecord, SetRecord, Stale, Placement, Record, Status

\* Two lifecycle events of different times leave a VM where the later one puts it,
\* in whichever order they arrive (store.go:181-210): only the stamp of a staged
\* entry may be the other event's.
THEOREM LifecycleOrder ==
  ASSUME NEW r \in Record,
         NEW s \in {"absent", "staged", "active"}, NEW u \in {"absent", "staged", "active"},
         NEW t1 \in Nat \ {0}, NEW t2 \in Nat \ {0}, t1 # t2
  PROVE  Placement(After(After(r, s, t1), u, t2)) = Placement(After(After(r, u, t2), s, t1))
<1> DEFINE a == After(r, s, t1)
           b == After(r, u, t2)
<1>1. /\ a \in Record /\ Placement(a) = IF Stale(r, t1, 0) THEN Placement(r) ELSE <<s, t1, 0>>
      /\ b \in Record /\ Placement(b) = IF Stale(r, t2, 0) THEN Placement(r) ELSE <<u, t2, 0>>
  BY AfterPlaces
<1> HIDE DEF a, b
<1>2. /\ Placement(After(a, u, t2)) = IF Stale(a, t2, 0) THEN Placement(a) ELSE <<u, t2, 0>>
      /\ Placement(After(b, s, t1)) = IF Stale(b, t1, 0) THEN Placement(b) ELSE <<s, t1, 0>>
  BY <1>1, AfterPlaces
<1>3. Placement(After(a, u, t2)) = Placement(After(b, s, t1))
  BY <1>1, <1>2 DEF Stale, Placement, Record, Status
<1>4. QED BY <1>3 DEF a, b

\* Taking the same event twice is taking it once, stamp and all.
THEOREM LifecycleRepeated ==
  ASSUME NEW r \in Record, NEW s \in {"absent", "staged", "active"}, NEW t \in Nat \ {0}
  PROVE  After(After(r, s, t), s, t) = After(r, s, t)
<1> DEFINE a == After(r, s, t)
<1>1. a \in Record
  BY AfterPlaces
<1>2. CASE s # "staged"
  BY <1>2 DEF After, SetRecord, Stale, Record, Status
<1>3. CASE s = "staged"
  BY <1>3 DEF After, StageRecord, SetRecord, Stale, Record, Status
<1>4. QED BY <1>2, <1>3

\* So are two snapshots that see a VM, unless it is staged: then a stale one that
\* says it runs is not recognised behind a newer one that says it does not.
THEOREM SnapshotOrder ==
  ASSUME NEW r \in Record, r.status # "staged",
         NEW p \in BOOLEAN, NEW q \in BOOLEAN, NEW t1 \in Nat \ {0}, NEW t2 \in Nat \ {0}, t1 # t2
  PROVE  SnapshotRecord(SnapshotRecord(r, p, t1), q, t2) = SnapshotRecord(SnapshotRecord(r, q, t2), p, t1)
  BY DEF SnapshotRecord, SetRecord, Stale, Record, Status
-----------------------------------------------------------------------------
(***************************************************************************)
(* Agreement with the hypervisor, once it has been reached.                *)
(***************************************************************************)

\* The store says of v what the hypervisor does.
Agrees(v) == vms[v].status = "active" <=> where[v] = "running"

\* What is still to be handled of v
Flight(v) == {m \in net \cup starting : m.vm = v}

SaysRunning(m) ==
  m.kind \in {"migrate.synced", "start.finished"} \/ (m.kind = "snapshot" /\ m.running)

Truthful(m) == SaysRunning(m) <=> where[m.vm] = "running"

\* A snapshot that the entry of its VM has overtaken
Behind(m) == m.kind = "snapshot" /\ m.t < vms[m.vm].lastEvent /\ vms[m.vm].status # "none"

OnlySnapshots(v) == \A m \in Flight(v) : m.kind = "snapshot"

\* What is on its way agrees as well, but for old snapshots, whose entry no
\* lifecycle event can set back.
InStep(v) ==
  /\ Agrees(v)
  /\ \A m \in Flight(v) : Truthful(m) \/ (Behind(m) /\ OnlySnapshots(v))

\* The VM rests, the process lives, and no webhook overrules the hypervisor: only
\* snapshots of the VM are published.
Resting(v) ==
  /\ where'[v] = where[v]
  /\ \A m \in net' \ net : m.vm = v => m.kind = "snapshot"
  /\ ~Restart
  /\ \A event \in Webhooks : ~WebhookDelta(v, event)

\* The entry of v becomes n, which says the same as before or as a true message.
LEMMA TakenInStep ==
  ASSUME TypeOK, NEW v \in VMs, InStep(v), NEW m \in Flight(v), where'[v] = where[v],
         vms'[v].status = vms[v].status
           \/ (Truthful(m) /\ (vms'[v].status = "active" <=> SaysRunning(m))),
         m.kind = "snapshot" =>
           /\ vms'[v].lastEvent >= vms[v].lastEvent
           /\ vms[v].status # "none" => vms'[v].status # "none",
         vms'[v] \in Record,
         net' \cup starting' \subseteq net \cup starting
  PROVE  InStep(v)'
<1>1. Flight(v)' \subseteq Flight(v) /\ m.vm = v
  BY DEF Flight
<1>2. Agrees(v)'
  BY <1>1 DEF InStep, Agrees, Truthful
<1>3. ASSUME NEW k \in Flight(v)' PROVE Truthful(k)' \/ (Behind(k) /\ OnlySnapshots(v))'
  <2>1. k \in Flight(v) /\ k.vm = v
    BY <1>1, <1>3 DEF Flight
  <2>2. CASE Truthful(k)
    BY <2>1, <2>2 DEF Truthful, SaysRunning
  <2>3. CASE Behind(k) /\ OnlySnapshots(v)
    <3>1. m.kind = "snapshot" /\ OnlySnapshots(v)'
      BY <1>1, <2>3 DEF OnlySnapshots
    <3>2. k.t \in Nat /\ vms[v].lastEvent \in Nat /\ vms'[v].lastEvent \in Nat
      BY <2>1 DEF TypeOK, Flight, Message, Record
    <3>3. Behind(k)'
      BY <2>1, <2>3, <3>1, <3>2 DEF Behind
    <3>4. QED BY <3>1, <3>3
  <2>4. QED BY <2>1, <2>2, <2>3 DEF InStep
<1>4. QED BY <1>2, <1>3 DEF InStep

\* Nothing happens to the entry of v, and nothing new is said of it.
LEMMA SameInStep ==
  ASSUME NEW v \in VMs, InStep(v), where'[v] = where[v], vms'[v] = vms[v],
         Flight(v)' \subseteq Flight(v)
  PROVE  InStep(v)'
  BY DEF InStep, Agrees, Truthful, SaysRunning, Behind, OnlySnapshots, Flight

LEMMA SetTaken ==
  ASSUME NEW r \in Record, NEW status \in {"absent", "active"}, NEW t \in Nat \ {0}
  PROVE  /\ SetRecord(r, status, t, 0) \in Record
         /\ SetRecord(r, status, t, 0).status \in {r.status, status}
  BY DEF SetRecord, Stale, Record, Status

LEMMA ObservedTaken ==
  ASSUME NEW r \in Record, NEW status \in {"absent", "active"}, NEW t \in Nat \ {0},
         NEW n, n = SetRecord(r, status, t, t), r.status = "none" => r.lastEvent = 0
  PROVE  /\ n \in Record /\ n.status \in {r.status, status} /\ n.lastEvent >= r.lastEvent
         /\ r.status # "none" => n.status # "none"
         /\ r.status # "none" /\ t < r.lastEvent => n = r
  BY DEF SetRecord, Stale, Record, Status

LEMMA StageTaken ==
  ASSUME NEW r \in Record, NEW t \in Nat \ {0}
  PROVE  /\ StageRecord(r, t) \in Record
         /\ StageRecord(r, t).status \in {r.status, "staged"}
  BY DEF StageRecord, SetRecord, Stale, Record, Status

LEMMA SnapshotTaken ==
  ASSUME NEW r \in Record, NEW b \in BOOLEAN, NEW t \in Nat \ {0},
         r.status = "none" => r.lastEvent = 0
  PROVE  /\ SnapshotRecord(r, b, t) \in Record
         /\ SnapshotRecord(r, b, t).status # r.status =>
              (SnapshotRecord(r, b, t).status = "active" <=> b)
         /\ SnapshotRecord(r, b, t).lastEvent >= r.lastEvent
         /\ r.status # "none" => SnapshotRecord(r, b, t).status # "none"
         /\ r.status # "none" /\ t < r.lastEvent => SnapshotRecord(r, b, t).status = r.status
<1>1. CASE r.observedAt > t \/ (r.status = "staged" /\ ~b)
  BY <1>1 DEF SnapshotRecord, Record, Status
<1>2. CASE ~(r.observedAt > t \/ (r.status = "staged" /\ ~b))
  <2>1. PICK status \in {"absent", "active"} :
          /\ status = "active" <=> b
          /\ SnapshotRecord(r, b, t) = SetRecord(r, status, t, t)
    BY <1>2 DEF SnapshotRecord
  <2>2. QED BY <2>1, ObservedTaken
<1>3. QED BY <1>1, <1>2

\* The handlers under way are those of start events.
StartsOnly == \A m \in starting : m.kind = "start.finished"

LEMMA AlwaysStartsOnly == Spec => []StartsOnly
<1>1. Init => StartsOnly
  BY DEF Init, StartsOnly
<1>2. StartsOnly /\ [Next]_vars => StartsOnly'
  BY DEF StartsOnly, Next, vars, Hypervisor, MigrateIn, CutOver, MigrateFail, MigrateOut, Start, Stop,
     StartIncoming, Move, MigrateAbort, PublishSnapshot, Tick, Deliver, HandleMigrateStarted,
     HandleMigrateSynced, HandleGone, HandleSnapshot, HandleStartCheck, Receive, Lose,
     HandleStartSet, WebhookDelta, ExpireStaged, Restart
<1>3. QED BY <1>1, <1>2, PTL DEF Spec

LEMMA DeliverInStep ==
  ASSUME IInv, NEW v \in VMs, InStep(v), NEW m \in net, Deliver(m)
  PROVE  InStep(v)'
<1> DEFINE r == vms[v]
<1>1. /\ m \in Message /\ m.vm \in VMs /\ m.t \in Nat \ {0} /\ r \in Record /\ TypeOK
      /\ r.status = "none" => r.lastEvent = 0
      /\ m \in net \cup starting
  BY DEF IInv, TypeOK, Message, Stamped
<1>2. ASSUME m.vm # v PROVE InStep(v)'
  <2>1. where' = where /\ vms'[v] = vms[v] /\ net' \subseteq net /\ starting' \subseteq starting \cup {m}
    BY <1>1, <1>2 DEF Deliver, HandleMigrateStarted, HandleMigrateSynced, HandleGone, HandleSnapshot,
       HandleStartCheck, Receive, TypeOK
  <2>2. Flight(v)' \subseteq Flight(v)
    BY <1>2, <2>1 DEF Flight
  <2>3. QED BY <2>1, <2>2, SameInStep
<1> SUFFICES ASSUME m.vm = v PROVE InStep(v)'
  BY <1>2
<1>3. m \in Flight(v) /\ (Truthful(m) \/ (Behind(m) /\ OnlySnapshots(v)))
  BY DEF Flight, InStep
<1>4. ASSUME NEW n, Receive(m, n) PROVE /\ vms'[v] = n /\ where'[v] = where[v]
                                        /\ net' \cup starting' \subseteq net \cup starting
  BY <1>4 DEF Receive, IInv, TypeOK
<1>5. CASE HandleMigrateStarted(m)
  <2>1. m.kind = "migrate.started" /\ Receive(m, StageRecord(r, m.t))
    BY <1>5 DEF HandleMigrateStarted
  <2>2. Truthful(m) /\ ~SaysRunning(m)
    BY <1>3, <2>1 DEF Behind, SaysRunning
  <2>3. StageRecord(r, m.t) \in Record /\ StageRecord(r, m.t).status \in {r.status, "staged"}
    BY <1>1, StageTaken
  <2>4. QED BY <1>1, <1>3, <1>4, <2>1, <2>2, <2>3, TakenInStep
<1>6. CASE HandleMigrateSynced(m) \/ HandleGone(m)
  <2>1. PICK status \in {"absent", "active"} :
          /\ m.kind # "snapshot" /\ Receive(m, SetRecord(r, status, m.t, 0))
          /\ SaysRunning(m) <=> status = "active"
    BY <1>6 DEF HandleMigrateSynced, HandleGone, SaysRunning
  <2>2. Truthful(m)
    BY <1>3, <2>1 DEF Behind
  <2>3. SetRecord(r, status, m.t, 0) \in Record /\ SetRecord(r, status, m.t, 0).status \in {r.status, status}
    BY <1>1, SetTaken
  <2>4. QED BY <1>1, <1>3, <1>4, <2>1, <2>2, <2>3, TakenInStep
<1>7. CASE HandleSnapshot(m)
  <2> DEFINE n == SnapshotRecord(r, m.running, m.t)
  <2>1. m.kind = "snapshot" /\ m.running \in BOOLEAN /\ Receive(m, n)
    BY <1>1, <1>7 DEF HandleSnapshot, Message, Lifecycle
  <2>2. /\ n \in Record /\ n.lastEvent >= r.lastEvent /\ (r.status # "none" => n.status # "none")
        /\ n.status # r.status => (n.status = "active" <=> m.running)
        /\ r.status # "none" /\ m.t < r.lastEvent => n.status = r.status
    BY <1>1, <2>1, SnapshotTaken
  <2>3. vms'[v] = n /\ where'[v] = where[v] /\ net' \cup starting' \subseteq net \cup starting
    <3> HIDE DEF n
    <3>1. QED BY <1>4, <2>1
  <2> HIDE DEF n
  <2>4. SaysRunning(m) <=> m.running
    BY <2>1 DEF SaysRunning
  <2>5. CASE Truthful(m)
    BY <1>1, <1>3, <2>2, <2>3, <2>4, <2>5, TakenInStep
  <2>6. CASE Behind(m)
    <3>1. n.status = r.status
      BY <2>2, <2>6 DEF Behind
    <3>2. QED BY <1>1, <1>3, <2>2, <2>3, <3>1, TakenInStep
  <2>7. QED BY <1>3, <2>5, <2>6
<1>8. CASE HandleStartCheck(m)
  <2>1. /\ where'[v] = where[v] /\ vms'[v] = vms[v]
        /\ net' \cup starting' \subseteq net \cup starting
    BY <1>8 DEF HandleStartCheck
  <2>2. Flight(v)' \subseteq Flight(v)
    BY <2>1 DEF Flight
  <2>3. QED BY <2>1, <2>2, SameInStep
<1>9. QED BY <1>5, <1>6, <1>7, <1>8 DEF Deliver

LEMMA NextInStep ==
  ASSUME IInv, StartsOnly, NEW v \in VMs, InStep(v), [Next]_vars, Resting(v)
  PROVE  InStep(v)'
<1>0. where'[v] = where[v] /\ TypeOK
  BY DEF Resting, IInv
<1>1. ASSUME vms' = vms, starting' = starting, net' \subseteq net PROVE InStep(v)'
  BY <1>0, <1>1, SameInStep DEF Flight
<1>2. ASSUME NEW w \in VMs, Hypervisor(w) PROVE InStep(v)'
  <2>1. vms' = vms /\ starting' = starting
    BY <1>2 DEF Hypervisor, MigrateIn, CutOver, MigrateFail, MigrateOut, Start, Stop, StartIncoming,
       Move, MigrateAbort, PublishSnapshot
  <2>2. CASE PublishSnapshot(w)
    <3> DEFINE s == [kind |-> "snapshot", vm |-> w, t |-> clock, running |-> where[w] = "running"]
    <3>1. net' = net \cup {s} /\ where' = where
      BY <2>2 DEF PublishSnapshot
    <3>2. s.vm = w /\ s.kind = "snapshot" /\ (SaysRunning(s) <=> where[w] = "running")
      BY DEF SaysRunning
    <3> HIDE DEF s
    <3>3. Flight(v)' \subseteq Flight(v) \cup {s}
      BY <2>1, <3>1 DEF Flight
    <3>4. ASSUME NEW m \in Flight(v)' PROVE Truthful(m)' \/ (Behind(m) /\ OnlySnapshots(v))'
      <4>1. CASE m = s
        BY <3>1, <3>2, <4>1 DEF Truthful, SaysRunning
      <4>2. CASE m \in Flight(v)
        <5>1. Truthful(m) \/ (Behind(m) /\ OnlySnapshots(v))
          BY <4>2 DEF InStep
        <5>2. OnlySnapshots(v) => OnlySnapshots(v)'
          BY <3>2, <3>3 DEF OnlySnapshots
        <5>3. QED BY <2>1, <3>1, <5>1, <5>2 DEF Truthful, SaysRunning, Behind
      <4>3. QED BY <3>3, <3>4, <4>1, <4>2
    <3>5. QED BY <2>1, <3>1, <3>4 DEF InStep, Agrees
  <2>3. CASE ~PublishSnapshot(w)
    <3>1. \A m \in net' \ net : m.kind # "snapshot"
      BY <1>2, <2>3 DEF Hypervisor, MigrateIn, CutOver, MigrateFail, MigrateOut, Start, Stop,
         StartIncoming, Move, MigrateAbort, Event
    <3>2. Flight(v)' \subseteq Flight(v)
      BY <2>1, <3>1 DEF Flight, Resting
    <3>3. QED BY <1>0, <2>1, <3>2, SameInStep
  <2>4. QED BY <2>2, <2>3
<1>3. CASE Tick
  BY <1>1, <1>3 DEF Tick
<1>4. ASSUME NEW m \in net, Deliver(m) PROVE InStep(v)'
  BY <1>4, DeliverInStep
<1>5. ASSUME NEW m \in net, Lose(m) PROVE InStep(v)'
  BY <1>1, <1>5 DEF Lose
<1>6. ASSUME NEW m \in starting, HandleStartSet(m) PROVE InStep(v)'
  <2> DEFINE n == SetRecord(vms[m.vm], "active", m.t, 0)
  <2>1. /\ m.vm \in VMs /\ m.t \in Nat \ {0} /\ vms[m.vm] \in Record
        /\ net' \cup starting' \subseteq net \cup starting
        /\ vms' = [vms EXCEPT ![m.vm] = n]
    BY <1>0, <1>6 DEF TypeOK, Message, HandleStartSet
  <2>2. n \in Record /\ n.status \in {vms[m.vm].status, "active"}
    BY <2>1, SetTaken
  <2> HIDE DEF n
  <2>3. CASE m.vm # v
    <3>1. vms'[v] = vms[v] /\ Flight(v)' \subseteq Flight(v)
      BY <1>0, <2>1, <2>3 DEF Flight, TypeOK
    <3>2. QED BY <1>0, <3>1, SameInStep
  <2>4. CASE m.vm = v
    <3>1. m \in Flight(v) /\ m.kind = "start.finished"
      BY <2>4 DEF Flight, StartsOnly
    <3>2. Truthful(m) /\ SaysRunning(m)
      BY <3>1 DEF InStep, Behind, SaysRunning
    <3>3. vms'[v] = n
      BY <1>0, <2>1, <2>4 DEF TypeOK
    <3>4. QED BY <1>0, <2>1, <2>2, <2>4, <3>1, <3>2, <3>3, TakenInStep
  <2>5. QED BY <2>3, <2>4
<1>7. CASE ExpireStaged
  <2>1. /\ vms'[v] = ExpireRecord(vms[v], clock - TTL) /\ UNCHANGED <<starting, net, where>>
    BY <1>7 DEF ExpireStaged
  <2>2. /\ vms'[v].status = "active" <=> vms[v].status = "active"
        /\ vms'[v].lastEvent = vms[v].lastEvent
        /\ vms[v].status # "none" => vms'[v].status # "none"
    BY <1>0, <2>1 DEF ExpireRecord, TypeOK, Record
  <2>3. Flight(v)' = Flight(v)
    BY <2>1 DEF Flight
  <2>4. \A m \in Flight(v) : (Truthful(m) => Truthful(m)') /\ (Behind(m) => Behind(m)')
    BY <2>1, <2>2 DEF Flight, Truthful, SaysRunning, Behind
  <2>5. QED BY <2>1, <2>2, <2>3, <2>4 DEF InStep, Agrees, OnlySnapshots
<1>8. ASSUME NEW w \in VMs, NEW event \in Webhooks, WebhookDelta(w, event) PROVE InStep(v)'
  <2>1. w # v
    BY <1>8 DEF Resting
  <2>2. vms'[v] = vms[v] /\ Flight(v)' = Flight(v)
    BY <1>0, <1>8, <2>1 DEF WebhookDelta, Flight, TypeOK
  <2>3. QED BY <1>0, <2>2, SameInStep
<1>9. CASE UNCHANGED vars
  BY <1>1, <1>9 DEF vars
<1>10. QED
  BY <1>2, <1>3, <1>4, <1>5, <1>6, <1>7, <1>8, <1>9 DEF Next, Resting

\* Once the store says of a VM what its hypervisor does, and so does what is on its
\* way, it keeps saying so as long as the VM rests: neither losses nor the order of
\* delivery, nor a snapshot from before that the entry has overtaken, nor the sweep
\* disturbs it (store.go:104-130, 181-210, reconciler.go:540-660).
THEOREM PlacementStays ==
  ASSUME NEW v \in VMs
  PROVE  Spec => [](InStep(v) /\ [][Resting(v)]_vars => []Agrees(v))
<1>1. UNCHANGED vars /\ InStep(v) => InStep(v)'
  BY DEF vars, InStep, Agrees, Flight, Truthful, SaysRunning, Behind, OnlySnapshots
<1>2. IInv /\ StartsOnly /\ InStep(v) /\ [Next]_vars /\ [Resting(v)]_vars => InStep(v)'
  BY <1>1, NextInStep
<1>3. InStep(v) => Agrees(v)
  BY DEF InStep
<1>4. QED BY <1>2, <1>3, Invariance, AlwaysStartsOnly, PTL DEF Spec


\* All VMs at once
StoreInStep == \A v \in VMs : InStep(v)
StoreResting == \A v \in VMs : Resting(v)
StoreAgrees == \A v \in VMs : Agrees(v)

LEMMA StoreStays == Spec => [](StoreInStep /\ [][StoreResting]_vars => []StoreAgrees)
<1>1. UNCHANGED vars /\ StoreInStep => StoreInStep'
  BY DEF vars, StoreInStep, InStep, Agrees, Flight, Truthful, SaysRunning, Behind, OnlySnapshots
<1>2. IInv /\ StartsOnly /\ StoreInStep /\ [Next]_vars /\ [StoreResting]_vars => StoreInStep'
  BY <1>1, NextInStep DEF StoreInStep, StoreResting
<1>3. StoreInStep => StoreAgrees
  BY DEF StoreInStep, StoreAgrees, InStep
<1>4. QED BY <1>2, <1>3, Invariance, AlwaysStartsOnly, PTL DEF Spec
-----------------------------------------------------------------------------
(***************************************************************************)
(* How agreement is reached: one current snapshot is enough.               *)
(***************************************************************************)

\* No event time lies ahead of the clock, and what a snapshot says is true as
\* long as the clock has not moved on.
Bounded(r) == r.lastEvent <= clock /\ r.observedAt <= clock

Timely ==
  /\ \A v \in VMs : Bounded(vms[v])
  /\ \A m \in net \cup starting : m.t <= clock
  /\ \A m \in net : m.kind = "snapshot" /\ m.t = clock => Truthful(m)

\* The times of an entry are those of what wrote it, or none.
Dated(r, n, t) == n.lastEvent \in {r.lastEvent, t} /\ n.observedAt \in {r.observedAt, 0, t}

LEMMA OperatorsDated ==
  ASSUME NEW r \in Record, NEW t \in Nat \ {0}
  PROVE  /\ \A status \in {"absent", "active"}, obs \in {0, t} : Dated(r, SetRecord(r, status, t, obs), t)
         /\ Dated(r, StageRecord(r, t), t)
         /\ \A b \in BOOLEAN : Dated(r, SnapshotRecord(r, b, t), t)
         /\ \A cutoff : Dated(r, ExpireRecord(r, cutoff), t)
<1>1. ASSUME NEW status, NEW obs \in {0, t} PROVE Dated(r, SetRecord(r, status, t, obs), t)
  BY DEF SetRecord, Stale, Record, Dated
<1>2. Dated(r, StageRecord(r, t), t)
  BY DEF StageRecord, SetRecord, Stale, Record, Dated, Status
<1>3. ASSUME NEW b \in BOOLEAN PROVE Dated(r, SnapshotRecord(r, b, t), t)
  <2>1. CASE r.observedAt > t
    BY <2>1 DEF SnapshotRecord, Dated
  <2>2. CASE ~(r.observedAt > t) /\ r.status = "staged" /\ ~b
    BY <2>2 DEF SnapshotRecord, Record, Dated
  <2>3. CASE ~(r.observedAt > t) /\ ~(r.status = "staged" /\ ~b)
    BY <1>1, <2>3 DEF SnapshotRecord
  <2>4. QED BY <2>1, <2>2, <2>3
<1>4. ASSUME NEW cutoff PROVE Dated(r, ExpireRecord(r, cutoff), t)
  BY DEF ExpireRecord, Record, Dated
<1>5. QED BY <1>1, <1>2, <1>3, <1>4

LEMMA DatedBounded ==
  ASSUME TypeOK, NEW r \in Record, Bounded(r), NEW n, NEW t \in Nat, Dated(r, n, t),
         t <= clock', clock' \in Nat, clock <= clock'
  PROVE  Bounded(n)'
  BY DEF TypeOK, Bounded, Dated, Record

\* A handler's step: only one entry is written, at the time of a message or of
\* the clock, and nothing is published.
LEMMA WriteTimely ==
  ASSUME IInv, Timely, NEW v \in VMs, NEW t \in Nat, t <= clock', clock' \in Nat, clock <= clock',
         vms' = [vms EXCEPT ![v] = vms'[v]], Dated(vms[v], vms'[v], t),
         net' \subseteq net, starting' \subseteq starting \cup net, where' = where
  PROVE  Timely'
<1>1. \A u \in VMs : vms[u] \in Record
  BY DEF IInv, TypeOK
<1>2. ASSUME NEW u \in VMs PROVE Bounded(vms[u])'
  <2>1. CASE u = v
    BY <1>1, <2>1, DatedBounded DEF IInv, Timely, Bounded
  <2>2. CASE u # v
    <3>1. vms'[u] = vms[u]
      BY <2>2 DEF IInv, TypeOK
    <3>2. QED BY <1>1, <3>1 DEF Timely, Bounded, Record, IInv, TypeOK
  <2>3. QED BY <2>1, <2>2
<1>3. ASSUME NEW m \in net' \cup starting' PROVE m.t <= clock'
  <2>1. m \in Message /\ m.t <= clock
    BY DEF Timely, IInv, TypeOK
  <2>2. QED BY <2>1 DEF Message, IInv, TypeOK
<1>4. ASSUME NEW m \in net', m.kind = "snapshot", m.t = clock' PROVE Truthful(m)'
  <2>1. m \in net /\ m \in Message /\ m.t <= clock
    BY DEF Timely, IInv, TypeOK
  <2>2. m.t = clock
    BY <1>4, <2>1 DEF Message, IInv, TypeOK
  <2>3. QED BY <1>4, <2>1, <2>2 DEF Timely, Truthful, SaysRunning
<1>5. QED BY <1>2, <1>3, <1>4 DEF Timely

\* Nothing is written.
LEMMA KeptTimely ==
  ASSUME IInv, Timely, vms' = vms, clock' \in Nat, clock <= clock',
         where' = where \/ clock < clock',
         starting' \subseteq starting \cup net,
         NEW s, s.t = clock', s.kind = "snapshot" => Truthful(s)',
         net' \subseteq net \cup {s}
  PROVE  Timely'
<1>1. clock \in Nat /\ \A m \in net \cup starting : m.t \in Nat /\ m.t <= clock
  BY DEF Timely, IInv, TypeOK, Message
<1>2. ASSUME NEW u \in VMs PROVE Bounded(vms[u])'
  BY <1>1 DEF Timely, Bounded, Record, IInv, TypeOK
<1>3. ASSUME NEW m \in net' \cup starting' PROVE m.t <= clock'
  BY <1>1
<1>4. ASSUME NEW m \in net', m.kind = "snapshot", m.t = clock' PROVE Truthful(m)'
  <2>1. CASE m = s
    BY <1>4, <2>1
  <2>2. CASE m \in net
    <3>1. m.t = clock /\ where' = where
      BY <1>1, <1>4, <2>2
    <3>2. QED BY <1>4, <2>2, <3>1 DEF Timely, Truthful, SaysRunning
  <2>3. QED BY <2>1, <2>2
<1>5. QED BY <1>2, <1>3, <1>4 DEF Timely

LEMMA DeliverTimely ==
  ASSUME IInv, Timely, NEW m \in net, Deliver(m)
  PROVE  Timely'
<1>1. /\ m \in Message /\ m.vm \in VMs /\ m.t \in Nat \ {0} /\ vms[m.vm] \in Record
      /\ clock \in Nat /\ m.t <= clock
  BY DEF IInv, TypeOK, Message, Timely
<1>2. ASSUME NEW n, Receive(m, n), Dated(vms[m.vm], n, m.t) PROVE Timely'
  <2>1. vms'[m.vm] = n
    BY <1>1, <1>2 DEF Receive, IInv, TypeOK
  <2>2. /\ vms' = [vms EXCEPT ![m.vm] = vms'[m.vm]] /\ net' \subseteq net
        /\ UNCHANGED <<starting, clock, where>>
    BY <1>2, <2>1 DEF Receive
  <2>3. QED BY <1>1, <1>2, <2>1, <2>2, WriteTimely
<1>3. CASE HandleMigrateStarted(m)
  BY <1>1, <1>2, <1>3, OperatorsDated DEF HandleMigrateStarted
<1>4. CASE HandleMigrateSynced(m)
  BY <1>1, <1>2, <1>4, OperatorsDated DEF HandleMigrateSynced
<1>5. CASE HandleGone(m)
  BY <1>1, <1>2, <1>5, OperatorsDated DEF HandleGone
<1>6. CASE HandleSnapshot(m)
  <2>1. m.running \in BOOLEAN
    BY <1>1, <1>6 DEF HandleSnapshot, Message, Lifecycle
  <2>2. QED BY <1>1, <1>2, <1>6, <2>1, OperatorsDated DEF HandleSnapshot
<1>7. CASE HandleStartCheck(m)
  <2> DEFINE none == [kind |-> "none", t |-> clock']
  <2>1. none.t = clock' /\ none.kind # "snapshot"
    OBVIOUS
  <2>2. /\ UNCHANGED <<vms, clock, where>> /\ net' \subseteq net
        /\ starting' \subseteq starting \cup net
    BY <1>7 DEF HandleStartCheck
  <2> HIDE DEF none
  <2>3. QED BY <1>1, <2>1, <2>2, KeptTimely
<1>8. QED BY <1>3, <1>4, <1>5, <1>6, <1>7 DEF Deliver

LEMMA NextTimely ==
  ASSUME IInv, Timely, [Next]_vars
  PROVE  Timely'
<1> DEFINE none == [kind |-> "none", t |-> clock']
<1>0. /\ clock \in Nat \ {0} /\ \A v \in VMs : vms[v] \in Record
      /\ none.t = clock' /\ none.kind # "snapshot"
  BY DEF IInv, TypeOK
<1> HIDE DEF none
<1>1. ASSUME NEW v \in VMs, Hypervisor(v) PROVE Timely'
  <2>1. ASSUME NEW from, NEW to, NEW kind \in Lifecycle, Move(v, from, to, kind) PROVE Timely'
    <3> DEFINE s == Event(kind, v)
    <3>1. s.t = clock + 1 /\ s.kind # "snapshot"
      BY DEF Event, Lifecycle
    <3>2. clock' = clock + 1 /\ net' = net \cup {s} /\ UNCHANGED <<vms, starting>>
      BY <2>1 DEF Move
    <3> HIDE DEF s
    <3>3. QED BY <1>0, <3>1, <3>2, KeptTimely
  <2>2. CASE MigrateAbort(v)
    BY <1>0, <2>2, KeptTimely DEF MigrateAbort
  <2>3. CASE PublishSnapshot(v)
    <3>1. PICK s :
            /\ s.t = clock /\ s.kind = "snapshot" /\ s.vm = v /\ (s.running <=> where[v] = "running")
            /\ net' = net \cup {s} /\ UNCHANGED <<vms, starting, clock, where>>
      <4> DEFINE s == [kind |-> "snapshot", vm |-> v, t |-> clock, running |-> where[v] = "running"]
      <4>1. net' = net \cup {s} /\ UNCHANGED <<vms, starting, clock, where>>
        BY <2>3 DEF PublishSnapshot
      <4>2. s.t = clock /\ s.kind = "snapshot" /\ s.vm = v /\ (s.running <=> where[v] = "running")
        OBVIOUS
      <4> HIDE DEF s
      <4>3. QED BY <4>1, <4>2
    <3>2. Truthful(s)'
      BY <3>1 DEF Truthful, SaysRunning
    <3>3. QED BY <1>0, <3>1, <3>2, KeptTimely
  <2>4. QED BY <1>1, <2>1, <2>2, <2>3
    DEF Hypervisor, MigrateIn, CutOver, MigrateFail, MigrateOut, Start, Stop, StartIncoming, Lifecycle
<1>2. CASE Tick
  BY <1>0, <1>2, KeptTimely DEF Tick
<1>3. ASSUME NEW m \in net, Deliver(m) PROVE Timely'
  BY <1>3, DeliverTimely
<1>4. ASSUME NEW m \in net, Lose(m) PROVE Timely'
  BY <1>0, <1>4, KeptTimely DEF Lose
<1>5. ASSUME NEW m \in starting, HandleStartSet(m) PROVE Timely'
  <2> DEFINE n == SetRecord(vms[m.vm], "active", m.t, 0)
  <2>1. m.vm \in VMs /\ m.t \in Nat \ {0} /\ m.t <= clock
    BY DEF IInv, TypeOK, Message, Timely
  <2>2. /\ vms' = [vms EXCEPT ![m.vm] = n] /\ starting' \subseteq starting
        /\ UNCHANGED <<clock, where, net>>
    BY <1>5 DEF HandleStartSet
  <2>3. Dated(vms[m.vm], n, m.t)
    BY <1>0, <2>1, OperatorsDated
  <2> HIDE DEF n
  <2>4. vms'[m.vm] = n
    BY <2>1, <2>2 DEF IInv, TypeOK
  <2>5. vms' = [vms EXCEPT ![m.vm] = vms'[m.vm]] /\ Dated(vms[m.vm], vms'[m.vm], m.t)
    BY <2>2, <2>3, <2>4
  <2>6. /\ m.t \in Nat /\ m.t <= clock' /\ clock' \in Nat /\ clock <= clock'
        /\ net' \subseteq net /\ starting' \subseteq starting \cup net /\ where' = where
    BY <1>0, <2>1, <2>2
  <2>7. QED BY <2>1, <2>5, <2>6, WriteTimely
<1>6. ASSUME NEW v \in VMs, NEW event \in Webhooks, WebhookDelta(v, event) PROVE Timely'
  <2> DEFINE status == IF event = "deleted" THEN "absent" ELSE "active"
             n == SetRecord(vms[v], status, clock + 1, 0)
  <2>1. /\ vms' = [vms EXCEPT ![v] = n] /\ clock' = clock + 1
        /\ UNCHANGED <<starting, where, net>>
    BY <1>6 DEF WebhookDelta
  <2>2. status \in {"absent", "active"} /\ clock + 1 \in Nat \ {0}
    BY <1>0
  <2> HIDE DEF status
  <2>3. Dated(vms[v], n, clock + 1)
    BY <1>0, <2>2, OperatorsDated
  <2> HIDE DEF n
  <2>4. vms'[v] = n
    BY <2>1 DEF IInv, TypeOK
  <2>5. vms' = [vms EXCEPT ![v] = vms'[v]]
    BY <2>1, <2>4
  <2>6. PICK t : t = clock'
    OBVIOUS
  <2>7. Dated(vms[v], vms'[v], t) /\ t \in Nat /\ clock' \in Nat /\ t <= clock' /\ clock <= clock'
    BY <1>0, <2>1, <2>3, <2>4, <2>6
  <2>8. QED BY <2>1, <2>5, <2>7, WriteTimely
<1>7. CASE ExpireStaged
  <2>1. /\ \A v \in VMs : vms'[v] = ExpireRecord(vms[v], clock - TTL)
        /\ UNCHANGED <<starting, clock, where, net>>
    BY <1>7 DEF ExpireStaged
  <2>2. ASSUME NEW v \in VMs PROVE Bounded(vms[v])'
    <3>1. Dated(vms[v], vms'[v], clock)
      BY <1>0, <2>1, OperatorsDated
    <3>2. QED BY <1>0, <2>1, <3>1, DatedBounded DEF IInv, Timely
  <2>3. QED BY <2>1, <2>2 DEF Timely, Truthful, SaysRunning
<1>8. CASE Restart
  BY <1>0, <1>8 DEF Restart, Timely, Bounded, NoRecord
<1>9. CASE UNCHANGED vars
  BY <1>9 DEF vars, Timely, Bounded, Truthful, SaysRunning
<1>10. QED BY <1>1, <1>2, <1>3, <1>4, <1>5, <1>6, <1>7, <1>8, <1>9 DEF Next

\* m is handled while only snapshots of its VM are on their way, and finds no
\* staging that it may not end.
Corrects(m) ==
  /\ m.t = clock /\ HandleSnapshot(m)
  /\ OnlySnapshots(m.vm) /\ (m.running \/ vms[m.vm].status # "staged")

LEMMA CorrectsInStep ==
  ASSUME IInv, StartsOnly, Timely, NEW m \in net, Corrects(m)
  PROVE  InStep(m.vm)'
<1> DEFINE v == m.vm
           r == vms[v]
           n == SnapshotRecord(r, m.running, m.t)
<1>1. /\ m \in Message /\ v \in VMs /\ m.t \in Nat \ {0} /\ r \in Record
      /\ clock = m.t /\ m.kind = "snapshot" /\ m.running \in BOOLEAN
      /\ vms' = [vms EXCEPT ![v] = n] /\ net' = net \ {m} /\ UNCHANGED <<starting, clock, where>>
  BY DEF IInv, TypeOK, Message, Lifecycle, Corrects, HandleSnapshot, Receive
<1>2. r.lastEvent <= m.t /\ r.observedAt <= m.t /\ Truthful(m)
  BY <1>1 DEF Timely, Bounded
<1>3. n = [status |-> IF m.running THEN "active" ELSE "absent", lastEvent |-> m.t,
           observedAt |-> m.t, stagedAt |-> 0]
  BY <1>1, <1>2 DEF Corrects, SnapshotRecord, SetRecord, Stale, Record
<1>4. vms'[v] = n
  BY <1>1 DEF IInv, TypeOK
<1> HIDE DEF n
<1>5. vms'[v].status = (IF m.running THEN "active" ELSE "absent") /\ vms'[v].lastEvent = m.t
  BY <1>3, <1>4
<1>6. Agrees(v)'
  BY <1>1, <1>2, <1>5 DEF Agrees, Truthful, SaysRunning
<1>7. Flight(v)' \subseteq Flight(v) /\ OnlySnapshots(v)
  BY <1>1 DEF Flight, Corrects
<1>8. ASSUME NEW k \in Flight(v)' PROVE Truthful(k)' \/ (Behind(k) /\ OnlySnapshots(v))'
  <2>1. k \in Flight(v) /\ k.kind = "snapshot" /\ k.vm = v /\ k.t \in Nat /\ k.t <= clock
    BY <1>1, <1>7, <1>8 DEF OnlySnapshots, Flight, Timely, IInv, TypeOK, Message
  <2>2. OnlySnapshots(v)'
    BY <1>7 DEF OnlySnapshots
  <2>3. CASE k.t = clock /\ k \in net
    BY <1>1, <2>1, <2>3 DEF Timely, Truthful, SaysRunning
  <2>4. CASE k.t < clock
    BY <1>1, <1>5, <2>1, <2>2, <2>4 DEF Behind
  <2>5. CASE k \in starting
    BY <2>1, <2>5 DEF StartsOnly
  <2>6. QED BY <1>1, <2>1, <2>3, <2>4, <2>5 DEF Flight
<1>9. QED BY <1>6, <1>8 DEF InStep

\* Whatever was lost, late or out of order before, one current snapshot that finds
\* only snapshots of its VM on their way brings the store into step with the
\* hypervisor (store.go:104-130, 181-210), unless a migration to here is staged
\* and the VM does not run: that entry waits for the sweep.  PlacementStays
\* says that there it stays.
THEOREM SnapshotCorrects ==
  Spec => [][\A m \in net : Corrects(m) => InStep(m.vm)']_vars
<1> DEFINE Step == \A m \in net : Corrects(m) => InStep(m.vm)'
<1>1. Init => Timely
  BY DEF Init, Timely, Bounded, NoRecord
<1>2. Spec => []Timely
  BY <1>1, NextTimely, Invariance, PTL DEF Spec
<1>3. IInv /\ StartsOnly /\ Timely => Step
  BY CorrectsInStep
<1>4. QED BY <1>2, <1>3, Invariance, AlwaysStartsOnly, PTL DEF Spec
=============================================================================
