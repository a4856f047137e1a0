--------------------------- MODULE RunLoop_proofs ---------------------------
(***************************************************************************)
(* Proofs about the run loop, for any VMs, channel capacity and bounds: it *)
(* is well typed, every cutover has a verification coming, no accepted     *)
(* delta is forgotten, and the gate closes only on what a fetch has        *)
(* brought; and, at rest, a fetch under way brings what is wanted, which   *)
(* then stays.                                                             *)
(***************************************************************************)
EXTENDS RunLoop, TLAPS

USE RunLoopAssumption DEF RunLoopAssumption

\* No mapping is newer than the number of changes made.
Counted == \A v \in VMs : netbox[v] <= changes

TInv == TypeOK /\ Counted

\* An apply programs a table.
LEMMA ProgramTyped ==
  ASSUME NEW t, Program(t)
  PROVE  applied' \in Table
  BY DEF Program

LEMMA InitTyped == Init => TInv
<1> SUFFICES ASSUME Init PROVE TInv
  OBVIOUS
<1>1. 0 \in Version BY DEF Version
<1>2. changes = 0 /\ netbox = [v \in VMs |-> 0] BY DEF Init
<1>3. netbox \in [VMs -> Version] /\ accepted \in [VMs -> Version] BY <1>1 DEF Init
<1>4. status \in [VMs -> Status] BY DEF Init, Status
<1>5. cache \in Table BY <1>1 DEF Init, Table
<1>6. applied \in Table BY DEF Init, Table, NoTable
<1>7. loop \in [pc: {"select", "asking", "read", "returned"}, table: Table]
  BY DEF Init, At, NoTable, Table
<1>8. deltas \in Seq(VMs \X Version) /\ Len(deltas) <= DeltaCap
  BY DEF Init
<1>9. TypeOK BY <1>1, <1>3, <1>4, <1>5, <1>6, <1>7, <1>8 DEF Init, TypeOK, Progress
<1>10. Counted
  <2>1. ASSUME NEW v \in VMs PROVE netbox[v] <= changes
    <3>1. netbox[v] = 0 BY <1>2
    <3>2. QED BY <1>2, <3>1
  <2>2. QED BY <2>1 DEF Counted
<1>11. QED BY <1>9, <1>10 DEF TInv

\* What happens outside the process keeps types and the count of changes.
LEMMA OutsideTyped == TInv /\ Outside => TInv'
<1> SUFFICES ASSUME TInv, Outside PROVE TInv'
  OBVIOUS
<1> USE DEF TInv, TypeOK, Counted, Version, programmed, queues, timers, bounds
<1>1. ASSUME NEW v \in VMs, NetBoxChanges(v)
      PROVE  /\ netbox' \in [VMs -> Version] /\ changes' \in Version
             /\ Counted'
             /\ netbox[v] + 1 \in Version
  BY <1>1 DEF NetBoxChanges
<1>2. ASSUME NEW v \in VMs, WebhookQueued(v) PROVE TInv'
  <2>1. NetBoxChanges(v) BY <1>2 DEF WebhookQueued
  <2>2. <<v, netbox[v] + 1>> \in VMs \X Version BY <1>1, <2>1
  <2>3. deltas' \in Seq(VMs \X Version) /\ Len(deltas') <= DeltaCap
    BY <1>2, <2>2 DEF WebhookQueued
  <2>4. accepted' \in [VMs -> Version] BY <1>1, <1>2, <2>1 DEF WebhookQueued
  <2>5. QED BY <1>1, <1>2, <2>1, <2>3, <2>4 DEF WebhookQueued, NetBoxChanges
<1>3. ASSUME NEW v \in VMs, WebhookRefused(v) PROVE TInv'
  BY <1>1, <1>3 DEF WebhookRefused, NetBoxChanges
<1>4. ASSUME NEW v \in VMs, WebhookLost(v) PROVE TInv'
  BY <1>1, <1>4 DEF WebhookLost, NetBoxChanges
<1>5. Ticker => TInv' BY DEF Ticker
<1>6. TimePasses => TInv' BY DEF TimePasses
<1>7. QED BY <1>2, <1>3, <1>4, <1>5, <1>6 DEF Outside

\* Events keep types.
LEMMA EventsTyped == TInv /\ Events => TInv'
<1> SUFFICES ASSUME TInv, Events PROVE TInv'
  OBVIOUS
<1> USE DEF TInv, TypeOK, Counted, programmed, queues, timers, bounds, Moves, Placed
<1>1. ASSUME NEW v \in VMs, NEW s \in Status, NEW c \in BOOLEAN, MigrationEvent(v, s, c)
      PROVE  TInv'
  BY <1>1 DEF MigrationEvent
<1>2. ASSUME NEW v \in VMs, NEW s \in {"absent", "active"}, LifecycleEvent(v, s)
      PROVE  TInv'
  BY <1>2 DEF LifecycleEvent, Status
<1>3. ASSUME NEW v \in VMs, NEW s \in {"absent", "active"}, Snapshot(v, s)
      PROVE  TInv'
  BY <1>3 DEF Snapshot, Status
<1>4. SnapshotComplete => TInv' BY DEF SnapshotComplete
<1>5. QED BY <1>1, <1>2, <1>3, <1>4 DEF Events

\* The steps of the process keep types.
LEMMA WorkTyped ==
  TInv /\ (\/ HandlerApplies \/ VerifyLater \/ TimerFires \/ TimerTriggers
           \/ TakeTick \/ TakeDelta \/ FetchBegin \/ Fetch)
  => TInv'
<1> SUFFICES ASSUME TInv,
                    \/ HandlerApplies \/ VerifyLater \/ TimerFires \/ TimerTriggers
                    \/ TakeTick \/ TakeDelta \/ FetchBegin \/ Fetch
             PROVE  TInv'
  OBVIOUS
<1> USE DEF TInv, TypeOK, Counted, programmed, queues, timers, bounds
<1>1. CASE HandlerApplies
  BY <1>1, ProgramTyped DEF HandlerApplies, Progress
<1>2. CASE VerifyLater BY <1>2 DEF VerifyLater
<1>3. CASE TimerFires
  <2>1. firing' \in Nat BY <1>3 DEF TimerFires
  <2>2. QED BY <1>3, <2>1, Zenon DEF TimerFires
<1>4. CASE TimerTriggers
  <2>1. firing' \in Nat BY <1>4 DEF TimerTriggers
  <2>2. QED BY <1>4, <2>1 DEF TimerTriggers
<1>5. CASE TakeTick
  <2>1. PICK expired \in SUBSET VMs :
          status' = [v \in VMs |-> IF v \in expired THEN "absent" ELSE status[v]]
    BY <1>5 DEF TakeTick
  <2>2. status' \in [VMs -> Status]
    BY <2>1 DEF Status
  <2>3. QED BY <1>5, <2>2 DEF TakeTick
<1>6. CASE TakeDelta
  <2>1. Head(deltas) \in VMs \X Version /\ Tail(deltas) \in Seq(VMs \X Version)
        /\ Len(Tail(deltas)) <= DeltaCap
    BY <1>6 DEF TakeDelta
  <2>2. cache' \in Table /\ applied' \in Table
    BY <1>6, <2>1 DEF TakeDelta, Table
  <2>3. QED BY <1>6, <2>1, <2>2 DEF TakeDelta
<1>7. CASE FetchBegin
  BY <1>7 DEF FetchBegin, At, NoTable, Table, Progress
<1>8. CASE FetchReads
  BY <1>8 DEF FetchReads, At, Table
<1>9. CASE FetchReturns
  BY <1>9 DEF FetchReturns, Key
<1>10. CASE FetchApplied
  BY <1>10, ProgramTyped DEF FetchApplied, At, NoTable, Table, Progress
<1>11. CASE FetchFails
  BY <1>11, ProgramTyped DEF FetchFails, At, NoTable, Table, Progress
<1>12. QED BY <1>1, <1>2, <1>3, <1>4, <1>5, <1>6, <1>7, <1>8, <1>9, <1>10, <1>11 DEF Fetch

LEMMA StepTyped == TInv /\ [Next]_vars => TInv'
<1>1. TInv /\ UNCHANGED vars => TInv'
  BY DEF vars, TInv, TypeOK, Counted, programmed, queues, timers, bounds
<1>2. QED BY <1>1, OutsideTyped, EventsTyped, WorkTyped DEF Next

LEMMA TypedAlways == Spec => []TInv
  BY InitTyped, StepTyped, PTL DEF Spec

\* Every state of the run loop is well typed: its channels stay within their limits.
THEOREM TypeCorrect == Spec => []TypeOK
<1>1. TInv => TypeOK BY DEF TInv
<1>2. QED BY <1>1, TypedAlways, PTL

-----------------------------------------------------------------------------
(* Verification of cutovers *)

LEMMA StepVerified == TypeOK /\ Verified /\ [Next]_vars => Verified'
<1> SUFFICES ASSUME TypeOK, Verified, [Next]_vars PROVE Verified'
  OBVIOUS
<1> USE DEF Verified, queues, timers
<1>1. CASE Outside
  BY <1>1 DEF Outside, WebhookQueued, WebhookRefused, WebhookLost, NetBoxChanges, Ticker,
              TimePasses
<1>2. CASE Events
  BY <1>2 DEF Events, MigrationEvent, LifecycleEvent, Snapshot, SnapshotComplete
<1>3. CASE HandlerApplies BY <1>3 DEF HandlerApplies
<1>4. CASE VerifyLater BY <1>4 DEF VerifyLater
<1>5. CASE TimerFires BY <1>5 DEF TimerFires, TypeOK
<1>6. CASE TimerTriggers BY <1>6 DEF TimerTriggers
<1>7. CASE TakeTick BY <1>7 DEF TakeTick
<1>8. CASE TakeDelta BY <1>8 DEF TakeDelta
<1>9. CASE FetchBegin BY <1>9 DEF FetchBegin, At
<1>10. CASE Fetch
  <2>1. CASE FetchReads
    BY <2>1 DEF FetchReads, At
  <2>2. CASE FetchReturns
    <3>1. loop'.pc = "returned"
      BY <2>2 DEF FetchReturns, TypeOK
    <3>2. QED BY <2>2, <3>1 DEF FetchReturns
  <2>3. CASE FetchApplied
    BY <2>3 DEF FetchApplied
  <2>4. CASE FetchFails
    BY <2>4 DEF FetchFails
  <2>5. QED BY <1>10, <2>1, <2>2, <2>3, <2>4 DEF Fetch
<1>11. CASE UNCHANGED vars BY <1>11 DEF vars
<1>12. QED BY <1>1, <1>2, <1>3, <1>4, <1>5, <1>6, <1>7, <1>8, <1>9, <1>10, <1>11 DEF Next

\* A cutover applied from the cache has a fetch coming, or under way since, until one
\* that began later succeeds or fails: the pending flag may suppress a second timer
\* because the first has yet to trigger.
THEOREM VerifiedCorrect == Spec => []Verified
<1>1. Init => Verified BY DEF Init, Verified
<1>2. TInv => TypeOK BY DEF TInv
<1>3. QED BY <1>1, <1>2, StepVerified, TypedAlways, PTL DEF Spec

-----------------------------------------------------------------------------
(* Accepted deltas *)

\* The table t has what was accepted, or will have it once the queue q is applied to it.
Knows(t, acc, q) ==
  \A v \in VMs : acc[v] > 0 =>
    Holds(t, v, acc[v]) \/ \E i \in 1 .. Len(q) : q[i] = <<v, acc[v]>>

\* A queued delta is the newest of its VM, or the newest is queued behind it.
Followed(acc, q) ==
  \A i \in 1 .. Len(q) : \E j \in i .. Len(q) : q[j] = <<q[i][1], acc[q[i][1]]>>

\* NetBox is never behind a delta.
Behind(acc, n) == \A v \in VMs : acc[v] <= n[v]

\* The invariant: the cache, and a table on its way to the cache, know what was accepted.
HInv ==
  /\ Behind(accepted, netbox)
  /\ Followed(accepted, deltas)
  /\ Knows(cache, accepted, deltas)
  /\ loop.pc \in {"read", "returned"} => Knows(loop.table, accepted, deltas)

LEMMA InitHeeded == Init => HInv
<1> SUFFICES ASSUME Init PROVE HInv
  OBVIOUS
<1>1. netbox = [v \in VMs |-> 0] /\ accepted = [v \in VMs |-> 0] BY DEF Init
<1>2. ASSUME NEW v \in VMs PROVE accepted[v] <= netbox[v] /\ ~(accepted[v] > 0)
  <2>1. accepted[v] = 0 /\ netbox[v] = 0 BY <1>1
  <2>2. QED BY <2>1
<1>3. Behind(accepted, netbox) BY <1>2 DEF Behind
<1>4. deltas = <<>> BY DEF Init
<1>5. Followed(accepted, deltas) BY <1>4 DEF Followed
<1>6. Knows(cache, accepted, deltas) BY <1>2 DEF Knows
<1>7. loop.pc = "select" BY DEF Init, At
<1>8. QED BY <1>3, <1>5, <1>6, <1>7 DEF HInv

\* A new delta of v, the newest of v, at the end of the queue.
LEMMA AppendHeeded ==
  ASSUME NEW q \in Seq(VMs \X Version), NEW acc \in [VMs -> Version],
         NEW v \in VMs, NEW n \in Version, Followed(acc, q)
  PROVE  /\ Followed([acc EXCEPT ![v] = n], Append(q, <<v, n>>))
         /\ \A t : Knows(t, acc, q) => Knows(t, [acc EXCEPT ![v] = n], Append(q, <<v, n>>))
<1> DEFINE acc2 == [acc EXCEPT ![v] = n]
           q2 == Append(q, <<v, n>>)
<1>1. /\ Len(q) \in Nat /\ Len(q2) = Len(q) + 1 /\ q2[Len(q2)] = <<v, n>>
      /\ \A i \in 1 .. Len(q) : q2[i] = q[i] /\ q[i] \in VMs \X Version
  OBVIOUS
<1>2. acc2[v] = n /\ \A w \in VMs : w # v => acc2[w] = acc[w]
  OBVIOUS
<1> HIDE DEF acc2, q2
<1>3. ASSUME NEW i \in 1 .. Len(q2)
      PROVE  \E j \in i .. Len(q2) : q2[j] = <<q2[i][1], acc2[q2[i][1]]>>
  <2>1. CASE q2[i][1] = v
    <3>1. Len(q2) \in i .. Len(q2) BY <1>1, <1>3
    <3>2. QED BY <1>1, <1>2, <2>1, <3>1
  <2>2. CASE q2[i][1] # v
    <3>1. i \in 1 .. Len(q) BY <1>1, <1>3, <2>2
    <3>2. PICK j \in i .. Len(q) : q[j] = <<q[i][1], acc[q[i][1]]>>
      BY <3>1 DEF Followed
    <3>3. q[i][1] \in VMs /\ q[i][1] # v BY <1>1, <2>2, <3>1
    <3>4. j \in 1 .. Len(q) /\ j \in i .. Len(q2) BY <1>1, <3>1, <3>2
    <3>5. QED BY <1>1, <1>2, <3>1, <3>2, <3>3, <3>4
  <2>3. QED BY <2>1, <2>2
<1>4. ASSUME NEW t, Knows(t, acc, q), NEW w \in VMs, acc2[w] > 0
      PROVE  Holds(t, w, acc2[w]) \/ \E i \in 1 .. Len(q2) : q2[i] = <<w, acc2[w]>>
  <2>1. CASE w = v
    <3>1. Len(q2) \in 1 .. Len(q2) BY <1>1
    <3>2. QED BY <1>1, <1>2, <2>1, <3>1
  <2>2. CASE w # v
    <3>1. acc2[w] = acc[w] BY <1>2, <2>2
    <3>2. Holds(t, w, acc[w]) \/ \E i \in 1 .. Len(q) : q[i] = <<w, acc[w]>>
      BY <1>4, <3>1 DEF Knows
    <3>3. \A i \in 1 .. Len(q) : i \in 1 .. Len(q2) BY <1>1
    <3>4. QED BY <1>1, <3>1, <3>2, <3>3
  <2>3. QED BY <2>1, <2>2
<1>5. QED BY <1>3, <1>4 DEF Followed, Knows, acc2, q2

\* Applying the first delta to a table that knows: either it is the newest of its VM,
\* and the table holds it, or the newest is still queued.
LEMMA TailHeeded ==
  ASSUME NEW q \in Seq(VMs \X Version), q # <<>>, NEW acc \in [VMs -> Version],
         NEW t \in Table, Followed(acc, q), Knows(t, acc, q)
  PROVE  /\ Followed(acc, Tail(q))
         /\ Knows([t EXCEPT ![Head(q)[1]] = Head(q)[2]], acc, Tail(q))
<1> DEFINE r == Tail(q)
           v == Head(q)[1]
           t2 == [t EXCEPT ![v] = Head(q)[2]]
<1>1. /\ Len(q) \in Nat \ {0} /\ Len(r) = Len(q) - 1
      /\ \A i \in 1 .. Len(r) : r[i] = q[i + 1]
      /\ Head(q) = q[1] /\ q[1] \in VMs \X Version
  OBVIOUS
<1>2. v \in VMs /\ Head(q)[2] \in Version /\ q[1] = <<v, Head(q)[2]>> BY <1>1
<1>3. t2[v] = Head(q)[2] /\ \A w \in VMs : w # v => t2[w] = t[w]
  BY <1>2 DEF Table
<1> HIDE DEF r, v, t2
<1>4. ASSUME NEW i \in 1 .. Len(r)
      PROVE  \E j \in i .. Len(r) : r[j] = <<r[i][1], acc[r[i][1]]>>
  <2>1. i + 1 \in 1 .. Len(q) BY <1>1
  <2>2. PICK j \in i + 1 .. Len(q) : q[j] = <<q[i + 1][1], acc[q[i + 1][1]]>>
    BY <2>1 DEF Followed
  <2>3. j - 1 \in i .. Len(r) /\ j - 1 \in 1 .. Len(r) /\ (j - 1) + 1 = j
    BY <1>1, <2>2
  <2>4. r[j - 1] = q[j] /\ r[i] = q[i + 1] BY <1>1, <2>3
  <2>5. QED BY <2>2, <2>3, <2>4
<1>5. \A j \in 1 .. Len(q) : j # 1 => j - 1 \in 1 .. Len(r) /\ r[j - 1] = q[j]
  BY <1>1
<1>6. ASSUME NEW w \in VMs, acc[w] > 0
      PROVE  Holds(t2, w, acc[w]) \/ \E i \in 1 .. Len(r) : r[i] = <<w, acc[w]>>
  <2>1. CASE w = v /\ Head(q)[2] = acc[w]
    BY <1>2, <1>3, <2>1 DEF Holds, Version
  <2>2. CASE w = v /\ Head(q)[2] # acc[w]
    <3>1. 1 \in 1 .. Len(q) BY <1>1
    <3>2. PICK j \in 1 .. Len(q) : q[j] = <<q[1][1], acc[q[1][1]]>>
      BY <3>1 DEF Followed
    <3>3. q[j] = <<w, acc[w]>> /\ j # 1 BY <1>2, <2>2, <3>2
    <3>4. QED BY <1>5, <3>3
  <2>3. CASE w # v
    <3>1. CASE Holds(t, w, acc[w]) BY <1>3, <2>3, <3>1 DEF Holds
    <3>2. CASE \E j \in 1 .. Len(q) : q[j] = <<w, acc[w]>>
      <4>1. PICK j \in 1 .. Len(q) : q[j] = <<w, acc[w]>> BY <3>2
      <4>2. j # 1 BY <1>2, <2>3, <4>1
      <4>3. QED BY <1>5, <4>1, <4>2
    <3>3. QED BY <1>6, <3>1, <3>2 DEF Knows
  <2>4. QED BY <2>1, <2>2, <2>3
<1>7. QED BY <1>4, <1>6 DEF Followed, Knows, r, v, t2

LEMMA StepHeeded == TInv /\ HInv /\ [Next]_vars => HInv'
<1> SUFFICES ASSUME TInv, HInv, [Next]_vars PROVE HInv'
  OBVIOUS
<1>1. ASSUME UNCHANGED <<accepted, deltas, netbox, cache, loop>> PROVE HInv'
  BY <1>1 DEF HInv
<1>2. ASSUME NEW v \in VMs, WebhookQueued(v) PROVE HInv'
  <2> DEFINE n == netbox[v] + 1
  <2>1. /\ accepted' = [accepted EXCEPT ![v] = n] /\ netbox' = [netbox EXCEPT ![v] = n]
        /\ deltas' = Append(deltas, <<v, n>>) /\ cache' = cache /\ loop' = loop
    BY <1>2 DEF WebhookQueued, NetBoxChanges, programmed
  <2>2. /\ deltas \in Seq(VMs \X Version)
        /\ accepted \in [VMs -> Version] /\ netbox \in [VMs -> Version]
    BY DEF TInv, TypeOK
  <2>3. n \in Version
    BY <1>2 DEF TInv, TypeOK, Counted, WebhookQueued, NetBoxChanges, Version
  <2>4. Followed(accepted', deltas') /\ \A t : Knows(t, accepted, deltas)
                                              => Knows(t, accepted', deltas')
    <3> HIDE DEF n
    <3>1. QED BY <2>1, <2>2, <2>3, AppendHeeded DEF HInv
  <2>5. Behind(accepted', netbox')
    BY <2>1, <2>2 DEF HInv, Behind, Version
  <2>6. QED BY <2>1, <2>4, <2>5 DEF HInv
<1>3. ASSUME NEW v \in VMs, WebhookRefused(v) \/ WebhookLost(v) PROVE HInv'
  <2>1. /\ netbox' = [netbox EXCEPT ![v] = @ + 1]
        /\ UNCHANGED <<accepted, deltas, cache, loop>>
    BY <1>3 DEF WebhookRefused, WebhookLost, NetBoxChanges, programmed
  <2>2. accepted \in [VMs -> Version] /\ netbox \in [VMs -> Version]
    BY DEF TInv, TypeOK
  <2>3. Behind(accepted', netbox')
    BY <2>1, <2>2 DEF HInv, Behind, Version
  <2>4. QED BY <2>1, <2>3 DEF HInv
<1>4. CASE Ticker \/ TimePasses
  BY <1>1, <1>4 DEF Ticker, TimePasses, programmed, queues
<1>5. CASE Events
  BY <1>1, <1>5 DEF Events, MigrationEvent, LifecycleEvent, Snapshot, SnapshotComplete,
                    programmed, queues
<1>6. CASE HandlerApplies BY <1>1, <1>6 DEF HandlerApplies
<1>7. CASE VerifyLater BY <1>1, <1>7 DEF VerifyLater, programmed, queues
<1>8. CASE TimerFires \/ TimerTriggers
  BY <1>1, <1>8 DEF TimerFires, TimerTriggers, programmed, queues
<1>9. CASE TakeTick BY <1>1, <1>9 DEF TakeTick, programmed
<1>10. CASE TakeDelta
  <2>1. /\ deltas # <<>> /\ deltas' = Tail(deltas) /\ loop.pc = "select"
        /\ cache' = [cache EXCEPT ![Head(deltas)[1]] = Head(deltas)[2]]
        /\ UNCHANGED <<accepted, netbox, loop>>
    BY <1>10 DEF TakeDelta
  <2>2. deltas \in Seq(VMs \X Version) /\ accepted \in [VMs -> Version] /\ cache \in Table
    BY DEF TInv, TypeOK
  <2>3. Followed(accepted, deltas') /\ Knows(cache', accepted, deltas')
    BY <2>1, <2>2, TailHeeded DEF HInv
  <2>4. QED BY <2>1, <2>3 DEF HInv
<1>11. CASE FetchBegin
  BY <1>11 DEF FetchBegin, At, programmed, HInv
<1>12. CASE FetchReads
  <2>1. /\ loop'.table = netbox /\ UNCHANGED <<accepted, deltas, netbox, cache>>
    BY <1>12 DEF FetchReads, At, programmed, queues
  <2>2. \A v \in VMs : netbox[v] \in Nat BY DEF TInv, TypeOK, Version
  <2>3. Knows(netbox, accepted, deltas)
    BY <2>2 DEF Knows, Holds, HInv, Behind
  <2>4. QED BY <2>1, <2>3 DEF HInv
<1>13. CASE FetchReturns
  <2>1. /\ loop.pc = "read" /\ loop'.table = loop.table
        /\ UNCHANGED <<accepted, deltas, netbox, cache>>
    BY <1>13 DEF FetchReturns, programmed, queues, TInv, TypeOK
  <2>2. QED BY <2>1 DEF HInv
<1>14. CASE FetchApplied
  <2>1. /\ loop.pc = "returned" /\ loop'.pc = "select" /\ cache' = loop.table
        /\ UNCHANGED <<accepted, deltas, netbox>>
    BY <1>14 DEF FetchApplied, At, queues
  <2>2. QED BY <2>1 DEF HInv
<1>15. CASE FetchFails
  <2>1. loop'.pc = "select" /\ UNCHANGED <<accepted, deltas, netbox, cache>>
    BY <1>15 DEF FetchFails, At, queues
  <2>2. QED BY <2>1 DEF HInv
<1>16. CASE UNCHANGED vars BY <1>1, <1>16 DEF vars, programmed, queues
<1>17. QED
  BY <1>2, <1>3, <1>4, <1>5, <1>6, <1>7, <1>8, <1>9, <1>10, <1>11, <1>12, <1>13, <1>14,
     <1>15, <1>16 DEF Next, Outside, Fetch

\* No delta the webhook server was told is accepted is ever forgotten, however fetches,
\* overflows and the queue interleave.
THEOREM HeededCorrect == Spec => []Heeded
<1>1. HInv => Heeded
  BY DEF HInv, Heeded, Knows, IsQueued
<1>2. QED BY <1>1, InitHeeded, StepHeeded, TypedAlways, PTL DEF Spec

-----------------------------------------------------------------------------
(* The fetch gate *)

\* Whenever the VMs here are not those of the last successful fetch, the next
\* snapshot asks for one: neither a failed fetch nor any event in between closes
\* the gate (reconciler.go:412-430, 663-667).
THEOREM GateHonest == Spec => [](fetchedFor # Key => GateOpen)
<1>1. Init => lastKey = fetchedFor
  BY DEF Init
<1>2. lastKey = fetchedFor /\ [Next]_vars => (lastKey = fetchedFor)'
  <2> SUFFICES ASSUME lastKey = fetchedFor, [Next]_vars PROVE lastKey' = fetchedFor'
    OBVIOUS
  <2>1. CASE Outside
    BY <2>1 DEF Outside, WebhookQueued, WebhookRefused, WebhookLost, NetBoxChanges, Ticker,
                TimePasses
  <2>2. CASE Events
    BY <2>2 DEF Events, MigrationEvent, LifecycleEvent, Snapshot, SnapshotComplete
  <2>3. CASE HandlerApplies \/ VerifyLater
    BY <2>3 DEF HandlerApplies, VerifyLater
  <2>4. CASE TimerFires \/ TimerTriggers
    BY <2>4 DEF TimerFires, TimerTriggers
  <2>5. CASE TakeTick \/ TakeDelta \/ FetchBegin
    BY <2>5 DEF TakeTick, TakeDelta, FetchBegin
  <2>6. CASE Fetch
    BY <2>6 DEF Fetch, FetchReads, FetchReturns, FetchApplied, FetchFails
  <2>7. CASE UNCHANGED vars BY <2>7 DEF vars
  <2>8. QED BY <2>1, <2>2, <2>3, <2>4, <2>5, <2>6, <2>7 DEF Next
<1>3. lastKey = fetchedFor => (fetchedFor # Key => GateOpen)
  BY DEF GateOpen
<1>4. QED BY <1>1, <1>2, <1>3, PTL DEF Spec

-----------------------------------------------------------------------------
(* What is programmed stays right *)

\* The table t has the mapping of every active VM.
Right(t) == \A v \in VMs : status[v] = "active" => t[v] = netbox[v]

\* The queued deltas say what NetBox says of the VMs here.
DeltasRight ==
  \A i \in 1 .. Len(deltas) :
    status[deltas[i][1]] = "active" => deltas[i][2] = netbox[deltas[i][1]]

FetchRight == loop.pc \in {"read", "returned"} => Right(loop.table)

\* The program has caught up: what is programmed is what is wanted, and neither the
\* cache nor what is on its way to it says anything else.
CaughtUp == applied = Wanted /\ ready /\ Right(cache) /\ FetchRight /\ DeltasRight

\* It is about to: a fetch is under way that will say what NetBox says.
CatchingUp == loop.pc # "select" /\ FetchRight /\ DeltasRight

\* A step by which neither NetBox nor what runs here changes, and no fetch fails.
AtRest == UNCHANGED <<netbox, faults>> /\ Wanted' = Wanted

LEMMA ActiveRests ==
  ASSUME TypeOK, AtRest
  PROVE  \A v \in VMs : status'[v] = "active" <=> status[v] = "active"
<1>1. ASSUME NEW v \in VMs PROVE status'[v] = "active" <=> status[v] = "active"
  <2>1. netbox[v] # None /\ netbox'[v] = netbox[v]
    BY DEF TypeOK, Version, AtRest
  <2>2. Wanted'[v] = Wanted[v]
    BY DEF AtRest
  <2>3. QED BY <2>1, <2>2 DEF Wanted
<1>2. QED BY <1>1

\* Programming a right table programs what is wanted.
LEMMA RightProgram ==
  ASSUME TypeOK, NEW t, Program(t), Right(t)
  PROVE  applied' = Wanted
<1>1. ASSUME NEW v \in VMs PROVE applied'[v] = Wanted[v]
  <2>1. netbox[v] # None
    BY DEF TypeOK, Version
  <2>2. /\ status[v] # "active" => applied'[v] = None
        /\ status[v] = "active" /\ t[v] # None => applied'[v] = t[v]
    BY DEF Program
  <2>3. status[v] = "active" => t[v] = netbox[v]
    BY DEF Right
  <2>4. QED BY <2>1, <2>2, <2>3 DEF Wanted
<1>2. applied' \in [VMs -> Version \cup {None}]
  BY DEF Program, Table
<1>3. QED BY <1>1, <1>2 DEF Wanted

\* What is on its way to the cache stays right.
LEMMA StepRight ==
  TypeOK /\ FetchRight /\ DeltasRight /\ [Next]_vars /\ AtRest => FetchRight' /\ DeltasRight'
<1> SUFFICES ASSUME TypeOK, FetchRight, DeltasRight, [Next]_vars, AtRest
             PROVE  FetchRight' /\ DeltasRight'
  OBVIOUS
<1>0. /\ netbox' = netbox /\ deltas \in Seq(VMs \X Version)
      /\ \A v \in VMs : status'[v] = "active" <=> status[v] = "active"
  BY ActiveRests DEF AtRest, TypeOK
<1>1. ASSUME loop' = loop PROVE FetchRight'
  BY <1>0, <1>1 DEF FetchRight, Right
<1>2. ASSUME deltas' = deltas PROVE DeltasRight'
  <2>1. \A i \in 1 .. Len(deltas) : deltas[i][1] \in VMs
    BY <1>0
  <2>2. QED BY <1>0, <1>2, <2>1 DEF DeltasRight
<1>3. CASE Outside
  <2>1. ASSUME NEW v \in VMs, NetBoxChanges(v) PROVE FALSE
    <3>1. netbox'[v] = netbox[v] + 1 /\ netbox[v] \in Nat
      BY <2>1 DEF NetBoxChanges, TypeOK, Version
    <3>2. QED BY <1>0, <3>1
  <2>2. Ticker \/ TimePasses
    BY <1>3, <2>1 DEF Outside, WebhookQueued, WebhookRefused, WebhookLost
  <2>3. QED BY <1>1, <1>2, <2>2 DEF Ticker, TimePasses, queues
<1>4. CASE Events
  BY <1>1, <1>2, <1>4 DEF Events, MigrationEvent, LifecycleEvent, Snapshot, SnapshotComplete,
                          queues
<1>5. CASE HandlerApplies \/ VerifyLater \/ TimerFires \/ TimerTriggers \/ TakeTick
  BY <1>1, <1>2, <1>5 DEF HandlerApplies, VerifyLater, TimerFires, TimerTriggers, TakeTick,
                          queues
<1>6. CASE TakeDelta
  <2>1. deltas # <<>> /\ deltas' = Tail(deltas) /\ loop' = loop
    BY <1>6 DEF TakeDelta
  <2>2. /\ \A i \in 1 .. Len(deltas') : i + 1 \in 1 .. Len(deltas) /\ deltas'[i] = deltas[i + 1]
        /\ \A i \in 1 .. Len(deltas) : deltas[i][1] \in VMs
    BY <1>0, <2>1
  <2>3. DeltasRight'
    BY <1>0, <2>2 DEF DeltasRight
  <2>4. QED BY <1>1, <2>1, <2>3
<1>7. CASE FetchBegin
  <2>1. loop'.pc = "asking" /\ deltas' = deltas
    BY <1>7 DEF FetchBegin, At
  <2>2. QED BY <1>2, <2>1 DEF FetchRight
<1>8. CASE FetchReads
  <2>1. loop'.table = netbox /\ deltas' = deltas
    BY <1>8 DEF FetchReads, At, queues
  <2>2. QED BY <1>0, <1>2, <2>1 DEF FetchRight, Right
<1>9. CASE FetchReturns
  <2>1. loop.pc = "read" /\ loop'.table = loop.table /\ deltas' = deltas
    BY <1>9 DEF FetchReturns, queues, TypeOK
  <2>2. QED BY <1>0, <1>2, <2>1 DEF FetchRight, Right
<1>10. CASE FetchApplied
  <2>1. loop'.pc = "select" /\ deltas' = deltas
    BY <1>10 DEF FetchApplied, At, queues
  <2>2. QED BY <1>2, <2>1 DEF FetchRight
<1>11. CASE FetchFails
  BY <1>11 DEF FetchFails, AtRest, TypeOK
<1>12. CASE UNCHANGED vars
  BY <1>1, <1>2, <1>12 DEF vars, queues
<1>13. QED
  BY <1>3, <1>4, <1>5, <1>6, <1>7, <1>8, <1>9, <1>10, <1>11, <1>12 DEF Next, Fetch

\* A fetch that is applied while it is right catches up.
LEMMA AppliedCatchesUp ==
  ASSUME TypeOK, FetchRight, DeltasRight, [Next]_vars, AtRest, FetchApplied
  PROVE  CaughtUp'
<1>1. /\ loop.pc = "returned" /\ cache' = loop.table /\ ready' /\ Program(loop.table)
      /\ netbox' = netbox /\ Wanted' = Wanted
  BY DEF FetchApplied, AtRest
<1>2. Right(loop.table)
  BY <1>1 DEF FetchRight
<1>3. applied' = Wanted /\ FetchRight' /\ DeltasRight'
  BY <1>1, <1>2, RightProgram, StepRight
<1>4. Right(cache)'
  BY <1>1, <1>2, ActiveRests DEF Right
<1>5. QED BY <1>1, <1>3, <1>4 DEF CaughtUp

LEMMA StepCatchingUp ==
  TypeOK /\ CatchingUp /\ [Next]_vars /\ AtRest => CatchingUp' \/ CaughtUp'
<1> SUFFICES ASSUME TypeOK, CatchingUp, [Next]_vars, AtRest, ~FetchApplied PROVE CatchingUp'
  BY AppliedCatchesUp DEF CatchingUp
<1>1. FetchRight' /\ DeltasRight'
  BY StepRight DEF CatchingUp
<1> SUFFICES loop'.pc # "select"
  BY <1>1 DEF CatchingUp
<1>2. loop.pc # "select"
  BY DEF CatchingUp
<1>3. ~FetchFails
  BY DEF FetchFails, AtRest, TypeOK
<1>4. CASE Outside \/ Events
  BY <1>2, <1>4
  DEF Outside, WebhookQueued, WebhookRefused, WebhookLost, NetBoxChanges, Ticker, TimePasses,
      Events, MigrationEvent, LifecycleEvent, Snapshot, SnapshotComplete
<1>5. CASE HandlerApplies \/ VerifyLater \/ TimerFires \/ TimerTriggers
  BY <1>2, <1>5 DEF HandlerApplies, VerifyLater, TimerFires, TimerTriggers
<1>6. CASE TakeTick \/ TakeDelta \/ FetchBegin
  BY <1>2, <1>6 DEF TakeTick, TakeDelta, FetchBegin
<1>7. CASE FetchReads
  BY <1>7 DEF FetchReads, At
<1>8. CASE FetchReturns
  BY <1>8 DEF FetchReturns, TypeOK
<1>9. CASE UNCHANGED vars
  BY <1>2, <1>9 DEF vars
<1>10. QED BY <1>2, <1>3, <1>4, <1>5, <1>6, <1>7, <1>8, <1>9 DEF Next, Fetch

LEMMA StepCaughtUp == TypeOK /\ CaughtUp /\ [Next]_vars /\ AtRest => CaughtUp'
<1> SUFFICES ASSUME TypeOK, CaughtUp, [Next]_vars, AtRest PROVE CaughtUp'
  OBVIOUS
<1>0. netbox' = netbox /\ Wanted' = Wanted
  BY DEF AtRest
<1>1. applied = Wanted /\ ready /\ Right(cache) /\ FetchRight /\ DeltasRight
  BY DEF CaughtUp
<1>2. FetchRight' /\ DeltasRight'
  BY <1>1, StepRight
<1>3. ASSUME cache' = cache PROVE Right(cache)'
  BY <1>0, <1>1, <1>3, ActiveRests DEF Right
<1>4. ASSUME UNCHANGED <<cache, ready, applied>> PROVE CaughtUp'
  BY <1>0, <1>1, <1>2, <1>3, <1>4 DEF CaughtUp
<1>5. CASE Outside
  BY <1>4, <1>5 DEF Outside, WebhookQueued, WebhookRefused, WebhookLost, NetBoxChanges, Ticker,
                    TimePasses, programmed
<1>6. CASE Events
  BY <1>4, <1>6 DEF Events, MigrationEvent, LifecycleEvent, Snapshot, SnapshotComplete,
                    programmed
<1>7. CASE HandlerApplies
  <2>1. Program(cache) /\ UNCHANGED <<cache, ready>>
    BY <1>1, <1>7 DEF HandlerApplies
  <2>2. applied' = Wanted
    BY <1>1, <2>1, RightProgram
  <2>3. QED BY <1>0, <1>1, <1>2, <1>3, <2>1, <2>2 DEF CaughtUp
<1>8. CASE VerifyLater \/ TimerFires \/ TimerTriggers \/ TakeTick \/ FetchBegin
  BY <1>4, <1>8 DEF VerifyLater, TimerFires, TimerTriggers, TakeTick, FetchBegin, programmed
<1>9. CASE TakeDelta
  <2> DEFINE x == Head(deltas)[1]
             n == Head(deltas)[2]
  <2>1. /\ deltas # <<>> /\ ready' /\ cache' = [cache EXCEPT ![x] = n]
        /\ applied' = [v \in VMs |-> IF status[v] = "active" THEN cache'[v] ELSE None]
    BY <1>9 DEF TakeDelta
  <2>2. /\ 1 \in 1 .. Len(deltas) /\ Head(deltas) = deltas[1] /\ deltas[1][1] \in VMs
    BY <2>1 DEF TypeOK
  <2>3. status[x] = "active" => n = netbox[x]
    BY <1>1, <2>2 DEF DeltasRight
  <2>4. cache'[x] = n /\ \A v \in VMs : v # x => cache'[v] = cache[v]
    BY <2>1, <2>2 DEF TypeOK, Table
  <2> HIDE DEF x, n
  <2>5. \A v \in VMs : status[v] = "active" => cache'[v] = netbox[v]
    BY <1>1, <2>3, <2>4 DEF Right
  <2>6. applied' = Wanted
    BY <2>1, <2>5 DEF Wanted
  <2>7. Right(cache)'
    BY <1>0, <2>5, ActiveRests DEF Right
  <2>8. QED BY <1>0, <1>2, <2>1, <2>6, <2>7 DEF CaughtUp
<1>10. CASE FetchReads \/ FetchReturns
  BY <1>4, <1>10 DEF FetchReads, FetchReturns, programmed
<1>11. CASE FetchApplied
  BY <1>1, <1>11, AppliedCatchesUp
<1>12. CASE FetchFails
  BY <1>12 DEF FetchFails, AtRest, TypeOK
<1>13. CASE UNCHANGED vars
  BY <1>4, <1>13 DEF vars, programmed
<1>14. QED
  BY <1>5, <1>6, <1>7, <1>8, <1>9, <1>10, <1>11, <1>12, <1>13 DEF Next, Fetch

\* A fetch that is under way while NetBox and the VMs here rest makes the program
\* right as soon as it is applied, and from then on nothing but a change or a
\* failing fetch makes it wrong: no late delta, cutover from the cache, tick, timer
\* or later fetch (reconciler.go:378-401, 672-697).
THEOREM StaysRight ==
  Spec => /\ [](CaughtUp /\ [][AtRest]_vars => [](applied = Wanted))
          /\ [](CatchingUp /\ [][AtRest]_vars => [](loop.pc = "select" => applied = Wanted))
<1>1. UNCHANGED vars => Wanted' = Wanted /\ UNCHANGED <<netbox, faults>>
  BY DEF vars, Wanted, bounds
<1>2. [AtRest]_vars => AtRest
  BY <1>1 DEF AtRest
<1>3. TInv /\ CaughtUp /\ [Next]_vars /\ [AtRest]_vars => CaughtUp'
  BY <1>2, StepCaughtUp DEF TInv
<1>4. TInv /\ CatchingUp /\ [Next]_vars /\ [AtRest]_vars => CatchingUp' \/ CaughtUp'
  BY <1>2, StepCatchingUp DEF TInv
<1>5. /\ CaughtUp => applied = Wanted
      /\ CatchingUp => (loop.pc = "select" => applied = Wanted)
  BY DEF CaughtUp, CatchingUp
<1>6. QED BY <1>3, <1>4, <1>5, TypedAlways, PTL DEF Spec
=============================================================================
