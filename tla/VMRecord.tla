------------------------------ MODULE VMRecord ------------------------------
(***************************************************************************)
(* The per-VM entry of the placement store (internal/state/store.go) and   *)
(* the pure effect of each store operation on one entry.  The store treats *)
(* VMs independently and runs each operation under its own mutex, so an    *)
(* operation on the store is one of these operators applied to one entry.  *)
(*                                                                         *)
(* Times are naturals; 0 is Go's zero time.  Every time handed to the      *)
(* store is nonzero: HandleEvent substitutes time.Now() for a timestamp it *)
(* cannot parse.                                                           *)
(***************************************************************************)
EXTENDS Integers

Status == {"none", "absent", "staged", "active"}   \* "none": no map entry

Record == [status: Status, lastEvent: Nat, observedAt: Nat, stagedAt: Nat]

NoRecord == [status |-> "none", lastEvent |-> 0, observedAt |-> 0, stagedAt |-> 0]

\* Mutant of Stale: every lifecycle write counts as fresh.
LifecycleNeverStale(r, t, obs) == r.status # "none" /\ r.lastEvent > t /\ obs # 0

\* A write is stale when the entry is newer, unless it is a lifecycle write
\* (obs = 0) over an entry that a snapshot produced.
Stale(r, t, obs) ==
  /\ r.status # "none"
  /\ r.lastEvent > t
  /\ ~(obs = 0 /\ r.observedAt > 0)

\* Store.set
SetRecord(r, status, t, obs) ==
  IF Stale(r, t, obs)
  THEN r
  ELSE [status     |-> status,
        lastEvent  |-> t,
        observedAt |-> obs,
        stagedAt   |-> IF status = "staged" THEN r.stagedAt ELSE 0]

\* Mutant of StageRecord: stamps without looking at the resulting status.
StampAlways(r, t) == [SetRecord(r, "staged", t, 0) EXCEPT !.stagedAt = t]

\* Store.SetStaged: stamps StagedAt whenever the entry ends up staged, also
\* when the write itself was rejected as stale.
StageRecord(r, t) ==
  LET n == SetRecord(r, "staged", t, 0)
  IN  IF n.status = "staged" THEN [n EXCEPT !.stagedAt = t] ELSE n

\* Mutant of SnapshotRecord: only running guests are recorded.
RecordRunningOnly(r, running, obs) ==
  IF r.observedAt > obs \/ ~running THEN r ELSE SetRecord(r, "active", obs, obs)

\* Store.UpdateFromSnapshot
SnapshotRecord(r, running, obs) ==
  IF r.observedAt > obs THEN r
  ELSE IF r.status = "staged" /\ ~running THEN [r EXCEPT !.observedAt = obs]
  ELSE SetRecord(r, IF running THEN "active" ELSE "absent", obs, obs)

\* Mutant of ExpireRecord: leaves a status of its own behind.
ExpireToOther(r, cutoff) ==
  IF r.status = "staged" /\ r.stagedAt <= cutoff
  THEN [r EXCEPT !.status = "expired", !.stagedAt = 0]
  ELSE r

\* Store.ExpireStaged, for one entry
ExpireRecord(r, cutoff) ==
  IF r.status = "staged" /\ r.stagedAt # 0 /\ r.stagedAt <= cutoff
  THEN [r EXCEPT !.status = "absent", !.stagedAt = 0]
  ELSE r
=============================================================================
