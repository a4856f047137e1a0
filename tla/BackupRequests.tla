--------------------------- MODULE BackupRequests ---------------------------
(***************************************************************************)
(* BackupStore with a history variable: the value each VM was last asked   *)
(* to have on disk by save or delete while the store was open, including   *)
(* the requests enqueue drops as already satisfied.                        *)
(***************************************************************************)
EXTENDS BackupStore

VARIABLE asked

Ask(v, d) ==
  /\ Enqueue(v, d) \/ (EnqueueDropped(v, d) /\ ~closed)
  /\ asked' = [asked EXCEPT ![v] = d]

Rest ==
  \/ Signal
  \/ \E v \in VMs : ReadFile(v)
  \/ CacheRead
  \/ Flusher
  \/ \E c \in Closers : Close(c)

AskedInit == Init /\ asked = disk

AskedNext ==
  \/ \E v \in VMs, d \in Value : Ask(v, d)
  \/ Rest /\ UNCHANGED asked
  \/ \E result \in WarmOutcomes : Warm(result, {}) /\ UNCHANGED asked

AskedSpec == AskedInit /\ [][AskedNext]_<<vars, asked>>

\* backup.go:280-282 drops a request because its value is "already on disk", and
\* backup.go:229-231 promises that save "never fails: write errors are retried"
\* and that only "an unchanged payload is dropped": with nothing in flight, the
\* file holds what was last asked for.
LastRequestOnDisk ==
  scanned => \A v \in VMs : ~InFlight(v) => disk[v] = asked[v]
=============================================================================
