---------------------------- MODULE BackupStore -----------------------------
(***************************************************************************)
(* The per-VM backup files and the goroutine that writes them              *)
(* (internal/reconciler/backup.go).                                        *)
(*                                                                         *)
(* Callers only touch memory: enqueue records the wanted bytes under the   *)
(* mutex and nudges the flusher afterwards.  The flusher takes all pending *)
(* entries as one batch, performs the file operations with the mutex       *)
(* released and records each outcome under it.  close asks the flusher to  *)
(* drain; closers are other goroutines.                                    *)
(*                                                                         *)
(* There is one caller of save and load at a time.  In the code that is so *)
(* as far as they are called under reconcileMu; the apply that follows a   *)
(* failed NetBox fetch (reconciler.go:670) calls both without it, and its  *)
(* calls beside those of a migration handler are not modelled here.        *)
(*                                                                         *)
(* Delays (the debounce and the retry backoff) are not modelled: a timer   *)
(* that fires is a step.  pmxcfs is external: an operation takes effect or *)
(* fails, and a rename is atomic.                                          *)
(***************************************************************************)
EXTENDS BackupEntry, Naturals, Sequences

CONSTANTS
  VMs,
  Closers,       \* goroutines that call close
  WarmOutcomes,  \* how warm may end: "ok", "scan_failed", "unreadable"
  MaxFaults,     \* bound: file operations that fail
  MaxCrashes     \* bound: crashes of the process

ASSUME BackupAssumption ==
  /\ WarmOutcomes \subseteq {"ok", "scan_failed", "unreadable"}
  /\ MaxFaults \in Nat /\ MaxCrashes \in Nat
  /\ None \notin [vm: VMs, ok: BOOLEAN]

VARIABLES
  disk,      \* the files
  cache,     \* cache and known
  pending,   \* pending
  batch,     \* flush's batch: entries taken and not yet recorded
  outcome,   \* the file operation flush has done and not yet recorded
  failed,    \* flush's ok, negated
  scanned,   \* dirScanned
  started, closed, wake, stop,
  flusher,   \* where the flusher goroutine is
  caller,    \* where the current caller of save or load is
  closer,    \* where each caller of close is
  booted,    \* warm has run
  faults, crashes

vars == <<disk, cache, pending, batch, outcome, failed, scanned, started, closed,
          wake, stop, flusher, caller, closer, booted, faults, crashes>>

Idle == [at |-> "idle"]
Reading(v, d) == [at |-> "read", vm |-> v, data |-> d]

TypeOK ==
  /\ disk \in [VMs -> Value]
  /\ cache \in [VMs -> Value \cup {Unknown}]
  /\ pending \in [VMs -> Value \cup {None}]
  /\ batch \in [VMs -> Value \cup {None}]
  /\ outcome \in {None} \cup [vm: VMs, ok: BOOLEAN]
  /\ failed \in BOOLEAN /\ scanned \in BOOLEAN /\ started \in BOOLEAN
  /\ closed \in BOOLEAN /\ wake \in BOOLEAN /\ stop \in BOOLEAN /\ booted \in BOOLEAN
  /\ flusher \in {"none", "waiting", "debounce", "flushing", "draining", "done"}
  /\ caller \in {Idle} \cup [at: {"signal"}, spawn: BOOLEAN]
                       \cup [at: {"read"}, vm: VMs, data: Value]
  /\ closer \in [Closers -> {"idle", "stopping", "waiting", "drained", "undrained", "expired"}]
  /\ faults \in Nat /\ crashes \in Nat

NoEntries == [v \in VMs |-> None]

\* newBackupStore
Init ==
  /\ disk \in [VMs -> Value]
  /\ cache = [v \in VMs |-> Unknown]
  /\ pending = NoEntries /\ batch = NoEntries /\ outcome = None
  /\ failed = FALSE /\ scanned = FALSE
  /\ started = FALSE /\ closed = FALSE /\ wake = FALSE /\ stop = FALSE
  /\ flusher = "none"
  /\ caller = Idle
  /\ closer = [c \in Closers |-> "idle"]
  /\ booted = FALSE
  /\ faults = 0 /\ crashes = 0

-----------------------------------------------------------------------------
(* Callers *)

\* warm, called once by Prime before anything else uses the store.  The files
\* it cannot read stay unknown although the directory counts as scanned.
Warm(result, unread) ==
  /\ ~booted
  /\ booted' = TRUE
  /\ result \in WarmOutcomes
  /\ unread # {} <=> result = "unreadable"
  /\ IF result = "scan_failed"
     THEN UNCHANGED <<cache, scanned>>
     ELSE /\ scanned' = TRUE
          /\ cache' = [v \in VMs |->
               IF disk[v] = Nil \/ v \in unread \/ pending[v] # None THEN cache[v] ELSE disk[v]]
  /\ UNCHANGED <<disk, pending, batch, outcome, failed, started, closed, wake, stop,
                 flusher, caller, closer, faults, crashes>>

\* save (d a file's contents) and delete (d = Nil), up to the unlock.
Enqueue(v, d) ==
  /\ booted /\ caller = Idle
  /\ ~closed
  /\ ~Redundant(pending[v], cache[v], d)
  /\ pending' = [pending EXCEPT ![v] = Enqueued(@, cache[v], d)]
  /\ started' = TRUE
  /\ caller' = [at |-> "signal", spawn |-> ~started]
  /\ UNCHANGED <<disk, cache, batch, outcome, failed, scanned, closed, wake, stop,
                 flusher, closer, booted, faults, crashes>>

\* A request that is redundant, or that comes after close, changes nothing.
EnqueueDropped(v, d) ==
  /\ booted /\ caller = Idle
  /\ closed \/ Redundant(pending[v], cache[v], d)
  /\ UNCHANGED vars

\* The rest of enqueue: start the flusher if this was the first request, and
\* nudge it; the channel holds one nudge.
Signal ==
  /\ caller.at = "signal"
  /\ flusher' = IF caller.spawn THEN "waiting" ELSE flusher
  /\ wake' = TRUE
  /\ caller' = Idle
  /\ UNCHANGED <<disk, cache, pending, batch, outcome, failed, scanned, started, closed,
                 stop, closer, booted, faults, crashes>>

\* load of an entry that is not in memory, when warm could not scan: the file
\* is read with the mutex released, beside the flusher but no other caller ...
ReadFile(v) ==
  /\ booted /\ caller = Idle
  /\ InMemory(pending[v], cache[v]) = Unknown /\ ~scanned
  /\ caller' = Reading(v, disk[v])
  /\ UNCHANGED <<disk, cache, pending, batch, outcome, failed, scanned, started, closed,
                 wake, stop, flusher, closer, booted, faults, crashes>>

\* ... and what was read is cached, whatever happened in between.
CacheRead ==
  /\ caller.at = "read"
  /\ cache' = [cache EXCEPT ![caller.vm] = caller.data]
  /\ caller' = Idle
  /\ UNCHANGED <<disk, pending, batch, outcome, failed, scanned, started, closed,
                 wake, stop, flusher, closer, booted, faults, crashes>>

-----------------------------------------------------------------------------
(* The flusher *)

\* flush, first critical section: all pending entries become the batch.
TakePending ==
  /\ batch' = pending
  /\ pending' = NoEntries

Woken ==
  /\ flusher = "waiting" /\ wake
  /\ flusher' = "debounce"
  /\ wake' = FALSE
  /\ UNCHANGED <<disk, cache, pending, batch, outcome, failed, scanned, started, closed,
                 stop, caller, closer, booted, faults, crashes>>

FlushBegin ==
  /\ flusher = "debounce"
  /\ TakePending
  /\ flusher' = "flushing"
  /\ UNCHANGED <<disk, cache, outcome, failed, scanned, started, closed, wake, stop,
                 caller, closer, booted, faults, crashes>>

\* Mutant of DrainBegin: the goroutine notes the drain in a state of its own.
DrainBeginUntyped ==
  /\ flusher \in {"waiting", "debounce"} /\ stop
  /\ TakePending
  /\ flusher' = "stopped"
  /\ UNCHANGED <<disk, cache, outcome, failed, scanned, started, closed, wake, stop,
                 caller, closer, booted, faults, crashes>>

\* Both of run's selects also watch stop; the last flush precedes the exit.
DrainBegin ==
  /\ flusher \in {"waiting", "debounce"} /\ stop
  /\ TakePending
  /\ flusher' = "draining"
  /\ UNCHANGED <<disk, cache, outcome, failed, scanned, started, closed, wake, stop,
                 caller, closer, booted, faults, crashes>>

\* writeFile or removeFile for one entry of the batch.
WriteEntry(v, ok) ==
  /\ flusher \in {"flushing", "draining"}
  /\ outcome = None /\ batch[v] # None
  /\ outcome' = [vm |-> v, ok |-> ok]
  /\ IF ok
     THEN /\ disk' = [disk EXCEPT ![v] = batch[v]]
          /\ UNCHANGED <<failed, faults>>
     ELSE /\ faults < MaxFaults
          /\ faults' = faults + 1
          /\ failed' = TRUE
          /\ UNCHANGED disk
  /\ UNCHANGED <<cache, pending, batch, scanned, started, closed, wake, stop, flusher,
                 caller, closer, booted, crashes>>

\* Mutant of RecordEntry: a failure is recorded like a success.
RecordAlwaysStored ==
  /\ outcome # None
  /\ batch' = [batch EXCEPT ![outcome.vm] = None]
  /\ cache' = [cache EXCEPT ![outcome.vm] = batch[outcome.vm]]
  /\ outcome' = None
  /\ UNCHANGED <<disk, pending, failed, scanned, started, closed, wake, stop, flusher,
                 caller, closer, booted, faults, crashes>>

\* Mutant of RecordEntry: a failed entry is queued again over a newer one.
RecordRequeueAlways ==
  /\ outcome # None
  /\ LET v == outcome.vm IN
       /\ batch' = [batch EXCEPT ![v] = None]
       /\ cache' = [cache EXCEPT ![v] = IF outcome.ok THEN batch[v] ELSE Unknown]
       /\ pending' = [pending EXCEPT ![v] = IF outcome.ok THEN @ ELSE batch[v]]
  /\ outcome' = None
  /\ UNCHANGED <<disk, failed, scanned, started, closed, wake, stop, flusher, caller,
                 closer, booted, faults, crashes>>

\* flush, the critical section after a file operation: a failed entry is
\* queued again unless a newer request took its place.
RecordEntry ==
  /\ outcome # None
  /\ LET v == outcome.vm IN
       /\ batch' = [batch EXCEPT ![v] = None]
       /\ IF outcome.ok
          THEN /\ cache' = [cache EXCEPT ![v] = batch[v]]
               /\ UNCHANGED pending
          ELSE /\ cache' = [cache EXCEPT ![v] = Unknown]
               /\ pending' = [pending EXCEPT ![v] = IF @ = None THEN batch[v] ELSE @]
  /\ outcome' = None
  /\ UNCHANGED <<disk, failed, scanned, started, closed, wake, stop, flusher, caller,
                 closer, booted, faults, crashes>>

BatchDone == batch = NoEntries /\ outcome = None

\* Mutant of FlushEnd: a failed flush does not nudge.
FlushEndSilent ==
  /\ flusher = "flushing" /\ BatchDone
  /\ flusher' = "waiting"
  /\ failed' = FALSE
  /\ UNCHANGED <<disk, cache, pending, batch, outcome, scanned, started, closed, wake,
                 stop, caller, closer, booted, faults, crashes>>

\* A flush with a failure nudges the flusher again.
FlushEnd ==
  /\ flusher = "flushing" /\ BatchDone
  /\ flusher' = "waiting"
  /\ wake' = (wake \/ failed)
  /\ failed' = FALSE
  /\ UNCHANGED <<disk, cache, pending, batch, outcome, scanned, started, closed,
                 stop, caller, closer, booted, faults, crashes>>

DrainEnd ==
  /\ flusher = "draining" /\ BatchDone
  /\ flusher' = "done"
  /\ failed' = FALSE
  /\ UNCHANGED <<disk, cache, pending, batch, outcome, scanned, started, closed,
                 wake, stop, caller, closer, booted, faults, crashes>>

-----------------------------------------------------------------------------
(* close *)

MoveCloser(c, to) ==
  /\ closer' = [closer EXCEPT ![c] = to]
  /\ UNCHANGED <<disk, cache, pending, batch, outcome, failed, scanned, started, wake,
                 flusher, caller, booted, faults, crashes>>

\* Mutant of CloseBegin: a second close reports success without waiting.
CloseBeginTwice(c) ==
  /\ closer[c] \notin {"stopping", "waiting"}
  /\ closed' = TRUE
  /\ MoveCloser(c, IF closed \/ ~started THEN "drained" ELSE "stopping")
  /\ UNCHANGED stop

\* Mutant of CloseBegin: waits for a flusher that was never started.
CloseBeginBlind(c) ==
  /\ closer[c] \notin {"stopping", "waiting"}
  /\ closed' = TRUE
  /\ MoveCloser(c, IF closed THEN "waiting" ELSE "stopping")
  /\ UNCHANGED stop

\* The critical section; a goroutine whose close has returned may close again.
\* With no flusher nothing can be pending and close returns at once; only the
\* first closer will close the stop channel.
CloseBegin(c) ==
  /\ closer[c] \notin {"stopping", "waiting"}
  /\ closed' = TRUE
  /\ MoveCloser(c, IF ~started THEN "drained" ELSE IF closed THEN "waiting" ELSE "stopping")
  /\ UNCHANGED stop

CloseStop(c) ==
  /\ closer[c] = "stopping"
  /\ stop' = TRUE
  /\ MoveCloser(c, "waiting")
  /\ UNCHANGED closed

\* The flusher has exited: an error is returned if entries are still pending.
CloseDone(c) ==
  /\ closer[c] = "waiting" /\ flusher = "done"
  /\ MoveCloser(c, IF pending = NoEntries THEN "drained" ELSE "undrained")
  /\ UNCHANGED <<closed, stop>>

CloseExpire(c) ==
  /\ closer[c] = "waiting"
  /\ MoveCloser(c, "expired")
  /\ UNCHANGED <<closed, stop>>

\* The process dies and starts again with the files it left.
Crash ==
  /\ crashes < MaxCrashes
  /\ crashes' = crashes + 1
  /\ cache' = [v \in VMs |-> Unknown]
  /\ pending' = NoEntries /\ batch' = NoEntries /\ outcome' = None
  /\ failed' = FALSE /\ scanned' = FALSE
  /\ started' = FALSE /\ closed' = FALSE /\ wake' = FALSE /\ stop' = FALSE
  /\ flusher' = "none"
  /\ caller' = Idle
  /\ closer' = [c \in Closers |-> "idle"]
  /\ booted' = FALSE
  /\ UNCHANGED <<disk, faults>>

Flusher ==
  \/ Woken
  \/ FlushBegin
  \/ DrainBegin
  \/ \E v \in VMs, ok \in BOOLEAN : WriteEntry(v, ok)
  \/ RecordEntry
  \/ FlushEnd
  \/ DrainEnd

Close(c) ==
  \/ CloseBegin(c)
  \/ CloseStop(c)
  \/ CloseDone(c)
  \/ CloseExpire(c)

Next ==
  \/ \E result \in WarmOutcomes, unread \in SUBSET VMs : Warm(result, unread)
  \/ \E v \in VMs, d \in Value : Enqueue(v, d)
  \/ \E v \in VMs, d \in Value : EnqueueDropped(v, d)
  \/ Signal
  \/ \E v \in VMs : ReadFile(v)
  \/ CacheRead
  \/ Flusher
  \/ \E c \in Closers : Close(c)
  \/ Crash

Spec == Init /\ [][Next]_vars

\* Goroutines that can run do run, and a running timer fires.  Nothing obliges
\* a caller to enqueue or to close.
Fairness ==
  /\ WF_vars(Signal)
  /\ WF_vars(CacheRead)
  /\ WF_vars(Flusher)
  /\ \A c \in Closers : WF_vars(CloseStop(c)) /\ WF_vars(CloseDone(c))

FairSpec == Spec /\ Fairness
-----------------------------------------------------------------------------
(* Properties *)

\* What load would answer for v now.
LoadValue(v) == LoadedFrom(pending[v], cache[v], scanned, disk[v])

InFlight(v) == pending[v] # None \/ batch[v] # None

\* After a successful scan, memory and disk agree on every VM with nothing in
\* flight, whichever writes failed or were superseded on the way: what load
\* answers is what is stored, so the "already on disk" and "warm proved it is
\* absent" shortcuts (backup.go:166, 282) are right about such a VM.
QuietLoadIsDisk == scanned => \A v \in VMs : ~InFlight(v) => LoadValue(v) = disk[v]

\* close returning nil means every accepted request has been written
\* (backup.go:427-428), whatever was enqueued while it was shutting down.
DrainedMeansWritten ==
  \A c \in Closers : closer[c] = "drained" => \A v \in VMs : ~InFlight(v)

\* Where a request waits, the flusher has yet to look: it is nudged, about to be
\* nudged or about to look, and after a close only a failed write leaves a request
\* behind (backup.go:289-296, 310-341).
NoWakeupLost ==
  pending # NoEntries =>
    /\ flusher = "none" => caller.at = "signal"
    /\ flusher = "waiting" => wake \/ caller.at = "signal"
    /\ flusher = "flushing" => wake \/ failed \/ caller.at = "signal"
    /\ flusher = "draining" => failed
    /\ flusher = "done" => faults > 0

\* A close waits only for a flusher that was started, or is being started, and
\* that is told to stop (backup.go:434-449).
NoVainWait ==
  \A c \in Closers : closer[c] = "waiting" =>
    /\ flusher # "none" \/ (caller.at = "signal" /\ caller.spawn)
    /\ stop \/ \E d \in Closers : closer[d] = "stopping"

\* Whoever depends on the flusher gets it: no interleaving of requests, failing
\* flushes and closes leaves a request or a close to a goroutine that sleeps on,
\* or that there never is (backup.go:289-341, 427-449).
FlusherComes == NoWakeupLost /\ NoVainWait

\* Every accepted request is written unless a newer one supersedes it: no
\* wake-up is lost between enqueue, the debounce, a failing flush and its
\* retry.  Only a drain that failed or a crash leaves a request behind.
EventuallyWritten ==
  \A v \in VMs, d \in Value :
    pending[v] = d ~> \/ disk[v] = d /\ batch[v] = None
                      \/ pending[v] \notin {d, None}
                      \/ flusher = "done"
                      \/ ~booted

\* A close always returns, also a second one (backup.go:57-59, 427-428), without
\* waiting for its context.
CloseReturns ==
  \A c \in Closers : closer[c] \in {"stopping", "waiting"} ~>
                       closer[c] \notin {"stopping", "waiting"}

\* The files change only as WriteQueue allows: requests are coalesced, never
\* reordered, and the newest accepted one is never given up for an older.
Written(v) == outcome # None /\ outcome.vm = v /\ outcome.ok
Queue == [v \in VMs |->
  (IF batch[v] # None /\ ~Written(v) THEN <<batch[v]>> ELSE <<>>)
    \o (IF pending[v] # None THEN <<pending[v]>> ELSE <<>>)]
Promise == INSTANCE WriteQueue WITH file <- disk, queue <- Queue
ImplementsWriteQueue == Promise!Spec
=============================================================================
