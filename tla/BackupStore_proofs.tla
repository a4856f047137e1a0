------------------------- MODULE BackupStore_proofs -------------------------
(***************************************************************************)
(* Proofs about the backup store, for any VMs, file contents, closers and  *)
(* numbers of failures and crashes: its type invariant, that a nil close   *)
(* means nothing is left unwritten, that memory tells the truth about      *)
(* every VM with nothing in flight, and that whoever waits for the flusher *)
(* is attended to; and that per VM the store is a WriteQueue, whose queue  *)
(* is the unwritten entry of the batch followed by the pending one.        *)
(***************************************************************************)
EXTENDS BackupStore, SequenceTheorems, TLAPS

\* Nothing is queued before the flusher has been asked for, and it is started
\* only once.
FlusherOwned ==
  /\ caller.at = "signal" /\ caller.spawn => flusher = "none"
  /\ ~started => pending = NoEntries /\ flusher = "none" /\ caller.at # "signal"
  /\ flusher \notin {"flushing", "draining"} => batch = NoEntries

\* An operation not yet recorded belongs to an entry of the batch, and one that
\* succeeded has put that entry's value on disk.
OutcomeOwned ==
  outcome # None =>
    /\ batch[outcome.vm] # None
    /\ outcome.ok => disk[outcome.vm] = batch[outcome.vm]

\* A drained store is closed and empty, so nothing can be in flight again.
Drained ==
  \A c \in Closers :
    /\ closer[c] # "idle" => closed
    /\ closer[c] = "drained" => pending = NoEntries /\ batch = NoEntries

IInv == TypeOK /\ FlusherOwned /\ OutcomeOwned /\ Drained

\* Before warm the store has never been used.
Unused ==
  ~booted => /\ cache = [v \in VMs |-> Unknown]
             /\ pending = NoEntries /\ ~started /\ ~scanned /\ caller = Idle

\* Once the directory has been scanned no load reads a file, and a VM with
\* nothing in flight is known or has no file.
Truthful ==
  /\ scanned => caller.at # "read"
  /\ scanned => \A v \in VMs :
       ~InFlight(v) => \/ cache[v] = Unknown /\ disk[v] = Nil
                       \/ cache[v] # Unknown /\ cache[v] = disk[v]

LEMMA IdleTyped == Idle.at = "idle"
  BY DEF Idle

LEMMA InitIInv == Init => IInv
<1> SUFFICES ASSUME Init PROVE IInv
  OBVIOUS
<1>1. TypeOK
  BY EntryAssumption DEF Init, TypeOK, NoEntries, Value
<1>2. FlusherOwned /\ OutcomeOwned /\ Drained
  BY IdleTyped DEF Init, FlusherOwned, OutcomeOwned, Drained
<1>3. QED BY <1>1, <1>2 DEF IInv

LEMMA NextIInv == IInv /\ [Next]_vars => IInv'
<1> SUFFICES ASSUME IInv, [Next]_vars PROVE IInv'
  OBVIOUS
<1> USE EntryAssumption DEF IInv, TypeOK, FlusherOwned, OutcomeOwned, Drained
<1>1. ASSUME NEW result \in WarmOutcomes, NEW unread \in SUBSET VMs, Warm(result, unread)
      PROVE  IInv'
  <2>1. cache' \in [VMs -> Value \cup {Unknown}]
    BY <1>1 DEF Warm
  <2>2. scanned' \in BOOLEAN
    BY <1>1 DEF Warm
  <2>3. QED BY <1>1, <2>1, <2>2 DEF Warm
<1>2. ASSUME NEW v \in VMs, NEW d \in Value, Enqueue(v, d)
      PROVE  IInv'
  BY <1>2 DEF Enqueue, Enqueued, Redundant, Value
<1>3. ASSUME NEW v \in VMs, NEW d \in Value, EnqueueDropped(v, d)
      PROVE  IInv'
  BY <1>3 DEF EnqueueDropped, vars
<1>4. CASE Signal
  <2>1. TypeOK'
    BY <1>4 DEF Signal
  <2>2. (FlusherOwned /\ OutcomeOwned /\ Drained)'
    BY <1>4, IdleTyped DEF Signal
  <2>3. QED BY <2>1, <2>2
<1>5. ASSUME NEW v \in VMs, ReadFile(v)
      PROVE  IInv'
  BY <1>5 DEF ReadFile, Reading
<1>6. CASE CacheRead
  BY <1>6 DEF CacheRead, Idle
<1>7. CASE Flusher
  <2>1. CASE Woken
    BY <2>1 DEF Woken
  <2>2. CASE FlushBegin
    BY <2>2 DEF FlushBegin, TakePending, NoEntries
  <2>3. CASE DrainBegin
    BY <2>3 DEF DrainBegin, TakePending, NoEntries
  <2>4. ASSUME NEW v \in VMs, NEW ok \in BOOLEAN, WriteEntry(v, ok)
        PROVE  IInv'
    <3>1. TypeOK'
      <4>1. [vm |-> v, ok |-> ok] \in [vm: VMs, ok: BOOLEAN]
        OBVIOUS
      <4>2. outcome' \in {None} \cup [vm: VMs, ok: BOOLEAN]
        BY <2>4, <4>1 DEF WriteEntry
      <4>3. disk' \in [VMs -> Value] /\ failed' \in BOOLEAN /\ faults' \in Nat
        <5>1. CASE ok
          BY <2>4, <5>1 DEF WriteEntry
        <5>2. CASE ~ok
          BY <2>4, <5>2 DEF WriteEntry
        <5>3. QED BY <5>1, <5>2
      <4>4. QED BY <2>4, <4>2, <4>3 DEF WriteEntry
    <3>2. (FlusherOwned /\ Drained)'
      BY <2>4 DEF WriteEntry
    <3>3. OutcomeOwned'
      BY <2>4 DEF WriteEntry
    <3>4. QED BY <3>1, <3>2, <3>3
  <2>5. CASE RecordEntry
    BY <2>5 DEF RecordEntry, NoEntries, Value
  <2>6. CASE FlushEnd
    BY <2>6 DEF FlushEnd, BatchDone
  <2>7. CASE DrainEnd
    BY <2>7 DEF DrainEnd, BatchDone
  <2>8. QED BY <1>7, <2>1, <2>2, <2>3, <2>4, <2>5, <2>6, <2>7 DEF Flusher
<1>8. ASSUME NEW c \in Closers, Close(c)
      PROVE  IInv'
  <2>1. CASE CloseBegin(c)
    BY <2>1 DEF CloseBegin, MoveCloser
  <2>2. CASE CloseStop(c)
    BY <2>2 DEF CloseStop, MoveCloser
  <2>3. CASE CloseDone(c)
    <3>1. batch = NoEntries
      BY <2>3 DEF CloseDone
    <3>2. CASE pending = NoEntries
      BY <2>3, <3>1, <3>2 DEF CloseDone, MoveCloser
    <3>3. CASE pending # NoEntries
      BY <2>3, <3>1, <3>3 DEF CloseDone, MoveCloser
    <3>4. QED BY <3>2, <3>3
  <2>4. CASE CloseExpire(c)
    BY <2>4 DEF CloseExpire, MoveCloser
  <2>5. QED BY <1>8, <2>1, <2>2, <2>3, <2>4 DEF Close
<1>9. CASE Crash
  <2>1. TypeOK'
    <3>1. /\ cache' \in [VMs -> Value \cup {Unknown}]
          /\ pending' \in [VMs -> Value \cup {None}]
          /\ batch' \in [VMs -> Value \cup {None}]
          /\ disk' \in [VMs -> Value]
      BY <1>9 DEF Crash, NoEntries
    <3>2. /\ closer' \in [Closers -> {"idle", "stopping", "waiting", "drained",
                                       "undrained", "expired"}]
          /\ crashes' \in Nat /\ faults' \in Nat
      BY <1>9, BackupAssumption DEF Crash
    <3>3. QED BY <1>9, <3>1, <3>2 DEF Crash
  <2>2. (FlusherOwned /\ OutcomeOwned /\ Drained)'
    BY <1>9, IdleTyped DEF Crash
  <2>3. QED BY <2>1, <2>2
<1>10. CASE UNCHANGED vars
  BY <1>10 DEF vars
<1>11. QED
  BY <1>1, <1>2, <1>3, <1>4, <1>5, <1>6, <1>7, <1>8, <1>9, <1>10 DEF Next

LEMMA Invariance == Spec => []IInv
  BY InitIInv, NextIInv, PTL DEF Spec

\* Every state of the backup store is well typed.
THEOREM TypeCorrect == Spec => []TypeOK
<1>1. IInv => TypeOK
  BY DEF IInv
<1>2. QED BY <1>1, Invariance, PTL

\* A close that returned nil left nothing unwritten, also later on.
THEOREM CloseCorrect == Spec => []DrainedMeansWritten
<1>1. IInv => DrainedMeansWritten
  BY DEF IInv, Drained, DrainedMeansWritten, InFlight, NoEntries
<1>2. QED BY <1>1, Invariance, PTL

-----------------------------------------------------------------------------
(***************************************************************************)
(* Memory tells the truth.  The assumption excludes a warm that could scan *)
(* the directory but not read every file in it: such a file exists, and    *)
(* load denies it.                                                         *)
(***************************************************************************)
TInv == IInv /\ Unused /\ Truthful

LEMMA InitTInv == Init => Unused /\ Truthful
  BY IdleTyped DEF Init, Unused, Truthful

LEMMA NextTInv ==
  ASSUME "unreadable" \notin WarmOutcomes, TInv, [Next]_vars
  PROVE  (Unused /\ Truthful)'
<1> USE EntryAssumption, IdleTyped
    DEF TInv, IInv, TypeOK, FlusherOwned, OutcomeOwned, Unused, Truthful, InFlight
<1>1. ASSUME NEW result \in WarmOutcomes, NEW unread \in SUBSET VMs, Warm(result, unread)
      PROVE  (Unused /\ Truthful)'
  <2>1. Unused' /\ unread = {}
    BY <1>1 DEF Warm
  <2>2. CASE result = "scan_failed"
    BY <1>1, <2>1, <2>2 DEF Warm
  <2>3. CASE result # "scan_failed"
    <3>1. \A v \in VMs : cache'[v] = IF disk[v] = Nil THEN Unknown ELSE disk[v]
      BY <1>1, <2>1, <2>3 DEF Warm, NoEntries
    <3>2. QED BY <1>1, <2>1, <3>1 DEF Warm, Value
  <2>4. QED BY <2>2, <2>3
<1>2. ASSUME NEW v \in VMs, NEW d \in Value, Enqueue(v, d)
      PROVE  (Unused /\ Truthful)'
  <2>1. pending' = [pending EXCEPT ![v] = d] /\ d # None
    BY <1>2 DEF Enqueue, Enqueued, Value
  <2>2. QED BY <1>2, <2>1 DEF Enqueue
<1>3. ASSUME NEW v \in VMs, NEW d \in Value, EnqueueDropped(v, d)
      PROVE  (Unused /\ Truthful)'
  BY <1>3 DEF EnqueueDropped, vars
<1>4. CASE Signal
  BY <1>4 DEF Signal
<1>5. ASSUME NEW v \in VMs, ReadFile(v)
      PROVE  (Unused /\ Truthful)'
  BY <1>5 DEF ReadFile
<1>6. CASE CacheRead
  BY <1>6 DEF CacheRead
<1>7. CASE Flusher
  <2>0. booted
    BY <1>7 DEF Flusher, Woken, FlushBegin, DrainBegin, WriteEntry, RecordEntry, FlushEnd,
                DrainEnd, NoEntries
  <2>1. CASE Woken
    BY <2>0, <2>1 DEF Woken
  <2>2. CASE FlushBegin \/ DrainBegin
    <3>1. batch = NoEntries /\ batch' = pending
      BY <2>2 DEF FlushBegin, DrainBegin, TakePending
    <3>2. UNCHANGED <<disk, cache, scanned, caller, booted>>
      BY <2>2 DEF FlushBegin, DrainBegin
    <3>3. QED BY <2>0, <3>1, <3>2 DEF NoEntries
  <2>3. ASSUME NEW v \in VMs, NEW ok \in BOOLEAN, WriteEntry(v, ok)
        PROVE  (Unused /\ Truthful)'
    <3>1. \A u \in VMs : u # v => disk'[u] = disk[u]
      BY <2>3 DEF WriteEntry
    <3>2. QED BY <2>0, <2>3, <3>1 DEF WriteEntry
  <2>4. CASE RecordEntry
    <3> DEFINE v == outcome.vm
    <3>1. v \in VMs /\ batch[v] # None /\ batch[v] \in Value
      BY <2>4 DEF RecordEntry
    <3>2. \A u \in VMs : u # v => /\ batch'[u] = batch[u] /\ cache'[u] = cache[u]
                                 /\ pending'[u] = pending[u]
      BY <2>4 DEF RecordEntry
    <3>3. CASE outcome.ok
      <4>1. cache'[v] = disk'[v] /\ cache'[v] # Unknown
        BY <2>4, <3>1, <3>3 DEF RecordEntry, Value
      <4>2. QED BY <2>0, <2>4, <3>1, <3>2, <4>1 DEF RecordEntry
    <3>4. CASE ~outcome.ok
      <4>1. pending'[v] # None
        BY <2>4, <3>1, <3>4 DEF RecordEntry
      <4>2. QED BY <2>0, <2>4, <3>1, <3>2, <4>1 DEF RecordEntry
    <3>5. QED BY <3>3, <3>4
  <2>5. CASE FlushEnd
    BY <2>0, <2>5 DEF FlushEnd
  <2>6. CASE DrainEnd
    BY <2>0, <2>6 DEF DrainEnd
  <2>7. QED BY <1>7, <2>1, <2>2, <2>3, <2>4, <2>5, <2>6 DEF Flusher
<1>8. ASSUME NEW c \in Closers, Close(c)
      PROVE  (Unused /\ Truthful)'
  <2>1. UNCHANGED <<disk, cache, pending, batch, scanned, started, caller, booted>>
    BY <1>8 DEF Close, CloseBegin, CloseStop, CloseDone, CloseExpire, MoveCloser
  <2>2. QED BY <2>1
<1>9. CASE Crash
  BY <1>9 DEF Crash
<1>10. CASE UNCHANGED vars
  BY <1>10 DEF vars
<1>11. QED
  BY <1>1, <1>2, <1>3, <1>4, <1>5, <1>6, <1>7, <1>8, <1>9, <1>10 DEF Next

\* After a scan that read every file, what load answers about a VM with nothing
\* in flight is what its file holds.
THEOREM MemoryCorrect ==
  ASSUME "unreadable" \notin WarmOutcomes
  PROVE  Spec => []QuietLoadIsDisk
<1>1. Init => TInv
  BY InitIInv, InitTInv DEF TInv
<1>2. TInv /\ [Next]_vars => TInv'
  BY NextIInv, NextTInv DEF TInv
<1>3. TInv => QuietLoadIsDisk
  BY EntryAssumption
  DEF TInv, IInv, TypeOK, Truthful, QuietLoadIsDisk, LoadValue, LoadedFrom, InMemory, InFlight, Value
<1>4. QED BY <1>1, <1>2, <1>3, PTL DEF Spec

-----------------------------------------------------------------------------
(***************************************************************************)
(* Whoever depends on the flusher gets it.  What a request and a close may *)
(* rely on rests on who can be where: the flusher of a store in use is     *)
(* there or about to be started, one of the closers of such a store stops  *)
(* it, and what a failed write puts back is remembered as a failure until  *)
(* the flusher has nudged itself.                                          *)
(***************************************************************************)
Attended ==
  /\ started => flusher # "none" \/ (caller.at = "signal" /\ caller.spawn)
  /\ started /\ closed => stop \/ \E c \in Closers : closer[c] = "stopping"
  /\ \A c \in Closers : closer[c] \in {"stopping", "waiting"} => started
  /\ stop => closed
  /\ flusher \in {"draining", "done"} => stop
  /\ outcome # None /\ ~outcome.ok => failed
  /\ failed => faults > 0

LEMMA InitAttended == Init => Attended /\ FlusherComes
  BY DEF Init, Attended, FlusherComes, NoWakeupLost, NoVainWait

LEMMA NextAttended ==
  ASSUME IInv, Attended, FlusherComes, [Next]_vars
  PROVE  (Attended /\ FlusherComes)'
<1> USE EntryAssumption, IdleTyped
    DEF IInv, TypeOK, FlusherOwned, OutcomeOwned, Drained, Attended, FlusherComes, NoWakeupLost, NoVainWait
<1>1. ASSUME NEW result \in WarmOutcomes, NEW unread \in SUBSET VMs, Warm(result, unread)
      PROVE  (Attended /\ FlusherComes)'
  BY <1>1 DEF Warm
<1>2. ASSUME NEW v \in VMs, NEW d \in Value, Enqueue(v, d)
      PROVE  (Attended /\ FlusherComes)'
  <2>1. /\ caller.at = "idle" /\ ~closed /\ started' = TRUE
        /\ caller' = [at |-> "signal", spawn |-> ~started]
        /\ UNCHANGED <<outcome, failed, closed, stop, flusher, closer, faults>>
    BY <1>2 DEF Enqueue
  <2>2. caller'.at = "signal" /\ caller'.spawn = ~started
    BY <2>1
  <2>3. flusher \notin {"draining", "done"} /\ \A c \in Closers : closer[c] = "idle"
    BY <2>1
  <2>4. Attended'
    BY <2>1, <2>2, <2>3
  <2>5. FlusherComes'
    BY <2>1, <2>2, <2>3
  <2>6. QED BY <2>4, <2>5
<1>3. CASE Signal
  <2>1. /\ flusher' = (IF caller.spawn THEN "waiting" ELSE flusher) /\ wake' = TRUE
        /\ caller.at = "signal" /\ caller'.at = "idle"
        /\ UNCHANGED <<pending, outcome, failed, started, closed, stop, closer, faults>>
    BY <1>3 DEF Signal
  <2>2. caller.spawn \in BOOLEAN /\ started
    BY <2>1
  <2>3. flusher' # "none"
    BY <2>1, <2>2
  <2>4. Attended'
    BY <2>1, <2>2, <2>3
  <2>5. FlusherComes'
    BY <2>1, <2>2, <2>3
  <2>6. QED BY <2>4, <2>5
<1>4. ASSUME NEW v \in VMs, ReadFile(v)
      PROVE  (Attended /\ FlusherComes)'
  BY <1>4 DEF ReadFile, Reading
<1>5. CASE CacheRead
  BY <1>5 DEF CacheRead
<1>6. CASE Woken
  BY <1>6 DEF Woken
<1>7. CASE FlushBegin \/ DrainBegin
  BY <1>7 DEF FlushBegin, DrainBegin, TakePending
<1>8. ASSUME NEW v \in VMs, NEW ok \in BOOLEAN, WriteEntry(v, ok)
      PROVE  (Attended /\ FlusherComes)'
  <2>1. outcome'.ok = ok /\ outcome' # None
    <3>1. outcome' = [vm |-> v, ok |-> ok] /\ [vm |-> v, ok |-> ok] \in [vm: VMs, ok: BOOLEAN]
      BY <1>8 DEF WriteEntry
    <3>2. QED BY <3>1, BackupAssumption
  <2>2. IF ok THEN UNCHANGED <<failed, faults>> ELSE failed' = TRUE /\ faults' = faults + 1
    BY <1>8 DEF WriteEntry
  <2>3. QED BY <1>8, <2>1, <2>2 DEF WriteEntry
<1>9. CASE RecordEntry
  <2>1. outcome # None /\ outcome' = None
        /\ UNCHANGED <<failed, started, closed, wake, stop, flusher, caller, closer, faults>>
    BY <1>9 DEF RecordEntry
  <2>2. flusher \in {"flushing", "draining"}
    BY <2>1 DEF NoEntries
  <2>3. pending' = pending \/ failed
    BY <1>9 DEF RecordEntry
  <2>4. QED BY <2>1, <2>2, <2>3
<1>10. CASE FlushEnd
  BY <1>10 DEF FlushEnd, BatchDone
<1>11. CASE DrainEnd
  BY <1>11 DEF DrainEnd, BatchDone
<1>12. ASSUME NEW c \in Closers, Close(c)
      PROVE  (Attended /\ FlusherComes)'
  <2>1. UNCHANGED <<pending, outcome, failed, started, wake, flusher, caller, faults>>
    BY <1>12 DEF Close, CloseBegin, CloseStop, CloseDone, CloseExpire, MoveCloser
  <2>2. \A d \in Closers : d # c => closer'[d] = closer[d]
    BY <1>12 DEF Close, CloseBegin, CloseStop, CloseDone, CloseExpire, MoveCloser
  <2>3. CASE CloseBegin(c)
    BY <2>1, <2>2, <2>3 DEF CloseBegin, MoveCloser
  <2>4. CASE CloseStop(c)
    BY <2>1, <2>2, <2>4 DEF CloseStop, MoveCloser
  <2>5. CASE CloseDone(c) \/ CloseExpire(c)
    BY <2>1, <2>2, <2>5 DEF CloseDone, CloseExpire, MoveCloser
  <2>6. QED BY <1>12, <2>3, <2>4, <2>5 DEF Close
<1>13. CASE Crash
  BY <1>13 DEF Crash
<1>14. CASE UNCHANGED vars \/ \E v \in VMs, d \in Value : EnqueueDropped(v, d)
  BY <1>14 DEF EnqueueDropped, vars
<1>15. QED
  BY <1>1, <1>2, <1>3, <1>4, <1>5, <1>6, <1>7, <1>8, <1>9, <1>10, <1>11, <1>12, <1>13, <1>14
  DEF Next, Flusher

\* No request is left to a flusher that sleeps on, and no close to one that there
\* never is or that nobody stops: that a request is written and a close returns is
\* then a matter of the scheduler alone.
THEOREM FlusherAttends == Spec => []FlusherComes
<1>1. IInv /\ Attended /\ FlusherComes /\ [Next]_vars => (Attended /\ FlusherComes)'
  BY NextAttended
<1>2. QED BY <1>1, InitIInv, NextIInv, InitAttended, PTL DEF Spec

-----------------------------------------------------------------------------
(***************************************************************************)
(* The store is a WriteQueue.  The queue of a VM has at most two requests: *)
(* the one of the batch, until it is on disk, and the pending one.         *)
(***************************************************************************)
Line(b, p) == (IF b # None THEN <<b>> ELSE <<>>) \o (IF p # None THEN <<p>> ELSE <<>>)

Unwritten(v) == IF Written(v) THEN None ELSE batch[v]

LEMMA QueueLine ==
  ASSUME NEW v \in VMs
  PROVE  Queue[v] = Line(Unwritten(v), pending[v])
  BY DEF Queue, Line, Unwritten

LEMMA One ==
  ASSUME NEW s \in Seq(Value), Len(s) = 1
  PROVE  s = <<s[1]>>
  OBVIOUS

LEMMA Two ==
  ASSUME NEW s \in Seq(Value), Len(s) = 2
  PROVE  s = <<s[1], s[2]>>
  OBVIOUS

LEMMA Singleton ==
  ASSUME NEW x \in Value
  PROVE  <<x>> \in Seq(Value) /\ Len(<<x>>) = 1 /\ <<x>>[1] = x
  OBVIOUS

LEMMA Joined ==
  ASSUME NEW x \in Value, NEW y \in Value
  PROVE  <<x>> \o <<y>> = <<x, y>> /\ Append(<<x>>, y) = <<x, y>>
<1>1. \A s \in Seq(Value) : Len(s) = 2 /\ s[1] = x /\ s[2] = y => s = <<x, y>>
  BY Two
<1>2. <<x>> \o <<y>> \in Seq(Value) /\ Len(<<x>> \o <<y>>) = 2
  BY Singleton, ConcatProperties
<1>3. (<<x>> \o <<y>>)[1] = x /\ (<<x>> \o <<y>>)[2] = y
  <2> DEFINE s == <<x>>
             t == <<y>>
  <2>1. /\ s \in Seq(Value) /\ Len(s) = 1 /\ s[1] = x
        /\ t \in Seq(Value) /\ Len(t) = 1 /\ t[1] = y
    BY Singleton
  <2> HIDE DEF s, t
  <2>2. (s \o t)[1] = s[1] /\ (s \o t)[2] = t[1]
    BY <2>1, ConcatProperties
  <2>3. QED BY <2>1, <2>2 DEF s, t
<1>4. /\ Append(<<x>>, y) \in Seq(Value) /\ Len(Append(<<x>>, y)) = 2
      /\ Append(<<x>>, y)[1] = x /\ Append(<<x>>, y)[2] = y
  BY Singleton, AppendProperties
<1>5. QED BY <1>1, <1>2, <1>3, <1>4

LEMMA LineSpelled ==
  ASSUME NEW b \in Value \cup {None}, NEW p \in Value \cup {None}
  PROVE  /\ b = None /\ p = None => Line(b, p) = <<>>
         /\ b # None /\ p = None => Line(b, p) = <<b>>
         /\ b = None /\ p # None => Line(b, p) = <<p>>
         /\ b # None /\ p # None => Line(b, p) = <<b, p>>
<1>1. <<>> \o <<>> = <<>>
  BY EmptySeq, ConcatEmptySeq
<1>2. \A x \in Value : <<x>> \o <<>> = <<x>> /\ <<>> \o <<x>> = <<x>>
  BY Singleton, ConcatEmptySeq
<1>3. QED BY <1>1, <1>2, Joined DEF Line

\* A request joins the line, or replaces the one at its end.
LEMMA LineJoined ==
  ASSUME NEW b \in Value \cup {None}, NEW p \in Value \cup {None}, NEW d \in Value
  PROVE  /\ p = None => Line(b, d) = Append(Line(b, p), d)
         /\ p # None => Line(b, p) # <<>> /\ Line(b, d) = Append(Promise!Front(Line(b, p)), d)
<1>0. d # None
  BY EntryAssumption DEF Value
<1>1. \A x, y \in Value : Promise!Front(<<x>>) = <<>> /\ Promise!Front(<<x, y>>) = <<x>>
  <2>1. ASSUME NEW x \in Value PROVE SubSeq(<<x>>, 1, 0) = <<>>
    BY SubSeqEmpty
  <2>2. ASSUME NEW x \in Value, NEW y \in Value PROVE SubSeq(<<x, y>>, 1, 1) = <<x>>
    <3> DEFINE s == SubSeq(<<x, y>>, 1, 1)
    <3>1. \A i \in 1..1 : <<x, y>>[i] \in Value
      OBVIOUS
    <3>2. s \in Seq(Value) /\ Len(s) = 1 /\ s[1] = x
      BY <3>1, SubSeqProperties
    <3> HIDE DEF s
    <3>3. s = <<x>>
      BY <3>2, One
    <3>4. QED BY <3>3 DEF s
  <2>3. \A x, y \in Value : Len(<<x>>) - 1 = 0 /\ Len(<<x, y>>) - 1 = 1
    OBVIOUS
  <2>4. QED BY <2>1, <2>2, <2>3 DEF Promise!Front
<1>2. \A x \in Value : Append(<<>>, d) = <<d>> /\ Append(<<x>>, d) = <<x, d>>
  <2>1. /\ Append(<<>>, d) \in Seq(Value) /\ Len(Append(<<>>, d)) = 1 /\ Append(<<>>, d)[1] = d
    BY EmptySeq, AppendProperties
  <2>2. QED BY <2>1, One, Joined
<1>3. \A x, y \in Value : <<x>> # <<>> /\ <<x, y>> # <<>>
  OBVIOUS
<1>4. /\ b = None => Line(b, d) = <<d>>
      /\ b # None => Line(b, d) = <<b, d>>
  BY <1>0, LineSpelled
<1>5. CASE p = None
  BY <1>2, <1>4, <1>5, LineSpelled
<1>6. CASE p # None
  <2>1. CASE b = None
    <3>1. Line(b, p) = <<p>> /\ p \in Value
      BY <1>6, <2>1, LineSpelled
    <3>2. QED BY <1>1, <1>2, <1>3, <1>4, <1>6, <2>1, <3>1
  <2>2. CASE b # None
    <3>1. Line(b, p) = <<b, p>> /\ p \in Value /\ b \in Value
      BY <1>6, <2>2, LineSpelled
    <3>2. QED BY <1>1, <1>2, <1>3, <1>4, <1>6, <2>2, <3>1
  <2>3. QED BY <2>1, <2>2
<1>7. QED BY <1>5, <1>6

\* The front of the line is stored, or given up for what follows.
LEMMA LineLeft ==
  ASSUME NEW b \in Value, NEW p \in Value \cup {None}
  PROVE  /\ Line(b, p) # <<>> /\ Head(Line(b, p)) = b /\ Tail(Line(b, p)) = Line(None, p)
         /\ p # None => Len(Line(b, p)) > 1
<1>0. b # None
  BY EntryAssumption DEF Value
<1>1. \A x \in Value : <<x>> # <<>> /\ Head(<<x>>) = x /\ Tail(<<x>>) = <<>>
  OBVIOUS
<1>2. \A x, y \in Value : <<x, y>> # <<>> /\ Head(<<x, y>>) = x /\ Tail(<<x, y>>) = <<y>> /\ Len(<<x, y>>) > 1
  OBVIOUS
<1>3. CASE p = None
  <2>1. Line(b, p) = <<b>> /\ Line(None, p) = <<>>
    BY <1>0, <1>3, LineSpelled
  <2>2. QED BY <1>1, <1>3, <2>1
<1>4. CASE p # None
  <2>1. Line(b, p) = <<b, p>> /\ Line(None, p) = <<p>> /\ p \in Value
    BY <1>0, <1>4, LineSpelled
  <2>2. QED BY <1>2, <2>1
<1>5. QED BY <1>3, <1>4

LEMMA LineTyped ==
  ASSUME TypeOK, NEW v \in VMs
  PROVE  /\ Unwritten(v) \in Value \cup {None} /\ pending[v] \in Value \cup {None}
         /\ batch[v] \in Value \cup {None}
  BY DEF TypeOK, Unwritten

\* What becomes of the queue when one VM's part of it changes
LEMMA QueueOther ==
  ASSUME NEW v \in VMs, NEW q,
         \A u \in VMs \ {v} : Unwritten(u)' = Unwritten(u) /\ pending'[u] = pending[u],
         Line(Unwritten(v), pending[v])' = q
  PROVE  Queue' = [Queue EXCEPT ![v] = q]
<1>1. \A u \in VMs : Queue'[u] = IF u = v THEN q ELSE Queue[u]
  <2>1. \A u \in VMs : Queue'[u] = Line(Unwritten(u), pending[u])'
    BY DEF Queue, Line, Unwritten
  <2>2. ASSUME NEW u \in VMs \ {v} PROVE Line(Unwritten(u), pending[u])' = Line(Unwritten(u), pending[u])
    BY <2>2 DEF Line
  <2>3. QED BY <2>1, <2>2, QueueLine
<1>2. QED BY <1>1 DEF Queue

LEMMA QueueSame ==
  ASSUME \A u \in VMs : Unwritten(u)' = Unwritten(u) /\ pending'[u] = pending[u]
  PROVE  Queue' = Queue
<1>1. ASSUME NEW u \in VMs PROVE Queue'[u] = Queue[u]
  <2>1. Queue'[u] = Line(Unwritten(u), pending[u])'
    BY DEF Queue, Line, Unwritten
  <2>2. QED BY <1>1, <2>1, QueueLine DEF Line
<1>2. QED BY <1>1 DEF Queue

PromiseStep == Promise!Next \/ UNCHANGED <<disk, Queue>>

LEMMA EnqueueQueues ==
  ASSUME IInv, NEW v \in VMs, NEW d \in Value, Enqueue(v, d)
  PROVE  PromiseStep
<1>1. pending' = [pending EXCEPT ![v] = d] /\ UNCHANGED <<disk, batch, outcome>> /\ d # None
  BY EntryAssumption DEF Enqueue, Enqueued, Value
<1>2. /\ \A u \in VMs : Unwritten(u)' = Unwritten(u)
      /\ pending'[v] = d /\ \A u \in VMs \ {v} : pending'[u] = pending[u]
  BY <1>1 DEF Unwritten, Written, IInv, TypeOK
<1>3. Queue' = [Queue EXCEPT ![v] = Line(Unwritten(v), d)]
  <2>1. Line(Unwritten(v), pending[v])' = Line(Unwritten(v), d)
    BY <1>2 DEF Line
  <2>2. QED BY <1>2, <2>1, QueueOther
<1> DEFINE b == Unwritten(v)
           p == pending[v]
<1>4. Queue[v] = Line(b, p) /\ b \in Value \cup {None} /\ p \in Value \cup {None}
  BY QueueLine, LineTyped DEF IInv
<1>5. Queue' = [Queue EXCEPT ![v] = Line(b, d)]
  BY <1>3
<1> HIDE DEF b, p
<1>6. CASE p = None
  <2>1. Line(b, d) = Append(Queue[v], d)
    BY <1>4, <1>6, LineJoined
  <2>2. Queue' = [Queue EXCEPT ![v] = Append(@, d)]
    BY <1>5, <2>1
  <2>3. QED BY <1>1, <2>2, <2>1 DEF PromiseStep, Promise!Next, Promise!Request
<1>7. CASE p # None
  <2>1. Queue[v] # <<>> /\ Line(b, d) = Append(Promise!Front(Queue[v]), d)
    BY <1>4, <1>7, LineJoined
  <2>2. Queue' = [Queue EXCEPT ![v] = Append(Promise!Front(@), d)]
    BY <1>5, <2>1
  <2>3. QED BY <1>1, <2>1, <2>2 DEF PromiseStep, Promise!Next, Promise!Request
<1>8. QED BY <1>6, <1>7

LEMMA TakeQueues ==
  ASSUME IInv, FlushBegin \/ DrainBegin
  PROVE  PromiseStep
<1>1. batch = NoEntries /\ outcome = None
  BY DEF FlushBegin, DrainBegin, IInv, TypeOK, FlusherOwned, OutcomeOwned, NoEntries
<1>2. batch' = pending /\ pending' = NoEntries /\ UNCHANGED <<disk, outcome>>
  BY DEF FlushBegin, DrainBegin, TakePending
<1>3. ASSUME NEW u \in VMs PROVE Queue'[u] = Queue[u]
  <2>1. Queue[u] = Line(None, pending[u]) /\ Queue'[u] = Line(pending[u], None)
    BY <1>1, <1>2 DEF Queue, Line, Written, NoEntries
  <2>2. QED BY <2>1, LineTyped, LineSpelled DEF IInv
<1>4. QED BY <1>2, <1>3 DEF PromiseStep, Queue

LEMMA WriteQueues ==
  ASSUME IInv, NEW v \in VMs, NEW ok \in BOOLEAN, WriteEntry(v, ok)
  PROVE  PromiseStep
<1>1. /\ outcome = None /\ batch[v] # None /\ outcome' = [vm |-> v, ok |-> ok]
      /\ UNCHANGED <<batch, pending>>
  BY DEF WriteEntry
<1>2. /\ \A u \in VMs : Unwritten(u) = batch[u]
      /\ \A u \in VMs : Unwritten(u)' = IF u = v /\ ok THEN None ELSE batch[u]
  <2>1. outcome' # None
    BY <1>1, BackupAssumption DEF BackupAssumption
  <2>2. QED BY <1>1, <2>1 DEF Unwritten, Written
<1>3. CASE ok
  <2>1. Queue' = [Queue EXCEPT ![v] = Tail(@)] /\ Queue[v] # <<>> /\ Head(Queue[v]) = batch[v]
    <3>1. Line(Unwritten(v), pending[v])' = Line(None, pending[v])
      BY <1>1, <1>2, <1>3 DEF Line
    <3>2. Queue' = [Queue EXCEPT ![v] = Line(None, pending[v])]
      BY <1>1, <1>2, <3>1, QueueOther
    <3>3. Queue[v] = Line(batch[v], pending[v]) /\ batch[v] \in Value
      BY <1>1, <1>2, LineTyped, QueueLine DEF IInv
    <3>4. pending[v] \in Value \cup {None}
      BY LineTyped DEF IInv
    <3> DEFINE b == batch[v]
               p == pending[v]
    <3>5. Line(b, p) # <<>> /\ Head(Line(b, p)) = b /\ Tail(Line(b, p)) = Line(None, p)
      <4> HIDE DEF b, p
      <4>1. b \in Value /\ p \in Value \cup {None}
        BY <3>3, <3>4 DEF b, p
      <4>2. QED BY <4>1, LineLeft
    <3>6. QED BY <3>2, <3>3, <3>5
  <2>2. disk' = [disk EXCEPT ![v] = batch[v]]
    BY <1>3 DEF WriteEntry
  <2>3. QED BY <2>1, <2>2 DEF PromiseStep, Promise!Next, Promise!Store
<1>4. CASE ~ok
  <2>1. Queue' = Queue
    BY <1>1, <1>2, <1>4, QueueSame
  <2>2. QED BY <1>4, <2>1 DEF PromiseStep, WriteEntry
<1>5. QED BY <1>3, <1>4

LEMMA RecordQueues ==
  ASSUME IInv, RecordEntry
  PROVE  PromiseStep
<1> PICK v \in VMs : outcome.vm = v
  BY DEF RecordEntry, IInv, TypeOK
<1>1. /\ outcome # None /\ batch[v] \in Value /\ outcome' = None /\ UNCHANGED disk
      /\ batch' = [batch EXCEPT ![v] = None]
      /\ \A u \in VMs \ {v} : pending'[u] = pending[u]
  BY DEF RecordEntry, IInv, TypeOK, OutcomeOwned
<1>2. /\ \A u \in VMs : ~Written(u)'
      /\ \A u \in VMs \ {v} : ~Written(u)
  BY <1>1 DEF Written
<1>3. /\ Unwritten(v)' = None
      /\ \A u \in VMs \ {v} : Unwritten(u)' = Unwritten(u)
  BY <1>1, <1>2 DEF Unwritten, IInv, TypeOK
<1>4. CASE outcome.ok
  <2>1. Unwritten(v) = None
    BY <1>1, <1>4 DEF Unwritten, Written
  <2>2. pending' = pending
    BY <1>4 DEF RecordEntry
  <2>3. QED BY <1>1, <1>3, <2>1, <2>2, QueueSame DEF PromiseStep
<1>5. CASE ~outcome.ok
  <2>1. Unwritten(v) = batch[v]
    BY <1>5 DEF Unwritten, Written
  <2>2. Queue[v] = Line(batch[v], pending[v])
    BY <2>1, QueueLine
  <2>3. pending'[v] = IF pending[v] = None THEN batch[v] ELSE pending[v]
    BY <1>5 DEF RecordEntry, IInv, TypeOK
  <2>4. Queue' = [Queue EXCEPT ![v] = Line(None, pending'[v])]
    <3>1. Line(Unwritten(v), pending[v])' = Line(None, pending'[v])
      BY <1>3 DEF Line
    <3>2. QED BY <1>1, <1>3, <3>1, QueueOther
  <2>5. CASE pending[v] = None
    <3>1. Line(None, pending'[v]) = Queue[v]
      <4> DEFINE b == batch[v]
      <4>1. b \in Value /\ b # None /\ pending'[v] = b
        BY <1>1, <2>3, <2>5, EntryAssumption DEF Value
      <4>2. Queue[v] = Line(b, None)
        BY <2>2, <2>5
      <4> HIDE DEF b
      <4>3. Line(None, b) = <<b>> /\ Line(b, None) = <<b>>
        BY <4>1, LineSpelled
      <4>4. QED BY <4>1, <4>2, <4>3
    <3>2. Queue = [u \in VMs |-> Queue[u]]
      BY DEF Queue
    <3>3. Queue' = Queue
      BY <2>4, <3>1, <3>2
    <3>4. QED BY <1>1, <3>3 DEF PromiseStep
  <2>6. CASE pending[v] # None
    <3> DEFINE b == batch[v]
               p == pending[v]
    <3>1. Len(Line(b, p)) > 1 /\ Tail(Line(b, p)) = Line(None, p)
      <4>1. b \in Value /\ p \in Value \cup {None} /\ p # None
        BY <1>1, <2>6, LineTyped DEF IInv
      <4> HIDE DEF b, p
      <4>2. QED BY <4>1, LineLeft
    <3>2. pending'[v] = pending[v]
      BY <2>3, <2>6
    <3>3. Len(Queue[v]) > 1 /\ Queue' = [Queue EXCEPT ![v] = Tail(@)]
      BY <2>2, <2>4, <3>1, <3>2
    <3>4. QED BY <1>1, <3>3 DEF PromiseStep, Promise!Next, Promise!Supersede
  <2>7. QED BY <2>5, <2>6
<1>6. QED BY <1>4, <1>5

LEMMA NextQueues ==
  ASSUME IInv, [Next]_vars
  PROVE  [Promise!Next]_<<disk, Queue>>
<1> SUFFICES PromiseStep
  BY DEF PromiseStep
<1>1. UNCHANGED <<disk, batch, pending, outcome>> => PromiseStep
  BY DEF PromiseStep, Queue, Written
<1>2. ASSUME NEW v \in VMs, NEW d \in Value, Enqueue(v, d) PROVE PromiseStep
  BY <1>2, EnqueueQueues
<1>3. CASE Flusher
  <2>1. CASE Woken \/ FlushEnd \/ DrainEnd
    BY <1>1, <2>1 DEF Woken, FlushEnd, DrainEnd
  <2>2. QED BY <1>3, <2>1, TakeQueues, WriteQueues, RecordQueues DEF Flusher
<1>4. CASE Crash
  <2>1. /\ pending' = NoEntries /\ batch' = NoEntries /\ outcome' = None /\ UNCHANGED disk
    BY <1>4 DEF Crash
  <2>2. Queue' = [v \in VMs |-> <<>>]
    BY <2>1 DEF Queue, Written, NoEntries
  <2>3. QED BY <2>1, <2>2 DEF PromiseStep, Promise!Next, Promise!Crash
<1>5. CASE \/ \E result \in WarmOutcomes, unread \in SUBSET VMs : Warm(result, unread)
           \/ \E v \in VMs, d \in Value : EnqueueDropped(v, d)
           \/ Signal
           \/ \E v \in VMs : ReadFile(v)
           \/ CacheRead
           \/ \E c \in Closers : Close(c)
           \/ UNCHANGED vars
  BY <1>1, <1>5 DEF Warm, EnqueueDropped, Signal, ReadFile, CacheRead, Close, CloseBegin, CloseStop,
                    CloseDone, CloseExpire, MoveCloser, vars
<1>6. QED BY <1>2, <1>3, <1>4, <1>5 DEF Next

\* Coalescing, retries, a draining close and crashes never reorder requests, nor
\* give up the newest for an older one (backup.go:19-33, 351-375).
THEOREM QueueImplemented == Spec => ImplementsWriteQueue
<1>1. Init => Promise!Init
  BY DEF Init, Promise!Init, Queue, Written, NoEntries
<1>2. QED BY <1>1, InitIInv, NextIInv, NextQueues, PTL DEF Spec, ImplementsWriteQueue, Promise!Spec
=============================================================================
