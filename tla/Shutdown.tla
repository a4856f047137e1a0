------------------------------ MODULE Shutdown ------------------------------
(***************************************************************************)
(* The reconciler with its graceful stop (cmd/network-reconciler/main.go): *)
(* a signal cancels Run's context; once Run has returned, main drains the  *)
(* backup store, withdraws the addresses and deletes the table, all under  *)
(* one deadline.  The NATS handlers stay subscribed to the end and have    *)
(* contexts of their own, so they go on applying meanwhile.                *)
(*                                                                         *)
(* Every stop is followed by a start; see also Crash in Reconciler.        *)
(***************************************************************************)
EXTENDS Reconciler

CONSTANT EventStages   \* bound: when migration events and webhooks arrive

Stages == {"up", "stopping", "draining", "drained", "withdrawn", "flushed"}

ASSUME ShutdownAssumption == EventStages \subseteq Stages

VARIABLES
  stage,       \* how far main is
  flusher,     \* the backup store's goroutine: "running", in its "last" flush, "ended"
  late,        \* flushCtx has expired
  \* history:
  inherited,   \* what was on the loopback interface when the process started
  clean        \* what the stop removed was removed, and no handler put anything back since

main == <<stage, flusher, late, inherited, clean>>
allVars == <<vars, main>>

Started(kernel) ==
  stage' = "up" /\ flusher' = "running" /\ late' = FALSE /\ inherited' = kernel /\ clean' = TRUE

StopInit ==
  /\ Init
  /\ stage = "up" /\ flusher = "running" /\ late = FALSE /\ inherited = lo /\ clean = TRUE

-----------------------------------------------------------------------------
(* The signal, and Run with a cancelled context *)

\* It kills the command that Run is executing, before or after its effect, ...
Killed ==
  \/ NftAbandoned(Loop)
  \/ \E failed \in SUBSET External, effective \in {{}} \cup {{a} : a \in External} :
       /\ work[Loop].pc = "bgp" /\ failed # {}
       /\ Converge(Loop, AdoptionDue(Loop), failed, effective)

Signal ==
  /\ stage = "up"
  /\ Fault("stop")
  /\ Killed \/ UNCHANGED <<netbox, active, apply, holder, work, store, changes>>
  /\ stage' = "stopping"
  /\ UNCHANGED <<flusher, late, inherited, clean>>

\* ... and no other is started: nft and every change of an address fail.
CancelledCommand ==
  \/ NftAbandoned(Loop) /\ UNCHANGED rules
  \/ LET want == Addresses(work[Loop].applied) IN
     /\ work[Loop].pc = "bgp"
     /\ Converge(Loop, FALSE, (want \ advertised) \cup (advertised \ want), {})

\* A fetch fails at once.  The select in Run may still choose a trigger.
CancelledFetch == PrimeUnanswered \/ FetchUnanswered

\* What Run still does with an answer, a delta or an apply that it has.
Finishing ==
  \/ PrimeWarm
  \/ PrimeSeed
  \/ LockFetched
  \/ Resolve(Loop)
  \/ Plan(Loop)
  \/ Record(Loop)
  \/ Finish(Loop)

Cancelled ==
  /\ stage = "stopping"
  /\ Finishing \/ ((CancelledCommand \/ CancelledFetch) /\ UNCHANGED faults)
  /\ UNCHANGED main

-----------------------------------------------------------------------------
(* After Run has returned *)

\* The select chooses ctx.Done; CloseBackups closes the store.
BeginDrain ==
  /\ stage = "stopping" /\ work[Loop].pc = "idle"
  /\ stage' = "draining"
  /\ UNCHANGED <<vars, flusher, late, inherited, clean>>

Closed == stage \notin {"up", "stopping"}

\* close makes the flusher write what is pending, once, and end.
LastFlush ==
  /\ Closed /\ flusher = "running" /\ batch = NoEntries
  /\ flusher' = "last"
  /\ batch' = pending /\ pending' = NoEntries
  /\ UNCHANGED <<netbox, active, apply, holder, work, cached, disk, stored, changes, faults, stage,
                 late, inherited, clean>>

FlusherEnds ==
  /\ flusher = "last" /\ batch = NoEntries
  /\ flusher' = "ended"
  /\ UNCHANGED <<vars, stage, late, inherited, clean>>

\* Mutant of DrainEnds: close reports back only if everything was written.
DrainEndsWritten ==
  /\ stage = "draining" /\ flusher = "ended" /\ pending = NoEntries
  /\ stage' = "drained"
  /\ UNCHANGED <<vars, flusher, late, inherited, clean>>

\* An error of close is only logged.
DrainEnds ==
  /\ stage = "draining" /\ flusher = "ended"
  /\ stage' = "drained"
  /\ UNCHANGED <<vars, flusher, late, inherited, clean>>

\* pmxcfs hangs until flushCtx expires; the flusher goes on.
DrainExpires ==
  /\ stage = "draining"
  /\ Fault("hang")
  /\ stage' = "drained" /\ late' = TRUE
  /\ UNCHANGED <<netbox, active, apply, holder, work, store, changes, flusher, inherited, clean>>

\* Mutant of FlushRoutes: only what the last apply served is withdrawn.
FlushRoutesApplied(failed, effective) ==
  LET drops == Addresses(lastApplied) \cap advertised IN
  /\ stage = "drained"
  /\ failed \subseteq drops /\ effective \subseteq failed
  /\ IF late \/ failed = {}
     THEN (late => failed = drops /\ effective = {}) /\ UNCHANGED <<faults, late>>
     ELSE /\ Fault(IF effective = {} THEN "bgp" ELSE "kill")
          /\ late' \in IF effective = {} THEN BOOLEAN ELSE {TRUE}
  /\ advertised' = (advertised \ drops) \cup failed
  /\ lo' = lo \ (drops \ (failed \ effective))
  /\ killed' = (killed \ (drops \ failed)) \cup effective
  /\ stage' = "withdrawn"
  /\ clean' = (clean /\ failed = {})
  /\ UNCHANGED <<netbox, active, cache, lastKey, lastApplied, kernelSynced, rules, holder, work,
                 store, changes, flusher, inherited>>

\* FlushRoutes: reconcileBGP with nothing desired and nothing to adopt.  Each address
\* may fail; the deadline may expire meanwhile, which kills an ip, before or after its
\* effect, and fails the rest.
FlushRoutes(failed, effective) ==
  /\ stage = "drained"
  /\ failed \subseteq advertised /\ effective \subseteq failed
  /\ IF late \/ failed = {}
     THEN (late => failed = advertised /\ effective = {}) /\ UNCHANGED <<faults, late>>
     ELSE /\ Fault(IF effective = {} THEN "bgp" ELSE "kill")
          /\ late' \in IF effective = {} THEN BOOLEAN ELSE {TRUE}
  /\ advertised' = failed
  /\ lo' = lo \ (advertised \ (failed \ effective))
  /\ killed' = (killed \ (advertised \ failed)) \cup effective
  /\ stage' = "withdrawn"
  /\ clean' = (clean /\ failed = {})
  /\ UNCHANGED <<netbox, active, cache, lastKey, lastApplied, kernelSynced, rules, holder, work,
                 store, changes, flusher, inherited>>

\* nft.Flush, whatever became of the addresses.  The fingerprint stays.
FlushTable(ok) ==
  /\ stage = "withdrawn"
  /\ IF ok THEN ~late /\ rules' = {} /\ UNCHANGED faults
     ELSE IF late THEN UNCHANGED <<rules, faults>>
     ELSE Fault("nft") /\ rules' \in {rules, {}}
  /\ stage' = "flushed"
  /\ clean' = (clean /\ ok)
  /\ UNCHANGED <<netbox, active, cache, lastKey, lastApplied, advertised, kernelSynced, lo, killed,
                 holder, work, store, changes, flusher, late, inherited>>

\* main returns and the service is started again.
Restart ==
  /\ stage = "flushed"
  /\ Started(lo)
  /\ active' \in SUBSET active
  /\ Reborn
  /\ UNCHANGED <<netbox, rules, lo, disk, changes, faults>>

-----------------------------------------------------------------------------
(* Meanwhile *)

\* Resolve once the store is closed: enqueue drops what the apply saves.
ResolveClosed(w) ==
  /\ work[w].pc = "resolve"
  /\ Become(w, [At("plan", work[w].source, EmptyTable, FALSE) EXCEPT
       !.saw = active, !.applied = [v \in VMs |-> Served(work[w], v)]])
  /\ UNCHANGED <<netbox, active, apply, holder, store, changes, faults>>

Handled(h) == IF Closed /\ work[h].pc = "resolve" THEN ResolveClosed(h) ELSE Handle(h)

HandleBeside(h) ==
  /\ Handled(h)
  /\ clean' = (clean /\ (stage \in {"withdrawn", "flushed"} =>
                          UNCHANGED <<rules, lo, advertised>>))
  /\ UNCHANGED <<stage, flusher, late, inherited>>

\* The flusher; after close it takes no other batch than the last.
FlushBeside ==
  /\ \/ flusher = "running" /\ ~Closed /\ TakeBatch
     \/ \E v \in VMs : Persist(v) \/ PersistFails(v)
  /\ UNCHANGED main

RunUp == stage = "up" /\ Run /\ UNCHANGED main

WebhookBeside(d) ==
  stage \in EventStages \cap {"up", "stopping"} /\ TakeDelta(d) /\ UNCHANGED main

EventBeside(h, v) == stage \in EventStages /\ MigrationEvent(h, v) /\ UNCHANGED main

WorldChanges ==
  /\ \/ \E v \in VMs : PlacementEvent(v)
     \/ \E table \in Tables : NetBoxChanges(table)
  /\ UNCHANGED main

CrashAnytime == Crash /\ Started(lo)

Stop ==
  \/ BeginDrain
  \/ LastFlush
  \/ FlusherEnds
  \/ DrainEnds
  \/ \E failed \in SUBSET External, effective \in SUBSET External : FlushRoutes(failed, effective)
  \/ \E ok \in BOOLEAN : FlushTable(ok)
  \/ Restart

StopNext ==
  \/ RunUp
  \/ Cancelled
  \/ \E d \in Deltas : WebhookBeside(d)
  \/ \E h \in Handlers : HandleBeside(h) \/ \E v \in VMs : EventBeside(h, v)
  \/ FlushBeside
  \/ WorldChanges
  \/ CrashAnytime
  \/ Signal
  \/ DrainExpires
  \/ Stop

StopSpec == StopInit /\ [][StopNext]_allVars

\* As in Reconciler; main proceeds, and a select that is entered again and again
\* with ctx.Done ready chooses it at some time.
StopFairness ==
  /\ WF_allVars(RunUp) /\ WF_allVars(Cancelled)
  /\ \A h \in Handlers : WF_allVars(HandleBeside(h))
  /\ WF_allVars(FlushBeside)
  /\ WF_allVars(Stop) /\ SF_allVars(BeginDrain)

FairStopSpec == StopSpec /\ StopFairness
-----------------------------------------------------------------------------
(* Properties *)

\* The process knows every address it put on the interface, whatever failed since
\* (reconciler.go:1226-1262), but one whose ip was killed after adding it
\* (frr/manager.go:39): that is why withdrawing what it knows is enough on shutdown
\* (reconciler.go:312-317), and what is not.
OwnAddressesKnown == lo \subseteq inherited \cup advertised \cup killed

\* A stop whose commands succeeded and that no handler disturbed leaves no rule and
\* no address this process brought (main.go:168-182), but one whose ip was killed
\* after adding it, before the stop or by its signal.
CleanStop == stage = "flushed" /\ clean => rules = {} /\ lo \subseteq inherited \cup killed

\* Once the signal arrived the process gets to its end, whatever hangs or fails on
\* the way, and although handlers keep applying (main.go:162-184).
Stops == stage = "stopping" ~> stage \in {"flushed", "up"}
=============================================================================
