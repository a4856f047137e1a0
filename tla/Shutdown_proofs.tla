-------------------------- MODULE Shutdown_proofs --------------------------
(***************************************************************************)
(* Proofs about the graceful stop, for any VMs, addresses, tables,         *)
(* webhooks, handlers and numbers of failures, and wherever events arrive: *)
(* the types; that addresses of others stay; that only an ip killed after  *)
(* its effect parts what the process knows from what is on the interface,  *)
(* and leaves something behind after an undisturbed stop; that backups are *)
(* remembered as they are on disk; and, for Run alone, that an apply takes *)
(* back neither what is served nor what the process found in its backups.  *)
(*                                                                         *)
(* CleanStop speaks of the end; the invariant adds what holds between      *)
(* withdrawing the addresses and deleting the table.                       *)
(***************************************************************************)
EXTENDS Shutdown, Reconciler_proofs

\* What Run still does once its context is cancelled keeps the types.
LEMMA CancelledType ==
  ASSUME TypeOK, Cancelled
  PROVE  TypeOK'
<1> DEFINE job == work[Loop]
<1>1. Loop \in Workers /\ job \in Job /\ Rules(job.applied) \in SUBSET Pair
      /\ Addresses(job.applied) \in SUBSET External
  BY RulesTyped DEF Workers, TypeOK, Job
<1>2. CASE Finishing
  BY <1>1, <1>2, RunType, ApplyType DEF Finishing, Run, Apply
<1>3. CASE CancelledCommand /\ UNCHANGED faults
  <2>1. CASE NftAbandoned(Loop) /\ UNCHANGED rules
    <3>1. work' \in [Workers -> Job] /\ holder' \in Workers \cup {None}
      BY <1>1, <2>1, DoneTyped DEF NftAbandoned
    <3>2. QED BY <1>3, <2>1, <3>1 DEF NftAbandoned, TypeOK, store
  <2>2. CASE Converge(Loop, FALSE, (Addresses(job.applied) \ advertised)
                                     \cup (advertised \ Addresses(job.applied)), {})
    <3>1. advertised \in SUBSET External /\ faults' \in Nat /\ {} \in SUBSET External
      BY <1>3 DEF TypeOK
    <3>2. QED BY <1>1, <2>2, <3>1, ConvergeType
  <2>3. QED BY <1>3, <2>1, <2>2 DEF CancelledCommand
<1>4. CASE CancelledFetch /\ UNCHANGED faults
  <2>1. CASE PrimeUnanswered
    <3>1. [Booting EXCEPT !.pc = "seed", !.table = AllStored] \in Job
      BY AllStoredTyped, IdleTyped DEF Job
    <3>2. work' \in [Workers -> Job]
      BY <1>1, <2>1, <3>1, BecomeTyped, IdleTyped DEF PrimeUnanswered
    <3>3. QED BY <1>4, <2>1, <3>2 DEF PrimeUnanswered, TypeOK, apply, store
  <2>2. CASE FetchUnanswered
    <3>1. work' \in [Workers -> Job]
      BY <1>1, <2>2, BecomeTyped, AtTyped, EmptyTyped DEF FetchUnanswered, Sources
    <3>2. QED BY <1>4, <2>2, <3>1 DEF FetchUnanswered, TypeOK, apply, store
  <2>3. QED BY <1>4, <2>1, <2>2 DEF CancelledFetch
<1>5. QED BY <1>2, <1>3, <1>4 DEF Cancelled

\* The command the signal kills keeps the types, whatever became of it.
LEMMA KilledType ==
  ASSUME TypeOK, Killed, faults' \in Nat
  PROVE  TypeOK'
<1> DEFINE job == work[Loop]
<1>1. Loop \in Workers /\ job \in Job /\ Rules(job.applied) \in SUBSET Pair
  BY RulesTyped DEF Workers, TypeOK, Job
<1>2. CASE NftAbandoned(Loop)
  <2>1. work' \in [Workers -> Job] /\ holder' \in Workers \cup {None}
    BY <1>1, <1>2, DoneTyped DEF NftAbandoned
  <2>2. QED BY <1>1, <1>2, <2>1 DEF NftAbandoned, TypeOK, store
<1>3. ASSUME NEW failed \in SUBSET External, NEW effective \in SUBSET External,
             Converge(Loop, AdoptionDue(Loop), failed, effective)
      PROVE  TypeOK'
  <2> DEFINE adopt == AdoptionDue(Loop)
  <2>1. adopt \in BOOLEAN
    BY DEF AdoptionDue
  <2>2. Converge(Loop, adopt, failed, effective)
    BY <1>3
  <2> HIDE DEF adopt
  <2>3. QED BY <1>1, <1>3, <2>1, <2>2, ConvergeType
<1>4. QED BY <1>2, <1>3 DEF Killed

\* An apply that can save nothing any more keeps the types.
LEMMA ResolveClosedType ==
  ASSUME TypeOK, NEW w \in Workers, ResolveClosed(w)
  PROVE  TypeOK'
<1> DEFINE job == work[w]
<1>1. job \in Job /\ active \in SUBSET VMs
  BY DEF TypeOK
<1>2. ASSUME NEW v \in VMs PROVE Served(job, v) \in SUBSET Pair
  BY <1>1, LoadTyped DEF Served, Job, Table, TypeOK
<1>3. [v \in VMs |-> Served(job, v)] \in Table
  BY <1>2 DEF Table
<1>4. [At("plan", job.source, EmptyTable, FALSE) EXCEPT
         !.saw = active, !.applied = [v \in VMs |-> Served(job, v)]] \in Job
  BY <1>1, <1>3, EmptyTyped DEF At, Job
<1>5. work' \in [Workers -> Job]
  BY <1>4, BecomeTyped DEF ResolveClosed
<1>6. QED BY <1>5 DEF ResolveClosed, TypeOK, apply, store

LEMMA StopType ==
  ASSUME TypeOK, Stop
  PROVE  TypeOK'
<1>1. CASE BeginDrain \/ FlusherEnds \/ DrainEnds
  BY <1>1 DEF BeginDrain, FlusherEnds, DrainEnds, TypeOK, vars, apply, store
<1>2. CASE LastFlush
  BY <1>2 DEF LastFlush, NoEntries, TypeOK, apply
<1>3. ASSUME NEW failed \in SUBSET External, NEW effective \in SUBSET External,
             FlushRoutes(failed, effective)
      PROVE  TypeOK'
  <2>1. faults' \in Nat
    <3>1. CASE late \/ failed = {}
      BY <1>3, <3>1 DEF FlushRoutes, TypeOK
    <3>2. CASE ~(late \/ failed = {})
      <4>1. \E kind \in {"bgp", "kill"} : Fault(kind)
        BY <1>3, <3>2 DEF FlushRoutes
      <4>2. QED BY <4>1 DEF Fault, TypeOK
    <3>3. QED BY <3>1, <3>2
  <2>2. /\ advertised' \in SUBSET External /\ lo' \in SUBSET (External \cup Foreign)
        /\ killed' \in SUBSET External
    BY <1>3 DEF FlushRoutes, TypeOK
  <2>3. QED BY <1>3, <2>1, <2>2 DEF FlushRoutes, TypeOK, store
<1>4. ASSUME NEW ok \in BOOLEAN, FlushTable(ok) PROVE TypeOK'
  <2>1. faults' \in Nat
    BY <1>4 DEF FlushTable, Fault, TypeOK
  <2>2. rules' \in SUBSET Pair
    BY <1>4 DEF FlushTable, TypeOK
  <2>3. QED BY <1>4, <2>1, <2>2 DEF FlushTable, TypeOK, store
<1>5. CASE Restart
  <2>1. cache' \in Cache /\ lastApplied' \in Table
    BY <1>5, EmptyTyped, ColdTyped DEF Restart, Reborn
  <2>2. work' \in [Workers -> Job]
    BY <1>5, IdleTyped DEF Restart, Reborn
  <2>3. pending' \in [VMs -> {None} \cup SUBSET Pair] /\ batch' \in [VMs -> {None} \cup SUBSET Pair]
        /\ cached' \in [VMs -> {Unknown} \cup SUBSET Pair]
    BY <1>5 DEF Restart, Reborn, NoEntries, NothingKnown
  <2>4. active' \in SUBSET VMs
    BY <1>5 DEF Restart, TypeOK
  <2>5. QED BY <1>5, <2>1, <2>2, <2>3, <2>4 DEF Restart, Reborn, TypeOK
<1>6. QED BY <1>1, <1>2, <1>3, <1>4, <1>5 DEF Stop

\* A step that is one of the reconciler's, whatever the stage of the stop.
Ordinary ==
  \/ RunUp
  \/ \E d \in Deltas : WebhookBeside(d)
  \/ \E h \in Handlers, v \in VMs : EventBeside(h, v)
  \/ FlushBeside
  \/ WorldChanges
  \/ CrashAnytime

LEMMA OrdinaryNext == Ordinary => Next
  BY DEF Ordinary, RunUp, WebhookBeside, EventBeside, FlushBeside, WorldChanges, CrashAnytime,
         Flush, Next

LEMMA StopNextCases ==
  ASSUME [StopNext]_allVars
  PROVE  \/ Ordinary \/ Cancelled \/ Stop \/ UNCHANGED allVars
         \/ \E h \in Handlers : HandleBeside(h)
         \/ Signal \/ DrainExpires
  BY DEF StopNext, Ordinary

LEMMA StopNextType == TypeOK /\ [StopNext]_allVars => TypeOK'
<1> SUFFICES ASSUME TypeOK, [StopNext]_allVars PROVE TypeOK'
  OBVIOUS
<1>1. CASE Ordinary
  BY <1>1, OrdinaryNext, NextType
<1>2. CASE UNCHANGED allVars
  BY <1>2, NextType DEF allVars
<1>3. ASSUME NEW h \in Handlers, HandleBeside(h) PROVE TypeOK'
  BY <1>3, HandleType, ResolveClosedType DEF HandleBeside, Handled, Workers
<1>4. CASE Signal \/ DrainExpires
  <2>1. faults' \in Nat
    BY <1>4 DEF Signal, DrainExpires, Fault, TypeOK
  <2>2. QED BY <1>4, <2>1, KilledType DEF Signal, DrainExpires, TypeOK, apply, store
<1>5. QED BY <1>1, <1>2, <1>3, <1>4, CancelledType, StopType, StopNextCases

\* The types hold through every stop as well.
THEOREM StopTypeCorrect == StopSpec => []TypeOK
  BY InitType, StopNextType, PTL DEF StopSpec, StopInit

-----------------------------------------------------------------------------
(* The kernel *)

\* What the stop has achieved by then, if nothing failed and nobody interfered
Withdrawn ==
  stage \in {"withdrawn", "flushed"} /\ clean =>
    advertised = {} /\ lo \subseteq inherited \cup killed
Emptied == stage = "flushed" /\ clean => rules = {}

KInv == OwnAddressesKnown /\ Withdrawn /\ Emptied

LEMMA InitKInv == StopInit => KInv
  BY DEF StopInit, KInv, OwnAddressesKnown, Withdrawn, Emptied

\* Whatever reconcileBGP does, and whichever commands fail, it knows the result, but
\* for the commands killed after their effect.
LEMMA ConvergeKnown ==
  ASSUME OwnAddressesKnown, inherited' = inherited,
         NEW w, NEW adopt, NEW failed, NEW effective, Converge(w, adopt, failed, effective)
  PROVE  OwnAddressesKnown'
  BY DEF Converge, OwnAddressesKnown

LEMMA AliveKnown ==
  ASSUME OwnAddressesKnown, Alive, inherited' = inherited
  PROVE  OwnAddressesKnown'
<1>1. CASE Kept
  BY <1>1 DEF Kept, OwnAddressesKnown
<1>2. CASE ~Kept
  BY <1>2, OnlyConvergeChanges, ConvergeKnown
<1>3. QED BY <1>1, <1>2

\* An ordinary step touches kernel objects only while Run runs.
LEMMA OrdinaryKernel ==
  ASSUME KInv, Ordinary
  PROVE  KInv'
<1>1. CASE CrashAnytime
  BY <1>1 DEF CrashAnytime, Started, Crash, KInv, OwnAddressesKnown, Withdrawn, Emptied
<1>2. CASE RunUp
  <2>1. Alive /\ stage = "up" /\ stage' = stage /\ inherited' = inherited
    BY <1>2 DEF RunUp, main, Alive
  <2>2. QED BY <2>1, AliveKnown DEF KInv, Withdrawn, Emptied
<1>3. ASSUME NEW d \in Deltas, WebhookBeside(d) PROVE KInv'
  BY <1>3 DEF WebhookBeside, TakeDelta, main, KInv, OwnAddressesKnown, Withdrawn, Emptied
<1>4. ASSUME NEW h \in Handlers, NEW v \in VMs, EventBeside(h, v) PROVE KInv'
  BY <1>4 DEF EventBeside, MigrationEvent, main, apply, KInv, OwnAddressesKnown, Withdrawn, Emptied
<1>5. CASE FlushBeside
  BY <1>5 DEF FlushBeside, TakeBatch, Persist, PersistFails, main, apply,
              KInv, OwnAddressesKnown, Withdrawn, Emptied
<1>6. CASE WorldChanges
  BY <1>6 DEF WorldChanges, PlacementEvent, NetBoxChanges, main, apply,
              KInv, OwnAddressesKnown, Withdrawn, Emptied
<1>7. QED BY <1>1, <1>2, <1>3, <1>4, <1>5, <1>6 DEF Ordinary

LEMMA CancelledKernel ==
  ASSUME KInv, Cancelled
  PROVE  KInv'
<1>1. stage = "stopping" /\ stage' = stage /\ inherited' = inherited
  BY DEF Cancelled, main
<1>2. OwnAddressesKnown'
  <2>1. CASE Finishing
    <3>1. Alive
      BY <2>1 DEF Finishing, Alive, Run, Apply
    <3>2. QED BY <3>1, <1>1, AliveKnown DEF KInv
  <2>2. CASE CancelledCommand
    <3>1. CASE NftAbandoned(Loop)
      BY <3>1, <1>1 DEF NftAbandoned, KInv, OwnAddressesKnown
    <3>2. ASSUME NEW failed, Converge(Loop, FALSE, failed, {}) PROVE OwnAddressesKnown'
      BY <3>2, <1>1, ConvergeKnown DEF KInv
    <3>3. QED BY <2>2, <3>1, <3>2 DEF CancelledCommand
  <2>3. CASE CancelledFetch
    BY <2>3, <1>1 DEF CancelledFetch, PrimeUnanswered, FetchUnanswered, apply, KInv, OwnAddressesKnown
  <2>4. QED BY <2>1, <2>2, <2>3 DEF Cancelled
<1>3. QED BY <1>1, <1>2 DEF KInv, Withdrawn, Emptied

\* A handler that changes the kernel late ends the claim to a clean stop.
LEMMA HandlerKernel ==
  ASSUME KInv, NEW h \in Handlers, HandleBeside(h)
  PROVE  KInv'
<1>1. /\ stage' = stage /\ inherited' = inherited
      /\ clean' = (clean /\ (stage \in {"withdrawn", "flushed"} =>
                                UNCHANGED <<rules, lo, advertised>>))
      /\ ResolveClosed(h) \/ Handle(h)
  BY DEF HandleBeside, Handled
<1>2. OwnAddressesKnown'
  <2>1. CASE ResolveClosed(h)
    BY <2>1, <1>1 DEF ResolveClosed, apply, KInv, OwnAddressesKnown
  <2>2. CASE Handle(h)
    BY <2>2, <1>1, AliveKnown DEF KInv, Alive
  <2>3. QED BY <1>1, <2>1, <2>2
<1>3. Withdrawn' /\ Emptied'
  BY <1>1, <1>2 DEF KInv, OwnAddressesKnown, Withdrawn, Emptied
<1>4. QED BY <1>2, <1>3 DEF KInv

LEMMA StopKernel ==
  ASSUME KInv, Stop
  PROVE  KInv'
<1> USE DEF KInv, OwnAddressesKnown, Withdrawn, Emptied
<1>1. CASE BeginDrain \/ FlusherEnds \/ DrainEnds
  BY <1>1 DEF BeginDrain, FlusherEnds, DrainEnds, vars, apply
<1>2. CASE LastFlush
  BY <1>2 DEF LastFlush, apply
<1>3. ASSUME NEW failed \in SUBSET External, NEW effective \in SUBSET External,
             FlushRoutes(failed, effective)
      PROVE  KInv'
  <2>1. /\ advertised' = failed /\ lo' = lo \ (advertised \ (failed \ effective))
        /\ failed \subseteq advertised
        /\ killed' = (killed \ (advertised \ failed)) \cup effective
        /\ stage' = "withdrawn" /\ inherited' = inherited /\ clean' = (clean /\ failed = {})
    BY <1>3 DEF FlushRoutes
  <2>2. QED BY <2>1
<1>4. ASSUME NEW ok \in BOOLEAN, FlushTable(ok) PROVE KInv'
  <2>1. /\ stage = "withdrawn" /\ stage' = "flushed" /\ inherited' = inherited
        /\ UNCHANGED <<lo, advertised, killed>> /\ clean' = (clean /\ ok)
        /\ ok => rules' = {}
    BY <1>4 DEF FlushTable
  <2>2. QED BY <2>1
<1>5. CASE Restart
  BY <1>5 DEF Restart, Started
<1>6. QED BY <1>1, <1>2, <1>3, <1>4, <1>5 DEF Stop

LEMMA NextKInv == KInv /\ [StopNext]_allVars => KInv'
<1> SUFFICES ASSUME KInv, [StopNext]_allVars PROVE KInv'
  OBVIOUS
<1>1. CASE UNCHANGED allVars
  BY <1>1 DEF allVars, vars, apply, main, KInv, OwnAddressesKnown, Withdrawn, Emptied
<1>2. CASE Signal \/ DrainExpires
  <2>1. inherited' = inherited /\ stage' \in {"stopping", "drained"}
    BY <1>2 DEF Signal, DrainExpires
  <2>2. CASE Killed
    <3>1. CASE NftAbandoned(Loop)
      BY <2>1, <3>1 DEF NftAbandoned, KInv, OwnAddressesKnown, Withdrawn, Emptied
    <3>2. CASE ~NftAbandoned(Loop)
      <4>1. PICK failed, effective : Converge(Loop, AdoptionDue(Loop), failed, effective)
        BY <2>2, <3>2 DEF Killed
      <4>2. OwnAddressesKnown'
        BY <2>1, <4>1, ConvergeKnown DEF KInv
      <4>3. QED BY <2>1, <4>2 DEF KInv, Withdrawn, Emptied
    <3>3. QED BY <3>1, <3>2
  <2>3. CASE ~Killed
    BY <1>2, <2>1, <2>3 DEF Signal, DrainExpires, apply, KInv, OwnAddressesKnown, Withdrawn, Emptied
  <2>4. QED BY <2>2, <2>3
<1>3. QED BY <1>1, <1>2, OrdinaryKernel, CancelledKernel, HandlerKernel, StopKernel, StopNextCases

LEMMA SpecKInv == StopSpec => []KInv
  BY InitKInv, NextKInv, PTL DEF StopSpec

\* Whatever failed since, the process knows every address it put on the interface
\* (reconciler.go:1226-1262), but those an ip added before it was killed: nothing
\* else makes it lose track of one.
THEOREM OwnAddresses == StopSpec => []OwnAddressesKnown
<1>1. KInv => OwnAddressesKnown
  BY DEF KInv
<1>2. QED BY <1>1, SpecKInv, PTL

\* A stop whose commands succeeded and that no handler disturbed leaves no rule, and
\* no address this process brought (main.go:172-182) but those an ip added before it
\* was killed, by its timeout or by the signal.
THEOREM StopsClean == StopSpec => []CleanStop
<1>1. KInv => CleanStop
  BY DEF KInv, Withdrawn, Emptied, CleanStop
<1>2. QED BY <1>1, SpecKInv, PTL

-----------------------------------------------------------------------------
(* The addresses of others *)

LEMMA ConvergeForeign ==
  ASSUME TypeOK, ForeignUntouched,
         NEW w \in Workers, NEW adopt, NEW failed, NEW effective,
         Converge(w, adopt, failed, effective)
  PROVE  ForeignUntouched'
<1>1. lo \ lo' \subseteq advertised \cup work[w].managed
  BY DEF Converge
<1>2. advertised \subseteq External /\ work[w].managed \subseteq External
  BY DEF TypeOK, Job
<1>3. QED BY <1>1, <1>2, ReconcilerAssumption DEF ForeignUntouched

LEMMA ForeignStopStep == TypeOK /\ ForeignUntouched /\ [StopNext]_allVars => ForeignUntouched'
<1> SUFFICES ASSUME TypeOK, ForeignUntouched, [StopNext]_allVars PROVE ForeignUntouched'
  OBVIOUS
<1>1. CASE Ordinary
  BY <1>1, OrdinaryNext, ForeignStep
<1>2. CASE UNCHANGED allVars
  BY <1>2, ForeignStep DEF allVars
<1>3. CASE Cancelled
  <2>1. CASE Finishing
    <3>1. Next
      BY <2>1 DEF Finishing, Next, Run, Apply
    <3>2. QED BY <3>1, ForeignStep
  <2>2. CASE CancelledCommand
    BY <2>2, ConvergeForeign, PCs DEF CancelledCommand, NftAbandoned, ForeignUntouched
  <2>3. CASE CancelledFetch
    BY <2>3 DEF CancelledFetch, PrimeUnanswered, FetchUnanswered, apply, ForeignUntouched
  <2>4. QED BY <1>3, <2>1, <2>2, <2>3 DEF Cancelled
<1>4. ASSUME NEW h \in Handlers, HandleBeside(h) PROVE ForeignUntouched'
  <2>1. CASE ResolveClosed(h)
    BY <2>1 DEF ResolveClosed, apply, ForeignUntouched
  <2>2. CASE Handle(h)
    BY <2>2, ForeignStep DEF Next
  <2>3. QED BY <1>4, <2>1, <2>2 DEF HandleBeside, Handled
<1>5. CASE Signal \/ DrainExpires
  BY <1>5, ConvergeForeign, PCs
  DEF Signal, Killed, NftAbandoned, DrainExpires, apply, ForeignUntouched
<1>6. CASE Stop
  <2>1. ASSUME NEW failed, NEW effective, FlushRoutes(failed, effective) PROVE ForeignUntouched'
    <3>1. lo \ lo' \subseteq advertised /\ advertised \subseteq External
      BY <2>1 DEF FlushRoutes, TypeOK
    <3>2. QED BY <3>1, ReconcilerAssumption DEF ForeignUntouched
  <2>2. CASE ~\E failed, effective \in SUBSET External : FlushRoutes(failed, effective)
    BY <1>6, <2>2 DEF Stop, BeginDrain, LastFlush, FlusherEnds, DrainEnds, FlushTable, Restart,
                      vars, apply, ForeignUntouched
  <2>3. QED BY <2>1, <2>2
<1>7. QED BY <1>1, <1>2, <1>3, <1>4, <1>5, <1>6, StopNextCases

\* Withdrawing what the process knows, a stop leaves the addresses of others alone
\* (reconciler.go:1280-1284).
THEOREM ForeignThroughStops == StopSpec => []ForeignUntouched
<1>1. StopInit => TypeOK /\ ForeignUntouched
  BY InitType DEF StopInit, Init, ForeignUntouched
<1>2. QED BY <1>1, StopNextType, ForeignStopStep, PTL DEF StopSpec
-----------------------------------------------------------------------------
(* The record of what is announced *)

LEMMA ConvergeAnnounced ==
  ASSUME AnnouncedTrue, NEW w, NEW adopt, NEW failed, NEW effective,
         Converge(w, adopt, failed, effective)
  PROVE  AnnouncedTrue'
  BY DEF Converge, AnnouncedTrue

LEMMA AnnouncedStopStep == AnnouncedTrue /\ [StopNext]_allVars => AnnouncedTrue'
<1> SUFFICES ASSUME AnnouncedTrue, [StopNext]_allVars PROVE AnnouncedTrue'
  OBVIOUS
<1>1. CASE Ordinary
  BY <1>1, OrdinaryNext, AnnouncedStep
<1>2. CASE UNCHANGED allVars
  BY <1>2, AnnouncedStep DEF allVars
<1>3. CASE Cancelled
  <2>1. CASE Finishing
    <3>1. Next
      BY <2>1 DEF Finishing, Next, Run, Apply
    <3>2. QED BY <3>1, AnnouncedStep
  <2>2. CASE CancelledCommand
    BY <2>2, ConvergeAnnounced DEF CancelledCommand, NftAbandoned, AnnouncedTrue
  <2>3. CASE CancelledFetch
    BY <2>3 DEF CancelledFetch, PrimeUnanswered, FetchUnanswered, apply, AnnouncedTrue
  <2>4. QED BY <1>3, <2>1, <2>2, <2>3 DEF Cancelled
<1>4. ASSUME NEW h \in Handlers, HandleBeside(h) PROVE AnnouncedTrue'
  <2>1. CASE ResolveClosed(h)
    BY <2>1 DEF ResolveClosed, apply, AnnouncedTrue
  <2>2. CASE Handle(h)
    BY <2>2, AnnouncedStep DEF Next
  <2>3. QED BY <1>4, <2>1, <2>2 DEF HandleBeside, Handled
<1>5. CASE Signal \/ DrainExpires
  BY <1>5, ConvergeAnnounced DEF Signal, Killed, NftAbandoned, DrainExpires, apply, AnnouncedTrue
<1>6. CASE Stop
  <2>1. ASSUME NEW failed, NEW effective, FlushRoutes(failed, effective) PROVE AnnouncedTrue'
    <3>1. /\ failed \subseteq advertised /\ advertised' = failed
          /\ lo' = lo \ (advertised \ (failed \ effective))
          /\ killed' = (killed \ (advertised \ failed)) \cup effective
      BY <2>1 DEF FlushRoutes
    <3>2. QED BY <3>1 DEF AnnouncedTrue
  <2>2. CASE Restart
    BY <2>2 DEF Restart, Reborn, AnnouncedTrue
  <2>3. CASE ~Restart /\ ~\E failed, effective \in SUBSET External : FlushRoutes(failed, effective)
    BY <1>6, <2>3 DEF Stop, BeginDrain, LastFlush, FlusherEnds, DrainEnds, FlushTable,
                      vars, apply, AnnouncedTrue
  <2>4. QED BY <2>1, <2>2, <2>3
<1>7. QED BY <1>1, <1>2, <1>3, <1>4, <1>5, <1>6, StopNextCases

\* Through cancelled applies, partial withdrawals and restarts as well, what the
\* process takes for announced is on the interface (reconciler.go:1245-1263), unless
\* an ip removed it before it was killed: with OwnAddresses, killed commands are all
\* that makes the process lose track of an address, in either direction.
THEOREM AnnouncedThroughStops == StopSpec => []AnnouncedTrue
<1>1. StopInit => AnnouncedTrue
  BY DEF StopInit, Init, AnnouncedTrue
<1>2. QED BY <1>1, AnnouncedStopStep, PTL DEF StopSpec

-----------------------------------------------------------------------------
(* What is served is not taken back by a stop *)

\* Beside the hypotheses of RetainedServed there is no migration handler: a Run
\* whose context is cancelled falls back without the mutex, whatever NetBox does,
\* and its apply may overlap one of a handler.
LEMMA AloneSolo == Handlers = {} => Solo
  BY DEF Solo, Workers

\* A command that is killed or refused remembers and retains as before.
LEMMA KilledSInv ==
  ASSUME SInv, TypeOK, Killed \/ CancelledCommand
  PROVE  SInv'
<1> DEFINE job == work[Loop]
<1>1. Loop \in Workers /\ job \in Job
  BY PCs DEF TypeOK
<1>2. CASE NftAbandoned(Loop)
  <2>1. Become(Loop, Idle) /\ UNCHANGED <<lastApplied, cache, store>>
    BY <1>2 DEF NftAbandoned, Done
  <2>2. job.pc # "boot"
    BY <1>2 DEF NftAbandoned
  <2>3. (StillKnown /\ Unread /\ Answered /\ Retains)'
    BY <1>1, <2>1, <2>2, PCs, BesideSInv DEF store
  <2>4. QED BY <2>1, <2>3 DEF SInv, Remembered, CacheAnswered, store
<1>3. ASSUME NEW adopt, NEW failed, NEW effective,
             Converge(Loop, adopt, failed, effective), job.pc = "bgp"
      PROVE  SInv'
  <2> DEFINE new == [job EXCEPT !.pc = IF job.first /\ ~job.same THEN "nft" ELSE "finish"]
  <2>1. Become(Loop, new) /\ UNCHANGED <<lastApplied, cache, store>>
    BY <1>3 DEF Converge
  <2>2. new.pc \in {"nft", "finish"} /\ new.applied = job.applied /\ new.saw = job.saw
    BY <1>1 DEF Job
  <2> HIDE DEF new
  <2>3. QED BY <1>1, <1>3, <2>1, <2>2, OnwardSInv DEF Resolved
<1>4. QED BY <1>2, <1>3 DEF Killed, CancelledCommand

\* What Run still does with its context cancelled remembers, believes and retains
\* as before; its commands change no address.
LEMMA CancelledSInv ==
  ASSUME SInv, TypeOK, OnlyTruth, Handlers = {}, Cancelled
  PROVE  SInv'
<1> DEFINE job == work[Loop]
<1>0. Loop \in Workers /\ job \in Job /\ Booting \in Job
  BY PCs, IdleTyped DEF TypeOK
<1>1. CASE Finishing
  BY <1>1, AloneSolo, RunSInv DEF Finishing, Run, Apply
<1>2. CASE CancelledCommand
  BY <1>2, KilledSInv
<1>3. CASE PrimeUnanswered
  <2>1. PICK new : Become(Loop, new) /\ new.pc \in {"idle", "seed"}
    <3>1. [Booting EXCEPT !.pc = "seed", !.table = AllStored].pc = "seed"
      BY <1>0 DEF Job
    <3>2. QED BY <1>3, <3>1, PCs DEF PrimeUnanswered
  <2>2. UNCHANGED <<lastApplied, cache, store>> /\ job.pc # "boot"
    BY <1>3 DEF PrimeUnanswered, apply
  <2>3. (StillKnown /\ Unread /\ Answered /\ Retains)'
    BY <1>0, <2>1, <2>2, BesideSInv DEF store
  <2>4. QED BY <2>2, <2>3 DEF SInv, Remembered, CacheAnswered, store
<1>4. CASE FetchUnanswered
  <2> DEFINE new == At("resolve", "fallback", EmptyTable, TRUE)
  <2>1. Become(Loop, new) /\ UNCHANGED <<lastApplied, cache, store>> /\ job.pc # "boot"
    BY <1>4 DEF FetchUnanswered, apply
  <2>2. new.pc = "resolve" /\ new.source = "fallback" /\ new.table = EmptyTable /\ new.nothing = TRUE
    BY DEF At
  <2> HIDE DEF new
  <2>3. (StillKnown /\ Unread /\ Answered /\ Retains)'
    BY <1>0, <2>1, <2>2, BesideSInv DEF Answers, store
  <2>4. QED BY <2>1, <2>3 DEF SInv, Remembered, CacheAnswered, store
<1>5. QED BY <1>1, <1>2, <1>3, <1>4 DEF Cancelled, CancelledFetch

\* main's own steps: the last flush moves what is queued, and a new process starts
\* from files that lack nothing.
LEMMA StopSInv ==
  ASSUME SInv, Stop
  PROVE  SInv'
<1>1. CASE UNCHANGED <<work, lastApplied, cache, store>>
  BY <1>1 DEF SInv, Remembered, StillKnown, Found, Unread, Applying, CacheAnswered, Answered,
              Retains, Resolved, store
<1>2. CASE LastFlush
  <2>1. Remembered'
    BY <1>2 DEF LastFlush, apply, SInv, Remembered, NoEntries
  <2>2. StillKnown'
    BY <1>2, ReconcilerAssumption DEF LastFlush, SInv, StillKnown, Found, NoEntries
  <2>3. UNCHANGED <<work, lastApplied, cache, stored>>
    BY <1>2 DEF LastFlush, apply
  <2>4. QED BY <2>1, <2>2, <2>3
    DEF SInv, Unread, Applying, CacheAnswered, Answered, Retains, Resolved
<1>3. CASE Restart
  <2>1. \A w \in Workers : work'[w].pc \in {"boot", "idle"}
    BY <1>3, PCs DEF Restart, Reborn, Boot
  <2>2. Remembered'
    BY <1>3 DEF Restart, Reborn, SInv, Remembered, Whole, EmptyTable, NoEntries, NothingKnown
  <2>3. CacheAnswered'
    BY <1>3 DEF Restart, Reborn, CacheAnswered, ColdCache, Answers
  <2>4. StillKnown' /\ Unread'
    <3>1. /\ work'[Loop].pc = "boot" /\ stored' = disk /\ disk' = disk
          /\ pending' = NoEntries /\ batch' = NoEntries /\ ~cache'.ready
      BY <1>3, PCs DEF Restart, Reborn, Boot, ColdCache
    <3>2. QED BY <2>1, <3>1, ReconcilerAssumption
      DEF StillKnown, Found, NoEntries, Unread, Applying
  <2>5. QED BY <2>1, <2>2, <2>3, <2>4 DEF SInv, Answered, Retains, Resolved
<1>4. QED
  BY <1>1, <1>2, <1>3 DEF Stop, BeginDrain, FlusherEnds, DrainEnds, FlushRoutes, FlushTable,
                          vars, apply

LEMMA StopNextSInv ==
  ASSUME OnlyTruth, Handlers = {}
  PROVE  SInv /\ TypeOK /\ [StopNext]_allVars => SInv'
<1> SUFFICES ASSUME SInv, TypeOK, [StopNext]_allVars PROVE SInv'
  OBVIOUS
<1>1. CASE Ordinary \/ UNCHANGED allVars
  BY <1>1, OrdinaryNext, AloneSolo, NextSInv DEF allVars
<1>2. CASE Signal \/ DrainExpires
  <2>1. CASE Killed
    BY <2>1, KilledSInv
  <2>2. CASE ~Killed
    BY <1>2, <2>2 DEF Signal, DrainExpires, apply, store, SInv, Remembered, StillKnown, Found,
                      Unread, Applying, CacheAnswered, Answered, Retains, Resolved
  <2>3. QED BY <2>1, <2>2
<1>3. QED BY <1>1, <1>2, CancelledSInv, StopSInv, StopNextCases

\* A step that ends a worker's reconcileBGP changes addresses only as far as the
\* apply it belongs to allows, also where the signal kills it; a cancelled one
\* changes none.
LEMMA StopDropsNothing ==
  ASSUME SInv, TypeOK, [StopNext]_allVars, Handlers = {}, NEW v \in VMs, NEW w \in Workers,
         work[w].pc = "bgp", work'[w].pc # "bgp", v \in work[w].saw \cap active
  PROVE  (lo \ lo') \cap Externals(lastApplied[v] \cup stored[v]) \cap AlwaysMapped(v) = {}
<1>1. CASE Ordinary \/ UNCHANGED allVars
  BY <1>1, OrdinaryNext, DropsNothingServed DEF allVars
<1>2. CASE Cancelled
  <2>1. CASE Finishing
    <3>1. Next
      BY <2>1 DEF Finishing, Next, Run, Apply
    <3>2. QED BY <3>1, DropsNothingServed
  <2>2. CASE CancelledCommand
    BY <2>2 DEF CancelledCommand, NftAbandoned, Converge
  <2>3. CASE CancelledFetch
    BY <2>3 DEF CancelledFetch, PrimeUnanswered, FetchUnanswered, apply
  <2>4. QED BY <1>2, <2>1, <2>2, <2>3 DEF Cancelled
<1>3. CASE Stop
  <2>1. CASE Restart
    BY <2>1 DEF Restart
  <2>2. CASE ~Restart
    BY <1>3, <2>2 DEF Stop, BeginDrain, LastFlush, FlusherEnds, DrainEnds, FlushRoutes, FlushTable, vars
  <2>3. QED BY <2>1, <2>2
<1>4. CASE Signal \/ DrainExpires
  <2>1. CASE Killed
    <3>1. CASE NftAbandoned(Loop)
      BY <3>1 DEF NftAbandoned
    <3>2. CASE ~NftAbandoned(Loop)
      <4>1. PICK failed, effective : Converge(Loop, AdoptionDue(Loop), failed, effective)
        BY <2>1, <3>2 DEF Killed
      <4>2. w = Loop
        BY DEF Workers
      <4>3. (lo \ lo') \cap Addresses(work[w].applied) = {}
        BY <4>1, <4>2 DEF Converge
      <4>4. Externals(work[w].applied[v]) \subseteq Addresses(work[w].applied)
        BY DEF Addresses, Rules, Externals
      <4>5. Externals(lastApplied[v] \cup stored[v]) \cap AlwaysMapped(v)
              \subseteq Externals(work[w].applied[v])
        BY DEF SInv, Retains, Resolved
      <4>6. QED BY <4>3, <4>4, <4>5
    <3>3. QED BY <3>1, <3>2
  <2>2. CASE ~Killed
    <3>1. work' = work
      BY <1>4, <2>2 DEF Signal, DrainExpires
    <3>2. QED BY <3>1
  <2>3. QED BY <2>1, <2>2
<1>5. QED BY <1>1, <1>2, <1>3, <1>4, StopNextCases

\* With Run alone, whatever fails, hangs or dies before, during or after a stop: no
\* apply, cancelled, killed or not, withdraws what the last one served or what its
\* process found in the VM's backup, where it has been mapped all along.
THEOREM ServedThroughStops ==
  ASSUME OnlyTruth, Handlers = {}
  PROVE  StopSpec => KeepsServing
<1> DEFINE Step ==
      \A v \in VMs, w \in Workers :
        work[w].pc = "bgp" /\ work'[w].pc # "bgp" /\ v \in work[w].saw \cap active =>
          (lo \ lo') \cap Externals(lastApplied[v] \cup stored[v]) \cap AlwaysMapped(v) = {}
<1>1. SInv /\ TypeOK /\ [StopNext]_allVars => [Step]_vars
  BY StopDropsNothing
<1>2. StopInit => SInv
  BY InitSInv DEF StopInit
<1>3. StopSpec => []SInv
  BY <1>2, StopNextSInv, StopTypeCorrect, PTL DEF StopSpec
<1>4. QED BY <1>1, <1>3, StopTypeCorrect, PTL DEF StopSpec, KeepsServing
-----------------------------------------------------------------------------
(* The backups in memory *)

LEMMA CancelledMInv ==
  ASSUME TypeOK, MInv, Cancelled
  PROVE  MInv'
<1>1. CASE Finishing
  BY <1>1, RunMInv DEF Finishing, Run, Apply
<1>2. CASE ~Finishing
  <2>1. UNCHANGED store /\ work[Loop].pc # "boot"
    BY <1>2 DEF Cancelled, CancelledCommand, CancelledFetch, NftAbandoned, Converge,
                PrimeUnanswered, FetchUnanswered
  <2>2. QED BY <2>1, QueueingMInv DEF Queueing, store
<1>3. QED BY <1>1, <1>2

LEMMA StopMInv ==
  ASSUME TypeOK, MInv, Stop
  PROVE  MInv'
<1>1. CASE LastFlush
  BY <1>1 DEF LastFlush, MInv, NoEntries
<1>2. CASE Restart
  BY <1>2, RebornMInv DEF Restart
<1>3. CASE ~LastFlush /\ ~Restart
  <2>1. UNCHANGED <<work, store>>
    BY <1>3 DEF Stop, BeginDrain, FlusherEnds, DrainEnds, FlushRoutes, FlushTable, vars
  <2>2. QED BY <2>1, QueueingMInv DEF Queueing, store
<1>4. QED BY <1>1, <1>2, <1>3

LEMMA StopNextMInv == TypeOK /\ MInv /\ [StopNext]_allVars => MInv'
<1> SUFFICES ASSUME TypeOK, MInv, [StopNext]_allVars PROVE MInv'
  OBVIOUS
<1>1. CASE Ordinary \/ UNCHANGED allVars
  BY <1>1, OrdinaryNext, NextMInv DEF allVars
<1>2. CASE Signal \/ DrainExpires
  <2>1. UNCHANGED store
    BY <1>2 DEF Signal, DrainExpires, Killed, NftAbandoned, Converge
  <2>2. work[Loop].pc # "boot" \/ UNCHANGED work
    BY <1>2 DEF Signal, DrainExpires, Killed, NftAbandoned
  <2>3. QED BY <2>1, <2>2, QueueingMInv DEF Queueing, store
<1>3. ASSUME NEW h \in Handlers, HandleBeside(h) PROVE MInv'
  <2>1. CASE Handle(h)
    <3>1. Next
      BY <2>1 DEF Next
    <3>2. QED BY <3>1, NextMInv
  <2>2. CASE ResolveClosed(h)
    <3>1. UNCHANGED store /\ work'[Loop] = work[Loop]
      BY <2>2, PCs, ReconcilerAssumption DEF ResolveClosed, Become, TypeOK
    <3>2. QED BY <3>1, QueueingMInv DEF Queueing, store
  <2>3. QED BY <1>3, <2>1, <2>2 DEF HandleBeside, Handled
<1>4. QED BY <1>1, <1>2, <1>3, CancelledMInv, StopMInv, StopNextCases

\* Through cancelled applies, a last flush that fails or is left behind, and
\* restarts (main.go:162-184), what retention would serve of a VM with nothing on
\* its way to the disk is what the next process finds.
THEOREM MemoryThroughStops == StopSpec => []MemoryTrue
<1>1. StopInit => MInv
  BY InitMInv DEF StopInit
<1>2. QED BY <1>1, StopNextMInv, MInvMemory, StopTypeCorrect, PTL DEF StopSpec
=============================================================================
