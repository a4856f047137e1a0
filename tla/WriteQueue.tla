----------------------------- MODULE WriteQueue -----------------------------
(***************************************************************************)
(* What the backup store promises of its writes, per VM: a queue of        *)
(* requests that may be coalesced but is never reordered.  The file always *)
(* holds the oldest contents or a request taken from the front; the newest *)
(* request is only ever dropped by a crash.                                *)
(***************************************************************************)
EXTENDS Sequences, SequencesExt

CONSTANTS VMs, Value

VARIABLES file, queue

Init ==
  /\ file \in [VMs -> Value]
  /\ queue = [v \in VMs |-> <<>>]

\* A request joins the queue, possibly replacing the newest one.
Request(v, d) ==
  /\ \/ queue' = [queue EXCEPT ![v] = Append(@, d)]
     \/ queue[v] # <<>> /\ queue' = [queue EXCEPT ![v] = Append(Front(@), d)]
  /\ UNCHANGED file

\* The oldest request reaches the disk.
Store(v) ==
  /\ queue[v] # <<>>
  /\ file' = [file EXCEPT ![v] = Head(queue[v])]
  /\ queue' = [queue EXCEPT ![v] = Tail(@)]

\* A request that failed is given up only for a newer one.
Supersede(v) ==
  /\ Len(queue[v]) > 1
  /\ queue' = [queue EXCEPT ![v] = Tail(@)]
  /\ UNCHANGED file

Crash ==
  /\ queue' = [v \in VMs |-> <<>>]
  /\ UNCHANGED file

Next ==
  \/ \E v \in VMs : Store(v) \/ Supersede(v) \/ \E d \in Value : Request(v, d)
  \/ Crash

Spec == Init /\ [][Next]_<<file, queue>>
=============================================================================
