---------------------------- MODULE BackupEntry -----------------------------
(***************************************************************************)
(* One VM's entry in the backup store (internal/reconciler/backup.go): the *)
(* bytes wanted on disk but not yet taken by the flusher (pending) and the *)
(* bytes believed to be on disk (cache).  Every store method takes the     *)
(* store's mutex, so its effect on one entry is one of these operators.    *)
(***************************************************************************)
CONSTANTS
  Data,      \* file contents: encoded mappings of a VM
  Nil,       \* no file; also the tombstone that asks for its removal
  None,      \* no entry in the map (pending, or the batch being written)
  Unknown    \* known[vmid] is false

ASSUME EntryAssumption ==
  /\ Nil \notin Data
  /\ None \notin Data /\ None # Nil
  /\ Unknown \notin Data /\ Unknown # Nil

Value == Data \cup {Nil}

\* enqueue drops a request whose value is already queued or believed stored.
Redundant(p, c, d) == IF p # None THEN p = d ELSE c = d

\* enqueue, while the store is open: the pending entry it leaves.
Enqueued(p, c, d) == IF Redundant(p, c, d) THEN p ELSE d

\* What load answers from memory; Unknown sends it to the file or, once the
\* directory has been scanned, makes it answer "absent".
InMemory(p, c) == IF p # None THEN p ELSE c

LoadedFrom(p, c, scanned, file) ==
  CASE InMemory(p, c) # Unknown -> InMemory(p, c)
    [] InMemory(p, c) = Unknown /\ scanned -> Nil
    [] OTHER -> file
=============================================================================
