---------------------------- MODULE MappingCache ----------------------------
(***************************************************************************)
(* The reconciler's mapping cache (mappingByVMID, mappingPendingByName and *)
(* vmIDByName) as a value, and what a full fetch and a webhook delta make  *)
(* of it and of a VM's backup (internal/reconciler/reconciler.go).         *)
(*                                                                         *)
(* A mapping of a VM is a pair of addresses <<external, internal>>; a VM   *)
(* without an entry in a map has the empty set.  A VM is its VMID.  Its    *)
(* name need not be its own: a name may be shared, or used again.  All of  *)
(* a delta's addresses parse.                                              *)
(***************************************************************************)
CONSTANTS
  VMs,                  \* VMIDs
  NoVM,                 \* no VMID
  Names, NoName,        \* names of VMs; no name
  NameOf,               \* what NetBox calls each VM
  External, Internal,   \* addresses
  NoAddress             \* a delta without an internal address

ASSUME NamesAssumption ==
  /\ NoVM \notin VMs
  /\ NoName \notin Names
  /\ NameOf \in [VMs -> Names]

Pair == External \X Internal
Table == [VMs -> SUBSET Pair]
EmptyTable == [v \in VMs |-> {}]
NothingWaits == [n \in Names |-> {}]

\* The external addresses of some mappings, and of a whole table.
Externals(pairs) == {p[1] : p \in pairs}
Rules(table) == UNION {table[v] : v \in VMs}
Addresses(table) == Externals(Rules(table))

\* byID: mappingByVMID; byName: mappingPendingByName; ids: vmIDByName
Cache ==
  [ready: BOOLEAN, byID: Table, byName: [Names -> SUBSET Pair], ids: [Names -> VMs \cup {NoVM}]]
ColdCache ==
  [ready |-> FALSE, byID |-> EmptyTable, byName |-> NothingWaits, ids |-> [n \in Names |-> NoVM]]

\* The addresses the cache holds, and whether cachedMappings() is empty.
CachedAddresses(c) == Addresses(c.byID) \cup Externals(UNION {c.byName[n] : n \in Names})
NothingCached(c) == c.byID = EmptyTable /\ c.byName = NothingWaits

\* rebuildMappingCache.  Of two VMs with one name, the last in the answer has it.
Named(table, n) == {v \in VMs : table[v] # {} /\ NameOf[v] = n}

Rebuilt(table) ==
  [ready |-> TRUE, byID |-> table, byName |-> NothingWaits,
   ids |-> [n \in Names |-> IF Named(table, n) = {} THEN NoVM
                            ELSE CHOOSE v \in Named(table, n) : TRUE]]

\* reconcileFromWebhookDelta starts an empty cache if there is none yet.
Opened(c) == [c EXCEPT !.ready = TRUE]

\* id and name: the VMID and the name of the VM it carries, if it does; exts:
\* nat_outside.
Delta ==
  [model: {"virtualmachine", "ipaddress", "vminterface"}, deleted: BOOLEAN,
   id: VMs \cup {NoVM}, name: Names \cup {NoName},
   internal: Internal \cup {NoAddress}, exts: SUBSET External]

DeltaPairs(d) == {<<e, d.internal>> : e \in IF d.internal = NoAddress THEN {} ELSE d.exts}

\* The VMID a delta is about: the one it carries or, given its name, the one the
\* cache has under that name, which may by now be another VM's.
Attributed(c, d) ==
  IF d.id # NoVM THEN d.id ELSE IF d.name # NoName THEN c.ids[d.name] ELSE NoVM

\* applyDeltaToCache, first part: a name met with its VMID releases what was
\* waiting for that name.
NameResolved(c, d) ==
  IF d.id # NoVM /\ d.name # NoName
  THEN [c EXCEPT !.ids[d.name] = d.id,
                 !.byID[d.id] = IF c.byName[d.name] # {} THEN c.byName[d.name] ELSE @,
                 !.byName[d.name] = {}]
  ELSE c

\* The maps c.byID and c.byName without the entry of v and that of n.
WithoutVM(c, v) == [w \in VMs |-> IF w = v THEN {} ELSE c.byID[w]]
WithoutName(c, n) == [m \in Names |-> IF m = n THEN {} ELSE c.byName[m]]

\* A VM is deleted: every name the cache has it under goes with it.
VMGone(c, v, n) ==
  LET its == {m \in Names : v # NoVM /\ c.ids[m] = v} IN
  [c EXCEPT !.byID = WithoutVM(c, v),
            !.byName = [m \in Names |-> IF m \in its \cup {n} THEN {} ELSE c.byName[m]],
            !.ids = [m \in Names |-> IF m \in its THEN NoVM ELSE c.ids[m]]]

\* An address leaves v, or whatever is called n.
AddressGone(c, v, n) == [c EXCEPT !.byID = WithoutVM(c, v), !.byName = WithoutName(c, n)]

\* Mappings come: of v or, as long as v is not known, of whatever is called n.
AddressSet(c, v, n, pairs) ==
  IF v # NoVM
  THEN [c EXCEPT !.byID[v] = pairs, !.ids = [m \in Names |-> IF m = n THEN v ELSE c.ids[m]]]
  ELSE [c EXCEPT !.byName[n] = pairs]

\* applyDeltaToCache
DeltaToCache(c0, d) ==
  LET c == NameResolved(c0, d)
      v == Attributed(c, d)
  IN IF d.model = "virtualmachine" /\ d.deleted THEN VMGone(c, v, d.name)
     ELSE IF d.model # "ipaddress" \/ (v = NoVM /\ d.name = NoName) THEN c
     ELSE IF d.deleted \/ DeltaPairs(d) = {} THEN AddressGone(c, v, d.name)
     ELSE AddressSet(c, v, d.name, DeltaPairs(d))

\* syncBackupFromDelta: the mappings of the delta's internal address replace
\* those stored for it; every other stored mapping is kept.
Merged(existing, d) ==
  {p \in existing : p[2] # d.internal /\ p[1] \notin d.exts}
    \cup IF d.deleted THEN {} ELSE DeltaPairs(d)
=============================================================================
