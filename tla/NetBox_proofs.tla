--------------------------- MODULE NetBox_proofs ---------------------------
(***************************************************************************)
(* Proofs about the fetch of the NAT mappings, for any VMs and addresses,  *)
(* any page and batch size and any number of edits, failures and lost      *)
(* webhooks: the types, that a fetch returns only mappings NetBox had      *)
(* while it ran, and that it misses none NetBox had all the time unless a  *)
(* row left the listing meanwhile; and what deltas do to the cache, one by *)
(* one, in other orders and repeatedly.  Once NetBox rests, a fetch        *)
(* returns exactly its table, and the cache becomes and stays accurate.    *)
(*                                                                         *)
(* The invariant speaks of the fetch under way: what it has collected or   *)
(* has yet to resolve comes from the past, and covers every steady mapping *)
(* whose row is in front of the offset.  Rows only move back as long as    *)
(* none leaves, so that none moves in front of the offset unread.          *)
(***************************************************************************)
EXTENDS NetBox, FiniteSetTheorems, TLAPS

USE NetBoxAssumption, NamesAssumption DEF NetBoxAssumption, NamesAssumption

LEMMA TablesTyped ==
  /\ EmptyTable \in Table /\ NothingWaits \in [Names -> SUBSET Pair] /\ IdleFetch \in Fetching
  /\ ColdCache \in Cache
  /\ \A t \in Table : Rebuilt(t) \in Cache
<1>1. EmptyTable \in Table /\ NothingWaits \in [Names -> SUBSET Pair]
  BY DEF EmptyTable, NothingWaits, Table
<1>2. IdleFetch \in Fetching
  BY <1>1 DEF IdleFetch, Fetching
<1>3. ColdCache \in Cache
  BY <1>1 DEF ColdCache, Cache
<1>4. ASSUME NEW t \in Table PROVE Rebuilt(t) \in Cache
  <2> DEFINE its(n) == IF Named(t, n) = {} THEN NoVM ELSE CHOOSE v \in Named(t, n) : TRUE
  <2>1. \A n : its(n) \in VMs \cup {NoVM}
    BY DEF Named
  <2> HIDE DEF its
  <2>2. [n \in Names |-> its(n)] \in [Names -> VMs \cup {NoVM}]
    BY <2>1
  <2>3. Rebuilt(t) = [ready |-> TRUE, byID |-> t, byName |-> NothingWaits,
                      ids |-> [n \in Names |-> its(n)]]
    BY DEF Rebuilt, its
  <2>4. QED BY <1>1, <2>2, <2>3 DEF Cache
<1>5. QED BY <1>1, <1>2, <1>3, <1>4

LEMMA PairsTyped ==
  ASSUME NEW i \in Internal
  PROVE  PairsOf(i) \subseteq Pair /\ \A p \in PairsOf(i) : p[2] = i /\ nat[p[1]] = i
  BY DEF PairsOf, Outside, Pair

\* What the template renders is a delta.
LEMMA WebhookTyped ==
  ASSUME NEW model \in {"virtualmachine", "ipaddress", "vminterface"}, NEW deleted \in BOOLEAN,
         NEW v \in VMs \cup {NoVM}, NEW id \in BOOLEAN, NEW i \in Internal \cup {NoAddress},
         NEW exts \in SUBSET External
  PROVE  Webhook(model, deleted, v, id, i, exts) \in Delta
<1> DEFINE name == IF v = NoVM THEN NoName ELSE NameOf[v]
           its == IF id THEN v ELSE NoVM
<1>1. name \in Names \cup {NoName} /\ its \in VMs \cup {NoVM}
  OBVIOUS
<1>2. Webhook(model, deleted, v, id, i, exts)
        = [model |-> model, deleted |-> deleted, id |-> its, name |-> name,
           internal |-> i, exts |-> exts]
  BY DEF Webhook
<1> HIDE DEF name, its
<1>3. QED BY <1>1, <1>2 DEF Delta

\* The mapping cache keeps its shape under every delta.
LEMMA ResolvedTyped ==
  ASSUME NEW c \in Cache, NEW d \in Delta
  PROVE  NameResolved(c, d) \in Cache
<1>1. CASE d.id # NoVM /\ d.name # NoName
  <2>1. d.id \in VMs /\ d.name \in Names
    BY <1>1 DEF Delta
  <2> DEFINE byID == [c.byID EXCEPT ![d.id] =
                        IF c.byName[d.name] # {} THEN c.byName[d.name] ELSE c.byID[d.id]]
             byName == [c.byName EXCEPT ![d.name] = {}]
             known == [c.ids EXCEPT ![d.name] = d.id]
  <2>2. byID \in Table /\ byName \in [Names -> SUBSET Pair] /\ known \in [Names -> VMs \cup {NoVM}]
    BY <2>1 DEF Cache, Table
  <2>3. NameResolved(c, d) = [ready |-> c.ready, byID |-> byID, byName |-> byName, ids |-> known]
    BY <1>1, <2>1 DEF NameResolved, Cache
  <2> HIDE DEF byID, byName, known
  <2>4. QED BY <2>2, <2>3 DEF Cache
<1>2. CASE ~(d.id # NoVM /\ d.name # NoName)
  BY <1>2 DEF NameResolved
<1>3. QED BY <1>1, <1>2

\* A name with its VMID is resolved to it, so that the attribution stays the same.
LEMMA ResolvedAttributed ==
  ASSUME NEW c \in Cache, NEW d \in Delta
  PROVE  /\ Attributed(NameResolved(c, d), d) = Attributed(c, d)
         /\ Attributed(c, d) \in VMs \cup {NoVM}
<1>1. CASE d.id # NoVM
  BY <1>1 DEF Attributed, Delta
<1>2. CASE d.id = NoVM
  BY <1>2 DEF Attributed, NameResolved, Delta, Cache
<1>3. QED BY <1>1, <1>2

-----------------------------------------------------------------------------
(* What a delta does to the cache, entry by entry *)

Resolving(d) == d.id # NoVM /\ d.name # NoName
Gone(d) == d.model = "virtualmachine" /\ d.deleted
About(c, d) == d.model = "ipaddress" /\ ~(Attributed(c, d) = NoVM /\ d.name = NoName)
Nothing(d) == d.deleted \/ DeltaPairs(d) = {}

\* What it leaves of a VM, of what waits for a name, and of the VMID of a name
MappedAfter(c, d, w) ==
  IF w # Attributed(c, d) THEN c.byID[w]
  ELSE IF Gone(d) \/ (About(c, d) /\ Nothing(d)) THEN {}
  ELSE IF About(c, d) THEN DeltaPairs(d)
  ELSE IF Resolving(d) /\ c.byName[d.name] # {} THEN c.byName[d.name]
  ELSE c.byID[w]

WaitingAfter(c, d, m) ==
  IF m = d.name
  THEN IF Resolving(d) \/ Gone(d) \/ (About(c, d) /\ Nothing(d)) THEN {}
       ELSE IF About(c, d) /\ Attributed(c, d) = NoVM THEN DeltaPairs(d) ELSE c.byName[m]
  ELSE IF Gone(d) /\ Attributed(c, d) # NoVM /\ c.ids[m] = Attributed(c, d) THEN {}
  ELSE c.byName[m]

KnownAfter(c, d, m) ==
  IF Attributed(c, d) = NoVM \/ ~(m = d.name \/ (Gone(d) /\ c.ids[m] = Attributed(c, d)))
  THEN c.ids[m]
  ELSE IF Gone(d) THEN NoVM ELSE Attributed(c, d)

After(c, d) ==
  [ready |-> c.ready, byID |-> [w \in VMs |-> MappedAfter(c, d, w)],
   byName |-> [m \in Names |-> WaitingAfter(c, d, m)],
   ids |-> [m \in Names |-> KnownAfter(c, d, m)]]

LEMMA CacheEqual ==
  ASSUME NEW a \in Cache, NEW b \in Cache, a.ready = b.ready,
         \A v \in VMs : a.byID[v] = b.byID[v],
         \A m \in Names : a.byName[m] = b.byName[m] /\ a.ids[m] = b.ids[m]
  PROVE  a = b
<1>1. a.byID = b.byID
  BY DEF Cache, Table
<1>2. a.byName = b.byName /\ a.ids = b.ids
  BY DEF Cache
<1>3. QED BY <1>1, <1>2 DEF Cache

LEMMA AfterTyped ==
  ASSUME NEW c \in Cache, NEW d \in Delta
  PROVE  /\ After(c, d) \in Cache
         /\ \A v \in VMs : After(c, d).byID[v] = MappedAfter(c, d, v)
         /\ \A m \in Names : /\ After(c, d).byName[m] = WaitingAfter(c, d, m)
                             /\ After(c, d).ids[m] = KnownAfter(c, d, m)
<1>1. DeltaPairs(d) \in SUBSET Pair
  BY DEF DeltaPairs, Delta, Pair
<1>2. d.name # NoName => d.name \in Names
  BY DEF Delta
<1>3. \A w \in VMs : MappedAfter(c, d, w) \in SUBSET Pair
  BY <1>1, <1>2 DEF MappedAfter, Resolving, Cache, Table
<1>4. \A m \in Names : WaitingAfter(c, d, m) \in SUBSET Pair
  BY <1>1 DEF WaitingAfter, Cache
<1>5. \A m \in Names : KnownAfter(c, d, m) \in VMs \cup {NoVM}
  BY ResolvedAttributed DEF KnownAfter, Cache
<1>6. QED BY <1>3, <1>4, <1>5 DEF After, Cache, Table

\* applyDeltaToCache after the names, given what they made of the cache
LEMMA ResolvedFields ==
  ASSUME NEW c \in Cache, NEW d \in Delta
  PROVE  LET r == NameResolved(c, d)
             v == Attributed(c, d) IN
         /\ r \in Cache /\ r.ready = c.ready
         /\ \A w \in VMs :
              r.byID[w] = IF w = v /\ Resolving(d) /\ c.byName[d.name] # {}
                          THEN c.byName[d.name] ELSE c.byID[w]
         /\ \A m \in Names :
              /\ r.byName[m] = IF m = d.name /\ Resolving(d) THEN {} ELSE c.byName[m]
              /\ r.ids[m] = IF m = d.name /\ Resolving(d) THEN v ELSE c.ids[m]
<1> DEFINE r == NameResolved(c, d)
           v == Attributed(c, d)
<1>1. r \in Cache
  BY ResolvedTyped
<1>2. CASE Resolving(d)
  <2>1. d.id \in VMs /\ d.name \in Names /\ v = d.id
    BY <1>2 DEF Delta, Resolving, Attributed
  <2>2. r = [c EXCEPT !.ids[d.name] = d.id,
                      !.byID[d.id] = IF c.byName[d.name] # {} THEN c.byName[d.name] ELSE @,
                      !.byName[d.name] = {}]
    BY <1>2 DEF NameResolved, Resolving
  <2>3. /\ r.ready = c.ready /\ r.ids = [c.ids EXCEPT ![d.name] = d.id]
        /\ r.byID = [c.byID EXCEPT ![d.id] =
                       IF c.byName[d.name] # {} THEN c.byName[d.name] ELSE c.byID[d.id]]
        /\ r.byName = [c.byName EXCEPT ![d.name] = {}]
    BY <2>2 DEF Cache
  <2> HIDE DEF r, v
  <2>4. QED BY <1>1, <1>2, <2>1, <2>3 DEF Cache, Table, r, v
<1>3. CASE ~Resolving(d)
  <2>1. r = c
    BY <1>3 DEF NameResolved, Resolving
  <2>2. QED BY <1>3, <2>1
<1>4. QED BY <1>2, <1>3

LEMMA DeltaForm ==
  ASSUME NEW c \in Cache, NEW d \in Delta
  PROVE  DeltaToCache(c, d) = After(c, d)
<1> DEFINE r == NameResolved(c, d)
           v == Attributed(c, d)
           e == DeltaToCache(c, d)
<1>1. /\ r \in Cache /\ r.ready = c.ready /\ Attributed(r, d) = v /\ v \in VMs \cup {NoVM}
      /\ \A w \in VMs : r.byID[w] = IF w = v /\ Resolving(d) /\ c.byName[d.name] # {}
                                    THEN c.byName[d.name] ELSE c.byID[w]
      /\ \A m \in Names :
           /\ r.byName[m] = IF m = d.name /\ Resolving(d) THEN {} ELSE c.byName[m]
           /\ r.ids[m] = IF m = d.name /\ Resolving(d) THEN v ELSE c.ids[m]
  BY ResolvedFields, ResolvedAttributed
<1>2. /\ d.name \in Names \cup {NoName} /\ d.id \in VMs \cup {NoVM} /\ d.deleted \in BOOLEAN
      /\ DeltaPairs(d) \in SUBSET Pair
  BY DEF Delta, DeltaPairs, Pair
\* A name that is not being resolved is attributed to the VM it is known of.
<1>3. /\ \A m \in Names : m = d.name /\ ~Resolving(d) => v = c.ids[m]
      /\ Resolving(d) => v # NoVM
  BY DEF Attributed, Resolving
<1>4. e = IF Gone(d) THEN VMGone(r, v, d.name)
          ELSE IF ~About(c, d) THEN r
          ELSE IF Nothing(d) THEN AddressGone(r, v, d.name)
          ELSE AddressSet(r, v, d.name, DeltaPairs(d))
  BY <1>1 DEF DeltaToCache, Gone, About, Nothing
<1> HIDE DEF r, v, e
<1>5. SUFFICES /\ e \in Cache /\ e.ready = c.ready
               /\ \A w \in VMs : e.byID[w] = MappedAfter(c, d, w)
               /\ \A m \in Names : /\ e.byName[m] = WaitingAfter(c, d, m)
                                   /\ e.ids[m] = KnownAfter(c, d, m)
  <2>1. After(c, d).ready = c.ready
    BY DEF After
  <2>2. QED BY <2>1, AfterTyped, CacheEqual DEF e
<1>6. CASE Gone(d)
  <2> DEFINE its == {m \in Names : v # NoVM /\ r.ids[m] = v}
  <2>1. e = [r EXCEPT !.byID = [w \in VMs |-> IF w = v THEN {} ELSE r.byID[w]],
                      !.byName = [m \in Names |-> IF m \in its \cup {d.name} THEN {} ELSE r.byName[m]],
                      !.ids = [m \in Names |-> IF m \in its THEN NoVM ELSE r.ids[m]]]
    BY <1>4, <1>6 DEF VMGone, WithoutVM
  <2>2. /\ e.ready = r.ready /\ e.byID = [w \in VMs |-> IF w = v THEN {} ELSE r.byID[w]]
        /\ e.byName = [m \in Names |-> IF m \in its \cup {d.name} THEN {} ELSE r.byName[m]]
        /\ e.ids = [m \in Names |-> IF m \in its THEN NoVM ELSE r.ids[m]]
    BY <1>1, <2>1 DEF Cache
  <2>3. e \in Cache
    <3>1. e = [ready |-> e.ready, byID |-> e.byID, byName |-> e.byName, ids |-> e.ids]
      BY <1>1, <2>1 DEF Cache
    <3>2. e.ready \in BOOLEAN /\ e.byID \in Table
      BY <1>1, <2>2 DEF Cache, Table
    <3>3. e.byName \in [Names -> SUBSET Pair] /\ e.ids \in [Names -> VMs \cup {NoVM}]
      BY <1>1, <2>2 DEF Cache
    <3>4. QED BY <3>1, <3>2, <3>3 DEF Cache
  <2>4. ASSUME NEW w \in VMs PROVE e.byID[w] = MappedAfter(c, d, w)
    BY <1>1, <1>6, <2>2 DEF MappedAfter, v
  <2>5. ASSUME NEW m \in Names PROVE e.byName[m] = WaitingAfter(c, d, m)
    BY <1>1, <1>3, <1>6, <2>2 DEF WaitingAfter, v
  <2>6. ASSUME NEW m \in Names PROVE e.ids[m] = KnownAfter(c, d, m)
    BY <1>1, <1>3, <1>6, <2>2 DEF KnownAfter, v
  <2>7. QED BY <1>1, <2>2, <2>3, <2>4, <2>5, <2>6
<1>7. CASE ~Gone(d) /\ ~About(c, d)
  <2>1. e = r
    BY <1>4, <1>7
  <2>2. QED BY <1>1, <1>3, <1>7, <2>1 DEF MappedAfter, WaitingAfter, KnownAfter, v
<1>8. CASE ~Gone(d) /\ About(c, d) /\ Nothing(d)
  <2>1. e = [r EXCEPT !.byID = [w \in VMs |-> IF w = v THEN {} ELSE r.byID[w]],
                      !.byName = [m \in Names |-> IF m = d.name THEN {} ELSE r.byName[m]]]
    BY <1>4, <1>8 DEF AddressGone, WithoutVM, WithoutName
  <2>2. /\ e.ready = r.ready /\ e.byID = [w \in VMs |-> IF w = v THEN {} ELSE r.byID[w]]
        /\ e.byName = [m \in Names |-> IF m = d.name THEN {} ELSE r.byName[m]]
        /\ e.ids = r.ids
    BY <1>1, <2>1 DEF Cache
  <2>3. e \in Cache
    <3>1. e = [ready |-> e.ready, byID |-> e.byID, byName |-> e.byName, ids |-> e.ids]
      BY <1>1, <2>1 DEF Cache
    <3>2. e.ready \in BOOLEAN /\ e.byID \in Table
      BY <1>1, <2>2 DEF Cache, Table
    <3>3. e.byName \in [Names -> SUBSET Pair] /\ e.ids \in [Names -> VMs \cup {NoVM}]
      BY <1>1, <2>2 DEF Cache
    <3>4. QED BY <3>1, <3>2, <3>3 DEF Cache
  <2>4. QED BY <1>1, <1>3, <1>8, <2>2, <2>3 DEF MappedAfter, WaitingAfter, KnownAfter, v
<1>9. CASE ~Gone(d) /\ About(c, d) /\ ~Nothing(d) /\ v # NoVM
  <2>1. e = [r EXCEPT !.byID[v] = DeltaPairs(d),
                      !.ids = [m \in Names |-> IF m = d.name THEN v ELSE r.ids[m]]]
    BY <1>4, <1>9 DEF AddressSet
  <2>2. /\ e.ready = r.ready /\ e.byID = [r.byID EXCEPT ![v] = DeltaPairs(d)]
        /\ e.byName = r.byName
        /\ e.ids = [m \in Names |-> IF m = d.name THEN v ELSE r.ids[m]]
    BY <1>1, <2>1 DEF Cache
  <2>3. e \in Cache
    <3>1. e = [ready |-> e.ready, byID |-> e.byID, byName |-> e.byName, ids |-> e.ids]
      BY <1>1, <2>1 DEF Cache
    <3>2. e.ready \in BOOLEAN /\ e.byID \in Table
      BY <1>1, <1>2, <1>9, <2>2 DEF Cache, Table
    <3>3. e.byName \in [Names -> SUBSET Pair] /\ e.ids \in [Names -> VMs \cup {NoVM}]
      BY <1>1, <2>2 DEF Cache
    <3>4. QED BY <3>1, <3>2, <3>3 DEF Cache
  <2>4. ASSUME NEW w \in VMs PROVE e.byID[w] = MappedAfter(c, d, w)
    BY <1>1, <1>9, <2>2 DEF MappedAfter, v, Cache, Table
  <2>5. QED BY <1>1, <1>3, <1>9, <2>2, <2>3, <2>4 DEF WaitingAfter, KnownAfter, v
<1>10. CASE ~Gone(d) /\ About(c, d) /\ ~Nothing(d) /\ v = NoVM
  <2>1. e = [r EXCEPT !.byName[d.name] = DeltaPairs(d)]
    BY <1>4, <1>10 DEF AddressSet
  <2>2. d.name \in Names /\ ~Resolving(d)
    BY <1>2, <1>10 DEF About, Resolving, Attributed, v
  <2>3. /\ e.ready = r.ready /\ e.byID = r.byID /\ e.ids = r.ids
        /\ e.byName = [r.byName EXCEPT ![d.name] = DeltaPairs(d)]
    BY <1>1, <2>1 DEF Cache
  <2>4. e \in Cache
    <3>1. e = [ready |-> e.ready, byID |-> e.byID, byName |-> e.byName, ids |-> e.ids]
      BY <1>1, <2>1 DEF Cache
    <3>2. e.ready \in BOOLEAN /\ e.byID \in Table /\ e.ids \in [Names -> VMs \cup {NoVM}]
      BY <1>1, <2>3 DEF Cache
    <3>3. e.byName \in [Names -> SUBSET Pair]
      BY <1>1, <1>2, <2>2, <2>3 DEF Cache
    <3>4. QED BY <3>1, <3>2, <3>3 DEF Cache
  <2>5. ASSUME NEW m \in Names PROVE e.byName[m] = WaitingAfter(c, d, m)
    BY <1>1, <1>10, <2>2, <2>3 DEF WaitingAfter, v, Cache
  <2>6. QED BY <1>1, <1>3, <1>10, <2>2, <2>3, <2>4, <2>5 DEF MappedAfter, KnownAfter, v
<1>11. QED BY <1>6, <1>7, <1>8, <1>9, <1>10

\* The mapping cache keeps its shape under every delta.
LEMMA DeltaTyped ==
  ASSUME NEW c \in Cache, NEW d \in Delta
  PROVE  DeltaToCache(c, d) \in Cache
  BY DeltaForm, AfterTyped

-----------------------------------------------------------------------------
(* Types *)

LEMMA InitType == Init => TypeOK
<1> SUFFICES ASSUME Init PROVE TypeOK
  OBVIOUS
<1>1. fetch \in Fetching /\ cache \in Cache
  BY TablesTyped DEF Init, ColdCache, Cache
<1>2. QED BY <1>1 DEF Init, TypeOK

LEMMA LinksTyped == Links \subseteq VMs \X Pair /\ Known \subseteq Links
  BY DEF Links, Known

\* Saving an object: its webhook is sent, the history watched.
LEMMA SavedType ==
  ASSUME TypeOK, NEW d \in Delta, Saved(d),
         owner' \in [Internal -> VMs \cup {NoVM}],
         nat' \in [External -> Internal \cup {NoAddress}],
         ids' \in SUBSET VMs
  PROVE  TypeOK'
<1>1. past' \in SUBSET (VMs \X Pair) /\ steady' \in SUBSET (VMs \X Pair)
  BY LinksTyped DEF Saved, Watch, TypeOK, Links, Known
<1>2. shrunk' \in BOOLEAN
  BY DEF Saved, Watch, TypeOK
<1>3. hooks' \in SUBSET Delta /\ edits' \in Nat
  BY DEF Saved, TypeOK
<1>4. QED BY <1>1, <1>2, <1>3 DEF Saved, TypeOK

\* What is saved, and the webhook it sends
Edit ==
  \/ \E v \in VMs, id \in BOOLEAN : SaveVM(v, id)
  \/ \E v \in VMs : DeleteVM(v) \/ SaveInterface(v)
  \/ \E i \in Internal : DeleteInternal(i) \/ \E v \in VMs \cup {NoVM} : SaveInternal(i, v)
  \/ \E e \in External, i \in Internal \cup {NoAddress} : SaveExternal(e, i)

LEMMA EditType ==
  ASSUME TypeOK, Edit
  PROVE  TypeOK'
<1> USE DEF TypeOK
<1>1. ASSUME NEW v \in VMs, NEW id \in BOOLEAN, SaveVM(v, id) PROVE TypeOK'
  BY <1>1, WebhookTyped, SavedType DEF SaveVM
<1>2. ASSUME NEW v \in VMs, DeleteVM(v) PROVE TypeOK'
  <2> DEFINE had == v \in ids
  <2>1. had \in BOOLEAN
    OBVIOUS
  <2>2. Saved(Webhook("virtualmachine", TRUE, v, had, NoAddress, {}))
    BY <1>2 DEF DeleteVM
  <2> HIDE DEF had
  <2>3. Webhook("virtualmachine", TRUE, v, had, NoAddress, {}) \in Delta
    BY <2>1, WebhookTyped
  <2>4. QED BY <1>2, <2>2, <2>3, SavedType DEF DeleteVM
<1>3. ASSUME NEW v \in VMs, SaveInterface(v) PROVE TypeOK'
  BY <1>3, WebhookTyped, SavedType DEF SaveInterface, netbox
<1>4. ASSUME NEW i \in Internal, DeleteInternal(i) PROVE TypeOK'
  <2> DEFINE had == owner[i] \in Inline \cap ids
  <2>1. had \in BOOLEAN /\ Outside(i) \in SUBSET External
    BY DEF Outside
  <2>2. Saved(Webhook("ipaddress", TRUE, owner[i], had, i, Outside(i)))
    BY <1>4 DEF DeleteInternal
  <2> HIDE DEF had
  <2>3. Webhook("ipaddress", TRUE, owner[i], had, i, Outside(i)) \in Delta
    BY <2>1, WebhookTyped
  <2>4. QED BY <1>4, <2>2, <2>3, SavedType DEF DeleteInternal
<1>5. ASSUME NEW i \in Internal, NEW v \in VMs \cup {NoVM}, SaveInternal(i, v) PROVE TypeOK'
  <2> DEFINE has == v \in Inline \cap ids
  <2>1. has \in BOOLEAN /\ Outside(i) \in SUBSET External
    BY DEF Outside
  <2>2. Saved(Webhook("ipaddress", FALSE, v, has, i, Outside(i)))
    BY <1>5 DEF SaveInternal
  <2> HIDE DEF has
  <2>3. Webhook("ipaddress", FALSE, v, has, i, Outside(i)) \in Delta
    BY <2>1, WebhookTyped
  <2>4. QED BY <1>5, <2>2, <2>3, SavedType DEF SaveInternal
<1>6. ASSUME NEW e \in External, NEW i \in Internal \cup {NoAddress}, SaveExternal(e, i)
      PROVE  TypeOK'
  BY <1>6, WebhookTyped, SavedType DEF SaveExternal
<1>7. QED BY <1>1, <1>2, <1>3, <1>4, <1>5, <1>6 DEF Edit

LEMMA FetchType ==
  ASSUME TypeOK, FetchStep \/ FetchFails \/ \E d \in hooks : HookLost(d) \/ TakeWebhook(d)
  PROVE  TypeOK'
<1> USE DEF TypeOK
<1>1. CASE FetchBegin
  <2>1. fetch' \in Fetching
    BY <1>1, TablesTyped DEF FetchBegin, Fetching
  <2>2. QED BY <1>1, <2>1, LinksTyped DEF FetchBegin, netbox
<1>2. CASE FetchPage
  <2> DEFINE last == fetch.offset + PageSize
             here == Assigned({i \in Listed : fetch.offset < Row(i) /\ Row(i) <= last})
             now  == {i \in here : owner[i] \in Inline \cap ids}
             pend == fetch.pend \cup UNION {{owner[i]} \X PairsOf(i) : i \in here \ now}
             got  == [v \in VMs |-> fetch.got[v] \cup
                                      UNION {PairsOf(i) : i \in {j \in now : owner[j] = v}}]
  <2>1. here \subseteq Internal /\ \A i \in here : owner[i] \in VMs
    BY DEF Assigned, Listed
  <2>2. pend \in SUBSET (VMs \X Pair)
    <3>1. \A i \in here : {owner[i]} \X PairsOf(i) \subseteq VMs \X Pair
      <4>1. TAKE i \in here
      <4>2. owner[i] \in VMs /\ PairsOf(i) \subseteq Pair
        BY <2>1, PairsTyped
      <4>3. QED BY <4>2
    <3>2. fetch.pend \subseteq VMs \X Pair
      BY DEF Fetching
    <3> HIDE DEF here, now
    <3>3. QED BY <3>1, <3>2
  <2>3. got \in Table
    <3>1. \A v \in VMs : fetch.got[v] \subseteq Pair
      BY DEF Fetching, Table
    <3>2. now \subseteq Internal
      BY <2>1
    <3> HIDE DEF now
    <3>3. QED BY <3>1, <3>2, PairsTyped DEF Table
  <2>4. last \in Nat
    BY DEF Fetching
  <2>5. /\ fetch' = [fetch EXCEPT
                      !.pc = IF More THEN "page" ELSE IF pend = {} THEN "done" ELSE "resolve",
                      !.offset = IF More THEN last ELSE 0, !.got = got, !.pend = pend]
        /\ UNCHANGED <<netbox, hooks, cache, history, edits, faults>>
    BY <1>2 DEF FetchPage
  <2> HIDE DEF last, here, now, pend, got
  <2>6. fetch' \in Fetching
    BY <2>2, <2>3, <2>4, <2>5 DEF Fetching
  <2>7. QED BY <2>5, <2>6 DEF netbox, history
<1>3. ASSUME NEW batch \in SUBSET VMs, FetchBatch(batch) PROVE TypeOK'
  <2> DEFINE rest == {l \in fetch.pend : l[1] \notin batch}
             got  == [v \in VMs |-> fetch.got[v] \cup
                        IF v \in batch \cap ids THEN LinksOf(fetch.pend, v) ELSE {}]
  <2>1. fetch.pend \subseteq VMs \X Pair /\ \A v \in VMs : fetch.got[v] \subseteq Pair
    BY DEF Fetching, Table
  <2>2. rest \subseteq VMs \X Pair
    BY <2>1
  <2>3. got \in Table
    <3>1. \A v \in VMs : LinksOf(fetch.pend, v) \subseteq Pair
      <4>1. \A l \in fetch.pend : l[2] \in Pair
        BY <2>1
      <4>2. QED BY <4>1 DEF LinksOf
    <3>2. QED BY <2>1, <3>1 DEF Table
  <2>4. /\ fetch' = [fetch EXCEPT !.pc = IF rest = {} THEN "done" ELSE "resolve",
                                  !.got = got, !.pend = rest]
        /\ UNCHANGED <<netbox, hooks, cache, history, edits, faults>>
    BY <1>3 DEF FetchBatch
  <2> HIDE DEF rest, got
  <2>5. fetch' \in Fetching
    BY <2>2, <2>3, <2>4 DEF Fetching
  <2>6. QED BY <2>4, <2>5 DEF netbox, history
<1>4. CASE FetchDone
  <2>1. fetch' \in Fetching /\ cache' \in Cache
    BY <1>4, TablesTyped DEF FetchDone, Fetching
  <2>2. QED BY <1>4, <2>1 DEF FetchDone, netbox
<1>5. CASE FetchFails
  <2>1. fetch' \in Fetching
    BY <1>5, TablesTyped DEF FetchFails
  <2>2. UNCHANGED <<owner, nat, ids, hooks, cache, edits>> /\ faults' = faults + 1
        /\ past' = {} /\ steady' = {} /\ shrunk' = FALSE
    BY <1>5 DEF FetchFails, netbox
  <2>3. past' \in SUBSET (VMs \X Pair) /\ steady' \in SUBSET (VMs \X Pair) /\ faults' \in Nat
    BY <2>2
  <2>4. QED BY <2>1, <2>2, <2>3
<1>6. ASSUME NEW d \in hooks, HookLost(d) PROVE TypeOK'
  BY <1>6 DEF HookLost, netbox, history
<1>7. ASSUME NEW d \in hooks, TakeWebhook(d) PROVE TypeOK'
  <2>1. Opened(cache) \in Cache
    BY DEF Opened, Cache
  <2>2. cache' \in Cache
    BY <1>7, <2>1, DeltaTyped DEF TakeWebhook
  <2>3. QED BY <1>7, <2>2 DEF TakeWebhook, netbox, history
<1>8. QED BY <1>1, <1>2, <1>3, <1>4, <1>5, <1>6, <1>7 DEF FetchStep

LEMMA NextCases ==
  ASSUME Next
  PROVE  Edit \/ FetchStep \/ FetchFails \/ \E d \in hooks : HookLost(d) \/ TakeWebhook(d)
  BY DEF Next, Edit

LEMMA NextType == TypeOK /\ [Next]_vars => TypeOK'
<1> SUFFICES ASSUME TypeOK, [Next]_vars PROVE TypeOK'
  OBVIOUS
<1>1. CASE UNCHANGED vars
  BY <1>1 DEF vars, netbox, history, TypeOK
<1>2. CASE Next
  BY <1>2, NextCases, EditType, FetchType
<1>3. QED BY <1>1, <1>2

\* NetBox's objects, webhooks, cache and fetch have their types.
THEOREM TypeCorrect == Spec => []TypeOK
  BY InitType, NextType, PTL DEF Spec

-----------------------------------------------------------------------------
(* What a fetch returns is true *)

Soundly ==
  fetch.pc # "idle" =>
    /\ Links \subseteq past
    /\ fetch.pend \subseteq past
    /\ \A v \in VMs : \A p \in fetch.got[v] : <<v, p>> \in past

SInv == TypeOK /\ Soundly

LEMMA EditSoundly ==
  ASSUME SInv, Edit
  PROVE  Soundly'
<1>1. fetch' = fetch /\ past' = IF fetch.pc = "idle" THEN {} ELSE past \cup Links'
  BY DEF Edit, SaveVM, DeleteVM, SaveInterface, SaveInternal, DeleteInternal, SaveExternal,
         Saved, Watch
<1>2. QED BY <1>1 DEF SInv, Soundly

LEMMA PageSoundly ==
  ASSUME SInv, FetchPage
  PROVE  Soundly'
<1> DEFINE last == fetch.offset + PageSize
           here == Assigned({i \in Listed : fetch.offset < Row(i) /\ Row(i) <= last})
           now  == {i \in here : owner[i] \in Inline \cap ids}
           pend == fetch.pend \cup UNION {{owner[i]} \X PairsOf(i) : i \in here \ now}
           got  == [v \in VMs |-> fetch.got[v] \cup
                                    UNION {PairsOf(i) : i \in {j \in now : owner[j] = v}}]
<1>1. fetch'.got = got /\ fetch'.pend = pend /\ fetch.pc = "page"
  BY DEF FetchPage, SInv, TypeOK, Fetching
<1>2. UNCHANGED <<owner, nat, past>>
  BY DEF FetchPage, netbox, history
<1>3. here \subseteq Internal /\ \A i \in here : owner[i] \in VMs
  BY DEF Assigned, Listed, SInv, TypeOK
<1>4. ASSUME NEW i \in here, NEW p \in PairsOf(i) PROVE <<owner[i], p>> \in past
  <2>1. p \in Pair /\ p[2] = i /\ nat[p[1]] = i /\ owner[i] \in VMs
    BY <1>3, PairsTyped
  <2>2. <<owner[i], p>> \in Links
    BY <2>1 DEF Links
  <2>3. QED BY <1>1, <2>2 DEF SInv, Soundly
<1>5. pend \subseteq past
  <2>1. ASSUME NEW i \in here PROVE {owner[i]} \X PairsOf(i) \subseteq past
    BY <1>4
  <2>2. fetch.pend \subseteq past
    BY <1>1 DEF SInv, Soundly
  <2> HIDE DEF here, now
  <2>3. QED BY <2>1, <2>2
<1>6. ASSUME NEW v \in VMs, NEW p \in got[v] PROVE <<v, p>> \in past
  <2>1. CASE p \in fetch.got[v]
    BY <1>1, <2>1 DEF SInv, Soundly
  <2>2. CASE p \notin fetch.got[v]
    <3>1. PICK i \in now : owner[i] = v /\ p \in PairsOf(i)
      BY <2>2, <1>6
    <3>2. QED BY <3>1, <1>4
  <2>3. QED BY <2>1, <2>2
<1>7. Links' \subseteq past'
  BY <1>1, <1>2 DEF SInv, Soundly, Links
<1> HIDE DEF pend, got
<1>8. QED BY <1>1, <1>2, <1>5, <1>6, <1>7 DEF Soundly

LEMMA BatchSoundly ==
  ASSUME SInv, NEW batch \in SUBSET VMs, FetchBatch(batch)
  PROVE  Soundly'
<1>1. fetch.pc = "resolve" /\ fetch'.pend \subseteq fetch.pend
  BY DEF FetchBatch, SInv, TypeOK, Fetching
<1>2. \A v \in VMs : fetch'.got[v] \subseteq fetch.got[v] \cup LinksOf(fetch.pend, v)
  BY DEF FetchBatch, SInv, TypeOK, Fetching
<1>3. fetch.pend \subseteq VMs \X Pair /\ fetch.pend \subseteq past
  BY <1>1 DEF SInv, Soundly, TypeOK, Fetching
<1>4. ASSUME NEW v \in VMs, NEW p \in LinksOf(fetch.pend, v) PROVE <<v, p>> \in past
  <2>1. PICK l \in fetch.pend : l[1] = v /\ l[2] = p
    BY DEF LinksOf
  <2>2. l = <<v, p>>
    BY <1>3, <2>1
  <2>3. QED BY <1>3, <2>2
<1>5. UNCHANGED <<owner, nat, past>>
  BY DEF FetchBatch, netbox, history
<1>6. Links' \subseteq past'
  BY <1>1, <1>5 DEF SInv, Soundly, Links
<1>7. \A v \in VMs : \A p \in fetch'.got[v] : <<v, p>> \in past
  BY <1>1, <1>2, <1>4 DEF SInv, Soundly
<1>8. QED BY <1>1, <1>3, <1>5, <1>6, <1>7 DEF Soundly

LEMMA NextSoundly == SInv /\ [Next]_vars => SInv'
<1> SUFFICES ASSUME SInv, [Next]_vars PROVE SInv'
  OBVIOUS
<1>1. TypeOK'
  BY NextType DEF SInv
<1>2. CASE UNCHANGED vars
  BY <1>2, <1>1 DEF vars, netbox, history, SInv, Soundly, Links
<1>3. CASE Edit
  BY <1>1, <1>3, EditSoundly DEF SInv
<1>4. CASE FetchBegin
  <2>1. fetch'.pend = {} /\ fetch'.got = EmptyTable /\ past' = Links /\ UNCHANGED <<owner, nat>>
    BY <1>4 DEF FetchBegin, IdleFetch, netbox
  <2>2. QED BY <1>1, <2>1 DEF SInv, Soundly, Links, EmptyTable
<1>5. CASE FetchPage
  BY <1>1, <1>5, PageSoundly DEF SInv
<1>6. CASE \E batch \in SUBSET VMs : FetchBatch(batch)
  BY <1>1, <1>6, BatchSoundly DEF SInv
<1>7. CASE FetchDone \/ FetchFails
  BY <1>1, <1>7 DEF FetchDone, FetchFails, IdleFetch, SInv, Soundly
<1>8. CASE \E d \in hooks : HookLost(d) \/ TakeWebhook(d)
  BY <1>1, <1>8 DEF HookLost, TakeWebhook, netbox, history, SInv, Soundly, Links
<1>9. QED BY <1>2, <1>3, <1>4, <1>5, <1>6, <1>7, <1>8, NextCases DEF FetchStep

\* What a fetch returns NetBox had at some time while it ran.
THEOREM FetchesTrue == Spec => []FetchSound
<1>1. Init => SInv
  BY InitType DEF SInv, Soundly, Init, IdleFetch
<1>2. SInv => FetchSound
  <2> SUFFICES ASSUME SInv, fetch.pc = "done", NEW v \in VMs, NEW p \in fetch.got[v]
               PROVE  p \in LinksOf(past, v)
    BY DEF FetchSound
  <2>1. <<v, p>> \in past
    BY DEF SInv, Soundly
  <2>2. QED BY <2>1 DEF LinksOf
<1>3. QED BY <1>1, <1>2, NextSoundly, PTL DEF Spec

-----------------------------------------------------------------------------
(* A fetch misses nothing while no row leaves the listing *)

\* The rows of A up to that of i
UpTo(A, i) == Cardinality({j \in A : Order[j] <= Order[i]})

LEMMA RowsCounted ==
  ASSUME NEW S \in SUBSET Internal, NEW T \in SUBSET S, NEW i \in Internal
  PROVE  /\ UpTo(T, i) \in Nat /\ UpTo(S, i) \in Nat /\ Cardinality(S) \in Nat
         /\ UpTo(T, i) <= UpTo(S, i) /\ UpTo(S, i) <= Cardinality(S)
         /\ i \in S => 1 <= UpTo(S, i)
<1> DEFINE first(A) == {j \in A : Order[j] <= Order[i]}
<1>1. IsFiniteSet(S) /\ IsFiniteSet(first(S)) /\ IsFiniteSet(first(T))
  BY FS_Subset, S \in SUBSET Internal, first(S) \in SUBSET Internal, first(T) \in SUBSET Internal
<1>2. Cardinality(S) \in Nat /\ Cardinality(first(S)) \in Nat /\ Cardinality(first(T)) \in Nat
  BY <1>1, FS_CardinalityType
<1>3. Cardinality(first(T)) <= Cardinality(first(S))
  BY <1>1, FS_Subset, first(T) \in SUBSET first(S)
<1>4. Cardinality(first(S)) <= Cardinality(S)
  BY <1>1, FS_Subset, first(S) \in SUBSET S
<1>5. ASSUME i \in S PROVE 1 <= Cardinality(first(S))
  <2>1. {i} \in SUBSET first(S)
    BY <1>5
  <2>2. Cardinality({i}) = 1
    BY FS_Singleton
  <2> HIDE DEF first
  <2>3. QED BY <1>1, <2>1, <2>2, FS_Subset
<1> HIDE DEF first
<1>6. UpTo(T, i) = Cardinality(first(T)) /\ UpTo(S, i) = Cardinality(first(S))
  BY DEF first, UpTo
<1>7. QED BY <1>2, <1>3, <1>4, <1>5, <1>6

LEMMA RowsListed ==
  ASSUME NEW i \in Listed
  PROVE  /\ i \in Internal /\ Row(i) \in Nat /\ Cardinality(Listed) \in Nat
         /\ 1 <= Row(i) /\ Row(i) <= Cardinality(Listed)
<1>1. Row(i) = UpTo(Listed, i) /\ Listed \in SUBSET Internal /\ i \in Internal
  BY DEF Row, UpTo, Listed
<1>2. QED BY <1>1, RowsCounted

\* The mapping is collected, or waits for the VMID.
Covered(l) == l[2] \in fetch.got[l[1]] \/ l \in fetch.pend

Fully ==
  fetch.pc # "idle" /\ ~shrunk =>
    /\ steady \subseteq Known
    /\ fetch.pc = "page" => \A l \in steady : Row(l[2][2]) <= fetch.offset => Covered(l)
    /\ fetch.pc # "page" => \A l \in steady : Covered(l)
    /\ fetch.pc = "done" => fetch.pend = {}

CInv == TypeOK /\ Fully

LEMMA KnownListed ==
  ASSUME TypeOK, NEW l \in Known
  PROVE  /\ l[1] \in VMs \cap ids /\ l[2] \in Pair /\ l[2][2] \in Listed
         /\ owner[l[2][2]] = l[1] /\ l[2] \in PairsOf(l[2][2])
<1>1. l \in VMs \X Pair /\ owner[l[2][2]] = l[1] /\ nat[l[2][1]] = l[2][2] /\ l[1] \in ids
  BY DEF Known, Links
<1>2. l[2] \in Pair /\ l[2][1] \in External /\ l[2][2] \in Internal /\ l[2] = <<l[2][1], l[2][2]>>
  BY <1>1 DEF Pair
<1>3. l[2][1] \in Outside(l[2][2])
  BY <1>1, <1>2 DEF Outside
<1>4. QED BY <1>1, <1>2, <1>3 DEF Listed, PairsOf

LEMMA EditFully ==
  ASSUME CInv, TypeOK', Edit
  PROVE  Fully'
<1>1. /\ fetch' = fetch /\ steady' = steady \cap Known'
      /\ ~shrunk' => ~shrunk /\ (fetch.pc # "idle" => Listed \subseteq Listed')
  BY DEF Edit, SaveVM, DeleteVM, SaveInterface, SaveInternal, DeleteInternal, SaveExternal,
         Saved, Watch
<1> SUFFICES ASSUME fetch.pc # "idle", ~shrunk' PROVE Fully'
  BY <1>1 DEF Fully
<1>2. \A l \in steady' : l \in steady /\ l \in Known'
  BY <1>1
<1>3. ASSUME fetch.pc = "page", NEW l \in steady', Row(l[2][2])' <= fetch'.offset
      PROVE  Covered(l)'
  <2> DEFINE S == Listed'
             T == Listed
  <2>1. PICK i \in Internal : i = l[2][2]
    BY <1>2 DEF Known, Links, Pair
  <2>2. T \in SUBSET S /\ S \in SUBSET Internal
    BY <1>1 DEF Listed
  <2>3. Row(i) = UpTo(T, i) /\ Row(i)' = UpTo(S, i)
    BY DEF Row, UpTo
  <2> HIDE DEF S, T
  <2>4. UpTo(T, i) \in Nat /\ UpTo(S, i) \in Nat /\ UpTo(T, i) <= UpTo(S, i)
    BY <2>2, RowsCounted
  <2>5. fetch.offset \in Nat /\ Row(i)' <= fetch.offset
    BY <1>1, <1>3, <2>1 DEF CInv, TypeOK, Fetching
  <2>6. Row(i) <= fetch.offset
    BY <2>3, <2>4, <2>5
  <2>7. QED BY <1>1, <1>2, <1>3, <2>1, <2>6 DEF CInv, Fully, Covered
<1>4. QED BY <1>1, <1>2, <1>3 DEF CInv, Fully, Covered

LEMMA PageFully ==
  ASSUME CInv, FetchPage
  PROVE  Fully'
<1> DEFINE last == fetch.offset + PageSize
           here == Assigned({i \in Listed : fetch.offset < Row(i) /\ Row(i) <= last})
           now  == {i \in here : owner[i] \in Inline \cap ids}
           pend == fetch.pend \cup UNION {{owner[i]} \X PairsOf(i) : i \in here \ now}
           got  == [v \in VMs |-> fetch.got[v] \cup
                                    UNION {PairsOf(i) : i \in {j \in now : owner[j] = v}}]
<1>1. /\ fetch'.pc = IF More THEN "page" ELSE IF pend = {} THEN "done" ELSE "resolve"
      /\ fetch'.offset = IF More THEN last ELSE 0
      /\ fetch'.got = got /\ fetch'.pend = pend /\ fetch.pc = "page"
  BY DEF FetchPage, CInv, TypeOK, Fetching
<1>2. UNCHANGED <<owner, nat, ids, past, steady, shrunk>>
  BY DEF FetchPage, netbox, history
<1> SUFFICES ASSUME ~shrunk PROVE Fully'
  BY <1>2 DEF Fully
<1>3. steady \subseteq Known /\ \A l \in steady : Row(l[2][2]) <= fetch.offset => Covered(l)
  BY <1>1 DEF CInv, Fully
<1>4. last \in Nat /\ fetch.offset \in Nat /\ Cardinality(Listed) \in Nat
  BY FS_Subset, FS_CardinalityType, Listed \in SUBSET Internal
  DEF CInv, TypeOK, Fetching, Listed
<1>5. ASSUME NEW l \in steady, Row(l[2][2]) <= last PROVE Covered(l)'
  <2> DEFINE i == l[2][2]
  <2>1. /\ l[1] \in VMs \cap ids /\ i \in Listed /\ owner[i] = l[1] /\ l[2] \in PairsOf(i)
        /\ l[2] \in Pair /\ l = <<l[1], l[2]>>
    BY <1>3, KnownListed DEF CInv, Known, Links
  <2>2. Row(i) \in Nat
    BY <2>1, RowsListed
  <2>3. CASE Row(i) <= fetch.offset
    <3>1. Covered(l)
      BY <1>3, <2>3
    <3>2. l[2] \in got[l[1]] \/ l \in pend
      BY <2>1, <3>1 DEF Covered
    <3> HIDE DEF got, pend
    <3>3. QED BY <1>1, <3>2 DEF Covered
  <2>4. CASE fetch.offset < Row(i)
    <3>1. i \in here
      BY <1>5, <2>1, <2>4 DEF Assigned
    <3>2. l[2] \in got[l[1]] \/ l \in pend
      <4>1. CASE i \in now
        <5>1. l[2] \in UNION {PairsOf(k) : k \in {j \in now : owner[j] = l[1]}}
          BY <2>1, <4>1
        <5>2. QED BY <2>1, <5>1
      <4>2. CASE i \notin now
        <5>1. i \in here \ now /\ l \in {owner[i]} \X PairsOf(i)
          BY <2>1, <3>1, <4>2
        <5> HIDE DEF here, now, i
        <5>2. QED BY <5>1
      <4>3. QED BY <4>1, <4>2
    <3> HIDE DEF got, pend
    <3>3. QED BY <1>1, <3>2 DEF Covered
  <2>5. QED BY <1>4, <2>2, <2>3, <2>4
<1>6. Known' = Known /\ \A l \in steady : Row(l[2][2])' = Row(l[2][2])
  BY <1>2 DEF Known, Links, Row, Listed, Outside
<1>7. CASE More
  <2> HIDE DEF got, pend, last
  <2>1. QED BY <1>1, <1>2, <1>3, <1>5, <1>6, <1>7 DEF Fully
<1>8. CASE ~More
  <2>1. ASSUME NEW l \in steady PROVE Covered(l)'
    <3>1. l[2][2] \in Listed
      BY <1>3, KnownListed DEF CInv
    <3>2. Row(l[2][2]) \in Nat /\ Row(l[2][2]) <= Cardinality(Listed)
      BY <3>1, RowsListed
    <3>3. Cardinality(Listed) <= last
      BY <1>4, <1>8 DEF More
    <3>4. QED BY <1>4, <1>5, <3>2, <3>3
  <2> HIDE DEF got, pend, last
  <2>2. QED BY <1>1, <1>2, <1>3, <1>6, <1>8, <2>1 DEF Fully
<1>9. QED BY <1>7, <1>8

LEMMA BatchFully ==
  ASSUME CInv, NEW batch \in SUBSET VMs, FetchBatch(batch)
  PROVE  Fully'
<1> DEFINE rest == {l \in fetch.pend : l[1] \notin batch}
           got  == [v \in VMs |-> fetch.got[v] \cup
                      IF v \in batch \cap ids THEN LinksOf(fetch.pend, v) ELSE {}]
<1>1. /\ fetch'.pc = IF rest = {} THEN "done" ELSE "resolve"
      /\ fetch'.got = got /\ fetch'.pend = rest /\ fetch.pc = "resolve"
  BY DEF FetchBatch, CInv, TypeOK, Fetching
<1>2. UNCHANGED <<owner, nat, ids, steady, shrunk>>
  BY DEF FetchBatch, netbox, history
<1> SUFFICES ASSUME ~shrunk PROVE Fully'
  BY <1>2 DEF Fully
<1>3. steady \subseteq Known /\ \A l \in steady : Covered(l)
  BY <1>1 DEF CInv, Fully
<1>4. ASSUME NEW l \in steady PROVE Covered(l)'
  <2>1. l[1] \in VMs \cap ids
    BY <1>3, KnownListed DEF CInv
  <2>2. l[2] \in got[l[1]] \/ l \in rest
    <3>1. CASE l[2] \in fetch.got[l[1]]
      BY <2>1, <3>1
    <3>2. CASE l \in fetch.pend /\ l[1] \in batch
      <4>1. l[2] \in LinksOf(fetch.pend, l[1])
        BY <3>2 DEF LinksOf
      <4>2. QED BY <2>1, <3>2, <4>1
    <3>3. CASE l \in fetch.pend /\ l[1] \notin batch
      BY <3>3
    <3>4. QED BY <1>3, <3>1, <3>2, <3>3 DEF Covered
  <2> HIDE DEF got, rest
  <2>3. QED BY <1>1, <2>2 DEF Covered
<1>5. Known' = Known
  BY <1>2 DEF Known, Links
<1> HIDE DEF got, rest
<1>6. QED BY <1>1, <1>2, <1>3, <1>4, <1>5 DEF Fully

LEMMA NextFully == CInv /\ [Next]_vars => CInv'
<1> SUFFICES ASSUME CInv, [Next]_vars PROVE CInv'
  OBVIOUS
<1>1. TypeOK'
  BY NextType DEF CInv
<1>2. CASE UNCHANGED <<owner, nat, ids, fetch, steady, shrunk>>
  <2>1. Known' = Known /\ \A i \in Internal : Row(i)' = Row(i)
    BY <1>2 DEF Known, Links, Row, Listed, Outside
  <2>2. \A l \in steady : Covered(l)' <=> Covered(l)
    BY <1>2 DEF Covered
  <2>3. fetch.pc # "idle" /\ ~shrunk => \A l \in steady : l[2][2] \in Internal
    BY DEF CInv, Fully, Known, Links, Pair
  <2>4. QED BY <1>1, <1>2, <2>1, <2>2, <2>3 DEF CInv, Fully
<1>3. CASE Edit
  BY <1>1, <1>3, EditFully DEF CInv
<1>4. CASE FetchBegin
  <2>1. fetch'.pc = "page" /\ fetch'.offset = 0 /\ steady' = Known /\ UNCHANGED netbox
    BY <1>4 DEF FetchBegin, IdleFetch
  <2>2. Known' = Known /\ \A l \in Known : Row(l[2][2])' = Row(l[2][2])
    BY <2>1 DEF netbox, Known, Links, Row, Listed, Outside
  <2>3. ASSUME NEW l \in Known PROVE ~(Row(l[2][2]) <= 0)
    <3>1. l[2][2] \in Listed
      BY KnownListed DEF CInv
    <3>2. Row(l[2][2]) \in Nat /\ 1 <= Row(l[2][2])
      BY <3>1, RowsListed
    <3>3. QED BY <3>2
  <2>4. QED BY <1>1, <2>1, <2>2, <2>3 DEF CInv, Fully
<1>5. CASE FetchPage
  BY <1>1, <1>5, PageFully DEF CInv
<1>6. CASE \E batch \in SUBSET VMs : FetchBatch(batch)
  BY <1>1, <1>6, BatchFully DEF CInv
<1>7. CASE FetchDone \/ FetchFails
  BY <1>1, <1>7 DEF FetchDone, FetchFails, IdleFetch, CInv, Fully
<1>8. CASE \E d \in hooks : HookLost(d) \/ TakeWebhook(d)
  BY <1>2, <1>8 DEF HookLost, TakeWebhook, netbox, history
<1>9. CASE UNCHANGED vars
  BY <1>2, <1>9 DEF vars, netbox, history
<1>10. QED BY <1>3, <1>4, <1>5, <1>6, <1>7, <1>8, <1>9, NextCases DEF FetchStep

\* A fetch misses no mapping that NetBox had all the time, as long as no row left the
\* listing meanwhile.
THEOREM FetchesComplete == Spec => []FetchComplete
<1>1. Init => CInv
  BY InitType DEF CInv, Fully, Init, IdleFetch
<1>2. CInv => FetchComplete
  <2> SUFFICES ASSUME CInv, fetch.pc = "done", ~shrunk, NEW v \in VMs, NEW p \in LinksOf(steady, v)
               PROVE  p \in fetch.got[v]
    BY DEF FetchComplete
  <2>1. PICK l \in steady : l[1] = v /\ l[2] = p
    BY DEF LinksOf
  <2>2. Covered(l) /\ fetch.pend = {}
    BY DEF CInv, Fully
  <2>3. QED BY <2>1, <2>2 DEF Covered
<1>3. QED BY <1>1, <1>2, NextFully, PTL DEF Spec
-----------------------------------------------------------------------------
(* While NetBox rests a fetch is exact, and the cache becomes and stays so *)

\* The fetch under way saw nothing else than what NetBox has now.
FetchTrue ==
  fetch.pc # "idle" =>
    /\ past \subseteq Links /\ Known \subseteq steady /\ ~shrunk
    /\ \A v \in VMs : \A p \in fetch.got[v] : <<v, p>> \in Known

Accurate == cache.byID = TableNow /\ cache.byName = NothingWaits

Still == UNCHANGED netbox

\* Nothing is saved, and no request fails.
AllStill == UNCHANGED <<netbox, edits, faults>>

LEMMA StillLinks ==
  ASSUME Still
  PROVE  Links' = Links /\ Known' = Known /\ Listed' = Listed /\ TableNow' = TableNow
<1>1. UNCHANGED <<owner, nat, ids>>
  BY DEF Still, netbox
<1>2. QED BY <1>1 DEF Links, Known, Listed, Outside, TableNow, LinksOf

LEMMA PageTrue ==
  ASSUME TypeOK, FetchTrue, FetchPage
  PROVE  \A v \in VMs : \A p \in fetch'.got[v] : <<v, p>> \in Known
<1> DEFINE last == fetch.offset + PageSize
           here == Assigned({i \in Listed : fetch.offset < Row(i) /\ Row(i) <= last})
           now  == {i \in here : owner[i] \in Inline \cap ids}
<1>1. /\ fetch.pc = "page"
      /\ fetch'.got = [v \in VMs |-> fetch.got[v] \cup
                         UNION {PairsOf(i) : i \in {j \in now : owner[j] = v}}]
  BY DEF FetchPage, TypeOK, Fetching
<1>2. \A i \in now : i \in Internal /\ owner[i] \in ids
  BY DEF Assigned, Listed
<1> HIDE DEF now
<1>3. ASSUME NEW v \in VMs, NEW p \in fetch'.got[v], p \notin fetch.got[v]
      PROVE  <<v, p>> \in Known
  <2>1. PICK i \in now : owner[i] = v /\ p \in PairsOf(i)
    BY <1>1, <1>3
  <2>2. p \in Pair /\ p[2] = i /\ nat[p[1]] = i
    BY <1>2, <2>1, PairsTyped
  <2>3. QED BY <1>2, <2>1, <2>2 DEF Links, Known
<1>4. QED BY <1>1, <1>3 DEF FetchTrue

LEMMA BatchTrue ==
  ASSUME SInv, FetchTrue, NEW batch \in SUBSET VMs, FetchBatch(batch)
  PROVE  \A v \in VMs : \A p \in fetch'.got[v] : <<v, p>> \in Known
<1>1. /\ fetch.pc = "resolve"
      /\ fetch'.got = [v \in VMs |-> fetch.got[v] \cup
                         IF v \in batch \cap ids THEN LinksOf(fetch.pend, v) ELSE {}]
  BY DEF FetchBatch, SInv, TypeOK, Fetching
<1>2. fetch.pend \subseteq Links /\ fetch.pend \subseteq VMs \X Pair
  BY <1>1 DEF SInv, Soundly, FetchTrue, TypeOK, Fetching
<1>3. ASSUME NEW v \in VMs, NEW p \in fetch'.got[v], p \notin fetch.got[v]
      PROVE  <<v, p>> \in Known
  <2>1. v \in ids /\ p \in LinksOf(fetch.pend, v)
    BY <1>1, <1>3
  <2>2. PICK l \in fetch.pend : l[1] = v /\ l[2] = p
    BY <2>1 DEF LinksOf
  <2>3. l = <<v, p>> /\ l \in Links
    BY <1>2, <2>2
  <2>4. QED BY <2>1, <2>3 DEF Known
<1>4. QED BY <1>1, <1>3 DEF FetchTrue

LEMMA StepTrue == SInv /\ FetchTrue /\ [Next]_vars /\ Still => FetchTrue'
<1> SUFFICES ASSUME SInv, FetchTrue, [Next]_vars, Still PROVE FetchTrue'
  OBVIOUS
<1>1. Links' = Links /\ Known' = Known /\ Listed' = Listed
  BY StillLinks
<1>2. ASSUME UNCHANGED <<fetch, past, steady, shrunk>> PROVE FetchTrue'
  BY <1>1, <1>2 DEF FetchTrue
<1>3. CASE Edit
  <2>1. fetch' = fetch /\ Watch
    BY <1>3 DEF Edit, SaveVM, DeleteVM, SaveInterface, SaveInternal, DeleteInternal,
                SaveExternal, Saved
  <2>2. QED BY <1>1, <2>1 DEF Watch, FetchTrue
<1>4. CASE FetchBegin
  BY <1>1, <1>4 DEF FetchBegin, IdleFetch, EmptyTable, FetchTrue
<1>5. CASE FetchPage
  <2>1. fetch.pc = "page" /\ UNCHANGED <<past, steady, shrunk>>
    BY <1>5 DEF FetchPage, history
  <2>2. QED BY <1>1, <1>5, <2>1, PageTrue DEF SInv, FetchTrue
<1>6. ASSUME NEW batch \in SUBSET VMs, FetchBatch(batch) PROVE FetchTrue'
  <2>1. fetch.pc = "resolve" /\ UNCHANGED <<past, steady, shrunk>>
    BY <1>6 DEF FetchBatch, history
  <2>2. QED BY <1>1, <1>6, <2>1, BatchTrue DEF FetchTrue
<1>7. CASE FetchDone \/ FetchFails
  BY <1>7 DEF FetchDone, FetchFails, IdleFetch, FetchTrue
<1>8. CASE \E d \in hooks : HookLost(d) \/ TakeWebhook(d)
  BY <1>2, <1>8 DEF HookLost, TakeWebhook, history
<1>9. CASE UNCHANGED vars
  BY <1>2, <1>9 DEF vars, history
<1>10. QED BY <1>3, <1>4, <1>5, <1>6, <1>7, <1>8, <1>9, NextCases DEF FetchStep

LEMMA TrueExact == TypeOK /\ FetchComplete /\ FetchTrue /\ fetch.pc = "done" => fetch.got = TableNow
<1> SUFFICES ASSUME TypeOK, FetchComplete, FetchTrue, fetch.pc = "done"
             PROVE  fetch.got = TableNow
  OBVIOUS
<1>1. fetch.got \in [VMs -> SUBSET Pair]
  BY DEF TypeOK, Fetching, Table
<1>2. ASSUME NEW v \in VMs PROVE fetch.got[v] = LinksOf(Known, v)
  <2>1. LinksOf(Known, v) \subseteq fetch.got[v]
    BY DEF FetchTrue, FetchComplete, LinksOf
  <2>2. ASSUME NEW p \in fetch.got[v] PROVE p \in LinksOf(Known, v)
    <3>1. <<v, p>> \in Known
      BY DEF FetchTrue
    <3>2. QED BY <3>1 DEF LinksOf
  <2>3. QED BY <2>1, <2>2
<1>3. QED BY <1>1, <1>2 DEF TableNow

LEMMA FetchInvariants == Spec => [](SInv /\ FetchComplete)
<1>1. Init => SInv
  BY InitType DEF SInv, Soundly, Init, IdleFetch
<1>2. QED BY <1>1, NextSoundly, FetchesComplete, PTL DEF Spec

\* A fetch that begins once NetBox rests returns what NetBox says, all of it and
\* nothing else, wherever the pages and VMID batches end; saving objects again
\* without a change does not matter (client.go:60-113).
THEOREM FetchExact ==
  Spec => [](FetchTrue /\ [][Still]_vars => [](fetch.pc = "done" => fetch.got = TableNow))
<1>1. SInv /\ FetchTrue /\ [Next]_vars /\ [Still]_vars => FetchTrue'
  <2>1. UNCHANGED vars => Still
    BY DEF vars, Still
  <2>2. QED BY <2>1, StepTrue
<1>2. SInv /\ FetchComplete /\ FetchTrue => (fetch.pc = "done" => fetch.got = TableNow)
  BY TrueExact DEF SInv
<1>3. QED BY <1>1, <1>2, FetchInvariants, PTL DEF Spec

\* No webhook is on its way, and the fetch under way is exact.
Calm == hooks = {} /\ FetchTrue

LEMMA StepAccurate ==
  ASSUME SInv, FetchComplete, Calm, Next, AllStill
  PROVE  /\ hooks' = {}
         /\ Accurate => Accurate'
         /\ fetch.pc # "idle" /\ fetch'.pc = "idle" => Accurate'
<1>1. TableNow' = TableNow
  BY StillLinks DEF AllStill, Still
<1>2. ~Edit
  <2>1. Edit => edits' = edits + 1
    BY DEF Edit, SaveVM, DeleteVM, SaveInterface, SaveInternal, DeleteInternal, SaveExternal,
           Saved
  <2>2. QED BY <2>1 DEF AllStill, SInv, TypeOK
<1>3. ~FetchFails /\ ~ \E d \in hooks : HookLost(d) \/ TakeWebhook(d)
  BY DEF FetchFails, AllStill, SInv, TypeOK, Calm
<1>4. CASE FetchBegin
  BY <1>1, <1>4 DEF FetchBegin, Accurate, Calm
<1>5. CASE FetchPage
  <2>1. fetch'.pc \in {"page", "done", "resolve"} /\ UNCHANGED <<cache, hooks>>
    BY <1>5 DEF FetchPage, SInv, TypeOK, Fetching
  <2>2. QED BY <1>1, <2>1 DEF Accurate, Calm
<1>6. ASSUME NEW batch \in SUBSET VMs, FetchBatch(batch)
      PROVE  fetch'.pc # "idle" /\ UNCHANGED <<cache, hooks>>
  BY <1>6 DEF FetchBatch, SInv, TypeOK, Fetching
<1>7. CASE FetchDone
  <2>1. fetch.got = TableNow
    BY <1>7, TrueExact DEF FetchDone, Calm, SInv
  <2>2. Accurate' /\ hooks' = {}
    BY <1>1, <1>7, <2>1 DEF FetchDone, Rebuilt, Accurate, Calm
  <2>3. QED BY <2>2
<1>8. QED BY <1>1, <1>2, <1>3, <1>4, <1>5, <1>6, <1>7, NextCases DEF FetchStep, Accurate, Calm

\* Once the last webhook has been taken and NetBox rests, a fetch makes the cache
\* what NetBox says, and no later fetch, page by page, makes it anything else, or
\* leaves a mapping waiting for a name (reconciler.go:1082-1093).
THEOREM CacheStays ==
  Spec => /\ [](Calm /\ Accurate /\ [][AllStill]_vars => []Accurate)
          /\ [](Calm /\ fetch.pc # "idle" /\ [][AllStill]_vars => [](fetch.pc = "idle" => Accurate))
<1> DEFINE I == SInv /\ FetchComplete
           Coming == fetch.pc # "idle" \/ Accurate
<1>1. I /\ Calm /\ [Next]_vars /\ [AllStill]_vars => Calm'
  <2> SUFFICES ASSUME I, Calm, [Next]_vars, [AllStill]_vars PROVE Calm'
    OBVIOUS
  <2>1. AllStill /\ Still
    BY DEF AllStill, Still, vars
  <2>2. FetchTrue'
    BY <2>1, StepTrue DEF Calm
  <2>3. hooks' = {}
    BY <2>1, StepAccurate DEF Calm, vars
  <2>4. QED BY <2>2, <2>3 DEF Calm
<1>2. I /\ Calm /\ Accurate /\ [Next]_vars /\ [AllStill]_vars => Accurate'
  <2>1. UNCHANGED vars /\ Accurate => Accurate'
    BY DEF vars, netbox, Accurate, TableNow, Known, Links, LinksOf
  <2>2. UNCHANGED vars => AllStill
    BY DEF vars, AllStill
  <2>3. QED BY <2>1, <2>2, StepAccurate
<1>3. I /\ Calm /\ Coming /\ [Next]_vars /\ [AllStill]_vars => Coming'
  <2>1. UNCHANGED vars /\ Coming => Coming'
    BY DEF vars, netbox, Accurate, TableNow, Known, Links, LinksOf
  <2>2. UNCHANGED vars => AllStill
    BY DEF vars, AllStill
  <2>3. QED BY <2>1, <2>2, StepAccurate
<1>4. /\ Coming => (fetch.pc = "idle" => Accurate)
      /\ fetch.pc # "idle" => Coming
  OBVIOUS
<1> HIDE DEF Coming
<1>5. QED BY <1>1, <1>2, <1>3, <1>4, FetchInvariants, PTL DEF Spec
-----------------------------------------------------------------------------
(***************************************************************************)
(* The cache under deltas.  Run takes them one at a time, from a channel   *)
(* that may drop some, around fetches: what matters is what one changes,   *)
(* and which orders do.  A delta need not carry a VMID, and a name need    *)
(* not be one VM's: what a delta reaches depends on the cache.             *)
(***************************************************************************)

\* No mapping waits for a name whose VMID is known: what waits in
\* mappingPendingByName is of a name that vmIDByName lacks.
NothingOverlooked(c) == \A m \in Names : c.byName[m] # {} => c.ids[m] = NoVM

\* vmIDByName has a VM under no other name than its own.
NamesOwn(c) == \A m \in Names : c.ids[m] # NoVM => NameOf[c.ids[m]] = m

\* A VMID comes with the name of its VM.
Honest(d) == d.id # NoVM => d.name = NameOf[d.id]

LEMMA DeltaReleases ==
  ASSUME NEW c \in Cache, NEW d \in Delta, NothingOverlooked(c)
  PROVE  NothingOverlooked(DeltaToCache(c, d))
<1> SUFFICES ASSUME NEW m \in Names, WaitingAfter(c, d, m) # {}
             PROVE  KnownAfter(c, d, m) = NoVM
  BY DeltaForm, AfterTyped DEF NothingOverlooked
<1>1. CASE m = d.name
  BY <1>1 DEF WaitingAfter, KnownAfter, NothingOverlooked, Attributed, Resolving
<1>2. CASE m # d.name
  BY <1>2 DEF WaitingAfter, KnownAfter, NothingOverlooked
<1>3. QED BY <1>1, <1>2

LEMMA DeltaOwn ==
  ASSUME NEW c \in Cache, NEW d \in Delta, NamesOwn(c), Honest(d)
  PROVE  /\ NamesOwn(DeltaToCache(c, d))
         /\ Attributed(c, d) # NoVM => NameOf[Attributed(c, d)] = d.name
<1>1. d.name \in Names \cup {NoName} /\ d.id \in VMs \cup {NoVM}
  BY DEF Delta
<1>2. Attributed(c, d) # NoVM => NameOf[Attributed(c, d)] = d.name
  BY <1>1 DEF Attributed, Honest, NamesOwn
<1>3. ASSUME NEW m \in Names, KnownAfter(c, d, m) # NoVM
      PROVE  NameOf[KnownAfter(c, d, m)] = m
  BY <1>2, <1>3 DEF KnownAfter, NamesOwn
<1>4. QED BY <1>2, <1>3, DeltaForm, AfterTyped DEF NamesOwn

LEMMA RebuiltOwn ==
  ASSUME NEW t
  PROVE  NamesOwn(Rebuilt(t)) /\ NothingOverlooked(Rebuilt(t))
<1> DEFINE its(n) == IF Named(t, n) = {} THEN NoVM ELSE CHOOSE v \in Named(t, n) : TRUE
<1>1. ASSUME NEW n, its(n) # NoVM PROVE NameOf[its(n)] = n
  BY <1>1 DEF Named
<1>2. \A n \in Names : Rebuilt(t).ids[n] = its(n) /\ Rebuilt(t).byName[n] = {}
  BY DEF Rebuilt, NothingWaits
<1> HIDE DEF its
<1>3. QED BY <1>1, <1>2 DEF NamesOwn, NothingOverlooked

\* What NetBox sends carries a VM's VMID together with its name.
HooksHonest == \A d \in hooks : Honest(d)

LEMMA SavedHonest ==
  ASSUME HooksHonest, NEW d, Honest(d), Saved(d)
  PROVE  HooksHonest' /\ cache' = cache
  BY DEF Saved, HooksHonest

CacheNames == NamesOwn(cache) /\ NothingOverlooked(cache) /\ HooksHonest

LEMMA EditNames == TypeOK /\ CacheNames /\ Edit => CacheNames'
<1> SUFFICES ASSUME TypeOK, CacheNames, Edit PROVE HooksHonest' /\ cache' = cache
  BY DEF CacheNames, NamesOwn, NothingOverlooked
<1>1. HooksHonest
  BY DEF CacheNames
<1>2. \A model, deleted, v, id, i, exts : Honest(Webhook(model, deleted, v, id, i, exts))
  BY DEF Honest, Webhook
<1>3. Edit => \E model, deleted, v, id, i, exts : Saved(Webhook(model, deleted, v, id, i, exts))
  BY DEF Edit, SaveVM, DeleteVM, SaveInterface, SaveInternal, DeleteInternal, SaveExternal
<1>4. QED BY <1>1, <1>2, <1>3, SavedHonest

LEMMA NextNames == TypeOK /\ CacheNames /\ [Next]_vars => CacheNames'
<1> SUFFICES ASSUME TypeOK, CacheNames, [Next]_vars PROVE CacheNames'
  OBVIOUS
<1>1. CASE UNCHANGED vars
  BY <1>1 DEF vars, CacheNames, NamesOwn, NothingOverlooked, HooksHonest
<1>2. CASE Edit
  BY <1>2, EditNames
<1>3. CASE FetchDone
  <2>1. cache' = Rebuilt(fetch.got) /\ hooks' = hooks
    BY <1>3 DEF FetchDone
  <2>2. QED BY <2>1, RebuiltOwn DEF CacheNames, HooksHonest
<1>4. CASE FetchFails \/ FetchBegin \/ FetchPage \/ \E batch \in SUBSET VMs : FetchBatch(batch)
  <2>1. cache' = cache /\ hooks' = hooks
    BY <1>4 DEF FetchFails, FetchBegin, FetchPage, FetchBatch
  <2>2. QED BY <2>1 DEF CacheNames, NamesOwn, NothingOverlooked, HooksHonest
<1>5. ASSUME NEW d \in hooks, HookLost(d) \/ TakeWebhook(d) PROVE CacheNames'
  <2>1. hooks' = hooks \ {d} /\ d \in Delta /\ Honest(d)
    BY <1>5 DEF HookLost, TakeWebhook, TypeOK, CacheNames, HooksHonest
  <2>2. HooksHonest'
    BY <2>1 DEF CacheNames, HooksHonest
  <2>3. CASE HookLost(d)
    BY <2>2, <2>3 DEF HookLost, CacheNames, NamesOwn, NothingOverlooked
  <2>4. CASE TakeWebhook(d)
    <3>1. cache' = DeltaToCache(Opened(cache), d)
      BY <2>4 DEF TakeWebhook
    <3>2. Opened(cache) \in Cache /\ NamesOwn(Opened(cache)) /\ NothingOverlooked(Opened(cache))
      BY DEF TypeOK, Opened, Cache, CacheNames, NamesOwn, NothingOverlooked
    <3>3. NamesOwn(cache') /\ NothingOverlooked(cache')
      BY <2>1, <3>1, <3>2, DeltaReleases, DeltaOwn
    <3>4. QED BY <2>2, <3>3 DEF CacheNames
  <2>5. QED BY <1>5, <2>3, <2>4
<1>6. QED BY <1>1, <1>2, <1>3, <1>4, <1>5, NextCases DEF FetchStep

LEMMA NamesInvariant == Spec => [](TypeOK /\ CacheNames)
<1>1. Init => CacheNames
  BY DEF Init, CacheNames, NamesOwn, NothingOverlooked, HooksHonest, ColdCache, NothingWaits
<1>2. QED BY <1>1, NextNames, TypeCorrect, PTL DEF Spec

\* A mapping that came before its VM's VMID is released by whatever brings the
\* VMID with the name, and none comes to wait afterwards (reconciler.go:1106-1206).
THEOREM NamesReleased == Spec => []NothingOverlooked(cache)
  BY NamesInvariant, PTL DEF CacheNames

\* What is taken changes only what is cached of VMs that have the name it carries,
\* of that name, and of no other.
TakesItsOwn ==
  \A d \in hooks : TakeWebhook(d) =>
    /\ \A v \in VMs : NameOf[v] # d.name => cache'.byID[v] = cache.byID[v]
    /\ \A m \in Names \ {d.name} : cache'.byName[m] = cache.byName[m] /\ cache'.ids[m] = cache.ids[m]

\* A webhook without a VMID is attributed by its name to whatever VM the cache has
\* under it, deleted ones included.  As long as NetBox renames no VM this is a VM of
\* that name: through any losses, delays, reorderings and fetches a webhook changes
\* what is cached of no VM with another name, while VMs that share a name do get
\* each other's mappings (reconciler.go:1106-1206).
THEOREM DeltasApart == Spec => [][TakesItsOwn]_vars
<1>1. TypeOK /\ CacheNames => TakesItsOwn
  <2> SUFFICES ASSUME TypeOK, CacheNames, NEW d \in hooks, TakeWebhook(d)
               PROVE  /\ \A v \in VMs : NameOf[v] # d.name => cache'.byID[v] = cache.byID[v]
                      /\ \A m \in Names \ {d.name} : /\ cache'.byName[m] = cache.byName[m]
                                                     /\ cache'.ids[m] = cache.ids[m]
    BY DEF TakesItsOwn
  <2> DEFINE c == Opened(cache)
  <2>1. d \in Delta /\ Honest(d) /\ cache' = DeltaToCache(c, d)
    BY DEF TakeWebhook, TypeOK, CacheNames, HooksHonest
  <2>2. c \in Cache /\ NamesOwn(c) /\ NothingOverlooked(c)
        /\ c.byID = cache.byID /\ c.byName = cache.byName /\ c.ids = cache.ids
    BY DEF TypeOK, Opened, Cache, CacheNames, NamesOwn, NothingOverlooked
  <2> HIDE DEF c
  <2>3. Attributed(c, d) # NoVM => NameOf[Attributed(c, d)] = d.name
    BY <2>1, <2>2, DeltaOwn
  <2>4. ASSUME NEW v \in VMs, NameOf[v] # d.name PROVE cache'.byID[v] = cache.byID[v]
    <3>1. cache'.byID[v] = MappedAfter(c, d, v)
      BY <2>1, <2>2, DeltaForm, AfterTyped
    <3>2. QED BY <2>2, <2>3, <2>4, <3>1 DEF MappedAfter
  <2>5. ASSUME NEW m \in Names \ {d.name}
        PROVE  cache'.byName[m] = cache.byName[m] /\ cache'.ids[m] = cache.ids[m]
    <3>1. cache'.byName[m] = WaitingAfter(c, d, m) /\ cache'.ids[m] = KnownAfter(c, d, m)
      BY <2>1, <2>2, DeltaForm, AfterTyped
    <3>2. ~(Attributed(c, d) # NoVM /\ c.ids[m] = Attributed(c, d))
      BY <2>2, <2>3 DEF NamesOwn
    <3>3. QED BY <2>2, <3>1, <3>2 DEF WaitingAfter, KnownAfter
  <2>6. QED BY <2>4, <2>5
<1>2. QED BY <1>1, NamesInvariant, PTL

\* The order of two webhooks matters only if they carry one name or reach one VM,
\* by its VMID or by a name that may be stale or shared: the others may overtake each
\* other, in NetBox, on the network or in the delta channel, whatever VMIDs and names
\* they carry.
THEOREM DeltasCommute ==
  ASSUME NEW c \in Cache, NothingOverlooked(c), NEW d \in Delta, NEW e \in Delta,
         d.name # e.name \/ d.name = NoName,
         Attributed(c, d) # Attributed(c, e) \/ Attributed(c, d) = NoVM
  PROVE  DeltaToCache(DeltaToCache(c, d), e) = DeltaToCache(DeltaToCache(c, e), d)
<1> DEFINE cd == DeltaToCache(c, d)
           ce == DeltaToCache(c, e)
<1>1. cd = After(c, d) /\ ce = After(c, e) /\ cd \in Cache /\ ce \in Cache
      /\ cd.ready = c.ready /\ ce.ready = c.ready
  <2>1. cd = After(c, d) /\ ce = After(c, e) /\ cd \in Cache /\ ce \in Cache
    BY DeltaForm, DeltaTyped
  <2>2. After(c, d).ready = c.ready /\ After(c, e).ready = c.ready
    BY DEF After
  <2>3. QED BY <2>1, <2>2
<1>2. /\ \A v \in VMs : cd.byID[v] = MappedAfter(c, d, v) /\ ce.byID[v] = MappedAfter(c, e, v)
      /\ \A m \in Names : /\ cd.byName[m] = WaitingAfter(c, d, m) /\ ce.byName[m] = WaitingAfter(c, e, m)
                          /\ cd.ids[m] = KnownAfter(c, d, m) /\ ce.ids[m] = KnownAfter(c, e, m)
  BY <1>1, AfterTyped
<1> HIDE DEF cd, ce
<1>3. DeltaToCache(cd, e) = After(cd, e) /\ DeltaToCache(ce, d) = After(ce, d)
      /\ After(cd, e) \in Cache /\ After(ce, d) \in Cache
  BY <1>1, DeltaForm, AfterTyped
<1>4. /\ d.name \in Names \cup {NoName} /\ e.name \in Names \cup {NoName}
      /\ d.id \in VMs \cup {NoVM} /\ e.id \in VMs \cup {NoVM}
  BY DEF Delta
<1>5. /\ Attributed(c, d) \in VMs \cup {NoVM} /\ Attributed(c, e) \in VMs \cup {NoVM}
      /\ \A m \in Names : c.ids[m] \in VMs \cup {NoVM}
  BY ResolvedAttributed DEF Cache
\* Neither changes to which VM the other is attributed.
<1>6. Attributed(cd, e) = Attributed(c, e) /\ Attributed(ce, d) = Attributed(c, d)
  BY <1>2, <1>4, <1>5 DEF Attributed, KnownAfter
<1>7. ASSUME NEW v \in VMs PROVE MappedAfter(cd, e, v) = MappedAfter(ce, d, v)
  <2>1. ASSUME Resolving(d) PROVE ce.byName[d.name] = c.byName[d.name]
    BY <1>2, <1>4, <1>5, <2>1 DEF WaitingAfter, Resolving, NothingOverlooked
  <2>2. ASSUME Resolving(e) PROVE cd.byName[e.name] = c.byName[e.name]
    BY <1>2, <1>4, <1>5, <2>2 DEF WaitingAfter, Resolving, NothingOverlooked
  <2>3. About(cd, e) = About(c, e) /\ About(ce, d) = About(c, d)
    BY <1>6 DEF About
  <2>4. QED BY <1>2, <1>5, <1>6, <2>1, <2>2, <2>3 DEF MappedAfter
<1>8. ASSUME NEW m \in Names
      PROVE  WaitingAfter(cd, e, m) = WaitingAfter(ce, d, m) /\ KnownAfter(cd, e, m) = KnownAfter(ce, d, m)
  <2>1. About(cd, e) = About(c, e) /\ About(ce, d) = About(c, d)
    BY <1>6 DEF About
  <2>2. QED BY <1>2, <1>4, <1>5, <1>6, <2>1 DEF WaitingAfter, KnownAfter, NothingOverlooked, Attributed, Resolving
<1>9. After(cd, e) = After(ce, d)
  <2>1. After(cd, e).ready = After(ce, d).ready
    BY <1>1 DEF After
  <2>2. ASSUME NEW v \in VMs PROVE After(cd, e).byID[v] = After(ce, d).byID[v]
    <3>1. After(cd, e).byID[v] = MappedAfter(cd, e, v) /\ After(ce, d).byID[v] = MappedAfter(ce, d, v)
      BY <1>1, AfterTyped
    <3>2. QED BY <1>7, <3>1
  <2>3. \A m \in Names : /\ After(cd, e).byName[m] = After(ce, d).byName[m]
                         /\ After(cd, e).ids[m] = After(ce, d).ids[m]
    BY <1>1, <1>8, AfterTyped
  <2>4. QED BY <1>3, <2>1, <2>2, <2>3, CacheEqual
<1>10. QED BY <1>3, <1>9 DEF cd, ce

\* A webhook that is delivered a second time before any other is taken changes
\* nothing, also one that reached its VM by a name alone (reconciler.go:1106-1206).
THEOREM DeltaRepeated ==
  ASSUME NEW c \in Cache, NEW d \in Delta
  PROVE  DeltaToCache(DeltaToCache(c, d), d) = DeltaToCache(c, d)
<1> DEFINE once == DeltaToCache(c, d)
<1>1. once = After(c, d) /\ once \in Cache
  BY DeltaForm, DeltaTyped
<1>2. /\ \A v \in VMs : once.byID[v] = MappedAfter(c, d, v)
      /\ \A m \in Names : once.byName[m] = WaitingAfter(c, d, m) /\ once.ids[m] = KnownAfter(c, d, m)
  BY <1>1, AfterTyped
<1>3. DeltaToCache(once, d) = After(once, d) /\ After(once, d) \in Cache
      /\ After(once, d).ready = once.ready
  BY <1>1, DeltaForm, AfterTyped DEF After
<1> HIDE DEF once
<1>4. d.name \in Names \cup {NoName} /\ d.id \in VMs \cup {NoVM}
  BY DEF Delta
<1>5. Attributed(c, d) \in VMs \cup {NoVM} /\ \A m \in Names : c.ids[m] \in VMs \cup {NoVM}
  BY ResolvedAttributed DEF Cache
\* It is attributed to the same VM again, unless it has deleted that VM.
<1>6. Attributed(once, d) = Attributed(c, d) \/ (Gone(d) /\ Attributed(once, d) = NoVM)
  BY <1>2, <1>4, <1>5 DEF Attributed, KnownAfter
<1>7. ASSUME NEW v \in VMs PROVE MappedAfter(once, d, v) = once.byID[v]
  <2>1. ASSUME Resolving(d) PROVE once.byName[d.name] = {}
    BY <1>2, <1>4, <2>1 DEF WaitingAfter, Resolving
  <2>2. QED BY <1>2, <1>5, <1>6, <2>1 DEF MappedAfter, About
<1>8. ASSUME NEW m \in Names
      PROVE  WaitingAfter(once, d, m) = once.byName[m] /\ KnownAfter(once, d, m) = once.ids[m]
  BY <1>2, <1>4, <1>5, <1>6 DEF WaitingAfter, KnownAfter, About
<1>9. After(once, d) = once
  BY <1>1, <1>3, <1>7, <1>8, AfterTyped, CacheEqual
<1>10. QED BY <1>3, <1>9 DEF once

-----------------------------------------------------------------------------
(* Backups under deltas. *)

\* No public address is mapped to two internal ones.
OneEach(pairs) == \A p, q \in pairs : p[1] = q[1] => p = q

\* A delta leaves a VM's backup with one mapping for each public address, also one
\* that moves from one of the VM's internal addresses to another
\* (syncBackupFromDelta, reconciler.go:1040-1073).
THEOREM MergedOnce ==
  ASSUME NEW pairs \in SUBSET Pair, NEW d \in Delta, OneEach(pairs)
  PROVE  OneEach(Merged(pairs, d)) /\ Merged(Merged(pairs, d), d) = Merged(pairs, d)
  BY DEF OneEach, Merged, DeltaPairs, Pair, Delta
=============================================================================
