------------------------------- MODULE NetBox -------------------------------
(***************************************************************************)
(* How the mapping cache follows NetBox: the paginated fetch               *)
(* (FetchNATMappings in internal/netbox/client.go) reads objects that      *)
(* change meanwhile, and each saved object sends a webhook, rendered by    *)
(* webhookBodyTemplate and decoded by handleWebhook (internal/webhook/     *)
(* server.go), that changes the cache.  Run does both, one after another.  *)
(*                                                                         *)
(* NetBox is external.  An internal address is assigned to a VM, or to     *)
(* NoVM; an external one has a NAT (inside) address.  VMs may share a      *)
(* name, at once or one after the other.  The listing has a row for each   *)
(* internal address that is NATed, in a fixed order.  Webhooks are         *)
(* delivered in any order; the signature check and malformed payloads are  *)
(* left out.                                                               *)
(***************************************************************************)
EXTENDS MappingCache, Naturals, FiniteSets

CONSTANTS
  Order,      \* the place of each internal address in NetBox's listings
  Inline,     \* VMs whose custom fields NetBox nests in an address
  PageSize, BatchSize,
  MaxEdits,   \* bound: objects saved
  MaxFaults   \* bound: failing requests, lost webhooks

ASSUME NetBoxAssumption ==
  /\ VMs # {}
  /\ IsFiniteSet(Internal) /\ NoAddress \notin Internal
  /\ Order \in [Internal -> Nat]
  /\ \A i, j \in Internal : Order[i] = Order[j] => i = j
  /\ Inline \subseteq VMs
  /\ PageSize \in Nat \ {0} /\ BatchSize \in Nat \ {0}
  /\ MaxEdits \in Nat /\ MaxFaults \in Nat

VARIABLES
  owner,   \* assigned_object of each internal address
  nat,     \* nat_inside of each external address
  ids,     \* VMs with a proxmox_vmid
  hooks,   \* webhooks on their way
  cache,   \* the mapping cache
  fetch,   \* the fetch under way
  past, steady, shrunk,   \* history: see Watch
  edits, faults

netbox == <<owner, nat, ids>>
history == <<past, steady, shrunk>>
vars == <<netbox, hooks, cache, fetch, history, edits, faults>>

\* pend: mappings of VMs whose VMID is not known yet
Fetching ==
  [pc: {"idle", "page", "resolve", "done"}, offset: Nat, got: Table,
   pend: SUBSET (VMs \X Pair)]

IdleFetch == [pc |-> "idle", offset |-> 0, got |-> EmptyTable, pend |-> {}]

TypeOK ==
  /\ owner \in [Internal -> VMs \cup {NoVM}]
  /\ nat \in [External -> Internal \cup {NoAddress}]
  /\ ids \in SUBSET VMs
  /\ hooks \in SUBSET Delta
  /\ cache \in Cache
  /\ fetch \in Fetching
  /\ past \in SUBSET (VMs \X Pair) /\ steady \in SUBSET (VMs \X Pair) /\ shrunk \in BOOLEAN
  /\ edits \in Nat /\ faults \in Nat

-----------------------------------------------------------------------------
(* NetBox *)

Outside(i) == {e \in External : nat[e] = i}
PairsOf(i) == {<<e, i>> : e \in Outside(i)}

\* The rows of ip-addresses/?nat_outside__isnull=false, and the number of each
Listed == {i \in Internal : Outside(i) # {}}
Row(i) == Cardinality({j \in Listed : Order[j] <= Order[i]})

\* Which VM each mapping leads to; Known: of VMs with a VMID.
Links == {l \in VMs \X Pair : owner[l[2][2]] = l[1] /\ nat[l[2][1]] = l[2][2]}
Known == {l \in Links : l[1] \in ids}

LinksOf(links, v) == {l[2] : l \in {k \in links : k[1] = v}}
TableNow == [v \in VMs |-> LinksOf(Known, v)]

Init ==
  /\ owner \in [Internal -> VMs]
  /\ nat \in [External -> Internal \cup {NoAddress}]
  /\ ids = VMs
  /\ hooks = {} /\ cache = ColdCache /\ fetch = IdleFetch
  /\ past = {} /\ steady = {} /\ shrunk = FALSE
  /\ edits = 0 /\ faults = 0

\* While a fetch is under way: what has been linked since it began, what has been
\* known all along, and whether a row left the listing.
Watch ==
  /\ past' = IF fetch.pc = "idle" THEN {} ELSE past \cup Links'
  /\ steady' = steady \cap Known'
  /\ shrunk' = (shrunk \/ (fetch.pc # "idle" /\ ~(Listed \subseteq Listed')))

Webhook(model, deleted, v, id, i, exts) ==
  [model |-> model, deleted |-> deleted, id |-> IF id THEN v ELSE NoVM,
   name |-> IF v = NoVM THEN NoName ELSE NameOf[v], internal |-> i, exts |-> exts]

\* An object is saved, or deleted: what the template renders of it is sent.
Saved(d) ==
  /\ edits < MaxEdits /\ edits' = edits + 1
  /\ hooks' = hooks \cup {d}
  /\ Watch
  /\ UNCHANGED <<cache, fetch, faults>>

\* A VM gets a VMID, or loses it.
SaveVM(v, id) ==
  /\ ids' = IF id THEN ids \cup {v} ELSE ids \ {v}
  /\ UNCHANGED <<owner, nat>>
  /\ Saved(Webhook("virtualmachine", FALSE, v, id, NoAddress, {}))

\* Its addresses lose their assignment; one of the same name may follow.
DeleteVM(v) ==
  /\ ids' = ids \ {v}
  /\ owner' = [i \in Internal |-> IF owner[i] = v THEN NoVM ELSE owner[i]]
  /\ UNCHANGED nat
  /\ Saved(Webhook("virtualmachine", TRUE, v, v \in ids, NoAddress, {}))

\* An internal address is assigned; the VM nested in it may lack custom fields.
SaveInternal(i, v) ==
  /\ owner' = [owner EXCEPT ![i] = v]
  /\ UNCHANGED <<nat, ids>>
  /\ Saved(Webhook("ipaddress", FALSE, v, v \in Inline \cap ids, i, Outside(i)))

DeleteInternal(i) ==
  /\ owner' = [owner EXCEPT ![i] = NoVM]
  /\ nat' = [e \in External |-> IF nat[e] = i THEN NoAddress ELSE nat[e]]
  /\ UNCHANGED ids
  /\ Saved(Webhook("ipaddress", TRUE, owner[i], owner[i] \in Inline \cap ids, i, Outside(i)))

\* An external address gets its NAT (inside).  Rendered, it names no VM: it is
\* not assigned to one.
SaveExternal(e, i) ==
  /\ nat' = [nat EXCEPT ![e] = i]
  /\ UNCHANGED <<owner, ids>>
  /\ Saved(Webhook("ipaddress", FALSE, NoVM, FALSE, NoAddress, {}))

\* The name the template renders is the interface's; the model decides anyhow.
SaveInterface(v) ==
  /\ UNCHANGED netbox
  /\ Saved(Webhook("vminterface", FALSE, v, FALSE, NoAddress, {}))

-----------------------------------------------------------------------------
(* The fetch: one request a step *)

\* Mutant of FetchBegin: what the last fetch collected is still there.
FetchBeginAgain ==
  /\ fetch.pc = "idle"
  /\ fetch' = [fetch EXCEPT !.pc = "page", !.offset = 0, !.got = cache.byID]
  /\ past' = Links /\ steady' = Known /\ shrunk' = FALSE
  /\ UNCHANGED <<netbox, hooks, cache, edits, faults>>

FetchBegin ==
  /\ fetch.pc = "idle"
  /\ fetch' = [IdleFetch EXCEPT !.pc = "page"]
  /\ past' = Links /\ steady' = Known /\ shrunk' = FALSE
  /\ UNCHANGED <<netbox, hooks, cache, edits, faults>>

\* Mutant of Assigned: an address need not be assigned to a VM.
AssignedOrNot(page) == page

\* isVMInterface
Assigned(page) == {i \in page : owner[i] # NoVM}

\* Mutant of More: the last row is not worth a page.
MoreThanOne == Cardinality(Listed) > fetch.offset + PageSize + 1

\* resp.Next
More == Cardinality(Listed) > fetch.offset + PageSize

\* One page: a nested VMID is used, the others are resolved later.
FetchPage ==
  LET last  == fetch.offset + PageSize
      here  == Assigned({i \in Listed : fetch.offset < Row(i) /\ Row(i) <= last})
      now   == {i \in here : owner[i] \in Inline \cap ids}
      pend  == fetch.pend \cup UNION {{owner[i]} \X PairsOf(i) : i \in here \ now}
  IN /\ fetch.pc = "page"
     /\ fetch' = [fetch EXCEPT
          !.pc = IF More THEN "page" ELSE IF pend = {} THEN "done" ELSE "resolve",
          !.offset = IF More THEN last ELSE 0,
          !.got = [v \in VMs |-> @[v] \cup UNION {PairsOf(i) : i \in {j \in now : owner[j] = v}}],
          !.pend = pend]
     /\ UNCHANGED <<netbox, hooks, cache, history, edits, faults>>

\* fetchProxmoxVMIDs, one batch: VMs without a VMID are dropped.
FetchBatch(batch) ==
  LET need == {l[1] : l \in fetch.pend}
      rest == {l \in fetch.pend : l[1] \notin batch}
  IN /\ fetch.pc = "resolve"
     /\ batch \subseteq need
     /\ Cardinality(batch) = BatchSize \/ batch = need
     /\ Cardinality(batch) <= BatchSize
     /\ fetch' = [fetch EXCEPT
          !.pc = IF rest = {} THEN "done" ELSE "resolve",
          !.got = [v \in VMs |-> @[v] \cup
                     IF v \in batch \cap ids THEN LinksOf(fetch.pend, v) ELSE {}],
          !.pend = rest]
     /\ UNCHANGED <<netbox, hooks, cache, history, edits, faults>>

\* A failing request loses everything collected.
FetchFails ==
  /\ fetch.pc \in {"page", "resolve"}
  /\ faults < MaxFaults /\ faults' = faults + 1
  /\ fetch' = IdleFetch
  /\ past' = {} /\ steady' = {} /\ shrunk' = FALSE
  /\ UNCHANGED <<netbox, hooks, cache, edits>>

\* A webhook is lost on its way.
HookLost(d) ==
  /\ faults < MaxFaults /\ faults' = faults + 1
  /\ hooks' = hooks \ {d}
  /\ UNCHANGED <<netbox, cache, fetch, history, edits>>

\* Mutant of FetchDone: mappings waiting for a name stay in the cache.
FetchDoneMerging ==
  /\ fetch.pc = "done"
  /\ cache' = [Rebuilt(fetch.got) EXCEPT !.byName = cache.byName]
  /\ fetch' = IdleFetch
  /\ past' = {} /\ steady' = {} /\ shrunk' = FALSE
  /\ UNCHANGED <<netbox, hooks, edits, faults>>

FetchDone ==
  /\ fetch.pc = "done"
  /\ cache' = Rebuilt(fetch.got)
  /\ fetch' = IdleFetch
  /\ past' = {} /\ steady' = {} /\ shrunk' = FALSE
  /\ UNCHANGED <<netbox, hooks, edits, faults>>

\* handleWebhook finds a relevant model and queues the delta; Run applies it.  Prime
\* has fetched before, if it could.
TakeWebhook(d) ==
  /\ fetch.pc = "idle"
  /\ cache.ready \/ faults > 0
  /\ hooks' = hooks \ {d}
  /\ cache' = DeltaToCache(Opened(cache), d)
  /\ UNCHANGED <<netbox, fetch, history, edits, faults>>

FetchStep ==
  \/ FetchBegin
  \/ FetchPage
  \/ \E batch \in SUBSET VMs : FetchBatch(batch)
  \/ FetchDone

Next ==
  \/ \E v \in VMs, id \in BOOLEAN : SaveVM(v, id)
  \/ \E i \in Internal : DeleteInternal(i) \/ \E v \in VMs \cup {NoVM} : SaveInternal(i, v)
  \/ \E e \in External, i \in Internal \cup {NoAddress} : SaveExternal(e, i)
  \/ \E v \in VMs : DeleteVM(v) \/ SaveInterface(v)
  \/ FetchStep
  \/ FetchFails
  \/ \E d \in hooks : HookLost(d) \/ TakeWebhook(d)

Spec == Init /\ [][Next]_vars

\* Ticks keep fetching; Run's select takes a queued delta at some time.
FairSpec == Spec /\ WF_vars(FetchStep) /\ SF_vars(\E d \in hooks : TakeWebhook(d))
-----------------------------------------------------------------------------
(* Properties *)

\* A fetch returns no mapping that NetBox did not have at some time while it ran,
\* however pages and VMID lookups interleave with edits (client.go:60-113).
FetchSound ==
  fetch.pc = "done" => \A v \in VMs : fetch.got[v] \subseteq LinksOf(past, v)

\* A mapping that NetBox had all the time is missed only if meanwhile a row left
\* the listing, which shifts the rows after it to a page already read
\* (client.go:60-94, 140-183).
FetchComplete ==
  fetch.pc = "done" /\ ~shrunk =>
    \A v \in VMs : LinksOf(steady, v) \subseteq fetch.got[v]

\* Once NetBox rests the cache becomes what it says and stays so, whatever late,
\* reordered or meaningless webhooks did to it before (reconciler.go:1082-1093).
CacheAccurate == <>[](cache.byID = TableNow /\ cache.byName = NothingWaits)
=============================================================================
