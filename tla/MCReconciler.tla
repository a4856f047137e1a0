---------------------------- MODULE MCReconciler ----------------------------
(***************************************************************************)
(* Instances of Reconciler: two VMs, two public addresses.                 *)
(***************************************************************************)
EXTENDS Reconciler

CONSTANTS v1, v2, n1, n2, e1, e2, f1, i1, i2

NoBackups == {EmptyTable}

\* v1 always has e1; e2 belongs to v2, or to v1 as well.
Both == [v \in VMs |-> IF v = v1 THEN {<<e1, i1>>} ELSE {<<e2, i2>>}]
Moved == [v \in VMs |-> IF v = v1 THEN {<<e1, i1>>, <<e2, i1>>} ELSE {}]
TwoTables == {Both, Moved}
MovedTable == {Moved}

TwoNames == [v \in VMs |-> IF v = v1 THEN n1 ELSE n2]

Webhook(model, deleted, id, name, internal, exts) ==
  [model |-> model, deleted |-> deleted, id |-> id, name |-> name,
   internal |-> internal, exts |-> exts]

\* The webhooks NetBox sends around a move of e2 between the VMs: by name only,
\* since its stock payload has no VMID, or with the VMID of a custom one.  The last
\* is a late one, of a time when v1 had the name that v2 has now.
MoveWebhooks ==
  {Webhook("ipaddress", FALSE, NoVM, n2, i2, {e2}),
   Webhook("ipaddress", FALSE, v1, n1, i1, {e1, e2}),
   Webhook("ipaddress", TRUE, NoVM, n2, i2, {e2}),
   Webhook("ipaddress", FALSE, NoVM, NoName, NoAddress, {}),
   Webhook("virtualmachine", FALSE, v2, n2, NoAddress, {}),
   Webhook("virtualmachine", TRUE, v2, n2, NoAddress, {}),
   Webhook("vminterface", FALSE, v1, n2, NoAddress, {})}

\* A webhook about the second VM alone.
SecondUpdated == {Webhook("ipaddress", FALSE, v2, n2, i2, {e2})}
=============================================================================
