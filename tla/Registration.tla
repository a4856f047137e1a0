---------------------------- MODULE Registration ----------------------------
(***************************************************************************)
(* Registration of a node's webhook in NetBox: EnsureWebhook in            *)
(* internal/netbox/client.go, retried by ensureWebhookRegistration in      *)
(* cmd/network-reconciler/main.go.  Two objects are looked up by name and  *)
(* created or patched: the webhook, and the event rule that points to it.  *)
(*                                                                         *)
(* A request can fail without an answer.  It is then late: NetBox executes *)
(* it at any time afterwards, while the next attempt or even the next      *)
(* process is at work, or never.  NetBox is external; a name is unique, so *)
(* that creating what exists is rejected.  url stands for all compared     *)
(* fields of a webhook but the secret.                                     *)
(***************************************************************************)
EXTENDS Naturals

CONSTANTS
  Urls, Secrets,
  NoSecret,      \* the server runs without HMAC verification
  Absent,        \* no such object
  MaxTroubles,   \* bound: requests without an answer
  MaxEdits,      \* bound: what an operator changes in NetBox
  MaxStarts      \* bound: restarts, with another configuration

Config == [url: Urls, secret: Secrets \cup {NoSecret}]

ASSUME RegistrationAssumption ==
  /\ NoSecret \notin Secrets
  /\ Absent \notin [id: Nat, url: Urls, secret: Secrets \cup {NoSecret}]
  /\ Absent \notin [target: Nat, enabled: BOOLEAN, complete: BOOLEAN]
  /\ MaxTroubles \in Nat /\ MaxEdits \in Nat /\ MaxStarts \in Nat

Hook == [id: Nat, url: Urls, secret: Secrets \cup {NoSecret}]
\* complete: it covers all managed object and event types
Rule == [target: Nat, enabled: BOOLEAN, complete: BOOLEAN]

\* id: the webhook to patch, or the one the rule is to point to
Request ==
  [op: {"createHook", "patchHook", "createRule", "patchRule"}, conf: Config, id: Nat]

VARIABLES
  hook, rule,   \* NetBox's objects of this node's name
  nextId,
  want,         \* the configuration of the process
  at,           \* the request ensureWebhookRegistration is about to make
  seenId,       \* webhookID
  late,         \* requests whose attempt has given up
  disturbed,    \* history: somebody else interfered since the attempt began
  troubles, edits, starts

netbox == <<hook, rule, nextId>>
process == <<want, at, seenId, late>>
bounds == <<troubles, edits, starts>>
vars == <<netbox, process, disturbed, bounds>>

Steps == {"listHooks", "createHook", "patchHook", "listRules", "createRule", "patchRule",
          "backoff", "confirmed"}

TypeOK ==
  /\ hook \in Hook \cup {Absent}
  /\ rule \in Rule \cup {Absent}
  /\ nextId \in Nat /\ seenId \in Nat
  /\ want \in Config
  /\ at \in Steps
  /\ late \in SUBSET Request
  /\ disturbed \in BOOLEAN
  /\ troubles \in Nat /\ edits \in Nat /\ starts \in Nat

Init ==
  /\ hook = Absent /\ rule = Absent /\ nextId = 1
  /\ want \in Config
  /\ at = "listHooks" /\ seenId = 0
  /\ late = {} /\ disturbed = FALSE
  /\ troubles = 0 /\ edits = 0 /\ starts = 0

-----------------------------------------------------------------------------
(* NetBox *)

\* A PATCH without a secret leaves the secret alone (omitempty).
Patched(h, conf) ==
  [h EXCEPT !.url = conf.url, !.secret = IF conf.secret = NoSecret THEN @ ELSE conf.secret]

Wired(id) == [target |-> id, enabled |-> TRUE, complete |-> TRUE]

Accepted(r) ==
  CASE r.op = "createHook" -> hook = Absent
    [] r.op = "patchHook"  -> hook # Absent /\ hook.id = r.id
    [] r.op = "createRule" -> rule = Absent
    [] r.op = "patchRule"  -> rule # Absent

\* The effect of a request that is accepted
Execute(r) ==
  /\ hook' = CASE r.op = "createHook" -> [id |-> nextId, url |-> r.conf.url, secret |-> r.conf.secret]
               [] r.op = "patchHook" -> Patched(hook, r.conf)
               [] OTHER -> hook
  /\ rule' = IF r.op \in {"createRule", "patchRule"} THEN Wired(r.id) ELSE rule
  /\ nextId' = IF r.op = "createHook" THEN nextId + 1 ELSE nextId

-----------------------------------------------------------------------------
(* The process *)

ToSend == [op |-> at, conf |-> want, id |-> seenId]

\* webhookNeedsUpdate
NeedsUpdate(h) ==
  h.url # want.url \/ (want.secret # NoSecret /\ h.secret # want.secret)

\* Mutant of ListHooks: a webhook that is not found has no id.
ListHooksAbsent ==
  /\ at = "listHooks"
  /\ seenId' = IF hook = Absent THEN Absent ELSE hook.id
  /\ at' = IF hook = Absent THEN "createHook"
           ELSE IF NeedsUpdate(hook) THEN "patchHook" ELSE "listRules"
  /\ UNCHANGED <<netbox, want, late, disturbed, bounds>>

\* ensureWebhookEndpoint: look the webhook up by name, ...
ListHooks ==
  /\ at = "listHooks"
  /\ seenId' = IF hook = Absent THEN seenId ELSE hook.id
  /\ at' = IF hook = Absent THEN "createHook"
           ELSE IF NeedsUpdate(hook) THEN "patchHook" ELSE "listRules"
  /\ UNCHANGED <<netbox, want, late, disturbed, bounds>>

\* ... and create or patch it.
WriteHook ==
  /\ at \in {"createHook", "patchHook"}
  /\ Accepted(ToSend)
  /\ Execute(ToSend)
  /\ seenId' = IF at = "createHook" THEN nextId ELSE seenId
  /\ at' = "listRules"
  /\ UNCHANGED <<want, late, disturbed, bounds>>

\* Mutant of ListRules: an enabled and complete rule needs no update.
ListRulesAnyTarget ==
  /\ at = "listRules"
  /\ at' = IF rule = Absent THEN "createRule"
           ELSE IF rule = Wired(rule.target) THEN "confirmed" ELSE "patchRule"
  /\ UNCHANGED <<netbox, want, seenId, late, disturbed, bounds>>

\* ensureEventRule, eventRuleNeedsUpdate
ListRules ==
  /\ at = "listRules"
  /\ at' = IF rule = Absent THEN "createRule"
           ELSE IF rule = Wired(seenId) THEN "confirmed" ELSE "patchRule"
  /\ UNCHANGED <<netbox, want, seenId, late, disturbed, bounds>>

WriteRule ==
  /\ at \in {"createRule", "patchRule"}
  /\ Accepted(ToSend)
  /\ Execute(ToSend)
  /\ at' = "confirmed"
  /\ UNCHANGED <<want, seenId, late, disturbed, bounds>>

\* NetBox refuses: it has the object by now, or has it no more.
Rejected ==
  /\ at \in {"createHook", "patchHook", "createRule", "patchRule"}
  /\ ~Accepted(ToSend)
  /\ at' = "backoff"
  /\ UNCHANGED <<netbox, want, seenId, late, disturbed, bounds>>

\* No answer within the attempt's deadline.
Unanswered ==
  /\ at \notin {"backoff", "confirmed"}
  /\ troubles < MaxTroubles /\ troubles' = troubles + 1
  /\ late' = IF at \in {"listHooks", "listRules"} THEN late ELSE late \cup {ToSend}
  /\ at' = "backoff"
  /\ UNCHANGED <<netbox, want, seenId, disturbed, edits, starts>>

\* Mutant of Retry: a failed attempt is the last.
RetryNever == FALSE /\ UNCHANGED vars

\* The delay is over: the next attempt.
Retry ==
  /\ at = "backoff"
  /\ at' = "listHooks" /\ disturbed' = FALSE
  /\ UNCHANGED <<netbox, want, seenId, late, bounds>>

Process ==
  \/ ListHooks
  \/ WriteHook
  \/ ListRules
  \/ WriteRule
  \/ Rejected
  \/ Retry

-----------------------------------------------------------------------------
(* The rest of the world *)

\* NetBox gets to a late request.  One of an earlier configuration, or one that
\* points the rule to a webhook that is gone, interferes.
ExecuteLate(r) ==
  /\ late' = late \ {r}
  /\ IF Accepted(r) THEN Execute(r) ELSE UNCHANGED netbox
  /\ disturbed' = (disturbed \/ r.conf # want
                     \/ (r.op = "patchRule" /\ (hook = Absent \/ hook.id # r.id)))
  /\ UNCHANGED <<want, at, seenId, bounds>>

\* The process starts again, perhaps with other settings.
Restart(conf) ==
  /\ starts < MaxStarts /\ starts' = starts + 1
  /\ want' = conf
  /\ at' = "listHooks" /\ seenId' = 0 /\ disturbed' = FALSE
  /\ UNCHANGED <<netbox, late, troubles, edits>>

\* Deleting a webhook may take its event rules along.
Edited(h, r) ==
  \/ h = Absent /\ r \in {rule, Absent}
  \/ hook # Absent /\ h \in [id: {hook.id}, url: Urls, secret: {hook.secret}] /\ r = rule
  \/ h = hook /\ r = Absent
  \/ rule # Absent /\ h = hook
       /\ r \in [target: {rule.target}, enabled: BOOLEAN, complete: BOOLEAN]

Edit(h, r) ==
  /\ edits < MaxEdits /\ edits' = edits + 1
  /\ Edited(h, r)
  /\ hook' = h /\ rule' = r /\ disturbed' = TRUE
  /\ UNCHANGED <<nextId, process, troubles, starts>>

\* All objects there can be before nextId
Hooks == [id: 1..nextId - 1, url: Urls, secret: Secrets \cup {NoSecret}] \cup {Absent}
RulesOf == [target: 1..nextId - 1, enabled: BOOLEAN, complete: BOOLEAN] \cup {Absent}

Next ==
  \/ Process
  \/ Unanswered
  \/ \E r \in late : ExecuteLate(r)
  \/ \E conf \in Config : Restart(conf)
  \/ \E h \in Hooks, r \in RulesOf : Edit(h, r)

Spec == Init /\ [][Next]_vars

\* The goroutine goes on until it succeeds or the process is told to stop.
FairSpec == Spec /\ WF_vars(Process)
-----------------------------------------------------------------------------
(* Properties *)

\* The webhook leads to this process.
HookRight ==
  /\ hook # Absent
  /\ hook.url = want.url
  /\ want.secret # NoSecret => hook.secret = want.secret

\* A confirmed registration works (client.go:323-343): although a create may have
\* succeeded without an answer, objects were left from another configuration, or
\* the webhook has been recreated under a new id, the rule is enabled, complete
\* and points to the webhook that leads here, unless somebody else interfered
\* during the very attempt.
ConfirmedWired ==
  at = "confirmed" /\ ~disturbed => HookRight /\ rule = Wired(hook.id)

\* No failure is permanent (main.go:142-144): in the end registration is confirmed.
EventuallyConfirmed == <>[](at = "confirmed")
=============================================================================
