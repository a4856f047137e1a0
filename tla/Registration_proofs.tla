------------------------ MODULE Registration_proofs ------------------------
(***************************************************************************)
(* Proofs about the registration of a webhook, for any URLs and secrets    *)
(* and any number of lost answers, edits and restarts: its type invariant, *)
(* and that a confirmed registration works.                                *)
(*                                                                         *)
(* ConfirmedWired only speaks of the end of an attempt.  The invariant     *)
(* says what an attempt that nobody disturbed has established on the way:  *)
(* once the webhook has been dealt with it is right and the id remembered  *)
(* is its id, whatever late request of an earlier attempt is executed.     *)
(***************************************************************************)
EXTENDS Registration, TLAPS

USE RegistrationAssumption DEF RegistrationAssumption

HookDone == at \in {"listRules", "createRule", "patchRule", "confirmed"}

HookKept == HookDone /\ ~disturbed => HookRight /\ hook.id = seenId
RuleKept == at = "confirmed" /\ ~disturbed => rule = Wired(seenId)

IInv == TypeOK /\ HookKept /\ RuleKept

LEMMA InitIInv == Init => IInv
<1> SUFFICES ASSUME Init PROVE IInv
  OBVIOUS
<1>1. TypeOK
  BY DEF Init, TypeOK, Steps
<1>2. HookKept /\ RuleKept
  BY DEF Init, HookKept, RuleKept, HookDone
<1>3. QED BY <1>1, <1>2 DEF IInv

LEMMA WiredTyped == \A id \in Nat : Wired(id) \in Rule
  BY DEF Wired, Rule

\* A webhook patched with a configuration keeps its id and has that configuration.
LEMMA PatchedRight ==
  ASSUME NEW h \in Hook, NEW conf \in Config
  PROVE  /\ Patched(h, conf) \in Hook /\ Patched(h, conf) # Absent
         /\ Patched(h, conf).id = h.id /\ Patched(h, conf).url = conf.url
         /\ conf.secret # NoSecret => Patched(h, conf).secret = conf.secret
<1>1. Patched(h, conf) \in Hook
  BY DEF Patched, Hook, Config
<1>2. \A k \in Hook : k # Absent
  BY DEF Hook
<1>3. QED BY <1>1, <1>2 DEF Patched, Hook, Config

\* What an accepted request makes of NetBox's objects.
LEMMA Executed ==
  ASSUME TypeOK, NEW r \in Request, Accepted(r), Execute(r)
  PROVE  /\ hook' \in Hook \cup {Absent} /\ rule' \in Rule \cup {Absent} /\ nextId' \in Nat
         /\ r.op = "createHook" =>
              /\ hook = Absent /\ rule' = rule
              /\ hook' = [id |-> nextId, url |-> r.conf.url, secret |-> r.conf.secret]
         /\ r.op = "patchHook" =>
              hook # Absent /\ hook.id = r.id /\ hook' = Patched(hook, r.conf) /\ rule' = rule
         /\ r.op = "createRule" => rule = Absent /\ hook' = hook /\ rule' = Wired(r.id)
         /\ r.op = "patchRule" => hook' = hook /\ rule' = Wired(r.id)
<1>1. /\ r.op \in {"createHook", "patchHook", "createRule", "patchRule"}
      /\ r.conf \in Config /\ r.id \in Nat
  BY DEF Request
<1>2. nextId' \in Nat
  BY DEF Execute, TypeOK
<1>3. CASE r.op = "createHook"
  <2>1. hook = Absent /\ rule' = rule
        /\ hook' = [id |-> nextId, url |-> r.conf.url, secret |-> r.conf.secret]
    BY <1>3 DEF Accepted, Execute
  <2>2. hook' \in Hook
    BY <2>1, <1>1 DEF Hook, Config, TypeOK
  <2>3. QED BY <1>2, <1>3, <2>1, <2>2 DEF TypeOK
<1>4. CASE r.op = "patchHook"
  <2>1. hook # Absent /\ hook.id = r.id /\ hook' = Patched(hook, r.conf) /\ rule' = rule
    BY <1>4 DEF Accepted, Execute
  <2>2. hook' \in Hook
    BY <2>1, <1>1, PatchedRight DEF TypeOK
  <2>3. QED BY <1>2, <1>4, <2>1, <2>2 DEF TypeOK
<1>5. CASE r.op = "createRule"
  <2>1. rule = Absent /\ hook' = hook /\ rule' = Wired(r.id)
    BY <1>5 DEF Accepted, Execute
  <2>2. QED BY <1>1, <1>2, <1>5, <2>1, WiredTyped DEF TypeOK
<1>6. CASE r.op = "patchRule"
  <2>1. hook' = hook /\ rule' = Wired(r.id)
    BY <1>6 DEF Execute
  <2>2. QED BY <1>1, <1>2, <1>6, <2>1, WiredTyped DEF TypeOK
<1>7. QED BY <1>1, <1>3, <1>4, <1>5, <1>6

LEMMA ToSendTyped ==
  ASSUME TypeOK, at \in {"createHook", "patchHook", "createRule", "patchRule"}
  PROVE  ToSend \in Request
  BY DEF ToSend, Request, TypeOK

-----------------------------------------------------------------------------

LEMMA ListHooksStep ==
  ASSUME IInv, ListHooks
  PROVE  IInv'
<1>1. TypeOK'
  BY DEF IInv, TypeOK, ListHooks, Steps, netbox, bounds, Hook
<1>2. HookKept' /\ RuleKept'
  BY DEF ListHooks, HookKept, RuleKept, HookDone, HookRight, NeedsUpdate, netbox
<1>3. QED BY <1>1, <1>2 DEF IInv

LEMMA WriteHookStep ==
  ASSUME IInv, WriteHook
  PROVE  IInv'
<1>1. /\ at \in {"createHook", "patchHook"} /\ ToSend \in Request
      /\ Accepted(ToSend) /\ Execute(ToSend)
      /\ ToSend.op = at /\ ToSend.conf = want /\ ToSend.id = seenId
      /\ seenId' = IF at = "createHook" THEN nextId ELSE seenId
      /\ at' = "listRules" /\ UNCHANGED <<want, late, disturbed, bounds>>
  BY ToSendTyped DEF WriteHook, IInv, ToSend
<1>2. TypeOK'
  BY <1>1, Executed DEF IInv, TypeOK, Steps, bounds
<1>3. HookRight' /\ hook'.id = seenId'
  <2>1. want \in Config /\ nextId \in Nat /\ hook \in Hook \cup {Absent}
    BY DEF IInv, TypeOK
  <2>2. CASE at = "createHook"
    <3>1. hook' = [id |-> nextId, url |-> want.url, secret |-> want.secret] /\ seenId' = nextId
      BY <1>1, <2>2, Executed DEF IInv
    <3>2. hook' # Absent
      BY <3>1, <2>1 DEF Config
    <3>3. QED BY <3>1, <3>2, <1>1 DEF HookRight
  <2>3. CASE at = "patchHook"
    <3>1. hook # Absent /\ hook.id = seenId /\ hook' = Patched(hook, want) /\ seenId' = seenId
      BY <1>1, <2>3, Executed DEF IInv
    <3>2. QED BY <3>1, <2>1, <1>1, PatchedRight DEF HookRight
  <2>4. QED BY <1>1, <2>2, <2>3
<1>4. QED BY <1>1, <1>2, <1>3 DEF IInv, HookKept, RuleKept

LEMMA ListRulesStep ==
  ASSUME IInv, ListRules
  PROVE  IInv'
<1>1. TypeOK'
  BY DEF IInv, TypeOK, ListRules, Steps, netbox, bounds
<1>2. HookKept' /\ RuleKept'
  BY DEF IInv, ListRules, HookKept, RuleKept, HookDone, HookRight, netbox
<1>3. QED BY <1>1, <1>2 DEF IInv

LEMMA WriteRuleStep ==
  ASSUME IInv, WriteRule
  PROVE  IInv'
<1>1. /\ at \in {"createRule", "patchRule"} /\ ToSend \in Request
      /\ Accepted(ToSend) /\ Execute(ToSend) /\ ToSend.op = at /\ ToSend.id = seenId
      /\ at' = "confirmed" /\ UNCHANGED <<want, seenId, late, disturbed, bounds>>
  BY ToSendTyped DEF WriteRule, IInv, ToSend
<1>2. TypeOK'
  BY <1>1, Executed DEF IInv, TypeOK, Steps, bounds
<1>3. hook' = hook /\ rule' = Wired(seenId)
  BY <1>1, Executed DEF IInv
<1>4. HookKept' /\ RuleKept'
  BY <1>1, <1>3 DEF IInv, HookKept, RuleKept, HookDone, HookRight, Wired
<1>5. QED BY <1>2, <1>4 DEF IInv

\* A step that only gives up, or begins anew.
LEMMA AwayStep ==
  ASSUME IInv, Rejected \/ Unanswered \/ Retry \/ \E conf \in Config : Restart(conf)
  PROVE  IInv'
<1>1. at' \in {"backoff", "listHooks"}
  BY DEF Rejected, Unanswered, Retry, Restart
<1>2. late' \in SUBSET Request
  BY ToSendTyped DEF IInv, TypeOK, Rejected, Unanswered, Retry, Restart, Steps
<1>3. TypeOK'
  <2>1. TypeOK /\ at' \in Steps
    BY <1>1 DEF IInv, Steps
  <2>2. CASE Rejected \/ Retry
    BY <1>2, <2>1, <2>2 DEF TypeOK, Rejected, Retry, netbox, bounds
  <2>3. CASE Unanswered
    BY <1>2, <2>1, <2>3 DEF TypeOK, Unanswered, netbox
  <2>4. CASE \E conf \in Config : Restart(conf)
    <3>1. PICK conf \in Config : Restart(conf)
      BY <2>4
    <3>2. want' \in Config /\ seenId' = 0 /\ disturbed' = FALSE /\ starts' = starts + 1
          /\ UNCHANGED <<hook, rule, nextId, troubles, edits>>
      BY <3>1 DEF Restart, netbox
    <3>3. starts' \in Nat /\ seenId' \in Nat /\ disturbed' \in BOOLEAN
      <4>1. starts \in Nat /\ starts' = starts + 1 /\ seenId' = 0
        BY <2>1, <3>2 DEF TypeOK
      <4>2. disturbed' \in BOOLEAN
        BY <3>2, Zenon
      <4>3. QED BY <4>1, <4>2
    <3>4. hook' \in Hook \cup {Absent} /\ rule' \in Rule \cup {Absent}
          /\ nextId' \in Nat /\ troubles' \in Nat /\ edits' \in Nat
      BY <2>1, <3>2 DEF TypeOK
    <3>5. QED BY <1>2, <2>1, <3>2, <3>3, <3>4 DEF TypeOK
  <2>5. QED BY <2>2, <2>3, <2>4
<1>4. QED BY <1>1, <1>3 DEF IInv, HookKept, RuleKept, HookDone

\* A late request of this configuration changes nothing that is established.
LEMMA ExecuteLateStep ==
  ASSUME IInv, NEW r \in late, ExecuteLate(r)
  PROVE  IInv'
<1>1. /\ r \in Request /\ late' = late \ {r}
      /\ UNCHANGED <<want, at, seenId, bounds>>
      /\ \/ Accepted(r) /\ Execute(r)
         \/ UNCHANGED netbox
      /\ disturbed' = (disturbed \/ r.conf # want
                         \/ (r.op = "patchRule" /\ (hook = Absent \/ hook.id # r.id)))
  BY DEF IInv, TypeOK, ExecuteLate
<1>2. TypeOK'
  BY <1>1, Executed DEF IInv, TypeOK, Steps, netbox, bounds
<1>3. CASE UNCHANGED netbox
  BY <1>1, <1>2, <1>3 DEF IInv, HookKept, RuleKept, HookDone, HookRight, Wired, netbox
<1>4. CASE Accepted(r) /\ Execute(r)
  <2>1. SUFFICES ASSUME HookDone, ~disturbed'
                 PROVE  /\ HookRight' /\ hook'.id = seenId
                        /\ at = "confirmed" => rule' = Wired(seenId)
    BY <1>1, <1>2 DEF IInv, HookKept, RuleKept, HookDone, Wired
  <2>2. /\ HookRight /\ hook.id = seenId /\ r.conf = want
        /\ r.op = "patchRule" => hook.id = r.id
        /\ at = "confirmed" => rule = Wired(seenId)
    BY <2>1, <1>1 DEF IInv, HookKept, RuleKept
  <2>3. r.op \in {"patchHook", "createRule", "patchRule"}
    BY <2>2, <1>1, <1>4, Executed DEF IInv, HookRight, Request
  <2>4. CASE r.op = "patchHook"
    <3>1. hook' = Patched(hook, want) /\ rule' = rule /\ hook \in Hook /\ want \in Config
      BY <2>2, <2>4, <1>1, <1>4, Executed DEF IInv, TypeOK
    <3>2. QED BY <3>1, <2>2, <1>1, PatchedRight DEF HookRight
  <2>5. CASE r.op = "createRule"
    <3>1. rule = Absent /\ hook' = hook
      BY <2>5, <1>1, <1>4, Executed DEF IInv
    <3>2. Wired(seenId) # Absent
      <4>1. Wired(seenId) \in Rule
        BY WiredTyped DEF IInv, TypeOK
      <4>2. QED BY <4>1 DEF Rule
    <3>3. QED BY <3>1, <3>2, <2>2, <1>1 DEF HookRight
  <2>6. CASE r.op = "patchRule"
    <3>1. hook' = hook /\ rule' = Wired(r.id)
      BY <2>6, <1>1, <1>4, Executed DEF IInv
    <3>2. QED BY <3>1, <2>2, <2>6, <1>1 DEF HookRight
  <2>7. QED BY <2>3, <2>4, <2>5, <2>6
<1>5. QED BY <1>1, <1>3, <1>4

LEMMA EditStep ==
  ASSUME IInv, NEW h \in Hooks, NEW r \in RulesOf, Edit(h, r)
  PROVE  IInv'
<1>1. h \in Hook \cup {Absent} /\ r \in Rule \cup {Absent}
  <2>1. \A id \in 1..nextId - 1 : id \in Nat
    BY DEF IInv, TypeOK
  <2>2. QED BY <2>1 DEF Hooks, RulesOf, Hook, Rule
<1>2. TypeOK' /\ disturbed'
  BY <1>1 DEF IInv, TypeOK, Edit, process
<1>3. QED BY <1>2 DEF IInv, HookKept, RuleKept

LEMMA NextIInv == IInv /\ [Next]_vars => IInv'
<1> SUFFICES ASSUME IInv, [Next]_vars PROVE IInv'
  OBVIOUS
<1>1. CASE UNCHANGED vars
  BY <1>1 DEF vars, netbox, process, bounds, IInv, TypeOK, HookKept, RuleKept, HookDone,
              HookRight, Wired
<1>2. CASE Process
  BY <1>2, ListHooksStep, WriteHookStep, ListRulesStep, WriteRuleStep, AwayStep DEF Process
<1>3. CASE Unanswered \/ \E conf \in Config : Restart(conf)
  BY <1>3, AwayStep
<1>4. CASE \E r \in late : ExecuteLate(r)
  BY <1>4, ExecuteLateStep
<1>5. CASE \E h \in Hooks, r \in RulesOf : Edit(h, r)
  BY <1>5, EditStep
<1>6. QED BY <1>1, <1>2, <1>3, <1>4, <1>5 DEF Next

LEMMA SpecIInv == Spec => []IInv
  BY InitIInv, NextIInv, PTL DEF Spec

\* NetBox's objects, the requests and the progress of an attempt have their types.
THEOREM TypeCorrect == Spec => []TypeOK
<1>1. IInv => TypeOK
  BY DEF IInv
<1>2. QED BY <1>1, SpecIInv, PTL

\* Whatever answers were lost and whatever other configurations left behind, a
\* confirmed registration works, unless somebody interfered during the very
\* attempt (client.go:343-360).
THEOREM RegistrationWorks == Spec => []ConfirmedWired
<1>1. IInv => ConfirmedWired
  BY DEF IInv, HookKept, RuleKept, HookDone, ConfirmedWired
<1>2. QED BY <1>1, SpecIInv, PTL
=============================================================================
