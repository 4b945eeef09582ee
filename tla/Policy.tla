------------------------------- MODULE Policy -------------------------------
(***************************************************************************)
(* How PolicyService.evaluate turns access rules into a decision.          *)
(*                                                                         *)
(* A rule names whom it is about (anybody, or one principal), where it     *)
(* holds (a scope) and what for (a resource).  Of the rules that apply to  *)
(* a request, one locked rule decides alone; otherwise the most specific   *)
(* ones do, the resource counting before the scope, and among these the    *)
(* strictest effect wins.  A rule for a member of a chatroom is bound to   *)
(* the epoch of the membership it was written for.                         *)
(*                                                                         *)
(* Identifiers of different kinds are different model values, so a scope   *)
(* or a resource is a pair <<type, identifier>>.                           *)
(***************************************************************************)
EXTENDS Naturals

CONSTANTS
  Members,    \* wxids of chatroom members, principals of type GROUP_MEMBER
  Contacts    \* principals of any other type

Anybody == "anybody"    \* a rule without principal_id
NoEpoch == 0
None == "none"

AclEffect == {"ALLOW", "ASK", "DENY"}
AclScopeType == {"WORKSPACE", "BOT_ACCOUNT", "CHATROOM", "CONTACT"}

\* AclEvaluationRequest: who asks, the identifiers of where, the resource, and the
\* plugin a command belongs to.
IsRequest(q) ==
  /\ DOMAIN q = {"actor", "where", "resource", "parent"}
  /\ q.actor \in Members \cup Contacts \cup {None}
  /\ DOMAIN q.where = AclScopeType

IsRule(rule) ==
  /\ rule = [principal |-> rule.principal, epoch |-> rule.epoch, effect |-> rule.effect,
             locked |-> rule.locked, scope |-> rule.scope, resource |-> rule.resource]
  /\ rule.principal \in Members \cup Contacts \cup {Anybody}
  /\ rule.epoch \in Nat
  /\ rule.effect \in AclEffect
  /\ rule.locked \in BOOLEAN
  /\ rule.scope[1] \in AclScopeType

\* AclRuleCreate.validate_rule: only a DENY can be locked.
ValidRule(rule) == rule.locked => rule.effect = "DENY"

-----------------------------------------------------------------------------
ResourceScore(rule, q) ==
  IF rule.resource = q.resource THEN 30
  ELSE IF q.parent # None /\ rule.resource = <<"PLUGIN", q.parent>> THEN 20
  ELSE IF rule.resource = <<"CATEGORY", "*">> THEN 10
  ELSE 0

ScopeWeight ==
  [type \in AclScopeType |->
     CASE type = "WORKSPACE" -> 10 [] type = "BOT_ACCOUNT" -> 20
       [] type = "CHATROOM" -> 30 [] type = "CONTACT" -> 40]

ScopeScore(rule, q) ==
  IF q.where[rule.scope[1]] # None /\ q.where[rule.scope[1]] = rule.scope[2]
  THEN ScopeWeight[rule.scope[1]] ELSE 0

\* A rule for a principal counts as the most specific scope.
SubjectScore(rule, q) ==
  IF rule.principal # Anybody THEN 40 ELSE ScopeScore(rule, q)

\* The rule is about anybody, or about the actor, as the member it is now.
Applies(rule, q, epoch) ==
  \/ rule.principal = Anybody
  \/ /\ rule.principal = q.actor
     /\ q.actor \in Members => epoch # NoEpoch /\ rule.epoch = epoch

Candidates(rules, q, epoch) ==
  {rule \in rules : /\ Applies(rule, q, epoch)
                    /\ ResourceScore(rule, q) > 0
                    /\ ScopeScore(rule, q) > 0}

\* The pairs of scores compare as tuples do.
Outranks(a, b, q) ==
  \/ ResourceScore(a, q) > ResourceScore(b, q)
  \/ /\ ResourceScore(a, q) = ResourceScore(b, q)
     /\ SubjectScore(a, q) > SubjectScore(b, q)

Best(candidates, q) ==
  {a \in candidates : \A b \in candidates : ~Outranks(b, a, q)}

Strictest(effects) ==
  IF "DENY" \in effects THEN "DENY"
  ELSE IF "ASK" \in effects THEN "ASK" ELSE "ALLOW"

Evaluate(rules, q, epoch) ==
  LET candidates == Candidates(rules, q, epoch)
  IN  IF candidates = {} \/ \E rule \in candidates : rule.locked THEN "DENY"
      ELSE Strictest({rule.effect : rule \in Best(candidates, q)})
=============================================================================
