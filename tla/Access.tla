------------------------------- MODULE Access -------------------------------
(***************************************************************************)
(* Who may use what: the members of a chatroom, the rules about them, the  *)
(* status of the bot account, and the transactions that change them while  *)
(* others decide from them.                                                *)
(*                                                                         *)
(* A transaction t is one of                                               *)
(*   sync      a member list fetched from the provider is merged           *)
(*   message   an event of a member is dispatched: the member is entered   *)
(*             if need be, then the policy decides                         *)
(*   leave     an operator records that a member has left                  *)
(*   rule, revoke   an operator changes the rules                          *)
(*   evaluate  an operator asks for a decision                             *)
(*   recheck   the sender decides again before it sends; it holds the      *)
(*             authorization fence in shared mode and the account's row    *)
(*   account   a login or status call to the provider is under way         *)
(* What a transaction writes is there for the others when it commits.      *)
(* Every statement reads what is committed then (READ COMMITTED).          *)
(***************************************************************************)
EXTENDS Policy, FiniteSets

CONSTANTS
  Txns,        \* transactions under way at a time
  RuleIds,     \* bound: rules created
  RuleShapes,  \* the rules an operator may write, their epoch to be resolved
  Temporary,   \* those among them that have a valid_until
  Requests,    \* the requests an operator or a sender may ask about
  MaxEpochs    \* bound: memberships of one member, one after the other

ASSUME AccessAssumption ==
  /\ MaxEpochs \in Nat
  /\ IsFiniteSet(RuleIds)
  /\ \A shape \in RuleShapes : IsRule(shape) /\ ValidRule(shape) /\ shape.epoch = NoEpoch
  /\ \A q \in Requests : IsRequest(q)

VARIABLES
  membership,  \* membership[m][e]: "none", "active" or "left" (left_at is set)
  rules,       \* rules[r]: the AclRule, its state "none", "live" or "revoked"
  expired,     \* rules whose valid_until has passed
  version,     \* AclPolicyState.version
  account,     \* BotAccount.status
  txn,         \* txn[t]: the transaction t
  history      \* history[v]: the rules that were live at version v, see IncrementVersion

vars == <<membership, rules, expired, version, account, txn, history>>

-----------------------------------------------------------------------------
Epochs == 1..MaxEpochs
Versions == 0..(2 * Cardinality(RuleIds))

\* ENABLED stands for ONLINE, OFFLINE, QR_PENDING, SCANNED and RECONNECTING.
BotAccountStatus == {"ENABLED", "DISABLED"}

NoMembers == [m \in Members |-> [e \in Epochs |-> "none"]]
NoRequest == [actor |-> None, where |-> [s \in AclScopeType |-> None],
              resource |-> <<None, None>>, parent |-> None]
NoRule == [principal |-> Anybody, epoch |-> NoEpoch, effect |-> "DENY", locked |-> FALSE,
           scope |-> <<"WORKSPACE", None>>, resource |-> <<None, None>>]

\* seen: the members concerned; epoch: the membership named or read; view: the
\* memberships as read under the lock; valid: the rules in force at its clock; gone:
\* the epochs that had ended when it began to decide.
Idle == [op |-> "none", at |-> "idle", seen |-> {}, epoch |-> NoEpoch, view |-> NoMembers,
         status |-> "ENABLED", q |-> NoRequest, version |-> 0, valid |-> {}, gone |-> {},
         rule |-> NoRule, id |-> None, effect |-> "DENY"]

Init ==
  /\ membership = NoMembers
  /\ rules = [r \in RuleIds |-> [state |-> "none", rule |-> NoRule]]
  /\ expired = {}
  /\ version = 0
  /\ account = "ENABLED"
  /\ txn = [t \in Txns |-> Idle]
  /\ history = [v \in Versions |-> {}]

Live == {r \in RuleIds : rules[r].state = "live"}
RulesOf(ids) == {rules[r].rule : r \in ids}
Reserved == {txn[t].id : t \in {u \in Txns : txn[u].op = "rule"}}

\* The epoch of the active membership, and the next one to give.
CurrentEpoch(ms, m) ==
  IF \A e \in Epochs : ms[m][e] # "active" THEN NoEpoch
  ELSE CHOOSE e \in Epochs : /\ ms[m][e] = "active"
                             /\ \A f \in Epochs : ms[m][f] = "active" => f <= e

NextEpoch(ms, m) ==
  CHOOSE n \in 1..(MaxEpochs + 1) : /\ \A e \in Epochs : ms[m][e] # "none" => e < n
                                    /\ n = 1 \/ ms[m][n - 1] # "none"

Begin(t, record) == txn[t].at = "idle" /\ txn' = [txn EXCEPT ![t] = record]
End(t) == txn' = [txn EXCEPT ![t] = Idle]

-----------------------------------------------------------------------------
(* The memberships of the chatroom. *)

\* sync_chatroom_members: the provider's list is fetched before any lock is taken.
FetchMembers(t) ==
  /\ \E seen \in SUBSET Members :
       /\ seen # {}
       /\ Begin(t, [Idle EXCEPT !.op = "sync", !.at = "waiting", !.seen = seen])
  /\ UNCHANGED <<membership, rules, expired, version, account, history>>

\* An event of a member is to be dispatched; the account is read now and not again.
MessageFrom(t, m) ==
  /\ Begin(t, [Idle EXCEPT !.op = "message", !.at = "waiting", !.seen = {m},
                           !.status = account])
  /\ UNCHANGED <<membership, rules, expired, version, account, history>>

\* mark_membership_left for a membership the operator has on the screen
MarkLeft(t, m) ==
  /\ \E e \in Epochs :
       /\ membership[m][e] # "none"
       /\ Begin(t, [Idle EXCEPT !.op = "leave", !.at = "waiting", !.seen = {m}, !.epoch = e])
  /\ UNCHANGED <<membership, rules, expired, version, account, history>>

HoldsChatroom(t) ==
  \/ txn[t].at \in {"locked", "joined"}
  \/ txn[t].op = "message" /\ txn[t].at \in {"asked", "known", "decided"}

ChatroomFree_Unlocked(t) == TRUE

\* All three lock the chatroom's row before they read its memberships.
ChatroomFree(t) == \A u \in Txns : ~HoldsChatroom(u)

LockMemberships(t) ==
  /\ txn[t].at = "waiting" /\ txn[t].op \in {"sync", "message", "leave"}
  /\ ChatroomFree(t)
  /\ txn' = [txn EXCEPT ![t].at = "locked", ![t].view = membership]
  /\ UNCHANGED <<membership, rules, expired, version, account, history>>

Newcomers_Everybody(ms, seen) == seen

\* Members without an active membership get one of the next epoch; members that were
\* not listed stay.
Newcomers(ms, seen) == {m \in seen : CurrentEpoch(ms, m) = NoEpoch}

\* The rows a transaction inserts meet the unique key of member and epoch.
Insertable(t) ==
  \A m \in Newcomers(txn[t].view, txn[t].seen) :
    /\ NextEpoch(txn[t].view, m) \in Epochs
    /\ membership[m][NextEpoch(txn[t].view, m)] = "none"

Inserted(t) ==
  [m \in Members |->
     IF m \in Newcomers(txn[t].view, txn[t].seen)
     THEN [membership[m] EXCEPT ![NextEpoch(txn[t].view, m)] = "active"]
     ELSE membership[m]]

UpsertMemberships(t) ==
  /\ txn[t].op = "sync" /\ txn[t].at = "locked"
  /\ Insertable(t)
  /\ membership' = Inserted(t)
  /\ End(t)
  /\ UNCHANGED <<rules, expired, version, account, history>>

\* _ensure_membership, in the transaction of the dispatch
EnsureMembership(t) ==
  /\ txn[t].op = "message" /\ txn[t].at = "locked"
  /\ Insertable(t)
  /\ txn' = [txn EXCEPT ![t].at = "joined"]
  /\ UNCHANGED <<membership, rules, expired, version, account, history>>

\* The active memberships of the member are closed, if the named one is the newest of
\* them: a stale epoch is a conflict.
LeaveChatroom(t) ==
  /\ txn[t].op = "leave" /\ txn[t].at = "locked"
  /\ \E m \in txn[t].seen :
       membership' =
         IF CurrentEpoch(txn[t].view, m) = txn[t].epoch
         THEN [membership EXCEPT ![m] =
                 [e \in Epochs |-> IF txn[t].view[m][e] = "active" THEN "left"
                                   ELSE membership[m][e]]]
         ELSE membership
  /\ End(t)
  /\ UNCHANGED <<rules, expired, version, account, history>>

-----------------------------------------------------------------------------
(* Rules. *)

\* The fence is free for an administrative transaction.
FenceFree == \A t \in Txns : txn[t].op # "recheck"

\* create_rule up to the fence: the principal is looked up and, for a member, its
\* epoch, without a lock; valid_from is the clock of this moment.
ValidateRule(t, r, shape) ==
  /\ rules[r].state = "none" /\ r \notin Reserved
  /\ shape.principal \in Members =>
       CurrentEpoch(membership, shape.principal) # NoEpoch
  /\ Begin(t, [Idle EXCEPT
       !.op = "rule", !.at = "validated", !.id = r,
       !.rule = [shape EXCEPT !.epoch = IF shape.principal \in Members
                                        THEN CurrentEpoch(membership, shape.principal)
                                        ELSE NoEpoch]])
  /\ UNCHANGED <<membership, rules, expired, version, account, history>>

IncrementVersion_Not(live) ==
  /\ version' = version
  /\ history' = history

\* _increment_version.  history remembers what was live at the versions that a decision
\* under way may have begun with, and later ones.
IncrementVersion(live) ==
  /\ version' = version + 1
  /\ history' = [v \in Versions |->
       IF v = version + 1 THEN live
       ELSE IF \E t \in Txns : txn[t].at \in {"asked", "known", "decided"}
                               /\ txn[t].version <= v
            THEN history[v] ELSE {}]

CreateRule(t) ==
  /\ txn[t].op = "rule" /\ FenceFree
  /\ rules' = [rules EXCEPT ![txn[t].id] = [state |-> "live", rule |-> txn[t].rule]]
  /\ IncrementVersion(Live \cup {txn[t].id})
  /\ End(t)
  /\ UNCHANGED <<membership, expired, account>>

RevokeRule_Deleted(r) ==
  /\ rules[r].state = "live" /\ FenceFree
  /\ rules' = [rules EXCEPT ![r] = [state |-> "none", rule |-> NoRule]]
  /\ IncrementVersion(Live \ {r})
  /\ UNCHANGED <<membership, expired, account, txn>>

\* revoke_rule, whose read and whose write no step of the model can tell apart: of two
\* at once the second writes what is written and counts the version once more.
RevokeRule(r) ==
  /\ rules[r].state = "live" /\ FenceFree
  /\ rules' = [rules EXCEPT ![r].state = "revoked"]
  /\ IncrementVersion(Live \ {r})
  /\ UNCHANGED <<membership, expired, account, txn>>

\* valid_until passes: no transaction, no new version.
RuleExpires(r) ==
  /\ rules[r].state = "live" /\ r \notin expired
  /\ [rules[r].rule EXCEPT !.epoch = NoEpoch] \in Temporary
  /\ expired' = expired \cup {r}
  /\ UNCHANGED <<membership, rules, version, account, txn, history>>

-----------------------------------------------------------------------------
(* Decisions. *)

\* The rules already written, if not committed, and not yet expired
InForce == {r \in RuleIds : rules[r].state # "none" \/ r \in Reserved} \ expired
Departed == {p \in Members \X Epochs : membership[p[1]][p[2]] = "left"}

\* The actor has a Principal row.
Known(actor) == actor \in Members => \E e \in Epochs : membership[actor][e] # "none"

\* evaluate takes the clock, then the version ...
Ask(t, q, op) ==
  [txn[t] EXCEPT !.op = op, !.at = "asked", !.q = q, !.version = version,
                 !.valid = InForce, !.gone = Departed]

BeginEvaluate(t, q) ==
  /\ txn[t].at = "idle"
  /\ Known(q.actor)
  /\ txn' = [txn EXCEPT ![t] = Ask(t, q, "evaluate")]
  /\ UNCHANGED <<membership, rules, expired, version, account, history>>

\* The sender has the fence and the account's row.
BeginRecheck(t, q) ==
  /\ txn[t].at = "idle"
  /\ account # "DISABLED"
  /\ Known(q.actor)
  /\ txn' = [txn EXCEPT ![t] = [Ask(t, q, "recheck") EXCEPT !.status = account]]
  /\ UNCHANGED <<membership, rules, expired, version, account, history>>

BeginDispatch(t, q) ==
  /\ txn[t].op = "message" /\ txn[t].at = "joined"
  /\ q.actor \in txn[t].seen
  /\ txn' = [txn EXCEPT ![t] = Ask(t, q, "message")]
  /\ UNCHANGED <<membership, rules, expired, version, account, history>>

\* ... then the account and the epoch of the actor; a dispatch sees its own rows ...
StatusFor(t) == IF txn[t].op = "evaluate" THEN account ELSE txn[t].status
MembershipsFor(t) ==
  IF txn[t].op = "message" THEN Inserted(t) ELSE membership

ReadSubject(t) ==
  /\ txn[t].at = "asked"
  /\ txn' = IF StatusFor(t) = "DISABLED"
            THEN [txn EXCEPT ![t].at = "decided", ![t].effect = "DENY"]
            ELSE [txn EXCEPT ![t].at = "known",
                             ![t].epoch = IF txn[t].q.actor \in Members
                                          THEN CurrentEpoch(MembershipsFor(t), txn[t].q.actor)
                                          ELSE NoEpoch]
  /\ UNCHANGED <<membership, rules, expired, version, account, history>>

\* ... and the rules last.
ReadRules(t) ==
  /\ txn[t].at = "known"
  /\ txn' = [txn EXCEPT
       ![t].at = "decided",
       ![t].effect = Evaluate(RulesOf(Live \cap txn[t].valid), txn[t].q, txn[t].epoch)]
  /\ UNCHANGED <<membership, rules, expired, version, account, history>>

\* The decision is recorded and the transaction commits.
EndDecision(t) ==
  /\ txn[t].at = "decided"
  /\ IF txn[t].op = "message"
     THEN /\ Insertable(t)
          /\ membership' = Inserted(t)
     ELSE UNCHANGED membership
  /\ End(t)
  /\ UNCHANGED <<rules, expired, version, account, history>>

\* A transaction fails, or PostgreSQL ends it as the victim of a deadlock.
RollBack(t) ==
  /\ txn[t].at # "idle"
  /\ End(t)
  /\ UNCHANGED <<membership, rules, expired, version, account, history>>

-----------------------------------------------------------------------------
(* The account. *)

\* check_online, check_login and reconnect read the account without a lock and await
\* the provider; get_login_qr_code reads it when the provider has answered.
BeginAccountCall(t) ==
  /\ account # "DISABLED"
  /\ Begin(t, [Idle EXCEPT !.op = "account", !.at = "calling", !.status = account])
  /\ UNCHANGED <<membership, rules, expired, version, account, history>>

AccountRowFree == \A t \in Txns : txn[t].op # "recheck"

\* What the account may be once the answer is applied: none of the answers disables it,
\* and the very status that was read is not written again.
AppliedStatus == {account, "ENABLED"}

\* The answer is written, over whatever the account has become meanwhile.
EndAccountCall(t) ==
  /\ txn[t].op = "account" /\ AccountRowFree
  /\ account' \in AppliedStatus
  /\ End(t)
  /\ UNCHANGED <<membership, rules, expired, version, history>>

\* set_disabled: under the exclusive fence and the row's lock
SetDisabled(disabled) ==
  /\ FenceFree /\ AccountRowFree
  /\ account' = IF disabled THEN "DISABLED" ELSE "ENABLED"
  /\ UNCHANGED <<membership, rules, expired, version, txn, history>>

-----------------------------------------------------------------------------
Decide(t) ==
  \/ \E q \in Requests : BeginEvaluate(t, q) \/ BeginRecheck(t, q) \/ BeginDispatch(t, q)
  \/ ReadSubject(t) \/ ReadRules(t) \/ EndDecision(t)

ChangeMemberships(t) ==
  \/ FetchMembers(t)
  \/ \E m \in Members : MessageFrom(t, m) \/ MarkLeft(t, m)
  \/ LockMemberships(t) \/ UpsertMemberships(t) \/ EnsureMembership(t) \/ LeaveChatroom(t)

ChangeRules(t) ==
  \/ \E r \in RuleIds, shape \in RuleShapes : ValidateRule(t, r, shape)
  \/ CreateRule(t)

ChangeAccount ==
  \/ \E t \in Txns : BeginAccountCall(t) \/ EndAccountCall(t)
  \/ \E disabled \in BOOLEAN : SetDisabled(disabled)

Next ==
  \/ \E t \in Txns :
       ChangeMemberships(t) \/ ChangeRules(t) \/ Decide(t) \/ RollBack(t)
  \/ \E r \in RuleIds : RevokeRule(r) \/ RuleExpires(r)
  \/ ChangeAccount

Spec == Init /\ [][Next]_vars
-----------------------------------------------------------------------------
(* Properties. *)

\* The rows and the transactions are of their types, and a rule that was written
\* is never deleted.
TypeOK ==
  /\ membership \in [Members -> [Epochs -> {"none", "active", "left"}]]
  /\ \A r \in RuleIds : /\ rules[r].state \in {"none", "live", "revoked"}
                        /\ IsRule(rules[r].rule) /\ ValidRule(rules[r].rule)
  /\ expired \subseteq {r \in RuleIds : rules[r].state # "none"}
  /\ version \in Nat
  /\ account \in BotAccountStatus
  /\ \A t \in Txns : /\ txn[t].epoch \in 0..MaxEpochs
                     /\ txn[t].version \in 0..version
                     /\ txn[t].valid \subseteq RuleIds
                     /\ txn[t].effect \in AclEffect

\* A member has one active membership at most, it is the newest one, and epochs are
\* given in order, however synchronisation, arriving messages and departures meet: the
\* chatroom's row lock and the unique key of a membership stand behind each other.
OneMembership ==
  \A m \in Members : \A e, f \in Epochs :
    /\ membership[m][e] = "active" /\ f > e => membership[m][f] = "none"
    /\ membership[m][f] # "none" /\ e < f => membership[m][e] # "none"

\* The rules for a member count by the epoch it has now.  No decision is taken with
\* an epoch that had ended when it began, whatever was synchronised since, and the
\* decision of a dispatch still has its epoch when it commits.
RightsEndWithMembership ==
  \A t \in Txns : txn[t].at \in {"known", "decided"} /\ txn[t].epoch # NoEpoch =>
    /\ <<txn[t].q.actor, txn[t].epoch>> \notin txn[t].gone
    /\ txn[t].op = "message" => Inserted(t)[txn[t].q.actor][txn[t].epoch] = "active"

\* A decision that lets anything pass is what the rules of one policy version give,
\* one not older than the version recorded with it.  A sender's is of the present
\* version, and of an account that is not disabled, until it lets go of the fence.
DecisionOfItsVersion ==
  \A t \in Txns : txn[t].at = "decided" /\ txn[t].effect # "DENY" =>
    /\ \E v \in txn[t].version..version :
         txn[t].effect =
           Evaluate(RulesOf(history[v] \cap txn[t].valid), txn[t].q, txn[t].epoch)
    /\ txn[t].op = "recheck" =>
         /\ txn[t].version = version /\ account # "DISABLED"
         /\ txn[t].effect =
              Evaluate(RulesOf(Live \cap txn[t].valid), txn[t].q, txn[t].epoch)
=============================================================================
