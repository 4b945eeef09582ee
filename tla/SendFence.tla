------------------------------ MODULE SendFence -----------------------------
(***************************************************************************)
(* The authorization fence between the senders of a workspace and the      *)
(* administrative transactions that change what may be sent.  A sender     *)
(* holds the fence row FOR SHARE, in a transaction of its own that does    *)
(* nothing else, from before _prepare_send until its answer is recorded;   *)
(* an administrative transaction takes it FOR UPDATE.  The transaction of  *)
(* _prepare_send locks rows as well, while the fence is held.              *)
(*                                                                         *)
(* Every lock taken is an action.  Locks last until their transaction      *)
(* ends and no timeout is set, so a lock that is not free is waited for.   *)
(***************************************************************************)
EXTENDS Naturals, Sequences, FiniteSets

CONSTANTS
  Senders,   \* pipelines, each with one claimed message of the plugin
  Admins,    \* administrative transactions
  Op         \* what each of them does

ASSUME FenceAssumption ==
  /\ Senders \cap Admins = {}
  /\ Op \in [Admins -> {"activate", "deactivate", "deny", "disable"}]

VARIABLES
  revision,  \* active revision of the deployment, "none" when not RUNNING
  allowed,   \* the ACL rules in force allow the send
  enabled,   \* account and connection are not DISABLED
  step,      \* where each sender is
  got,       \* how many of its locks each administrative transaction has
  stage,     \* "open", or "done" after commit or rollback
  owner      \* who holds each lock

grantVars == <<revision, allowed, enabled>>
vars == <<revision, allowed, enabled, step, got, stage, owner>>

-----------------------------------------------------------------------------
(* Locks: the fence row, the account and connection rows of the sender (one *)
(* connection for all), the row of the plugin's deployment.                 *)

Locks == {"fence", "rows", "deployment"}

\* Mutant: activation locks the deployment first.
Plan_DeploymentFirst ==
  [activate   |-> <<"deployment", "fence">>,
   deactivate |-> <<"deployment", "fence">>,
   deny       |-> <<"fence">>,
   disable    |-> <<"fence", "rows">>]

\* The locks of each administrative transaction, in the order it takes them.
\* (activate_revision also locks the workspace row, after the fence.  Others need
\* that row for the foreign keys of what they insert; no sender waits with it
\* held exclusively, so a cycle through it lies within the database, which ends
\* it.)  "deny" is create_rule or revoke_rule, "disable" set_disabled or
\* change_status.
Plan ==
  [activate   |-> <<"fence", "deployment">>,
   deactivate |-> <<"deployment", "fence">>,
   deny       |-> <<"fence">>,
   disable    |-> <<"fence", "rows">>]

Free(lock) == owner[lock] = {}
Shareable == owner["fence"] \cap Admins = {}

Release(x, locks) ==
  owner' = [k \in Locks |-> IF k \in locks THEN owner[k] \ {x} ELSE owner[k]]
Take(x, lock) == owner' = [owner EXCEPT ![lock] = @ \cup {x}]

-----------------------------------------------------------------------------
\* Every message was enqueued by revision "r1", with the grants it needs.
Init ==
  /\ revision = "r1"
  /\ allowed = TRUE
  /\ enabled = TRUE
  /\ step = [s \in Senders |-> "claimed"]
  /\ got = [t \in Admins |-> 0]
  /\ stage = [t \in Admins |-> "open"]
  /\ owner = [k \in Locks |-> {}]

-----------------------------------------------------------------------------
(* SenderWorker._process_account after the claim *)

Pass(s, next) == step' = [step EXCEPT ![s] = next]

\* The message is CANCELLED: both transactions of the sender end.
Refuse(s) == Pass(s, "done") /\ Release(s, Locks)

\* _authorization_guard: the fence, shared.  Waiting administrators do not keep
\* a new reader out.
TakeFence(s) ==
  /\ step[s] = "claimed"
  /\ Shareable
  /\ Pass(s, "fenced")
  /\ Take(s, "fence")
  /\ UNCHANGED <<grantVars, got, stage>>

\* _prepare_send: message, account and connection FOR UPDATE.
LockRows(s) ==
  /\ step[s] = "fenced"
  /\ Free("rows")
  /\ \/ enabled /\ Pass(s, "rows") /\ Take(s, "rows")
     \/ ~enabled /\ Refuse(s)
  /\ UNCHANGED <<grantVars, got, stage>>

\* _authorization_still_valid: the deployment FOR UPDATE, RUNNING with the
\* revision the message came from.
LockDeployment(s) ==
  /\ step[s] = "rows"
  /\ Free("deployment")
  /\ \/ revision = "r1" /\ Pass(s, "checked") /\ Take(s, "deployment")
     \/ revision # "r1" /\ Refuse(s)
  /\ UNCHANGED <<grantVars, got, stage>>

\* Mutant: the guard ends with the transaction of _prepare_send.
Authorize_GuardEnds(s) ==
  /\ step[s] = "checked"
  /\ \/ allowed /\ Pass(s, "send") /\ Release(s, Locks)
     \/ ~allowed /\ Refuse(s)
  /\ UNCHANGED <<grantVars, got, stage>>

\* PolicyService.evaluate on the rules now in force, and the commit of SENDING.
Authorize(s) ==
  /\ step[s] = "checked"
  /\ \/ allowed /\ Pass(s, "send") /\ Release(s, {"rows", "deployment"})
     \/ ~allowed /\ Refuse(s)
  /\ UNCHANGED <<grantVars, got, stage>>

\* The request ends, _finish_* records it and the guard is left.
Send(s) ==
  /\ step[s] = "send"
  /\ Pass(s, "done")
  /\ Release(s, Locks)
  /\ UNCHANGED <<grantVars, got, stage>>

-----------------------------------------------------------------------------
(* Administrative transactions *)

LocksOf(t) == Plan[Op[t]]
Complete(t) == got[t] = Len(LocksOf(t))
NextLock(t) == LocksOf(t)[got[t] + 1]
Holds(t, lock) == t \in owner[lock]

Acquire(t) ==
  /\ stage[t] = "open"
  /\ ~Complete(t)
  /\ Free(NextLock(t))
  /\ Take(t, NextLock(t))
  /\ got' = [got EXCEPT ![t] = @ + 1]
  /\ UNCHANGED <<grantVars, step, stage>>

\* activate_revision: a candidate that fails to start leaves the active revision
\* as it was.
Activated ==
  /\ revision' = "r2" \/ UNCHANGED revision
  /\ UNCHANGED <<allowed, enabled>>

\* deactivate
Deactivated == revision' = "none" /\ UNCHANGED <<allowed, enabled>>

\* create_rule, revoke_rule
Denied == allowed' = FALSE /\ UNCHANGED <<revision, enabled>>

\* set_disabled, change_status
Disabled == enabled' = FALSE /\ UNCHANGED <<revision, allowed>>

Commit(t) ==
  /\ stage[t] = "open"
  /\ Complete(t)
  /\ \/ Op[t] = "activate" /\ Activated
     \/ Op[t] = "deactivate" /\ Deactivated
     \/ Op[t] = "deny" /\ Denied
     \/ Op[t] = "disable" /\ Disabled
  /\ stage' = [stage EXCEPT ![t] = "done"]
  /\ Release(t, Locks)
  /\ UNCHANGED <<step, got>>

WaitsFor(t, u) ==
  /\ stage[t] = "open"
  /\ ~Complete(t)
  /\ Holds(u, NextLock(t))

\* PostgreSQL sees transactions that wait for each other and ends one.  (It
\* sees none when the cycle runs through a sender: its guard waits for nothing
\* in the database.)
Deadlocked(t) == \E u \in Admins \ {t} : WaitsFor(t, u) /\ WaitsFor(u, t)

AbortVictim(t) ==
  /\ Deadlocked(t)
  /\ stage' = [stage EXCEPT ![t] = "done"]
  /\ Release(t, Locks)
  /\ UNCHANGED <<grantVars, step, got>>

-----------------------------------------------------------------------------
Sender(s) ==
  TakeFence(s) \/ LockRows(s) \/ LockDeployment(s) \/ Authorize(s) \/ Send(s)

Admin(t) == Acquire(t) \/ Commit(t) \/ AbortVictim(t)

Next == (\E s \in Senders : Sender(s)) \/ (\E t \in Admins : Admin(t))

Spec == Init /\ [][Next]_vars

\* Every statement that is not waiting for a lock returns, and so does every
\* request.
Fairness ==
  /\ \A s \in Senders : WF_vars(Sender(s))
  /\ \A t \in Admins : WF_vars(Admin(t))

FairSpec == Spec /\ Fairness

-----------------------------------------------------------------------------
(* Properties *)

TypeOK ==
  /\ revision \in {"r1", "r2", "none"}
  /\ allowed \in BOOLEAN
  /\ enabled \in BOOLEAN
  /\ step \in [Senders -> {"claimed", "fenced", "rows", "checked", "send", "done"}]
  /\ got \in [Admins -> 0..2]
  /\ stage \in [Admins -> {"open", "done"}]
  /\ owner \in [Locks -> SUBSET (Senders \cup Admins)]

\* While a request is out, everything it was authorized by is still in force:
\* the change of a rule, a revision, an account or a connection is committed
\* either before the sender's last check or after its answer is recorded.
FencedAuthorization ==
  \A s \in Senders :
    step[s] = "send" => revision = "r1" /\ allowed /\ enabled

Done ==
  /\ \A s \in Senders : step[s] = "done"
  /\ \A t \in Admins : stage[t] = "done"

\* Every sender and every administrative transaction ends.
EverythingEnds == <>Done

\* A deactivation has the deployment and wants the fence; a sender has the
\* fence and wants the deployment.
Stuck ==
  \E s \in Senders, t \in Admins :
    /\ Op[t] = "deactivate"
    /\ step[s] = "rows"
    /\ Holds(t, "deployment")

\* Who has to wait for a lock that others hold
SenderWaits(s) ==
  \/ step[s] = "claimed" /\ ~Shareable
  \/ step[s] = "fenced" /\ ~Free("rows")
  \/ step[s] = "rows" /\ ~Free("deployment")
AdminWaits(t) == ~Complete(t) /\ ~Free(NextLock(t)) /\ ~Deadlocked(t)

\* However many senders and administrative transactions meet, and whichever locks
\* they have: until all of them have ended one of them need not wait, or a deactivation
\* has met a sender between its checks.
SomebodyMoves ==
  \/ Done \/ Stuck
  \/ \E s \in Senders : step[s] # "done" /\ ~SenderWaits(s)
  \/ \E t \in Admins : stage[t] = "open" /\ ~AdminWaits(t)

\* Nothing but a deactivation in the middle of a sender's checks can keep the
\* senders and the administrative transactions from ending.
OnlyDeactivationBlocks == <>Done \/ <>[]Stuck
=============================================================================
