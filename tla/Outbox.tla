------------------------------- MODULE Outbox -------------------------------
(***************************************************************************)
(* The outbox of text messages and the sender workers that deliver them    *)
(* (wechat_bot/outbox).  The rows of the table are shared by every worker  *)
(* process; a process runs one pipeline ("lane") per account, serialised   *)
(* inside the process by an asyncio lock.  Each action below is one        *)
(* database transaction of the code, or one event outside the database:    *)
(* the provider's answer, the clock passing a lease, a crash.              *)
(*                                                                         *)
(* Time is kept as one bit per row: due[m] says that available_at is in    *)
(* the past.  For a waiting row that means it may be claimed, for a row    *)
(* in flight that its lease has expired.  The checks of prepare_send that  *)
(* read other tables (authorization, payload, token) are choices here.     *)
(*                                                                         *)
(* A transaction is one step because nothing it waits for is kept for long,*)
(* with one exception: a deactivation of the plugin holds the row of the   *)
(* deployment while it waits for the senders to leave the authorization    *)
(* fence, and _prepare_send, inside the fence, waits for that row.  That   *)
(* wait is a step of its own.  What the fence is for, and its locks one by *)
(* one, are the subject of SendFence.                                      *)
(***************************************************************************)
EXTENDS Integers, FiniteSets

CONSTANTS
  Messages,        \* rows, numbered in the order of (created_at, id)
  Accounts,        \* bot accounts
  AccountOf,       \* the account that sends each message
  Expiring,        \* messages enqueued with an expires_at
  Authorized,      \* messages of the plugin, with an authorization context
  Workers,         \* sender worker processes
  MaxConcurrent,   \* SenderOptions.max_concurrent_accounts
  MaxAttempts,     \* SenderOptions.max_attempts
  DefiniteStatus,  \* a retryable HTTP or API status means nothing was sent
  MaxFaults        \* bound on worker crashes and failed transactions

ASSUME OutboxAssumption ==
  /\ Messages \subseteq Nat \ {0}
  /\ AccountOf \in [Messages -> Accounts]
  /\ Expiring \subseteq Messages
  /\ Authorized \subseteq Messages
  /\ MaxConcurrent \in Nat \ {0}
  /\ MaxAttempts \in Nat \ {0}
  /\ DefiniteStatus \in BOOLEAN
  /\ MaxFaults \in Nat

VARIABLES
  status,      \* OutboxMessage.status, "ABSENT" before the row exists
  due,         \* OutboxMessage.available_at <= now
  attempts,    \* OutboxMessage.attempt_count
  reconciled,  \* messages an operator resolved (MANUAL_RECONCILED_*)
  readiness,   \* account and connection status, per account
  deactivating,\* a deactivation has the deployment row and wants the fence
  overrun,     \* whether a lease has expired under a live pipeline so far
  phase,       \* where each process is in SenderWorker.run_once
  batch,       \* accounts the current asyncio.gather waits for
  todo,        \* accounts whose pipeline was started but has not claimed yet
  pc,          \* how far the pipeline of each process and account is
  msg,         \* the message it works on, 0 when idle
  answer,      \* what its request ended with
  orphans,     \* requests the provider may still act on, nobody waiting
  delivered,   \* messages the provider has really sent, per row
  faults       \* crashes and failed transactions so far

rowVars == <<status, due, attempts, reconciled>>
loopVars == <<phase, batch, todo>>
laneVars == <<pc, msg, answer>>
providerVars == <<orphans, delivered>>
worldVars == <<readiness, deactivating, overrun>>
vars == <<status, due, attempts, reconciled, readiness, deactivating, overrun, phase,
          batch, todo, pc, msg, answer, orphans, delivered, faults>>

-----------------------------------------------------------------------------
(* Rows *)

Statuses == {"PENDING", "CLAIMED", "SENDING", "FAILED_RETRYABLE", "SENT",
             "FAILED_FINAL", "CANCELLED", "UNKNOWN"}

Waiting == {"PENDING", "FAILED_RETRYABLE"}
InFlight == {"CLAIMED", "SENDING"}
Terminal == {"SENT", "FAILED_FINAL", "CANCELLED"}

\* The table transition_outbox checks every change of status against.
AllowedTransitions ==
  [PENDING          |-> {"CLAIMED", "CANCELLED"},
   CLAIMED          |-> {"PENDING", "SENDING", "FAILED_RETRYABLE",
                         "FAILED_FINAL", "CANCELLED"},
   SENDING          |-> {"SENT", "FAILED_RETRYABLE", "FAILED_FINAL",
                         "UNKNOWN"},
   FAILED_RETRYABLE |-> {"CLAIMED", "CANCELLED"},
   UNKNOWN          |-> {"SENT", "FAILED_FINAL"},
   SENT             |-> {},
   FAILED_FINAL     |-> {},
   CANCELLED        |-> {}]

RowsOf(a) == {m \in Messages : AccountOf[m] = a}

\* Mutants: the in-flight count of _claim_next forgets one of the two statuses.
InFlightOf_SendingOnly(a) == {m \in RowsOf(a) : status[m] = "SENDING"}
InFlightOf_ClaimedOnly(a) == {m \in RowsOf(a) : status[m] = "CLAIMED"}
InFlightOf(a) == {m \in RowsOf(a) : status[m] \in InFlight}
DueOf(a) == {m \in RowsOf(a) : status[m] \in Waiting /\ due[m]}

-----------------------------------------------------------------------------
(* Pipelines *)

Lanes == Workers \X Accounts
Dispositions == {"SENT", "RETRYABLE", "FINAL", "UNKNOWN"}

Busy(l) == pc[l] # "idle"
Held(m) == \E l \in Lanes : Busy(l) /\ msg[l] = m
Sending(l, m) == pc[l] = "send" /\ msg[l] = m

\* A _prepare_send that waits for the deployment has locked its message, the
\* account and the connection (each account has a connection of its own here).
MessageLocked(m) == \E l \in Lanes : pc[l] = "waiting" /\ msg[l] = m
AccountLocked(a) == \E l \in Lanes : pc[l] = "waiting" /\ l[2] = a

\* The pipeline goes on to its next step, or ends.
Goto(l, step) ==
  /\ pc' = [pc EXCEPT ![l] = step]
  /\ UNCHANGED <<msg, answer>>
End(l) ==
  /\ pc' = [pc EXCEPT ![l] = "idle"]
  /\ msg' = [msg EXCEPT ![l] = 0]
  /\ answer' = [answer EXCEPT ![l] = "none"]

-----------------------------------------------------------------------------
Init ==
  /\ status = [m \in Messages |-> "ABSENT"]
  /\ due = [m \in Messages |-> FALSE]
  /\ attempts = [m \in Messages |-> 0]
  /\ reconciled = {}
  /\ readiness = [a \in Accounts |-> "ONLINE"]
  /\ deactivating = FALSE
  /\ overrun = FALSE
  /\ phase = [w \in Workers |-> "recover"]
  /\ batch = [w \in Workers |-> {}]
  /\ todo = [w \in Workers |-> {}]
  /\ pc = [l \in Lanes |-> "idle"]
  /\ msg = [l \in Lanes |-> 0]
  /\ answer = [l \in Lanes |-> "none"]
  /\ orphans = [m \in Messages |-> 0]
  /\ delivered = [m \in Messages |-> 0]
  /\ faults = 0

-----------------------------------------------------------------------------
(* The outbox service and its operators *)

\* OutboxService.enqueue_text for a new idempotency key.  A known key returns
\* the existing row and changes nothing.
EnqueueText(m) ==
  /\ status[m] = "ABSENT"
  /\ status' = [status EXCEPT ![m] = "PENDING"]
  /\ due' = [due EXCEPT ![m] = TRUE]
  /\ UNCHANGED <<attempts, reconciled, worldVars, loopVars, laneVars,
                 providerVars, faults>>

\* Mutant: a message being sent may be cancelled too.
CancelMessage_WhileSending(m) ==
  /\ status[m] \in {"PENDING", "CLAIMED", "SENDING", "FAILED_RETRYABLE"}
  /\ status' = [status EXCEPT ![m] = "CANCELLED"]
  /\ UNCHANGED <<due, attempts, reconciled, worldVars, loopVars, laneVars,
                 providerVars, faults>>

\* OutboxService.cancel_message: the row lock makes the check and the change
\* one step with respect to every worker.
CancelMessage(m) ==
  /\ status[m] \in {"PENDING", "CLAIMED", "FAILED_RETRYABLE"}
  /\ ~MessageLocked(m)
  /\ status' = [status EXCEPT ![m] = "CANCELLED"]
  /\ UNCHANGED <<due, attempts, reconciled, worldVars, loopVars, laneVars,
                 providerVars, faults>>

\* OutboxService.reconcile_unknown: an operator decides what really happened.
ReconcileUnknown(m, resolution) ==
  /\ status[m] = "UNKNOWN"
  /\ status' = [status EXCEPT ![m] = resolution]
  /\ reconciled' = reconciled \cup {m}
  /\ UNCHANGED <<due, attempts, worldVars, loopVars, laneVars, providerVars,
                 faults>>

\* What login checks, set_disabled and change_status leave in the account and
\* connection rows.  OFFLINE stands for every status that is neither ONLINE on
\* an ACTIVE connection nor DISABLED.
ChangeReadiness(a, r) ==
  /\ readiness[a] # r
  /\ ~AccountLocked(a)
  /\ readiness' = [readiness EXCEPT ![a] = r]
  /\ UNCHANGED <<rowVars, deactivating, overrun, loopVars, laneVars, providerVars,
                 faults>>

-----------------------------------------------------------------------------
(* PluginCatalogService.deactivate.  A sender of the plugin is inside the   *)
(* fence from its _prepare_send until its answer is recorded.               *)

InsideFence(l) == pc[l] \in {"waiting", "send", "finish"} /\ msg[l] \in Authorized

\* The deployment row is locked first.  (A plugin without messages is of no
\* concern here.)
BeginDeactivation ==
  /\ ~deactivating
  /\ Authorized # {}
  /\ deactivating' = TRUE
  /\ UNCHANGED <<rowVars, readiness, overrun, loopVars, laneVars, providerVars, faults>>

\* The fence is free: the deactivation takes it, does its work and commits.
EndDeactivation ==
  /\ deactivating
  /\ \A l \in Lanes : ~InsideFence(l)
  /\ deactivating' = FALSE
  /\ UNCHANGED <<rowVars, readiness, overrun, loopVars, laneVars, providerVars, faults>>

-----------------------------------------------------------------------------
(* SenderWorker.run_once *)

\* Mutants: only claims are recovered, or only rows left SENDING are.
RecoverExpiredLeases_ClaimsOnly(w) ==
  /\ phase[w] = "recover"
  /\ status' = [m \in Messages |-> IF status[m] = "CLAIMED" /\ due[m]
                                      /\ ~MessageLocked(m)
                                   THEN "PENDING" ELSE status[m]]
  /\ phase' = [phase EXCEPT ![w] = "scan"]
  /\ UNCHANGED <<due, attempts, reconciled, worldVars, batch, todo, laneVars,
                 providerVars, faults>>

RecoverExpiredLeases_SendingOnly(w) ==
  /\ phase[w] = "recover"
  /\ status' = [m \in Messages |-> IF status[m] = "SENDING" /\ due[m]
                                   THEN "UNKNOWN" ELSE status[m]]
  /\ phase' = [phase EXCEPT ![w] = "scan"]
  /\ UNCHANGED <<due, attempts, reconciled, worldVars, batch, todo, laneVars,
                 providerVars, faults>>

\* Rows a pipeline may have locked at this moment, in _extend_claim_lease,
\* _prepare_send or _finish_*.  No row lock is held while the request is out.
Lockable == {m \in Messages : \E l \in Lanes :
               pc[l] \in {"claimed", "prepare", "finish"} /\ msg[l] = m}

\* _recover_expired_leases.  SKIP LOCKED passes over locked rows, and always over
\* those of a _prepare_send that waits.
RecoverExpiredLeases(w) ==
  /\ phase[w] = "recover"
  /\ \E skipped \in SUBSET Lockable :
       LET Expired(m) == /\ status[m] \in InFlight /\ due[m]
                         /\ m \notin skipped /\ ~MessageLocked(m)
       IN status' = [m \in Messages |->
                       IF ~Expired(m) THEN status[m]
                       ELSE IF status[m] = "CLAIMED" THEN "PENDING"
                       ELSE "UNKNOWN"]
  /\ phase' = [phase EXCEPT ![w] = "scan"]
  /\ UNCHANGED <<due, attempts, reconciled, worldVars, batch, todo, laneVars,
                 providerVars, faults>>

DueAccounts == {a \in Accounts : DueOf(a) # {}}

\* a's oldest due message is older than b's: the ORDER BY of the query.
Earlier(a, b) == \E m \in DueOf(a) : \A n \in DueOf(b) : m < n

\* _due_account_ids: the first max_concurrent_accounts accounts with due work.
Batches ==
  {S \in SUBSET DueAccounts :
     /\ Cardinality(S) <= MaxConcurrent
     /\ S = DueAccounts \/ Cardinality(S) = MaxConcurrent
     /\ \A a \in S : \A b \in DueAccounts \ S : Earlier(a, b)}

ScanDueAccounts(w) ==
  /\ phase[w] = "scan"
  /\ \E S \in Batches :
       /\ todo' = [todo EXCEPT ![w] = @ \cup S]
       /\ batch' = [batch EXCEPT ![w] = S]
       /\ phase' = [phase EXCEPT ![w] = IF S = {} THEN "recover" ELSE "process"]
  /\ UNCHANGED <<rowVars, worldVars, laneVars, providerVars, faults>>

\* asyncio.gather returns when every pipeline of the batch has ended.
EndBatch(w) ==
  /\ phase[w] = "process"
  /\ \A a \in batch[w] : a \notin todo[w] /\ ~Busy(<<w, a>>)
  /\ phase' = [phase EXCEPT ![w] = "recover"]
  /\ batch' = [batch EXCEPT ![w] = {}]
  /\ UNCHANGED <<rowVars, worldVars, todo, laneVars, providerVars, faults>>

-----------------------------------------------------------------------------
(* SenderWorker._process_account, one action per transaction.  The asyncio  *)
(* lock of the account lets one pipeline of the process past at a time.  A  *)
(* pipeline that a failed sibling detached from its batch runs on, so no    *)
(* action below looks at the phase of the process.                          *)

\* _claim_next.  The account row is locked, nothing of the account may be in
\* flight; expired rows at the head of the queue are cancelled on the way.
ClaimNext(w, a) ==
  /\ a \in todo[w]
  /\ ~Busy(<<w, a>>)
  /\ ~AccountLocked(a)
  /\ todo' = [todo EXCEPT ![w] = @ \ {a}]
  /\ \/ /\ InFlightOf(a) # {}
        /\ UNCHANGED <<status, due, laneVars>>
     \/ /\ InFlightOf(a) = {}
        /\ \E expired \in SUBSET (DueOf(a) \cap Expiring) :
             \/ /\ expired = DueOf(a)
                /\ status' = [m \in Messages |->
                                IF m \in expired THEN "CANCELLED" ELSE status[m]]
                /\ UNCHANGED <<due, laneVars>>
             \/ \E first \in DueOf(a) \ expired :
                  /\ \A m \in DueOf(a) \ expired : first <= m
                  /\ status' = [m \in Messages |->
                                  IF m \in expired /\ m < first THEN "CANCELLED"
                                  ELSE IF m = first THEN "CLAIMED"
                                  ELSE status[m]]
                  /\ due' = [due EXCEPT ![first] = FALSE]
                  /\ pc' = [pc EXCEPT ![<<w, a>>] = "claimed"]
                  /\ msg' = [msg EXCEPT ![<<w, a>>] = first]
                  /\ UNCHANGED answer
  /\ UNCHANGED <<attempts, reconciled, worldVars, phase, batch, providerVars,
                 faults>>

\* _respect_rate_limit: when it has to wait it first extends the lease, but
\* only of a row that is still CLAIMED.
RespectRateLimit(l) ==
  /\ pc[l] = "claimed"
  /\ Goto(l, "prepare")
  /\ \/ UNCHANGED due
     \/ /\ status[msg[l]] = "CLAIMED"
        /\ ~MessageLocked(msg[l])
        /\ due' = [due EXCEPT ![msg[l]] = FALSE]
  /\ UNCHANGED <<status, attempts, reconciled, worldVars, loopVars,
                 providerVars, faults>>

\* The statuses _prepare_send may give a CLAIMED row.  An expired message, a
\* disabled account and a withdrawn authorization are all CANCELLED; an account
\* that is not ready waits and costs no attempt; an unusable payload or token
\* is final.  (No row has another action type than text.)
Verdicts(a) ==
  CASE readiness[a] = "DISABLED" -> {"CANCELLED"}
    [] readiness[a] = "OFFLINE"  -> {"CANCELLED", "FAILED_RETRYABLE"}
    [] readiness[a] = "ONLINE"   -> {"CANCELLED", "FAILED_FINAL", "SENDING"}

\* A deactivation holds the deployment that _authorization_still_valid locks.
Obstructed(m) == deactivating /\ m \in Authorized

\* _prepare_send has its rows and waits for the deployment, without a timeout.
WaitForDeployment(l) ==
  /\ pc[l] = "prepare"
  /\ status[msg[l]] = "CLAIMED"
  /\ Obstructed(msg[l])
  /\ ~AccountLocked(l[2])
  /\ readiness[l[2]] # "DISABLED"
  /\ Goto(l, "waiting")
  /\ UNCHANGED <<rowVars, worldVars, loopVars, providerVars, faults>>

\* _prepare_send (with _authorization_still_valid).  The pipeline goes on only
\* if it commits CLAIMED -> SENDING itself.  While the deployment is held, only
\* the checks before it can end a message of the plugin.
PrepareSend(l) ==
  LET m == msg[l]
  IN /\ \/ pc[l] = "prepare" /\ ~AccountLocked(l[2])
        \/ pc[l] = "waiting" /\ ~Obstructed(m)
     /\ \/ /\ status[m] # "CLAIMED"
           /\ End(l)
           /\ UNCHANGED <<status, due, attempts>>
        \/ /\ status[m] = "CLAIMED"
           /\ \E v \in Verdicts(l[2]) :
                /\ Obstructed(m) => v = "CANCELLED"
                /\ status' = [status EXCEPT ![m] = v]
                /\ IF v \in {"SENDING", "FAILED_RETRYABLE"}
                   THEN due' = [due EXCEPT ![m] = FALSE]
                   ELSE UNCHANGED due
                /\ IF v = "SENDING"
                   THEN /\ attempts' = [attempts EXCEPT ![m] = @ + 1]
                        /\ Goto(l, "send")
                   ELSE /\ End(l)
                        /\ UNCHANGED attempts
     /\ UNCHANGED <<reconciled, worldVars, loopVars, providerVars, faults>>

\* How client.post_text ends, as _classify_gewe_error reads it: an answer of
\* success; a connection that was never made; a retryable status (408, 425,
\* 429, 5xx), which says that nothing was sent only under DefiniteStatus; a
\* final refusal; or anything else (read timeout, unusable answer, unexpected
\* error, cancellation), after which the provider may or may not still act.
PostText(l) ==
  LET m == msg[l]
      Answer(d) == /\ pc' = [pc EXCEPT ![l] = "finish"]
                   /\ answer' = [answer EXCEPT ![l] = d]
      Deliver == delivered' = [delivered EXCEPT ![m] = @ + 1]
  IN /\ pc[l] = "send"
     /\ \/ Answer("SENT") /\ Deliver /\ UNCHANGED orphans
        \/ Answer("RETRYABLE") /\ UNCHANGED providerVars
        \/ ~DefiniteStatus /\ Answer("RETRYABLE") /\ Deliver /\ UNCHANGED orphans
        \/ Answer("FINAL") /\ UNCHANGED providerVars
        \/ /\ Answer("UNKNOWN")
           /\ orphans' = [orphans EXCEPT ![m] = @ + 1]
           /\ UNCHANGED delivered
     /\ UNCHANGED <<rowVars, worldVars, loopVars, msg, faults>>

\* Mutants: the disposition is stored as it is; an unknown result is retried;
\* the last attempt is retried once more.
FinishStatus_Disposition(m, result) == result
FinishStatus_RetryUnknown(m, result) ==
  CASE result = "SENT"  -> "SENT"
    [] result = "FINAL" -> "FAILED_FINAL"
    [] OTHER            -> IF attempts[m] < MaxAttempts
                           THEN "FAILED_RETRYABLE" ELSE "FAILED_FINAL"
FinishStatus_OneMore(m, result) ==
  CASE result = "SENT"      -> "SENT"
    [] result = "UNKNOWN"   -> "UNKNOWN"
    [] result = "FINAL"     -> "FAILED_FINAL"
    [] result = "RETRYABLE" -> IF attempts[m] <= MaxAttempts
                               THEN "FAILED_RETRYABLE" ELSE "FAILED_FINAL"

\* The status _finish_sent, _finish_failure or _finish_unknown gives the row.
FinishStatus(m, result) ==
  CASE result = "SENT"      -> "SENT"
    [] result = "UNKNOWN"   -> "UNKNOWN"
    [] result = "FINAL"     -> "FAILED_FINAL"
    [] result = "RETRYABLE" -> IF attempts[m] < MaxAttempts
                               THEN "FAILED_RETRYABLE" ELSE "FAILED_FINAL"

\* Mutant: the answer is recorded whatever the row says by now.
FinishSend_Unchecked(l) ==
  LET m == msg[l]
  IN /\ pc[l] = "finish"
     /\ End(l)
     /\ status' = [status EXCEPT ![m] = FinishStatus(m, answer[l])]
     /\ UNCHANGED <<due, attempts, reconciled, worldVars, loopVars,
                    providerVars, faults>>

\* _finish_*: a row that is no longer SENDING keeps what it has, the answer is
\* dropped.  A retry backs off: available_at moves to the future.
FinishSend(l) ==
  LET m == msg[l]
      target == FinishStatus(m, answer[l])
  IN /\ pc[l] = "finish"
     /\ ~MessageLocked(m)
     /\ End(l)
     /\ IF status[m] = "SENDING"
        THEN /\ status' = [status EXCEPT ![m] = target]
             /\ due' = IF target = "FAILED_RETRYABLE"
                       THEN [due EXCEPT ![m] = FALSE] ELSE due
        ELSE UNCHANGED <<status, due>>
     /\ UNCHANGED <<attempts, reconciled, worldVars, loopVars, providerVars,
                    faults>>

-----------------------------------------------------------------------------
(* Faults and the world outside the database *)

\* A request whose pipeline dies stays with the provider.
Orphaned(dead) ==
  orphans' = [m \in Messages |->
    IF \E l \in dead : Sending(l, m)
    THEN orphans[m] + 1 ELSE orphans[m]]

\* A transaction of a pipeline fails and is rolled back: the exception leaves
\* the gather it belongs to, and _run_loop starts run_once again while the
\* other pipelines of that batch run on.
PipelineError(w, a) ==
  /\ faults < MaxFaults
  /\ \/ /\ a \in todo[w] /\ ~Busy(<<w, a>>)
        /\ todo' = [todo EXCEPT ![w] = @ \ {a}]
        /\ UNCHANGED laneVars
     \/ /\ pc[<<w, a>>] \in {"claimed", "prepare", "waiting", "finish"}
        /\ End(<<w, a>>)
        /\ UNCHANGED todo
  /\ IF a \in batch[w] /\ ~(Busy(<<w, a>>) /\ a \in todo[w])
     THEN /\ phase' = [phase EXCEPT ![w] = "recover"]
          /\ batch' = [batch EXCEPT ![w] = {}]
     ELSE UNCHANGED <<phase, batch>>
  /\ faults' = faults + 1
  /\ UNCHANGED <<rowVars, worldVars, providerVars>>

\* A worker process dies and is started again.  Rows keep their status.
Crash(w) ==
  /\ faults < MaxFaults
  /\ pc' = [l \in Lanes |-> IF l[1] = w THEN "idle" ELSE pc[l]]
  /\ msg' = [l \in Lanes |-> IF l[1] = w THEN 0 ELSE msg[l]]
  /\ answer' = [l \in Lanes |-> IF l[1] = w THEN "none" ELSE answer[l]]
  /\ Orphaned({l \in Lanes : l[1] = w})
  /\ phase' = [phase EXCEPT ![w] = "recover"]
  /\ batch' = [batch EXCEPT ![w] = {}]
  /\ todo' = [todo EXCEPT ![w] = {}]
  /\ faults' = faults + 1
  /\ UNCHANGED <<rowVars, worldVars, delivered>>

\* The request that deactivates fails before it has the fence: its transaction
\* is rolled back.
DeactivationFails ==
  /\ faults < MaxFaults
  /\ deactivating
  /\ deactivating' = FALSE
  /\ faults' = faults + 1
  /\ UNCHANGED <<rowVars, readiness, overrun, loopVars, laneVars, providerVars>>

\* available_at passes: a backoff ends or a lease expires, be its pipeline alive or not.
TimePasses(m) ==
  /\ ~due[m]
  /\ status[m] \in InFlight \cup {"FAILED_RETRYABLE"}
  /\ due' = [due EXCEPT ![m] = TRUE]
  /\ overrun' = (overrun \/ (status[m] \in InFlight /\ Held(m)))
  /\ UNCHANGED <<status, attempts, reconciled, readiness, deactivating, loopVars,
                 laneVars, providerVars, faults>>

\* The provider acts on a request nobody waits for any more, or never will.
ProviderSettles(m) ==
  /\ orphans[m] > 0
  /\ orphans' = [orphans EXCEPT ![m] = @ - 1]
  /\ \/ delivered' = [delivered EXCEPT ![m] = @ + 1]
     \/ UNCHANGED delivered
  /\ UNCHANGED <<rowVars, worldVars, loopVars, laneVars, faults>>

-----------------------------------------------------------------------------
Operators ==
  \/ \E m \in Messages :
       \/ EnqueueText(m)
       \/ CancelMessage(m)
       \/ \E r \in {"SENT", "FAILED_FINAL"} : ReconcileUnknown(m, r)
  \/ \E a \in Accounts : \E r \in {"ONLINE", "OFFLINE", "DISABLED"} :
       ChangeReadiness(a, r)
  \/ BeginDeactivation
  \/ EndDeactivation

RunOnce(w) == RecoverExpiredLeases(w) \/ ScanDueAccounts(w) \/ EndBatch(w)

ProcessAccount(w, a) ==
  \/ ClaimNext(w, a)
  \/ RespectRateLimit(<<w, a>>)
  \/ WaitForDeployment(<<w, a>>)
  \/ PrepareSend(<<w, a>>)
  \/ PostText(<<w, a>>)
  \/ FinishSend(<<w, a>>)

Environment ==
  \/ \E m \in Messages : TimePasses(m) \/ ProviderSettles(m)
  \/ \E w \in Workers : Crash(w)
  \/ \E w \in Workers, a \in Accounts : PipelineError(w, a)
  \/ DeactivationFails

Next ==
  \/ Operators
  \/ \E w \in Workers : RunOnce(w)
  \/ \E w \in Workers, a \in Accounts : ProcessAccount(w, a)
  \/ Environment

Spec == Init /\ [][Next]_vars

\* A started worker keeps running its loop, the clock advances, a deactivation
\* that finds the fence free commits.  A statement returns unless the lock it
\* needs is held: no step of a pipeline is fair while its rows or its deployment
\* are.  Nothing is assumed of operators, faults or readiness, nor that a
\* deactivation ever finds the fence free.
Fairness ==
  /\ \A w \in Workers : WF_vars(RunOnce(w))
  /\ WF_vars(EndDeactivation)
  /\ \A w \in Workers, a \in Accounts : WF_vars(ProcessAccount(w, a))
  /\ \A m \in Messages : WF_vars(TimePasses(m))

FairSpec == Spec /\ Fairness

-----------------------------------------------------------------------------
(* Properties *)

TypeOK ==
  /\ status \in [Messages -> Statuses \cup {"ABSENT"}]
  /\ due \in [Messages -> BOOLEAN]
  /\ attempts \in [Messages -> Nat]
  /\ reconciled \in SUBSET Messages
  /\ readiness \in [Accounts -> {"ONLINE", "OFFLINE", "DISABLED"}]
  /\ deactivating \in BOOLEAN /\ overrun \in BOOLEAN
  /\ phase \in [Workers -> {"recover", "scan", "process"}]
  /\ batch \in [Workers -> SUBSET Accounts]
  /\ todo \in [Workers -> SUBSET Accounts]
  /\ pc \in [Lanes -> {"idle", "claimed", "prepare", "waiting", "send", "finish"}]
  /\ msg \in [Lanes -> Messages \cup {0}]
  /\ answer \in [Lanes -> Dispositions \cup {"none"}]
  /\ orphans \in [Messages -> Nat]
  /\ delivered \in [Messages -> Nat]
  /\ faults \in 0..MaxFaults

\* An account never has two rows CLAIMED or SENDING, whatever workers crash,
\* stall past a lease, or claim at the same time: the account row lock and the
\* in-flight count of _claim_next are enough, although a claim names no owner.
OneInFlight ==
  \A m, n \in Messages :
    /\ AccountOf[m] = AccountOf[n]
    /\ status[m] \in InFlight
    /\ status[n] \in InFlight
    => m = n

\* Two requests of one account are never under way at the same time, from any
\* workers ("strictly serial per account"), if no pipeline has outlived a lease.
SerialSends ==
  ~overrun =>
    \A k, l \in Lanes : k[2] = l[2] /\ pc[k] = "send" /\ pc[l] = "send" => k = l

\* No message reaches its recipient twice through retries, lease recovery or
\* two workers picking up the same claim.
NoDuplicateDelivery == \A m \in Messages : delivered[m] <= 1

\* Neither delivered nor able to be: no request for m is under way anywhere.
NeverSent(m) ==
  /\ delivered[m] = 0
  /\ orphans[m] = 0
  /\ \A l \in Lanes : ~Sending(l, m)

\* The status a worker or a cancellation leaves tells the truth about the
\* provider: what may be claimed (again), was cancelled, or failed was never
\* sent and will not be; what is SENT was sent.  Only an operator's
\* reconciliation is a judgement.
TruthfulStatus ==
  \A m \in Messages \ reconciled :
    /\ status[m] \in Waiting \cup {"CLAIMED", "CANCELLED", "FAILED_FINAL"}
         => NeverSent(m)
    /\ status[m] = "SENT" => delivered[m] = 1

\* Every change of status is one transition_outbox allows: no handler, worker
\* or recovery ever meets OutboxTransitionError in a row it did not expect.
TransitionsFollowTable ==
  [][\A m \in Messages : status'[m] # status[m] =>
       IF status[m] = "ABSENT" THEN status'[m] = "PENDING"
       ELSE status'[m] \in AllowedTransitions[status[m]]]_status

\* A pipeline that has its answer still finds the row SENDING, so the answer is
\* recorded: _finish_* drops none, as long as no pipeline has outlived a lease.
AnswerRecorded ==
  ~overrun => \A l \in Lanes : pc[l] = "finish" => status[msg[l]] = "SENDING"

\* A deactivation waits for a sender to leave the fence, the sender waits for
\* the deployment the deactivation has locked: neither has a timeout.
Stuck == deactivating /\ \E l \in Lanes : pc[l] = "waiting"

\* While the accounts stay ready, an enqueued message is eventually settled or
\* left to an operator as UNKNOWN: leases, batches and the worker loop strand no
\* row, whatever crashes.  The one thing that can keep it waiting is a sender and
\* a deactivation that wait for each other for ever; then the batch of that
\* sender never ends, and the other accounts of its worker wait as well.
EventuallySettled ==
  (<>[](\A a \in Accounts : readiness[a] = "ONLINE"))
    => \/ <>[]Stuck
       \/ \A m \in Messages :
            <>[](status[m] # "ABSENT" => status[m] \in Terminal \cup {"UNKNOWN"})

\* What the outbox promises, without claims, leases and workers: see Courier.
Stages == [ABSENT |-> "none", PENDING |-> "queued", CLAIMED |-> "queued",
           FAILED_RETRYABLE |-> "queued", SENDING |-> "trying",
           SENT |-> "delivered", FAILED_FINAL |-> "failed",
           CANCELLED |-> "withdrawn", UNKNOWN |-> "uncertain"]
Stage(s) == Stages[s]

Promise == INSTANCE Courier WITH stage <- [m \in Messages |-> Stage(status[m])],
                                 tries <- attempts

\* The outbox implements the courier.
ImplementsCourier == Promise!Spec
=============================================================================
