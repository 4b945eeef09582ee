---------------------------- MODULE OutboxProofs ----------------------------
(***************************************************************************)
(* Proofs about Outbox, for any number of messages, accounts, workers,     *)
(* attempts and faults.                                                    *)
(***************************************************************************)
EXTENDS Outbox, TLAPS

-----------------------------------------------------------------------------
(* Type correctness.  A pipeline that runs holds a message of its account,  *)
(* and one that has its answer has a real one: the statuses it writes       *)
(* depend on both, so the type invariant alone is not inductive.            *)

PipelineOK ==
  \A l \in Lanes :
    /\ Busy(l) => msg[l] \in Messages /\ AccountOf[msg[l]] = l[2]
    /\ pc[l] = "finish" => answer[l] \in Dispositions

TypeInv == TypeOK /\ PipelineOK

\* Where a pipeline can be.
Steps == {"idle", "claimed", "prepare", "waiting", "send", "finish"}

LEMMA LanesAre ==
  \A w \in Workers, a \in Accounts :
    <<w, a>> \in Lanes /\ <<w, a>>[1] = w /\ <<w, a>>[2] = a
  BY DEF Lanes

LEMMA LanePairs ==
  \A l \in Lanes : l[1] \in Workers /\ l[2] \in Accounts /\ l = <<l[1], l[2]>>
  BY DEF Lanes

\* The two ways an action moves the pipeline of a lane.
LEMMA GotoType ==
  ASSUME TypeInv, NEW l \in Lanes, Busy(l),
         NEW step \in {"prepare", "waiting", "send"}, Goto(l, step)
  PROVE  /\ pc' \in [Lanes -> Steps]
         /\ msg' \in [Lanes -> Messages \cup {0}]
         /\ answer' \in [Lanes -> Dispositions \cup {"none"}]
         /\ PipelineOK'
  BY DEF TypeInv, TypeOK, PipelineOK, Goto, Busy, Steps

LEMMA EndType ==
  ASSUME TypeInv, NEW l \in Lanes, End(l)
  PROVE  /\ pc' \in [Lanes -> Steps]
         /\ msg' \in [Lanes -> Messages \cup {0}]
         /\ answer' \in [Lanes -> Dispositions \cup {"none"}]
         /\ PipelineOK'
  BY DEF TypeInv, TypeOK, PipelineOK, End, Busy, Steps

LEMMA PipelineFrame ==
  ASSUME PipelineOK, UNCHANGED laneVars
  PROVE  PipelineOK'
  BY DEF PipelineOK, laneVars, Busy

LEMMA TypeStep == TypeInv /\ [Next]_vars => TypeInv'
<1> SUFFICES ASSUME TypeInv, [Next]_vars PROVE TypeInv'
  OBVIOUS
<1> USE OutboxAssumption DEF rowVars, loopVars, providerVars, worldVars, Steps
<1>1. ASSUME NEW m \in Messages, EnqueueText(m) PROVE TypeInv'
  BY <1>1, PipelineFrame DEF EnqueueText, Statuses, TypeInv, TypeOK, laneVars
<1>2. ASSUME NEW m \in Messages, CancelMessage(m) PROVE TypeInv'
  BY <1>2, PipelineFrame DEF CancelMessage, Statuses, TypeInv, TypeOK, laneVars
<1>3. ASSUME NEW m \in Messages, NEW r \in {"SENT", "FAILED_FINAL"},
             ReconcileUnknown(m, r)
      PROVE  TypeInv'
  BY <1>3, PipelineFrame
     DEF ReconcileUnknown, Statuses, TypeInv, TypeOK, laneVars
<1>4. ASSUME NEW a \in Accounts, NEW r \in {"ONLINE", "OFFLINE", "DISABLED"},
             ChangeReadiness(a, r)
      PROVE  TypeInv'
  BY <1>4, PipelineFrame DEF ChangeReadiness, TypeInv, TypeOK, laneVars
<1>5. ASSUME NEW w \in Workers, RecoverExpiredLeases(w) PROVE TypeInv'
  BY <1>5, PipelineFrame
     DEF RecoverExpiredLeases, Statuses, TypeInv, TypeOK, laneVars
<1>6. ASSUME NEW w \in Workers, ScanDueAccounts(w) PROVE TypeInv'
  <2>1. PICK S \in Batches :
          /\ todo' = [todo EXCEPT ![w] = @ \cup S]
          /\ batch' = [batch EXCEPT ![w] = S]
          /\ phase' = [phase EXCEPT ![w] = IF S = {} THEN "recover" ELSE "process"]
    BY <1>6 DEF ScanDueAccounts
  <2>2. S \subseteq Accounts
    BY DEF Batches, DueAccounts
  <2>3. QED
    BY <1>6, <2>1, <2>2, PipelineFrame
       DEF ScanDueAccounts, TypeInv, TypeOK, laneVars
<1>7. ASSUME NEW w \in Workers, EndBatch(w) PROVE TypeInv'
  BY <1>7, PipelineFrame DEF EndBatch, TypeInv, TypeOK, laneVars
<1>8. ASSUME NEW w \in Workers, NEW a \in Accounts, ClaimNext(w, a)
      PROVE  TypeInv'
  <2>1. todo' \in [Workers -> SUBSET Accounts]
    BY <1>8 DEF ClaimNext, TypeInv, TypeOK
  <2>2. CASE UNCHANGED <<status, due, laneVars>>
    BY <1>8, <2>1, <2>2, PipelineFrame DEF ClaimNext, TypeInv, TypeOK, laneVars
  <2>3. CASE \E expired \in SUBSET (DueOf(a) \cap Expiring) :
               /\ status' = [m \in Messages |->
                               IF m \in expired THEN "CANCELLED" ELSE status[m]]
               /\ UNCHANGED <<due, laneVars>>
    BY <1>8, <2>1, <2>3, PipelineFrame
       DEF ClaimNext, Statuses, TypeInv, TypeOK, laneVars
  <2>4. ASSUME NEW expired \in SUBSET (DueOf(a) \cap Expiring),
               NEW first \in DueOf(a) \ expired,
               status' = [m \in Messages |->
                            IF m \in expired /\ m < first THEN "CANCELLED"
                            ELSE IF m = first THEN "CLAIMED"
                            ELSE status[m]],
               due' = [due EXCEPT ![first] = FALSE],
               pc' = [pc EXCEPT ![<<w, a>>] = "claimed"],
               msg' = [msg EXCEPT ![<<w, a>>] = first],
               UNCHANGED answer
        PROVE  TypeInv'
    <3>1. first \in Messages /\ AccountOf[first] = a
      BY DEF DueOf, RowsOf
    <3>2. status' \in [Messages -> Statuses \cup {"ABSENT"}]
      BY <2>4 DEF Statuses, TypeInv, TypeOK
    <3>3. PipelineOK'
      BY <2>4, <3>1, LanesAre DEF TypeInv, TypeOK, PipelineOK, Busy
    <3>4. QED
      BY <1>8, <2>1, <2>4, <3>1, <3>2, <3>3 DEF ClaimNext, TypeInv, TypeOK
  <2>5. QED BY <1>8, <2>2, <2>3, <2>4 DEF ClaimNext
<1>9. ASSUME NEW l \in Lanes, RespectRateLimit(l) PROVE TypeInv'
  <2>1. Busy(l)
    BY <1>9 DEF RespectRateLimit, Busy
  <2>2. QED
    BY <1>9, <2>1, GotoType DEF RespectRateLimit, TypeInv, TypeOK
<1>10. ASSUME NEW l \in Lanes, PrepareSend(l) PROVE TypeInv'
  <2>1. Busy(l)
    BY <1>10 DEF PrepareSend, Busy
  <2>2. CASE End(l) /\ UNCHANGED <<status, due, attempts>>
    BY <1>10, <2>2, EndType DEF PrepareSend, TypeInv, TypeOK
  <2>3. ASSUME NEW v \in {"CANCELLED", "FAILED_RETRYABLE", "FAILED_FINAL", "SENDING"},
               status' = [status EXCEPT ![msg[l]] = v],
               IF v \in {"SENDING", "FAILED_RETRYABLE"}
               THEN due' = [due EXCEPT ![msg[l]] = FALSE]
               ELSE UNCHANGED due,
               IF v = "SENDING"
               THEN /\ attempts' = [attempts EXCEPT ![msg[l]] = @ + 1]
                    /\ Goto(l, "send")
               ELSE /\ End(l)
                    /\ UNCHANGED attempts
        PROVE  TypeInv'
    <3>1. status' \in [Messages -> Statuses \cup {"ABSENT"}]
      BY <2>3 DEF Statuses, TypeInv, TypeOK
    <3>2. due' \in [Messages -> BOOLEAN]
      BY <2>3 DEF TypeInv, TypeOK
    <3>3. attempts' \in [Messages -> Nat]
      BY <2>3 DEF TypeInv, TypeOK
    <3>4. QED
      BY <1>10, <2>1, <2>3, <3>1, <3>2, <3>3, GotoType, EndType
         DEF PrepareSend, TypeInv, TypeOK
  <2>4. Verdicts(l[2]) \subseteq
          {"CANCELLED", "FAILED_RETRYABLE", "FAILED_FINAL", "SENDING"}
    BY LanePairs DEF Verdicts, TypeInv, TypeOK
  <2>5. QED BY <1>10, <2>2, <2>3, <2>4 DEF PrepareSend
<1>11. ASSUME NEW l \in Lanes, PostText(l) PROVE TypeInv'
  <2>1. ASSUME NEW d \in Dispositions,
               pc' = [pc EXCEPT ![l] = "finish"],
               answer' = [answer EXCEPT ![l] = d],
               UNCHANGED msg, pc[l] = "send"
        PROVE  /\ pc' \in [Lanes -> Steps]
               /\ answer' \in [Lanes -> Dispositions \cup {"none"}]
               /\ PipelineOK'
    BY <2>1 DEF TypeInv, TypeOK, PipelineOK, Busy
  <2>2. /\ orphans' \in [Messages -> Nat]
        /\ delivered' \in [Messages -> Nat]
    BY <1>11 DEF PostText, TypeInv, TypeOK
  <2>3. QED
    BY <1>11, <2>1, <2>2 DEF PostText, Dispositions, TypeInv, TypeOK
<1>12. ASSUME NEW l \in Lanes, FinishSend(l) PROVE TypeInv'
  <2>1. FinishStatus(msg[l], answer[l]) \in Statuses
    BY <1>12 DEF FinishSend, FinishStatus, Statuses, Dispositions, TypeInv, PipelineOK
  <2>2. status' \in [Messages -> Statuses \cup {"ABSENT"}]
    BY <1>12, <2>1 DEF FinishSend, TypeInv, TypeOK
  <2>3. due' \in [Messages -> BOOLEAN]
    BY <1>12 DEF FinishSend, TypeInv, TypeOK
  <2>4. QED
    BY <1>12, <2>2, <2>3, EndType DEF FinishSend, TypeInv, TypeOK
<1>13. ASSUME NEW w \in Workers, NEW a \in Accounts, PipelineError(w, a)
       PROVE  TypeInv'
  <2>1. CASE UNCHANGED laneVars
    BY <1>13, <2>1, PipelineFrame DEF PipelineError, TypeInv, TypeOK, laneVars
  <2>2. CASE End(<<w, a>>) /\ UNCHANGED todo
    BY <1>13, <2>2, LanesAre, EndType DEF PipelineError, TypeInv, TypeOK
  <2>3. QED BY <1>13, <2>1, <2>2 DEF PipelineError
<1>14. ASSUME NEW w \in Workers, Crash(w) PROVE TypeInv'
  <2>1. orphans' \in [Messages -> Nat]
    BY <1>14 DEF Crash, Orphaned, TypeInv, TypeOK
  <2>2. PipelineOK'
    BY <1>14 DEF Crash, TypeInv, TypeOK, PipelineOK, Busy
  <2>3. QED
    BY <1>14, <2>1, <2>2 DEF Crash, TypeInv, TypeOK
<1>15. ASSUME NEW m \in Messages, TimePasses(m) PROVE TypeInv'
  <2>1. overrun' \in BOOLEAN
    BY <1>15, Zenon DEF TimePasses
  <2>2. /\ due' \in [Messages -> BOOLEAN]
        /\ UNCHANGED <<status, attempts, reconciled, readiness, deactivating, loopVars,
                       laneVars, providerVars, faults>>
    BY <1>15 DEF TimePasses, TypeInv, TypeOK
  <2>3. QED
    BY <2>1, <2>2, PipelineFrame DEF TypeInv, TypeOK, laneVars
<1>16. ASSUME NEW m \in Messages, ProviderSettles(m) PROVE TypeInv'
  BY <1>16, PipelineFrame DEF ProviderSettles, TypeInv, TypeOK, laneVars
<1>17. CASE BeginDeactivation \/ EndDeactivation \/ DeactivationFails
  <2>1. deactivating' \in BOOLEAN
    BY <1>17, Zenon DEF BeginDeactivation, EndDeactivation, DeactivationFails
  <2>2. /\ UNCHANGED <<rowVars, readiness, overrun, loopVars, laneVars, providerVars>>
        /\ faults' \in 0..MaxFaults
    BY <1>17
       DEF BeginDeactivation, EndDeactivation, DeactivationFails, TypeInv, TypeOK
  <2>3. QED
    BY <2>1, <2>2, PipelineFrame DEF TypeInv, TypeOK, laneVars
<1>18. ASSUME NEW l \in Lanes, WaitForDeployment(l) PROVE TypeInv'
  <2>1. Busy(l)
    BY <1>18 DEF WaitForDeployment, Busy
  <2>2. QED
    BY <1>18, <2>1, GotoType DEF WaitForDeployment, TypeInv, TypeOK
<1>19. CASE UNCHANGED vars
  BY <1>19, PipelineFrame DEF vars, TypeInv, TypeOK, laneVars
<1>20. QED
  BY <1>1, <1>2, <1>3, <1>4, <1>5, <1>6, <1>7, <1>8, <1>9, <1>10, <1>11,
     <1>12, <1>13, <1>14, <1>15, <1>16, <1>17, <1>18, <1>19, LanesAre
     DEF Next, Operators, RunOnce, ProcessAccount, Environment

LEMMA TypeInvariant == Spec => []TypeInv
<1>1. Init => TypeInv
  <2>1. Init => deactivating \in BOOLEAN /\ overrun \in BOOLEAN
    BY Zenon DEF Init
  <2>2. QED
    BY OutboxAssumption, <2>1 DEF Init, TypeInv, TypeOK, PipelineOK, Busy
<1>2. QED BY <1>1, TypeStep, PTL DEF Spec

\* Every column, loop variable and history keeps its type: no handler writes a
\* status, an answer or a count the others do not expect.
THEOREM TypeCorrect == Spec => []TypeOK
<1>1. TypeInv => TypeOK
  BY DEF TypeInv
<1>2. QED BY <1>1, TypeInvariant, PTL

-----------------------------------------------------------------------------
(* One message in flight per account.  Only ClaimNext adds a row to those   *)
(* in flight, and it counts them first.                                     *)

LEMMA InFlightStep ==
  ASSUME TypeInv, [Next]_vars, NEW m \in Messages, status'[m] \in InFlight
  PROVE  \/ status[m] \in InFlight
         \/ /\ InFlightOf(AccountOf[m]) = {}
            /\ \A n \in Messages :
                 AccountOf[n] = AccountOf[m] /\ status'[n] \in InFlight => n = m
<1> USE OutboxAssumption DEF TypeInv, TypeOK, rowVars, InFlight
<1>1. CASE Operators
  BY <1>1 DEF Operators, EnqueueText, CancelMessage, ReconcileUnknown, ChangeReadiness,
              BeginDeactivation, EndDeactivation
<1>2. CASE \E w \in Workers : RunOnce(w)
  BY <1>2 DEF RunOnce, RecoverExpiredLeases, ScanDueAccounts, EndBatch
<1>3. ASSUME NEW w \in Workers, NEW a \in Accounts, ClaimNext(w, a),
             status[m] \notin InFlight
      PROVE  /\ InFlightOf(AccountOf[m]) = {}
             /\ \A n \in Messages :
                  AccountOf[n] = AccountOf[m] /\ status'[n] \in InFlight => n = m
  <2>1. PICK first \in DueOf(a) :
          /\ InFlightOf(a) = {}
          /\ \A n \in Messages : n # first => status'[n] \in {status[n], "CANCELLED"}
    <3>1. CASE UNCHANGED <<status, due, laneVars>>
      BY <1>3, <3>1
    <3>2. ASSUME NEW expired,
                 status' = [n \in Messages |->
                              IF n \in expired THEN "CANCELLED" ELSE status[n]]
          PROVE  FALSE
      BY <1>3, <3>2
    <3>3. ASSUME NEW expired, NEW first \in DueOf(a),
                 status' = [n \in Messages |->
                              IF n \in expired /\ n < first THEN "CANCELLED"
                              ELSE IF n = first THEN "CLAIMED"
                              ELSE status[n]]
          PROVE  \A n \in Messages :
                   n # first => status'[n] \in {status[n], "CANCELLED"}
      BY <3>3
    <3>4. QED BY <1>3, <3>1, <3>2, <3>3 DEF ClaimNext
  <2>2. m = first /\ AccountOf[m] = a
    BY <1>3, <2>1 DEF DueOf, RowsOf
  <2>3. QED
    BY <2>1, <2>2 DEF InFlightOf, RowsOf
<1>4. ASSUME NEW l \in Lanes,
             RespectRateLimit(l) \/ WaitForDeployment(l) \/ PostText(l)
      PROVE  status[m] \in InFlight
  BY <1>4 DEF RespectRateLimit, WaitForDeployment, PostText
<1>5. ASSUME NEW l \in Lanes, PrepareSend(l) PROVE status[m] \in InFlight
  BY <1>5 DEF PrepareSend
<1>6. ASSUME NEW l \in Lanes, FinishSend(l) PROVE status[m] \in InFlight
  BY <1>6 DEF FinishSend
<1>7. CASE Environment
  BY <1>7
     DEF Environment, TimePasses, ProviderSettles, Crash, PipelineError,
         DeactivationFails
<1>8. CASE UNCHANGED vars
  BY <1>8 DEF vars
<1>9. QED
  BY <1>1, <1>2, <1>3, <1>4, <1>5, <1>6, <1>7, <1>8, LanesAre
     DEF Next, ProcessAccount

\* An account never has two rows CLAIMED or SENDING: the lock on the account
\* row and the count of _claim_next are enough for any number of workers, with
\* any leases and crashes.
THEOREM SerialClaims == Spec => []OneInFlight
<1>1. Init => OneInFlight
  BY DEF Init, OneInFlight, InFlight
<1>2. TypeInv /\ OneInFlight /\ [Next]_vars => OneInFlight'
  <2> SUFFICES ASSUME TypeInv, OneInFlight, [Next]_vars,
                      NEW m \in Messages, NEW n \in Messages,
                      AccountOf[m] = AccountOf[n],
                      status'[m] \in InFlight, status'[n] \in InFlight
               PROVE  m = n
    BY DEF OneInFlight
  <2>1. CASE status[m] \in InFlight /\ status[n] \in InFlight
    BY <2>1 DEF OneInFlight
  <2>2. CASE status[m] \notin InFlight
    BY <2>2, InFlightStep
  <2>3. CASE status[n] \notin InFlight
    BY <2>3, InFlightStep
  <2>4. QED BY <2>1, <2>2, <2>3
<1>3. QED BY <1>1, <1>2, TypeInvariant, PTL DEF Spec

-----------------------------------------------------------------------------
(* The table of transitions *)

LEMMA FinishStatusRange ==
  ASSUME TypeInv, NEW l \in Lanes, FinishSend(l)
  PROVE  FinishStatus(msg[l], answer[l]) \in
           {"SENT", "FAILED_RETRYABLE", "FAILED_FINAL", "UNKNOWN"}
BY DEF FinishSend, FinishStatus, Dispositions, TypeInv, PipelineOK

\* Whatever the order of workers, operators, leases and crashes, each row
\* changes along the table of transition_outbox, so that no worker ever meets
\* OutboxTransitionError.
THEOREM TransitionsLegal == Spec => TransitionsFollowTable
<1>1. ASSUME TypeInv, [Next]_vars, NEW m \in Messages, status'[m] # status[m]
      PROVE  IF status[m] = "ABSENT" THEN status'[m] = "PENDING"
             ELSE status'[m] \in AllowedTransitions[status[m]]
  <2> USE OutboxAssumption, <1>1 DEF rowVars
  <2> DEFINE Legal == IF status[m] = "ABSENT" THEN status'[m] = "PENDING"
                      ELSE status'[m] \in AllowedTransitions[status[m]]
  <2>1. ASSUME NEW n \in Messages, EnqueueText(n) PROVE Legal
    BY <2>1 DEF EnqueueText, TypeInv, TypeOK
  <2>2. ASSUME NEW n \in Messages, CancelMessage(n) PROVE Legal
    BY <2>2 DEF CancelMessage, AllowedTransitions, TypeInv, TypeOK
  <2>3. ASSUME NEW n \in Messages, NEW r \in {"SENT", "FAILED_FINAL"},
               ReconcileUnknown(n, r)
        PROVE  Legal
    BY <2>3 DEF ReconcileUnknown, AllowedTransitions, TypeInv, TypeOK
  <2>4. ASSUME NEW w \in Workers, RecoverExpiredLeases(w) PROVE Legal
    BY <2>4 DEF RecoverExpiredLeases, InFlight, AllowedTransitions, TypeInv, TypeOK
  <2>5. ASSUME NEW w \in Workers, NEW a \in Accounts, ClaimNext(w, a) PROVE Legal
    <3>1. \A n \in DueOf(a) : status[n] \in {"PENDING", "FAILED_RETRYABLE"}
      BY DEF DueOf, Waiting
    <3>2. status[m] \in {"PENDING", "FAILED_RETRYABLE"}
          /\ status'[m] \in {"CLAIMED", "CANCELLED"}
      BY <2>5, <3>1 DEF ClaimNext
    <3>3. QED BY <3>2 DEF AllowedTransitions
  <2>6. ASSUME NEW l \in Lanes, PrepareSend(l) PROVE Legal
    <3>1. \A v \in Verdicts(l[2]) : v \in
            {"CANCELLED", "FAILED_RETRYABLE", "FAILED_FINAL", "SENDING"}
      BY LanePairs DEF Verdicts, TypeInv, TypeOK
    <3>2. /\ status[m] = "CLAIMED"
          /\ status'[m] \in {"CANCELLED", "FAILED_RETRYABLE", "FAILED_FINAL", "SENDING"}
      BY <2>6, <3>1 DEF PrepareSend, TypeInv, TypeOK
    <3>3. QED BY <3>2 DEF AllowedTransitions
  <2>7. ASSUME NEW l \in Lanes, FinishSend(l) PROVE Legal
    <3>1. /\ status[m] = "SENDING"
          /\ status'[m] = FinishStatus(msg[l], answer[l])
      BY <2>7 DEF FinishSend, TypeInv, TypeOK
    <3>2. QED BY <2>7, <3>1, FinishStatusRange DEF AllowedTransitions
  <2>8. ASSUME NEW l \in Lanes,
               RespectRateLimit(l) \/ WaitForDeployment(l) \/ PostText(l)
        PROVE  Legal
    BY <2>8 DEF RespectRateLimit, WaitForDeployment, PostText
  <2>9. ASSUME NEW w \in Workers, ScanDueAccounts(w) \/ EndBatch(w) PROVE Legal
    BY <2>9 DEF ScanDueAccounts, EndBatch
  <2>10. ASSUME NEW a \in Accounts, NEW r, ChangeReadiness(a, r) PROVE Legal
    BY <2>10 DEF ChangeReadiness
  <2>11. CASE Environment
    BY <2>11
     DEF Environment, TimePasses, ProviderSettles, Crash, PipelineError,
         DeactivationFails
  <2>12. CASE UNCHANGED vars
    BY <2>12 DEF vars
  <2>13. CASE Operators
    BY <2>1, <2>2, <2>3, <2>10, <2>13
       DEF Operators, BeginDeactivation, EndDeactivation
  <2>14. ASSUME NEW w \in Workers, RunOnce(w) PROVE Legal
    BY <2>4, <2>9, <2>14 DEF RunOnce
  <2>15. ASSUME NEW w \in Workers, NEW a \in Accounts, ProcessAccount(w, a)
         PROVE  Legal
    BY <2>5, <2>6, <2>7, <2>8, <2>15, LanesAre DEF ProcessAccount
  <2>16. QED
    BY <2>11, <2>12, <2>13, <2>14, <2>15 DEF Next
<1>2. TypeInv /\ [Next]_vars =>
        [\A m \in Messages : status'[m] # status[m] =>
           IF status[m] = "ABSENT" THEN status'[m] = "PENDING"
           ELSE status'[m] \in AllowedTransitions[status[m]]]_status
  BY <1>1
<1>3. QED BY <1>2, TypeInvariant, PTL DEF Spec, TransitionsFollowTable
=============================================================================
