--------------------------- MODULE OutboxDelivery ---------------------------
(***************************************************************************)
(* Proofs about what Outbox delivers.  With statuses that mean what they   *)
(* say, no message is sent twice and no status lies; the outbox implements *)
(* the courier; and workers that end within their leases send one message  *)
(* of an account at a time and lose no answer.                             *)
(***************************************************************************)
EXTENDS OutboxProofs

\* From the commit of SENDING to the end of _finish_*, a request is out.
Launched(l) == pc[l] \in {"send", "finish"}

\* At most one pipeline ever gets past _prepare_send with a message before the
\* row leaves SENDING, and from SENDING a row cannot come back while one is.
OneLauncher ==
  \A k, l \in Lanes : Launched(k) /\ Launched(l) /\ msg[k] = msg[l] => k = l

LaunchedStatus ==
  \A l \in Lanes : Launched(l) =>
    status[msg[l]] \in {"SENDING", "UNKNOWN"} \/ msg[l] \in reconciled

ReconciledStatus == \A m \in reconciled : status[m] \in {"SENT", "FAILED_FINAL"}

\* What a message can still add to what was delivered.
Effects ==
  /\ \A m \in Messages : delivered[m] + orphans[m] <= 1
  /\ \A l \in Lanes : pc[l] = "send" => delivered[msg[l]] = 0 /\ orphans[msg[l]] = 0
  /\ \A l \in Lanes : pc[l] = "finish" =>
       /\ answer[l] = "SENT" => delivered[msg[l]] = 1
       /\ answer[l] \in {"RETRYABLE", "FINAL"} =>
            delivered[msg[l]] = 0 /\ orphans[msg[l]] = 0

StatusEffects ==
  \A m \in Messages \ reconciled :
    /\ status[m] \in Waiting \cup {"ABSENT", "CLAIMED", "CANCELLED", "FAILED_FINAL"}
         => delivered[m] = 0 /\ orphans[m] = 0
    /\ status[m] = "SENT" => delivered[m] = 1

DeliveryInv ==
  /\ OneLauncher
  /\ LaunchedStatus
  /\ ReconciledStatus
  /\ Effects
  /\ StatusEffects

\* A row that may still be claimed has an attempt left.
AttemptsInv ==
  \A m \in Messages :
    /\ status[m] = "ABSENT" => attempts[m] = 0
    /\ status[m] \in Waiting \cup {"CLAIMED"} => attempts[m] < MaxAttempts

\* A pipeline that ends within its lease still has its row as it left it, but
\* for an operator's cancellation, and no other pipeline has it too.
LeaseHeld ==
  \A l \in Lanes :
    /\ pc[l] \in {"claimed", "prepare", "waiting"} =>
         \/ status[msg[l]] = "CANCELLED"
         \/ status[msg[l]] = "CLAIMED" /\ ~due[msg[l]]
    /\ Launched(l) => status[msg[l]] = "SENDING" /\ ~due[msg[l]]

SoleHolder ==
  \A k, l \in Lanes : Busy(k) /\ Busy(l) /\ msg[k] = msg[l] => k = l

TimelyInv == LeaseHeld /\ SoleHolder

-----------------------------------------------------------------------------
(* The delivery invariant *)

\* No pipeline starts or advances: some may have ended.
Fewer ==
  \A l \in Lanes : pc'[l] # "idle" =>
    pc'[l] = pc[l] /\ msg'[l] = msg[l] /\ answer'[l] = answer[l]

LEMMA EndFewer == ASSUME TypeInv, NEW l \in Lanes, End(l) PROVE Fewer
BY DEF End, Fewer, TypeInv, TypeOK

LEMMA SameFewer == ASSUME UNCHANGED laneVars PROVE Fewer
BY DEF laneVars, Fewer

\* A step of rows that no pipeline has launched, the others untouched.
LEMMA RowStep ==
  ASSUME TypeInv, DeliveryInv, Fewer, UNCHANGED <<reconciled, providerVars>>,
         \A m \in Messages : status'[m] # status[m] =>
           \/ /\ status[m] \in Waiting \cup {"ABSENT", "CLAIMED"}
              /\ status'[m] \in Waiting \cup {"CLAIMED", "CANCELLED", "FAILED_FINAL"}
           \/ status[m] = "SENDING" /\ status'[m] = "UNKNOWN"
  PROVE  DeliveryInv'
<1> USE DEF DeliveryInv, TypeInv, PipelineOK, Launched, Busy, Fewer, providerVars
<1>1. OneLauncher'
  BY DEF OneLauncher
<1>2. LaunchedStatus'
  BY DEF LaunchedStatus, Waiting
<1>3. ReconciledStatus'
  BY DEF ReconciledStatus, Waiting, TypeOK
<1>4. Effects'
  BY DEF Effects
<1>5. StatusEffects'
  BY DEF StatusEffects, Waiting
<1>6. QED BY <1>1, <1>2, <1>3, <1>4, <1>5

LEMMA DeliveryPrepare ==
  ASSUME TypeInv, DeliveryInv, NEW l \in Lanes, PrepareSend(l)
  PROVE  DeliveryInv'
<1> USE DEF rowVars, providerVars
<1>1. CASE End(l) /\ UNCHANGED <<status, due, attempts>>
  BY <1>1, EndFewer, RowStep DEF PrepareSend
<1>2. ASSUME NEW v \in {"CANCELLED", "FAILED_RETRYABLE", "FAILED_FINAL"},
             status[msg[l]] = "CLAIMED",
             status' = [status EXCEPT ![msg[l]] = v], End(l)
      PROVE  DeliveryInv'
  BY <1>2, EndFewer, RowStep DEF PrepareSend, TypeInv, TypeOK, Waiting
<1>3. ASSUME status[msg[l]] = "CLAIMED",
             status' = [status EXCEPT ![msg[l]] = "SENDING"], Goto(l, "send")
      PROVE  DeliveryInv'
  <2> DEFINE m == msg[l]
  <2>1. m \in Messages
    BY DEF PrepareSend, TypeInv, PipelineOK, Busy
  <2>2. /\ m \notin reconciled
        /\ \A k \in Lanes : Launched(k) => msg[k] # m
        /\ delivered[m] = 0 /\ orphans[m] = 0
    BY <1>3, <2>1 DEF DeliveryInv, ReconciledStatus, LaunchedStatus, StatusEffects
  <2>3. \A k \in Lanes : Launched(k)' =>
          /\ msg'[k] = msg[k] /\ answer'[k] = answer[k]
          /\ \/ k = l /\ pc'[k] = "send"
             \/ k # l /\ Launched(k) /\ pc'[k] = pc[k]
    BY <1>3 DEF Goto, Launched, TypeInv, TypeOK
  <2>4. \A n \in Messages : status'[n] = IF n = m THEN "SENDING" ELSE status[n]
    BY <1>3 DEF TypeInv, TypeOK
  <2>5. UNCHANGED <<reconciled, orphans, delivered>>
    BY DEF PrepareSend
  <2>6. OneLauncher'
    BY <2>2, <2>3 DEF DeliveryInv, OneLauncher
  <2>7. LaunchedStatus'
    BY <2>1, <2>2, <2>3, <2>4, <2>5
       DEF DeliveryInv, LaunchedStatus, TypeInv, PipelineOK, Launched, Busy
  <2>8. ReconciledStatus'
    BY <2>2, <2>4, <2>5 DEF DeliveryInv, ReconciledStatus, TypeInv, TypeOK
  <2>9. Effects'
    BY <2>2, <2>3, <2>5 DEF DeliveryInv, Effects, Launched
  <2>10. StatusEffects'
    BY <2>4, <2>5 DEF DeliveryInv, StatusEffects, Waiting
  <2>11. QED BY <2>6, <2>7, <2>8, <2>9, <2>10 DEF DeliveryInv
<1>4. \A v \in Verdicts(l[2]) :
        v \in {"CANCELLED", "FAILED_RETRYABLE", "FAILED_FINAL", "SENDING"}
  BY LanePairs DEF Verdicts, TypeInv, TypeOK
<1>5. QED BY <1>1, <1>2, <1>3, <1>4 DEF PrepareSend

LEMMA DeliveryPost ==
  ASSUME TypeInv, DeliveryInv, DefiniteStatus, NEW l \in Lanes, PostText(l)
  PROVE  DeliveryInv'
<1> DEFINE m == msg[l]
<1>1. m \in Messages /\ Launched(l) /\ delivered[m] = 0 /\ orphans[m] = 0
  BY DEF PostText, TypeInv, PipelineOK, Busy, Launched, DeliveryInv, Effects
<1>2. /\ UNCHANGED <<status, reconciled, msg>>
      /\ \A k \in Lanes : k # l => pc'[k] = pc[k] /\ answer'[k] = answer[k]
      /\ pc'[l] = "finish"
  BY DEF PostText, rowVars, TypeInv, TypeOK
<1>3. /\ answer'[l] \in Dispositions
      /\ \A n \in Messages : n # m => delivered'[n] = delivered[n] /\ orphans'[n] = orphans[n]
      /\ delivered'[m] \in Nat /\ orphans'[m] \in Nat
      /\ delivered'[m] + orphans'[m] <= 1
      /\ answer'[l] = "SENT" => delivered'[m] = 1
      /\ answer'[l] \in {"RETRYABLE", "FINAL"} => delivered'[m] = 0 /\ orphans'[m] = 0
  BY <1>1 DEF PostText, providerVars, TypeInv, TypeOK, Dispositions
<1>4. \A k \in Lanes : Launched(k)' => Launched(k)
  BY <1>1, <1>2 DEF Launched
<1>5. \A k \in Lanes : Launched(k) /\ msg[k] = m => k = l
  BY <1>1 DEF DeliveryInv, OneLauncher
<1>6. OneLauncher'
  BY <1>2, <1>4 DEF DeliveryInv, OneLauncher
<1>7. LaunchedStatus'
  BY <1>2, <1>4 DEF DeliveryInv, LaunchedStatus
<1>8. ReconciledStatus'
  BY <1>2 DEF DeliveryInv, ReconciledStatus
<1>9. Effects'
  <2>1. \A n \in Messages : delivered'[n] + orphans'[n] <= 1
    BY <1>3 DEF DeliveryInv, Effects
  <2>2. \A k \in Lanes : k # l /\ Launched(k)' => msg[k] \in Messages /\ msg[k] # m
    BY <1>4, <1>5 DEF TypeInv, PipelineOK, Busy, Launched
  <2>3. QED
    BY <1>2, <1>3, <2>1, <2>2 DEF DeliveryInv, Effects, Launched
<1>10. StatusEffects'
  <2>1. m \in reconciled \/ status[m] \in {"SENDING", "UNKNOWN"}
    BY <1>1 DEF DeliveryInv, LaunchedStatus
  <2>2. QED
    BY <1>2, <1>3, <2>1 DEF DeliveryInv, StatusEffects, Waiting
<1>11. QED BY <1>6, <1>7, <1>8, <1>9, <1>10 DEF DeliveryInv

LEMMA DeliveryFinish ==
  ASSUME TypeInv, DeliveryInv, NEW l \in Lanes, FinishSend(l)
  PROVE  DeliveryInv'
<1> USE DEF rowVars, providerVars
<1> DEFINE m == msg[l]
<1>1. m \in Messages /\ Launched(l) /\ answer[l] \in Dispositions
  BY DEF FinishSend, TypeInv, PipelineOK, Busy, Launched
<1>2. CASE status[m] # "SENDING"
  BY <1>2, EndFewer, RowStep DEF FinishSend
<1>3. CASE status[m] = "SENDING"
  <2>1. /\ UNCHANGED <<reconciled, orphans, delivered>>
        /\ \A n \in Messages : n # m => status'[n] = status[n]
        /\ status'[m] = FinishStatus(m, answer[l])
        /\ m \notin reconciled
    BY <1>1, <1>3 DEF FinishSend, TypeInv, TypeOK, DeliveryInv, ReconciledStatus
  <2>2. \A k \in Lanes : Launched(k)' =>
          k # l /\ pc'[k] = pc[k] /\ msg'[k] = msg[k] /\ answer'[k] = answer[k]
    BY DEF FinishSend, End, Launched, TypeInv, TypeOK
  <2>3. \A k \in Lanes : Launched(k)' => Launched(k) /\ msg[k] # m /\ msg[k] \in Messages
    BY <1>1, <2>2
       DEF DeliveryInv, OneLauncher, Launched, TypeInv, PipelineOK, Busy
  <2>4. OneLauncher'
    BY <2>2, <2>3 DEF DeliveryInv, OneLauncher
  <2>5. LaunchedStatus'
    BY <2>1, <2>2, <2>3 DEF DeliveryInv, LaunchedStatus
  <2>6. ReconciledStatus'
    BY <2>1 DEF DeliveryInv, ReconciledStatus, TypeInv, TypeOK
  <2>7. Effects'
    BY <2>1, <2>2 DEF DeliveryInv, Effects, Launched
  <2>8. /\ status'[m] \in {"SENT", "FAILED_RETRYABLE", "FAILED_FINAL", "UNKNOWN"}
        /\ status'[m] = "SENT" => delivered[m] = 1
        /\ status'[m] \in {"FAILED_RETRYABLE", "FAILED_FINAL"} =>
             delivered[m] = 0 /\ orphans[m] = 0
    <3>1. pc[l] = "finish"
      BY DEF FinishSend
    <3>2. CASE answer[l] = "SENT"
      BY <2>1, <3>1, <3>2 DEF FinishStatus, DeliveryInv, Effects
    <3>3. CASE answer[l] = "UNKNOWN"
      BY <2>1, <3>3 DEF FinishStatus
    <3>4. CASE answer[l] \in {"RETRYABLE", "FINAL"}
      <4>1. delivered[m] = 0 /\ orphans[m] = 0
        BY <3>1, <3>4 DEF DeliveryInv, Effects
      <4>2. FinishStatus(m, answer[l]) \in {"FAILED_RETRYABLE", "FAILED_FINAL"}
        BY <3>4 DEF FinishStatus
      <4>3. QED BY <2>1, <4>1, <4>2
    <3>5. QED BY <1>1, <3>2, <3>3, <3>4 DEF Dispositions
  <2>9. StatusEffects'
    BY <2>1, <2>8 DEF DeliveryInv, StatusEffects, Waiting
  <2>10. QED BY <2>4, <2>5, <2>6, <2>7, <2>9 DEF DeliveryInv
<1>4. QED BY <1>2, <1>3

LEMMA DeliveryReconcile ==
  ASSUME TypeInv, DeliveryInv, NEW m \in Messages,
         NEW r \in {"SENT", "FAILED_FINAL"}, ReconcileUnknown(m, r)
  PROVE  DeliveryInv'
<1>1. /\ UNCHANGED <<pc, msg, answer, orphans, delivered>>
      /\ reconciled' = reconciled \cup {m}
      /\ \A n \in Messages : status'[n] = IF n = m THEN r ELSE status[n]
  BY DEF ReconcileUnknown, laneVars, providerVars, TypeInv, TypeOK
<1>2. OneLauncher'
  BY <1>1 DEF DeliveryInv, OneLauncher, Launched
<1>3. LaunchedStatus'
  BY <1>1 DEF DeliveryInv, LaunchedStatus, Launched, TypeInv, PipelineOK, Busy
<1>4. ReconciledStatus'
  BY <1>1 DEF DeliveryInv, ReconciledStatus, TypeInv, TypeOK
<1>5. Effects'
  BY <1>1 DEF DeliveryInv, Effects
<1>6. StatusEffects'
  BY <1>1 DEF DeliveryInv, StatusEffects, Waiting
<1>7. QED BY <1>2, <1>3, <1>4, <1>5, <1>6 DEF DeliveryInv

LEMMA DeliveryCrash ==
  ASSUME TypeInv, DeliveryInv, NEW w \in Workers, Crash(w)
  PROVE  DeliveryInv'
<1>1. Fewer /\ UNCHANGED <<status, reconciled, delivered>>
  BY DEF Crash, Fewer, rowVars, TypeInv, TypeOK
<1>2. \A l \in Lanes : Launched(l)' => Launched(l) /\ l[1] # w
  BY <1>1 DEF Crash, Fewer, Launched, TypeInv, TypeOK
<1>3. \A m \in Messages :
        \/ orphans'[m] = orphans[m]
        \/ /\ orphans'[m] = orphans[m] + 1
           /\ \E l \in Lanes : l[1] = w /\ pc[l] = "send" /\ msg[l] = m
  BY DEF Crash, Orphaned, Sending
<1>4. OneLauncher' /\ LaunchedStatus' /\ ReconciledStatus'
  BY <1>1, <1>2
     DEF DeliveryInv, OneLauncher, LaunchedStatus, ReconciledStatus, Fewer, Launched
<1>5. Effects'
  <2>1. \A m \in Messages : delivered'[m] + orphans'[m] <= 1
    <3> SUFFICES ASSUME NEW m \in Messages PROVE delivered'[m] + orphans'[m] <= 1
      OBVIOUS
    <3>1. delivered'[m] = delivered[m] /\ delivered[m] + orphans[m] <= 1
      BY <1>1 DEF DeliveryInv, Effects
    <3>2. ASSUME NEW l \in Lanes, pc[l] = "send", msg[l] = m
          PROVE  delivered[m] = 0 /\ orphans[m] = 0
      BY <3>2 DEF DeliveryInv, Effects
    <3>3. QED BY <1>3, <3>1, <3>2
  <2>2. \A l \in Lanes : Launched(l)' =>
          msg[l] \in Messages /\ orphans'[msg[l]] = orphans[msg[l]]
    BY <1>2, <1>3 DEF DeliveryInv, OneLauncher, Launched, TypeInv, PipelineOK, Busy
  <2>3. QED
    BY <1>1, <2>1, <2>2 DEF DeliveryInv, Effects, Fewer, Launched
<1>6. StatusEffects'
  <2>1. \A m \in Messages : orphans'[m] # orphans[m] =>
          m \in reconciled \/ status[m] \in {"SENDING", "UNKNOWN"}
    BY <1>3 DEF DeliveryInv, LaunchedStatus, Launched
  <2>2. QED
    BY <1>1, <2>1 DEF DeliveryInv, StatusEffects, Waiting
<1>7. QED BY <1>4, <1>5, <1>6 DEF DeliveryInv

LEMMA DeliverySettles ==
  ASSUME TypeInv, DeliveryInv, NEW m \in Messages, ProviderSettles(m)
  PROVE  DeliveryInv'
<1>1. /\ UNCHANGED <<status, reconciled, pc, msg, answer>>
      /\ orphans[m] > 0
      /\ \A n \in Messages : n # m => orphans'[n] = orphans[n] /\ delivered'[n] = delivered[n]
      /\ orphans'[m] = orphans[m] - 1
      /\ delivered'[m] \in {delivered[m], delivered[m] + 1}
  BY DEF ProviderSettles, rowVars, laneVars, TypeInv, TypeOK
<1>2. delivered[m] = 0 /\ orphans[m] = 1
  <2>1. delivered[m] \in Nat /\ orphans[m] \in Nat
    BY DEF TypeInv, TypeOK
  <2>2. delivered[m] + orphans[m] <= 1
    BY DEF DeliveryInv, Effects
  <2>3. QED BY <1>1, <2>1, <2>2
<1>3. OneLauncher' /\ LaunchedStatus' /\ ReconciledStatus'
  BY <1>1
     DEF DeliveryInv, OneLauncher, LaunchedStatus, ReconciledStatus, Launched
<1>4. \A l \in Lanes : Launched(l) => msg[l] \in Messages
  BY DEF TypeInv, PipelineOK, Busy, Launched
<1>5. Effects'
  <2>1. \A n \in Messages : delivered'[n] + orphans'[n] <= 1
    BY <1>1, <1>2 DEF DeliveryInv, Effects
  <2>2. \A l \in Lanes : pc[l] = "send" => msg[l] # m
    BY <1>2 DEF DeliveryInv, Effects
  <2>3. \A l \in Lanes : pc[l] = "finish" /\ answer[l] # "UNKNOWN" => msg[l] # m
    BY <1>2 DEF DeliveryInv, Effects, TypeInv, PipelineOK, Dispositions
  <2>4. QED
    BY <1>1, <1>4, <2>1, <2>2, <2>3 DEF DeliveryInv, Effects, Launched
<1>6. StatusEffects'
  <2>1. m \in reconciled \/ status[m] \notin
          Waiting \cup {"ABSENT", "CLAIMED", "CANCELLED", "FAILED_FINAL", "SENT"}
    BY <1>2 DEF DeliveryInv, StatusEffects
  <2>2. QED
    BY <1>1, <2>1 DEF DeliveryInv, StatusEffects
<1>7. QED BY <1>3, <1>5, <1>6 DEF DeliveryInv

LEMMA DeliveryClaim ==
  ASSUME TypeInv, DeliveryInv, NEW w \in Workers, NEW a \in Accounts,
         ClaimNext(w, a)
  PROVE  DeliveryInv'
<1>1. UNCHANGED <<reconciled, answer, orphans, delivered>>
  BY DEF ClaimNext, providerVars, laneVars
<1>2. \A m \in Messages : status'[m] # status[m] =>
        /\ status[m] \in Waiting
        /\ status'[m] \in {"CLAIMED", "CANCELLED"}
  <2>1. \A m \in DueOf(a) : status[m] \in Waiting
    BY DEF DueOf
  <2>2. QED BY <2>1 DEF ClaimNext
<1>3. \A l \in Lanes : Launched(l)' =>
        /\ Launched(l)
        /\ pc'[l] = pc[l] /\ msg'[l] = msg[l] /\ msg[l] \in Messages
  <2>1. \A l \in Lanes : Launched(l) => msg[l] \in Messages
    BY DEF Launched, Busy, TypeInv, PipelineOK
  <2>2. CASE UNCHANGED laneVars
    BY <2>1, <2>2 DEF laneVars, Launched
  <2>3. ASSUME NEW first,
               pc' = [pc EXCEPT ![<<w, a>>] = "claimed"],
               msg' = [msg EXCEPT ![<<w, a>>] = first]
        PROVE  \A l \in Lanes : Launched(l)' =>
                 Launched(l) /\ pc'[l] = pc[l] /\ msg'[l] = msg[l]
    BY <2>3 DEF Launched, TypeInv, TypeOK
  <2>4. QED BY <2>1, <2>2, <2>3 DEF ClaimNext, laneVars
<1>4. OneLauncher'
  BY <1>3 DEF DeliveryInv, OneLauncher
<1>5. LaunchedStatus'
  BY <1>1, <1>2, <1>3 DEF DeliveryInv, LaunchedStatus, Waiting
<1>6. ReconciledStatus'
  BY <1>1, <1>2 DEF DeliveryInv, ReconciledStatus, Waiting, TypeInv, TypeOK
<1>7. Effects'
  BY <1>1, <1>3 DEF DeliveryInv, Effects, Launched
<1>8. StatusEffects'
  BY <1>1, <1>2 DEF DeliveryInv, StatusEffects, Waiting
<1>9. QED BY <1>4, <1>5, <1>6, <1>7, <1>8 DEF DeliveryInv

LEMMA DeliveryStep ==
  ASSUME TypeInv, DeliveryInv, DefiniteStatus, [Next]_vars
  PROVE  DeliveryInv'
<1> USE DEF rowVars
<1>1. ASSUME NEW m \in Messages, EnqueueText(m) \/ CancelMessage(m)
      PROVE  DeliveryInv'
  <2>1. \A n \in Messages : status'[n] # status[n] =>
          /\ status[n] \in Waiting \cup {"ABSENT", "CLAIMED"}
          /\ status'[n] \in {"PENDING", "CANCELLED"}
    BY <1>1 DEF EnqueueText, CancelMessage, Waiting, TypeInv, TypeOK
  <2>2. UNCHANGED <<reconciled, laneVars, providerVars>>
    BY <1>1 DEF EnqueueText, CancelMessage
  <2>3. QED BY <2>1, <2>2, SameFewer, RowStep DEF Waiting
<1>2. ASSUME NEW w \in Workers, RecoverExpiredLeases(w) PROVE DeliveryInv'
  <2>1. \A n \in Messages : status'[n] # status[n] =>
          \/ status[n] = "CLAIMED" /\ status'[n] = "PENDING"
          \/ status[n] = "SENDING" /\ status'[n] = "UNKNOWN"
    BY <1>2 DEF RecoverExpiredLeases, InFlight
  <2>2. UNCHANGED <<reconciled, laneVars, providerVars>>
    BY <1>2 DEF RecoverExpiredLeases
  <2>3. QED BY <2>1, <2>2, SameFewer, RowStep DEF Waiting
<1>3. ASSUME UNCHANGED <<status, reconciled, laneVars, providerVars>>
      PROVE  DeliveryInv'
  BY <1>3, SameFewer, RowStep
<1>4. ASSUME NEW w \in Workers, NEW a \in Accounts, PipelineError(w, a)
      PROVE  DeliveryInv'
  BY <1>4, LanesAre, EndFewer, SameFewer, RowStep DEF PipelineError
<1>5. ASSUME NEW l \in Lanes, RespectRateLimit(l) \/ WaitForDeployment(l)
      PROVE  DeliveryInv'
  <2>1. UNCHANGED <<status, reconciled, msg, answer, orphans, delivered>>
    BY <1>5 DEF RespectRateLimit, WaitForDeployment, Goto, providerVars
  <2>2. \A k \in Lanes : Launched(k)' => Launched(k) /\ pc'[k] = pc[k]
    BY <1>5
       DEF RespectRateLimit, WaitForDeployment, Goto, Launched, TypeInv, TypeOK
  <2>3. QED
    BY <2>1, <2>2
       DEF DeliveryInv, OneLauncher, LaunchedStatus, ReconciledStatus, Effects,
           StatusEffects, Launched
<1>6. CASE Operators
  BY <1>1, <1>3, <1>6, DeliveryReconcile
     DEF Operators, ChangeReadiness, BeginDeactivation, EndDeactivation
<1>7. ASSUME NEW w \in Workers, RunOnce(w) PROVE DeliveryInv'
  BY <1>2, <1>3, <1>7 DEF RunOnce, ScanDueAccounts, EndBatch
<1>8. ASSUME NEW w \in Workers, NEW a \in Accounts, ProcessAccount(w, a)
      PROVE  DeliveryInv'
  BY <1>5, <1>8, LanesAre, DeliveryClaim, DeliveryPrepare, DeliveryPost,
     DeliveryFinish DEF ProcessAccount
<1>9. CASE Environment
  BY <1>3, <1>4, <1>9, DeliveryCrash, DeliverySettles
     DEF Environment, TimePasses, DeactivationFails
<1>10. CASE UNCHANGED vars
  BY <1>3, <1>10 DEF vars, laneVars, providerVars
<1>11. QED BY <1>6, <1>7, <1>8, <1>9, <1>10 DEF Next

LEMMA DeliveryInvariant ==
  ASSUME DefiniteStatus
  PROVE  Spec => []DeliveryInv
<1>1. Init => DeliveryInv
  BY DEF Init, DeliveryInv, OneLauncher, LaunchedStatus, ReconciledStatus,
         Effects, StatusEffects, Launched
<1>2. TypeInv /\ DeliveryInv /\ [Next]_vars => DeliveryInv'
  BY DeliveryStep
<1>3. QED BY <1>1, <1>2, TypeInvariant, PTL DEF Spec

\* When a retryable status really means that nothing was sent, no message
\* reaches its recipient twice: not through retries, nor through the recovery
\* of leases, nor through two workers that picked up the same claim.
THEOREM AtMostOnce ==
  ASSUME DefiniteStatus
  PROVE  Spec => []NoDuplicateDelivery
<1>1. TypeInv /\ DeliveryInv => NoDuplicateDelivery
  BY DEF TypeInv, TypeOK, DeliveryInv, Effects, NoDuplicateDelivery
<1>2. QED BY <1>1, TypeInvariant, DeliveryInvariant, PTL

\* Under the same assumption a status that a worker or a cancellation leaves
\* tells the truth about the provider.
THEOREM StatusesAreTrue ==
  ASSUME DefiniteStatus
  PROVE  Spec => []TruthfulStatus
<1>1. DeliveryInv => TruthfulStatus
  BY DEF DeliveryInv, LaunchedStatus, StatusEffects, Launched, TruthfulStatus,
         NeverSent, Sending, Waiting
<1>2. QED BY <1>1, DeliveryInvariant, PTL

-----------------------------------------------------------------------------
(* The outbox implements the courier *)

LEMMA AttemptsStep ==
  ASSUME TypeInv, AttemptsInv, [Next]_vars
  PROVE  AttemptsInv'
<1> USE OutboxAssumption DEF rowVars
<1>1. ASSUME UNCHANGED attempts,
             \A m \in Messages : status'[m] # status[m] =>
               \/ status[m] = "ABSENT" /\ status'[m] = "PENDING"
               \/ /\ status[m] \in Waiting \cup {"CLAIMED"}
                  /\ status'[m] # "ABSENT"
               \/ status'[m] \in Terminal \cup {"UNKNOWN"}
      PROVE  AttemptsInv'
  BY <1>1 DEF AttemptsInv, Waiting, Terminal
<1>2. ASSUME NEW m \in Messages,
             \/ EnqueueText(m)
             \/ CancelMessage(m)
             \/ \E r \in {"SENT", "FAILED_FINAL"} : ReconcileUnknown(m, r)
      PROVE  AttemptsInv'
  BY <1>1, <1>2
     DEF EnqueueText, CancelMessage, ReconcileUnknown, Terminal, TypeInv, TypeOK
<1>3. ASSUME NEW w \in Workers, RecoverExpiredLeases(w) PROVE AttemptsInv'
  BY <1>1, <1>3 DEF RecoverExpiredLeases, InFlight
<1>4. ASSUME UNCHANGED <<status, attempts>> PROVE AttemptsInv'
  BY <1>1, <1>4
<1>5. ASSUME NEW w \in Workers, NEW a \in Accounts, ClaimNext(w, a)
      PROVE  AttemptsInv'
  <2>1. \A m \in DueOf(a) : status[m] \in Waiting
    BY DEF DueOf
  <2>2. \A m \in Messages : status'[m] # status[m] =>
          status[m] \in Waiting /\ status'[m] \in {"CLAIMED", "CANCELLED"}
    BY <1>5, <2>1 DEF ClaimNext
  <2>3. QED BY <1>1, <1>5, <2>2 DEF ClaimNext
<1>6. ASSUME NEW l \in Lanes, PrepareSend(l) PROVE AttemptsInv'
  <2>1. \A v \in Verdicts(l[2]) :
          v \in {"CANCELLED", "FAILED_RETRYABLE", "FAILED_FINAL", "SENDING"}
    BY LanePairs DEF Verdicts, TypeInv, TypeOK
  <2>2. CASE UNCHANGED attempts
    <3>1. \A m \in Messages : status'[m] # status[m] =>
            status[m] = "CLAIMED" /\ status'[m] # "ABSENT"
      BY <1>6, <2>1 DEF PrepareSend, TypeInv, TypeOK
    <3>2. QED BY <1>1, <2>2, <3>1
  <2>3. CASE /\ status' = [status EXCEPT ![msg[l]] = "SENDING"]
             /\ attempts' = [attempts EXCEPT ![msg[l]] = @ + 1]
    BY <2>3 DEF AttemptsInv, Waiting, TypeInv, TypeOK
  <2>4. QED BY <1>6, <2>1, <2>2, <2>3 DEF PrepareSend
<1>7. ASSUME NEW l \in Lanes, FinishSend(l) PROVE AttemptsInv'
  <2>1. FinishStatus(msg[l], answer[l]) # "FAILED_RETRYABLE"
          \/ attempts[msg[l]] < MaxAttempts
    BY <1>7 DEF FinishSend, FinishStatus, Dispositions, TypeInv, PipelineOK
  <2>2. UNCHANGED attempts
    BY <1>7 DEF FinishSend
  <2>3. \A m \in Messages : status'[m] # status[m] =>
          /\ m = msg[l]
          /\ status'[m] = FinishStatus(msg[l], answer[l])
    BY <1>7 DEF FinishSend, TypeInv, TypeOK
  <2>4. QED
    BY <1>7, <2>1, <2>2, <2>3, FinishStatusRange DEF AttemptsInv, Waiting
<1>8. ASSUME NEW l \in Lanes,
             RespectRateLimit(l) \/ WaitForDeployment(l) \/ PostText(l)
      PROVE  AttemptsInv'
  BY <1>4, <1>8 DEF RespectRateLimit, WaitForDeployment, PostText
<1>9. CASE Operators
  BY <1>2, <1>4, <1>9
     DEF Operators, ChangeReadiness, BeginDeactivation, EndDeactivation
<1>10. ASSUME NEW w \in Workers, RunOnce(w) PROVE AttemptsInv'
  BY <1>3, <1>4, <1>10 DEF RunOnce, ScanDueAccounts, EndBatch
<1>11. ASSUME NEW w \in Workers, NEW a \in Accounts, ProcessAccount(w, a)
       PROVE  AttemptsInv'
  BY <1>5, <1>6, <1>7, <1>8, <1>11, LanesAre DEF ProcessAccount
<1>12. CASE Environment
  BY <1>4, <1>12
     DEF Environment, TimePasses, ProviderSettles, Crash, PipelineError,
         DeactivationFails
<1>13. CASE UNCHANGED vars
  BY <1>4, <1>13 DEF vars
<1>14. QED BY <1>9, <1>10, <1>11, <1>12, <1>13 DEF Next

LEMMA AttemptsInvariant == Spec => []AttemptsInv
<1>1. Init => AttemptsInv
  BY OutboxAssumption DEF Init, AttemptsInv, Waiting
<1>2. TypeInv /\ AttemptsInv /\ [Next]_vars => AttemptsInv'
  BY AttemptsStep
<1>3. QED BY <1>1, <1>2, TypeInvariant, PTL DEF Spec

\* The stage of each status.
LEMMA StageOf ==
  /\ Stage("ABSENT") = "none"
  /\ Stage("PENDING") = "queued"
  /\ Stage("FAILED_RETRYABLE") = "queued"
  /\ Stage("CLAIMED") = "queued"
  /\ Stage("SENDING") = "trying"
  /\ Stage("SENT") = "delivered"
  /\ Stage("FAILED_FINAL") = "failed"
  /\ Stage("CANCELLED") = "withdrawn"
  /\ Stage("UNKNOWN") = "uncertain"
BY DEF Stage, Stages

\* How a change of the rows in S moves the stages.
LEMMA StageMove ==
  ASSUME NEW S \in SUBSET Messages, NEW from, NEW to,
         \A m \in S : Stage(status[m]) = from /\ Stage(status'[m]) = to,
         \A m \in Messages \ S : Stage(status'[m]) = Stage(status[m])
  PROVE  Promise!Move(S, from, to)
BY DEF Promise!Move

LEMMA StageStays ==
  ASSUME UNCHANGED attempts,
         \A m \in Messages : Stage(status'[m]) = Stage(status[m])
  PROVE  UNCHANGED Promise!vars
BY DEF Promise!vars

\* A step of the outbox is a step of the courier, or leaves it as it is.
LEMMA CourierStep ==
  ASSUME TypeInv, OneInFlight, AttemptsInv, [Next]_vars
  PROVE  [Promise!Next]_Promise!vars
<1> USE OutboxAssumption DEF rowVars
<1>1. ASSUME NEW m \in Messages, EnqueueText(m) PROVE Promise!Next
  <2>1. Promise!Move({m}, "none", "queued")
    BY <1>1, StageOf, StageMove DEF EnqueueText, TypeInv, TypeOK
  <2>2. QED BY <1>1, <2>1 DEF EnqueueText, Promise!Next, Promise!Submit
<1>2. ASSUME UNCHANGED attempts,
             \A m \in Messages :
               \/ Stage(status'[m]) = Stage(status[m])
               \/ status[m] \in Waiting \cup {"CLAIMED"} /\ status'[m] = "CANCELLED"
      PROVE  Promise!Next
  <2> DEFINE S == {m \in Messages : /\ status[m] \in Waiting \cup {"CLAIMED"}
                                    /\ status'[m] = "CANCELLED"}
  <2>1. Promise!Move(S, "queued", "withdrawn")
    <3>1. \A m \in S : Stage(status[m]) = "queued" /\ Stage(status'[m]) = "withdrawn"
      BY <1>2, StageOf DEF Waiting
    <3>2. QED BY <1>2, <3>1, StageMove
  <2>2. QED BY <1>2, <2>1 DEF Promise!Next, Promise!Withdraw
<1>3. ASSUME NEW m \in Messages, CancelMessage(m) PROVE Promise!Next
  BY <1>2, <1>3 DEF CancelMessage, Waiting, TypeInv, TypeOK
<1>4. ASSUME NEW m \in Messages, NEW r \in {"SENT", "FAILED_FINAL"},
             ReconcileUnknown(m, r)
      PROVE  Promise!Next
  <2>1. Stage(r) \in {"delivered", "failed"}
    BY StageOf
  <2>2. Promise!Move({m}, "uncertain", Stage(r))
    BY <1>4, StageOf, StageMove DEF ReconcileUnknown, TypeInv, TypeOK
  <2>3. QED BY <1>4, <2>1, <2>2 DEF ReconcileUnknown, Promise!Next, Promise!Judge
<1>5. ASSUME NEW w \in Workers, RecoverExpiredLeases(w) PROVE Promise!Next
  <2> DEFINE S == {m \in Messages : status[m] = "SENDING" /\ status'[m] = "UNKNOWN"}
  <2>1. \A m \in Messages :
          \/ status'[m] = status[m]
          \/ status[m] = "CLAIMED" /\ status'[m] = "PENDING"
          \/ m \in S
    BY <1>5 DEF RecoverExpiredLeases, InFlight
  <2>2. Promise!Move(S, "trying", "uncertain")
    <3>1. \A m \in S : Stage(status[m]) = "trying" /\ Stage(status'[m]) = "uncertain"
      BY StageOf
    <3>2. \A m \in Messages \ S : Stage(status'[m]) = Stage(status[m])
      BY <2>1, StageOf
    <3>3. QED BY <3>1, <3>2, StageMove
  <2>3. QED BY <1>5, <2>2 DEF RecoverExpiredLeases, Promise!Next, Promise!Lose
<1>6. ASSUME NEW w \in Workers, NEW a \in Accounts, ClaimNext(w, a)
      PROVE  Promise!Next
  <2>1. \A m \in DueOf(a) : status[m] \in Waiting
    BY DEF DueOf
  <2>2. \A m \in Messages :
          \/ status'[m] = status[m]
          \/ status[m] \in Waiting /\ status'[m] \in {"CLAIMED", "CANCELLED"}
    BY <1>6, <2>1 DEF ClaimNext
  <2>3. \A m \in Messages :
          \/ Stage(status'[m]) = Stage(status[m])
          \/ status[m] \in Waiting \cup {"CLAIMED"} /\ status'[m] = "CANCELLED"
    BY <2>2, StageOf DEF Waiting
  <2>4. QED BY <1>2, <1>6, <2>3 DEF ClaimNext
<1>7. ASSUME NEW l \in Lanes, PrepareSend(l)
      PROVE  Promise!Next \/ UNCHANGED Promise!vars
  <2> DEFINE m == msg[l]
  <2>1. m \in Messages
    BY <1>7 DEF PrepareSend, TypeInv, PipelineOK, Busy
  <2>2. CASE UNCHANGED <<status, attempts>>
    BY <2>2, StageStays
  <2>3. ASSUME status[m] = "CLAIMED", UNCHANGED attempts,
               status' = [status EXCEPT ![m] = "CANCELLED"]
        PROVE  Promise!Next
    BY <1>2, <2>1, <2>3 DEF TypeInv, TypeOK
  <2>4. ASSUME status[m] = "CLAIMED", UNCHANGED attempts,
               status' = [status EXCEPT ![m] = "FAILED_RETRYABLE"]
        PROVE  UNCHANGED Promise!vars
    BY <2>1, <2>4, StageOf, StageStays DEF TypeInv, TypeOK
  <2>5. ASSUME status[m] = "CLAIMED", UNCHANGED attempts,
               status' = [status EXCEPT ![m] = "FAILED_FINAL"]
        PROVE  Promise!Next
    <3>1. Promise!Move({m}, "queued", "failed")
      BY <2>1, <2>5, StageOf, StageMove DEF TypeInv, TypeOK
    <3>2. QED BY <2>1, <2>5, <3>1 DEF Promise!Next, Promise!Refuse
  <2>6. ASSUME status[m] = "CLAIMED",
               status' = [status EXCEPT ![m] = "SENDING"],
               attempts' = [attempts EXCEPT ![m] = @ + 1]
        PROVE  Promise!Next
    <3>1. Promise!Move({m}, "queued", "trying")
      BY <2>1, <2>6, StageOf, StageMove DEF TypeInv, TypeOK
    <3>2. \A n \in Messages :
            Stage(status[n]) = "trying" => AccountOf[n] # AccountOf[m]
      <4>1. \A n \in Messages : Stage(status[n]) = "trying" => status[n] = "SENDING"
        BY StageOf DEF TypeInv, TypeOK, Statuses
      <4>2. QED BY <2>1, <2>6, <4>1 DEF OneInFlight, InFlight
    <3>3. attempts[m] < MaxAttempts
      BY <2>1, <2>6 DEF AttemptsInv
    <3>4. Promise!Try(m)
      BY <2>1, <2>6, <3>1, <3>2, <3>3 DEF Promise!Try
    <3>5. QED BY <2>1, <3>4 DEF Promise!Next
  <2>7. \A v \in Verdicts(l[2]) :
          v \in {"CANCELLED", "FAILED_RETRYABLE", "FAILED_FINAL", "SENDING"}
    BY LanePairs DEF Verdicts, TypeInv, TypeOK
  <2>8. QED
    BY <1>7, <2>2, <2>3, <2>4, <2>5, <2>6, <2>7 DEF PrepareSend
<1>8. ASSUME NEW l \in Lanes, FinishSend(l)
      PROVE  Promise!Next \/ UNCHANGED Promise!vars
  <2> DEFINE m == msg[l]
  <2>1. m \in Messages /\ UNCHANGED attempts
    BY <1>8 DEF FinishSend, TypeInv, PipelineOK, Busy
  <2>2. CASE status[m] # "SENDING"
    BY <1>8, <2>1, <2>2, StageStays DEF FinishSend
  <2>3. CASE status[m] = "SENDING"
    <3>1. /\ status'[m] = FinishStatus(m, answer[l])
          /\ \A n \in Messages : n # m => status'[n] = status[n]
      BY <1>8, <2>1, <2>3 DEF FinishSend, TypeInv, TypeOK
    <3>2. Promise!Move({m}, "trying", Stage(status'[m]))
      BY <2>1, <2>3, <3>1, StageOf, StageMove
    <3>3. CASE status'[m] \in {"SENT", "FAILED_FINAL"}
      <4>1. Stage(status'[m]) \in {"delivered", "failed"}
        BY <3>3, StageOf
      <4>2. QED BY <2>1, <3>2, <4>1 DEF Promise!Next, Promise!Settle
    <3>4. CASE status'[m] = "UNKNOWN"
      <4>1. Promise!Lose({m})
        BY <2>1, <3>2, <3>4, StageOf DEF Promise!Lose
      <4>2. QED BY <2>1, <4>1 DEF Promise!Next
    <3>5. CASE status'[m] = "FAILED_RETRYABLE"
      <4>1. attempts[m] < MaxAttempts
        BY <1>8, <3>1, <3>5
           DEF FinishSend, FinishStatus, Dispositions, TypeInv, PipelineOK
      <4>2. Promise!Requeue(m)
        BY <2>1, <3>2, <3>5, <4>1, StageOf DEF Promise!Requeue
      <4>3. QED BY <2>1, <4>2 DEF Promise!Next
    <3>6. QED BY <1>8, <3>1, <3>3, <3>4, <3>5, FinishStatusRange
  <2>4. QED BY <2>2, <2>3
<1>9. ASSUME UNCHANGED <<status, attempts>> PROVE UNCHANGED Promise!vars
  BY <1>9, StageStays
<1>10. ASSUME NEW l \in Lanes,
              RespectRateLimit(l) \/ WaitForDeployment(l) \/ PostText(l)
       PROVE  UNCHANGED Promise!vars
  BY <1>9, <1>10 DEF RespectRateLimit, WaitForDeployment, PostText
<1>11. CASE Operators
  BY <1>1, <1>3, <1>4, <1>9, <1>11
     DEF Operators, ChangeReadiness, BeginDeactivation, EndDeactivation
<1>12. ASSUME NEW w \in Workers, RunOnce(w)
       PROVE  Promise!Next \/ UNCHANGED Promise!vars
  BY <1>5, <1>9, <1>12 DEF RunOnce, ScanDueAccounts, EndBatch
<1>13. ASSUME NEW w \in Workers, NEW a \in Accounts, ProcessAccount(w, a)
       PROVE  Promise!Next \/ UNCHANGED Promise!vars
  BY <1>6, <1>7, <1>8, <1>10, <1>13, LanesAre DEF ProcessAccount
<1>14. CASE Environment
  BY <1>9, <1>14
     DEF Environment, TimePasses, ProviderSettles, Crash, PipelineError,
         DeactivationFails
<1>15. CASE UNCHANGED vars
  BY <1>9, <1>15 DEF vars
<1>16. QED BY <1>11, <1>12, <1>13, <1>14, <1>15 DEF Next

\* The outbox implements the courier: messages of an account are tried one at
\* a time, each at most MaxAttempts times, and never again once settled or
\* uncertain, whatever workers claim, stall, fail or crash.
THEOREM OutboxRefinesCourier == Spec => ImplementsCourier
<1>1. Init => Promise!Init
  BY StageOf DEF Init, Promise!Init
<1>2. TypeInv /\ OneInFlight /\ AttemptsInv /\ [Next]_vars
        => [Promise!Next]_Promise!vars
  BY CourierStep
<1>3. QED
  BY <1>1, <1>2, TypeInvariant, SerialClaims, AttemptsInvariant, PTL
     DEF Spec, ImplementsCourier, Promise!Spec

-----------------------------------------------------------------------------
(* Workers that end within their leases *)

LEMMA TimelyFrame ==
  ASSUME TypeInv, TimelyInv, Fewer,
         \A l \in Lanes : Busy(l) /\ Busy(l)' =>
           /\ \/ status'[msg[l]] = status[msg[l]]
              \/ status[msg[l]] = "CLAIMED" /\ status'[msg[l]] = "CANCELLED"
           /\ due'[msg[l]] => due[msg[l]]
  PROVE  TimelyInv'
<1>1. \A l \in Lanes : Busy(l)' =>
        /\ Busy(l)
        /\ pc'[l] = pc[l] /\ msg'[l] = msg[l]
  BY DEF Fewer, Busy
<1>2. SoleHolder'
  BY <1>1 DEF TimelyInv, SoleHolder
<1>3. LeaseHeld'
  <2> SUFFICES ASSUME NEW l \in Lanes, Busy(l)'
               PROVE  /\ pc'[l] \in {"claimed", "prepare", "waiting"} =>
                           \/ status'[msg'[l]] = "CANCELLED"
                           \/ status'[msg'[l]] = "CLAIMED" /\ ~due'[msg'[l]]
                      /\ pc'[l] \in {"send", "finish"} =>
                           status'[msg'[l]] = "SENDING" /\ ~due'[msg'[l]]
    BY DEF LeaseHeld, Launched, Busy
  <2>1. pc'[l] = pc[l] /\ msg'[l] = msg[l] /\ Busy(l)
    BY <1>1
  <2>2. /\ \/ status'[msg[l]] = status[msg[l]]
           \/ status[msg[l]] = "CLAIMED" /\ status'[msg[l]] = "CANCELLED"
        /\ due'[msg[l]] => due[msg[l]]
    BY <2>1
  <2>3. CASE pc[l] \in {"claimed", "prepare", "waiting"}
    BY <2>1, <2>2, <2>3 DEF TimelyInv, LeaseHeld
  <2>4. CASE pc[l] \in {"send", "finish"}
    BY <2>1, <2>2, <2>4 DEF TimelyInv, LeaseHeld, Launched
  <2>5. QED BY <2>1, <2>3, <2>4 DEF Busy, TypeInv, TypeOK
<1>4. QED BY <1>2, <1>3 DEF TimelyInv

\* What a pipeline that goes on leaves to the others.
LEMMA TimelyGoto ==
  ASSUME TypeInv, TimelyInv, NEW l \in Lanes, Busy(l), UNCHANGED msg,
         NEW m, m = msg[l],
         pc'[l] \in {"prepare", "waiting", "send", "finish"},
         \A k \in Lanes : k # l => pc'[k] = pc[k],
         \A n \in Messages : n # m => status'[n] = status[n] /\ due'[n] = due[n],
         pc'[l] \in {"prepare", "waiting"} =>
           \/ status'[m] = "CANCELLED"
           \/ status'[m] = "CLAIMED" /\ ~due'[m],
         pc'[l] \in {"send", "finish"} => status'[m] = "SENDING" /\ ~due'[m]
  PROVE  TimelyInv'
<1>1. SoleHolder'
  BY DEF TimelyInv, SoleHolder, Busy
<1>2. \A k \in Lanes : k # l /\ Busy(k) => msg[k] \in Messages /\ msg[k] # m
  BY DEF TimelyInv, SoleHolder, TypeInv, PipelineOK
<1>3. LeaseHeld'
  BY <1>2 DEF TimelyInv, LeaseHeld, Launched, Busy
<1>4. QED BY <1>1, <1>3 DEF TimelyInv

\* A pipeline ends: whatever it did to its row, no other one has it.
LEMMA TimelyEnd ==
  ASSUME TypeInv, TimelyInv, NEW l \in Lanes, Busy(l), End(l),
         \A n \in Messages : n # msg[l] => status'[n] = status[n] /\ due'[n] = due[n]
  PROVE  TimelyInv'
<1>1. Fewer
  BY EndFewer
<1>2. \A k \in Lanes : Busy(k) /\ Busy(k)' => k # l
  BY DEF End, Busy, TypeInv, TypeOK
<1>3. \A k \in Lanes : Busy(k) /\ k # l => msg[k] \in Messages /\ msg[k] # msg[l]
  BY DEF TimelyInv, SoleHolder, TypeInv, PipelineOK
<1>4. QED BY <1>1, <1>2, <1>3, TimelyFrame

LEMMA TimelyClaim ==
  ASSUME TypeInv, TimelyInv, NEW w \in Workers, NEW a \in Accounts,
         ClaimNext(w, a)
  PROVE  TimelyInv'
<1> DEFINE l == <<w, a>>
<1>1. \A m \in DueOf(a) : status[m] \in Waiting /\ m \in Messages
  BY DEF DueOf, RowsOf
<1>2. \A k \in Lanes : Busy(k) => status[msg[k]] \notin Waiting /\ msg[k] \in Messages
  BY DEF TimelyInv, LeaseHeld, Launched, Waiting, Busy, TypeInv, TypeOK, PipelineOK
<1>3. CASE UNCHANGED laneVars /\ UNCHANGED due
  <2>1. \A k \in Lanes : Busy(k) => status'[msg[k]] = status[msg[k]]
    BY <1>1, <1>2, <1>3 DEF ClaimNext, laneVars
  <2>2. QED BY <1>3, <2>1, SameFewer, TimelyFrame
<1>4. ASSUME NEW expired \in SUBSET (DueOf(a) \cap Expiring),
             NEW first \in DueOf(a) \ expired,
             status' = [m \in Messages |->
                          IF m \in expired /\ m < first THEN "CANCELLED"
                          ELSE IF m = first THEN "CLAIMED"
                          ELSE status[m]],
             due' = [due EXCEPT ![first] = FALSE],
             pc' = [pc EXCEPT ![l] = "claimed"],
             msg' = [msg EXCEPT ![l] = first]
      PROVE  TimelyInv'
  <2>1. l \in Lanes
    BY LanesAre
  <2>2. \A k \in Lanes : Busy(k) =>
          /\ msg[k] # first
          /\ status'[msg[k]] = status[msg[k]]
          /\ due'[msg[k]] = due[msg[k]]
    BY <1>1, <1>2, <1>4 DEF TypeInv, TypeOK
  <2>3. \A k \in Lanes : k # l => pc'[k] = pc[k] /\ msg'[k] = msg[k]
    BY <1>4 DEF TypeInv, TypeOK
  <2>4. pc'[l] = "claimed" /\ msg'[l] = first
    BY <1>4, <2>1 DEF TypeInv, TypeOK
  <2>5. status'[first] = "CLAIMED" /\ ~due'[first]
    BY <1>1, <1>4 DEF TypeInv, TypeOK
  <2>6. SoleHolder'
    BY <2>1, <2>2, <2>3, <2>4 DEF TimelyInv, SoleHolder, Busy
  <2>7. LeaseHeld'
    BY <2>1, <2>2, <2>3, <2>4, <2>5 DEF TimelyInv, LeaseHeld, Launched, Busy
  <2>8. QED BY <2>6, <2>7 DEF TimelyInv
<1>5. QED BY <1>3, <1>4 DEF ClaimNext

LEMMA TimelyPrepare ==
  ASSUME TypeInv, TimelyInv, NEW l \in Lanes, PrepareSend(l)
  PROVE  TimelyInv'
<1> DEFINE m == msg[l]
<1>1. Busy(l) /\ m \in Messages
  BY DEF PrepareSend, Busy, TypeInv, PipelineOK
<1>2. \A n \in Messages : n # m => status'[n] = status[n] /\ due'[n] = due[n]
  BY <1>1 DEF PrepareSend, TypeInv, TypeOK
<1>3. CASE End(l)
  BY <1>1, <1>2, <1>3, TimelyEnd
<1>4. CASE /\ Goto(l, "send")
           /\ status' = [status EXCEPT ![m] = "SENDING"]
           /\ due' = [due EXCEPT ![m] = FALSE]
  <2>1. status'[m] = "SENDING" /\ ~due'[m]
    BY <1>1, <1>4 DEF TypeInv, TypeOK
  <2>2. UNCHANGED msg /\ pc'[l] = "send" /\ \A k \in Lanes : k # l => pc'[k] = pc[k]
    BY <1>4 DEF Goto, TypeInv, TypeOK
  <2>3. QED BY <1>1, <1>2, <2>1, <2>2, TimelyGoto
<1>5. QED BY <1>3, <1>4 DEF PrepareSend

LEMMA TimelyStep ==
  ASSUME TypeInv, TimelyInv, [Next]_vars, ~overrun'
  PROVE  TimelyInv'
<1> USE DEF rowVars
<1>1. ASSUME UNCHANGED <<status, due>>, Fewer PROVE TimelyInv'
  BY <1>1, TimelyFrame
<1>2. ASSUME NEW m \in Messages,
             \/ EnqueueText(m)
             \/ CancelMessage(m)
             \/ \E r \in {"SENT", "FAILED_FINAL"} : ReconcileUnknown(m, r)
      PROVE  TimelyInv'
  <2>1. \A k \in Lanes : Busy(k) =>
          msg[k] \in Messages /\ status[msg[k]] \in {"CANCELLED", "CLAIMED", "SENDING"}
    BY DEF TimelyInv, LeaseHeld, Launched, Busy, TypeInv, TypeOK, PipelineOK
  <2>2. /\ \A n \in Messages : status'[n] # status[n] =>
             \/ status[n] \in {"ABSENT", "UNKNOWN", "PENDING", "FAILED_RETRYABLE"}
             \/ status[n] = "CLAIMED" /\ status'[n] = "CANCELLED"
        /\ \A n \in Messages : due'[n] # due[n] => status[n] = "ABSENT"
        /\ UNCHANGED laneVars
    BY <1>2 DEF EnqueueText, CancelMessage, ReconcileUnknown, TypeInv, TypeOK
  <2>3. QED BY <2>1, <2>2, SameFewer, TimelyFrame
<1>3. ASSUME NEW w \in Workers, RecoverExpiredLeases(w) PROVE TimelyInv'
  <2>1. \A k \in Lanes : Busy(k) =>
          msg[k] \in Messages /\ (status[msg[k]] = "CANCELLED" \/ ~due[msg[k]])
    BY DEF TimelyInv, LeaseHeld, Launched, Busy, TypeInv, TypeOK, PipelineOK
  <2>2. /\ \A n \in Messages : status'[n] # status[n] => status[n] \in InFlight /\ due[n]
        /\ UNCHANGED <<due, laneVars>>
    BY <1>3 DEF RecoverExpiredLeases
  <2>3. QED BY <2>1, <2>2, SameFewer, TimelyFrame DEF InFlight
<1>4. ASSUME NEW l \in Lanes, RespectRateLimit(l) PROVE TimelyInv'
  <2>1. Busy(l) /\ msg[l] \in Messages
    BY <1>4 DEF RespectRateLimit, Busy, TypeInv, PipelineOK
  <2>2. /\ msg' = msg /\ status' = status /\ pc'[l] = "prepare"
        /\ \A k \in Lanes : k # l => pc'[k] = pc[k]
    BY <1>4 DEF RespectRateLimit, Goto, TypeInv, TypeOK
  <2>3. /\ \A n \in Messages : n # msg[l] => due'[n] = due[n]
        /\ due'[msg[l]] => due[msg[l]]
    <3>1. CASE UNCHANGED due
      BY <3>1
    <3>2. CASE due' = [due EXCEPT ![msg[l]] = FALSE]
      BY <2>1, <3>2 DEF TypeInv, TypeOK
    <3>3. QED BY <1>4, <3>1, <3>2 DEF RespectRateLimit
  <2>4. \/ status[msg[l]] = "CANCELLED"
        \/ status[msg[l]] = "CLAIMED" /\ ~due[msg[l]]
    BY <1>4 DEF RespectRateLimit, TimelyInv, LeaseHeld
  <2>5. \/ status'[msg[l]] = "CANCELLED"
        \/ status'[msg[l]] = "CLAIMED" /\ ~due'[msg[l]]
    BY <2>2, <2>3, <2>4
  <2>6. \A n \in Messages : n # msg[l] => status'[n] = status[n] /\ due'[n] = due[n]
    BY <2>2, <2>3
  <2>7. QED BY <2>1, <2>2, <2>5, <2>6, TimelyGoto
<1>5. ASSUME NEW l \in Lanes, WaitForDeployment(l) PROVE TimelyInv'
  <2>1. Busy(l)
    BY <1>5 DEF WaitForDeployment, Busy
  <2>2. /\ UNCHANGED <<msg, status, due>> /\ pc'[l] = "waiting"
        /\ \A k \in Lanes : k # l => pc'[k] = pc[k]
    BY <1>5 DEF WaitForDeployment, Goto, TypeInv, TypeOK
  <2>3. \/ status[msg[l]] = "CANCELLED"
        \/ status[msg[l]] = "CLAIMED" /\ ~due[msg[l]]
    BY <1>5 DEF WaitForDeployment, TimelyInv, LeaseHeld
  <2>4. QED BY <2>1, <2>2, <2>3, TimelyGoto
<1>6. ASSUME NEW l \in Lanes, PostText(l) PROVE TimelyInv'
  <2>1. Busy(l)
    BY <1>6 DEF PostText, Busy
  <2>2. /\ UNCHANGED <<msg, status, due>> /\ pc'[l] = "finish"
        /\ \A k \in Lanes : k # l => pc'[k] = pc[k]
    BY <1>6 DEF PostText, TypeInv, TypeOK
  <2>3. status[msg[l]] = "SENDING" /\ ~due[msg[l]]
    BY <1>6 DEF PostText, TimelyInv, LeaseHeld, Launched
  <2>4. QED BY <2>1, <2>2, <2>3, TimelyGoto
<1>7. ASSUME NEW l \in Lanes, FinishSend(l) PROVE TimelyInv'
  <2>1. Busy(l)
    BY <1>7 DEF FinishSend, Busy
  <2>2. \A n \in Messages : n # msg[l] => status'[n] = status[n] /\ due'[n] = due[n]
    BY <1>7 DEF FinishSend, TypeInv, TypeOK
  <2>3. QED BY <1>7, <2>1, <2>2, TimelyEnd DEF FinishSend
<1>8. ASSUME NEW w \in Workers, NEW a \in Accounts, PipelineError(w, a)
      PROVE  TimelyInv'
  BY <1>1, <1>8, LanesAre, EndFewer, SameFewer DEF PipelineError
<1>9. ASSUME NEW w \in Workers, Crash(w) PROVE TimelyInv'
  <2>1. Fewer
    BY <1>9 DEF Crash, Fewer, TypeInv, TypeOK
  <2>2. QED BY <1>1, <1>9, <2>1 DEF Crash
<1>10. ASSUME NEW m \in Messages, TimePasses(m) PROVE TimelyInv'
  <2>1. /\ UNCHANGED <<status, laneVars>>
        /\ \A n \in Messages : n # m => due'[n] = due[n]
        /\ status[m] = "FAILED_RETRYABLE" \/ ~Held(m)
    BY <1>10 DEF TimePasses, TypeInv, TypeOK
  <2>2. \A k \in Lanes : Busy(k) => msg[k] \in Messages /\ msg[k] # m
    BY <2>1
       DEF Held, TimelyInv, LeaseHeld, Launched, Busy, TypeInv, TypeOK, PipelineOK
  <2>3. QED BY <2>1, <2>2, SameFewer, TimelyFrame
<1>11. ASSUME UNCHANGED <<status, due, laneVars>> PROVE TimelyInv'
  BY <1>1, <1>11, SameFewer
<1>12. CASE Operators
  BY <1>2, <1>11, <1>12
     DEF Operators, ChangeReadiness, BeginDeactivation, EndDeactivation
<1>13. ASSUME NEW w \in Workers, RunOnce(w) PROVE TimelyInv'
  BY <1>3, <1>11, <1>13 DEF RunOnce, ScanDueAccounts, EndBatch
<1>14. ASSUME NEW w \in Workers, NEW a \in Accounts, ProcessAccount(w, a)
       PROVE  TimelyInv'
  BY <1>4, <1>5, <1>6, <1>7, <1>14, LanesAre, TimelyClaim, TimelyPrepare
     DEF ProcessAccount
<1>15. CASE Environment
  BY <1>8, <1>9, <1>10, <1>11, <1>15
     DEF Environment, ProviderSettles, DeactivationFails
<1>16. CASE UNCHANGED vars
  BY <1>11, <1>16 DEF vars, laneVars
<1>17. QED BY <1>12, <1>13, <1>14, <1>15, <1>16 DEF Next

\* What has happened has happened: only the clock writes overrun.
LEMMA OverrunStays ==
  ASSUME TypeInv, [Next]_vars, ~overrun'
  PROVE  ~overrun
<1> USE DEF worldVars
<1>1. ASSUME NEW m \in Messages, TimePasses(m) PROVE ~overrun
  BY <1>1, Zenon DEF TimePasses
<1>2. ASSUME Operators PROVE ~overrun
  BY <1>2 DEF Operators, EnqueueText, CancelMessage, ReconcileUnknown, ChangeReadiness,
              BeginDeactivation, EndDeactivation
<1>3. ASSUME NEW w \in Workers, RunOnce(w) PROVE ~overrun
  BY <1>3 DEF RunOnce, RecoverExpiredLeases, ScanDueAccounts, EndBatch
<1>4. ASSUME NEW w \in Workers, NEW a \in Accounts, ProcessAccount(w, a) PROVE ~overrun
  BY <1>4 DEF ProcessAccount, ClaimNext, RespectRateLimit, WaitForDeployment, PrepareSend,
              PostText, FinishSend
<1>5. ASSUME Environment PROVE ~overrun
  BY <1>1, <1>5 DEF Environment, ProviderSettles, Crash, PipelineError, DeactivationFails
<1>6. CASE UNCHANGED vars
  BY <1>6 DEF vars
<1>7. QED BY <1>2, <1>3, <1>4, <1>5, <1>6 DEF Next

Timely == ~overrun => TimelyInv

LEMMA TimelyInvariant == Spec => []Timely
<1>1. Init => Timely
  BY DEF Init, Timely, TimelyInv, LeaseHeld, SoleHolder, Launched, Busy
<1>2. TypeInv /\ Timely /\ [Next]_vars => Timely'
  BY TimelyStep, OverrunStays DEF Timely
<1>3. QED BY <1>1, <1>2, TypeInvariant, PTL DEF Spec

\* As long as every pipeline has ended within its lease, two requests of one account are
\* never out at the same time, from any number of workers.
THEOREM SerialWhenTimely == Spec => []SerialSends
<1>1. TypeInv /\ OneInFlight /\ Timely => SerialSends
  <2> SUFFICES ASSUME TypeInv, OneInFlight, TimelyInv,
                      NEW k \in Lanes, NEW l \in Lanes, k[2] = l[2],
                      pc[k] = "send", pc[l] = "send"
               PROVE  k = l
    BY DEF SerialSends, Timely
  <2>1. /\ msg[k] \in Messages /\ AccountOf[msg[k]] = k[2]
        /\ msg[l] \in Messages /\ AccountOf[msg[l]] = l[2]
    BY DEF TypeInv, PipelineOK, Busy
  <2>2. status[msg[k]] = "SENDING" /\ status[msg[l]] = "SENDING"
    BY DEF TimelyInv, LeaseHeld, Launched
  <2>3. msg[k] = msg[l]
    BY <2>1, <2>2 DEF OneInFlight, InFlight
  <2>4. QED BY <2>3 DEF TimelyInv, SoleHolder, Busy
<1>2. QED BY <1>1, TypeInvariant, SerialClaims, TimelyInvariant, PTL

\* On the same condition every answer finds its row still SENDING and is recorded.
THEOREM AnswersKept == Spec => []AnswerRecorded
<1>1. Timely => AnswerRecorded
  BY DEF Timely, TimelyInv, LeaseHeld, Launched, AnswerRecorded
<1>2. QED BY <1>1, TimelyInvariant, PTL
=============================================================================
