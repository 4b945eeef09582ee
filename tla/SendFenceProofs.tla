--------------------------- MODULE SendFenceProofs --------------------------
(***************************************************************************)
(* Proofs about SendFence, for any number of senders and of concurrent     *)
(* administrative transactions of any kind.                                *)
(***************************************************************************)
EXTENDS SendFence, TLAPS

-----------------------------------------------------------------------------
(* Types *)

LEMMA PlanLocks ==
  ASSUME NEW t \in Admins
  PROVE  /\ Len(LocksOf(t)) \in 1..2
         /\ \A k \in 1..Len(LocksOf(t)) : LocksOf(t)[k] \in Locks
         /\ \E k \in 1..Len(LocksOf(t)) : LocksOf(t)[k] = "fence"
<1>1. CASE Op[t] = "activate"
  BY <1>1 DEF LocksOf, Plan, Locks
<1>2. CASE Op[t] = "deactivate"
  BY <1>2 DEF LocksOf, Plan, Locks
<1>3. CASE Op[t] = "deny"
  BY <1>3 DEF LocksOf, Plan, Locks
<1>4. CASE Op[t] = "disable"
  BY <1>4 DEF LocksOf, Plan, Locks
<1>5. QED BY <1>1, <1>2, <1>3, <1>4, FenceAssumption

TypeInv ==
  /\ TypeOK
  /\ \A t \in Admins : got[t] <= Len(LocksOf(t))

LEMMA TypeStep == TypeInv /\ [Next]_vars => TypeInv'
<1> SUFFICES ASSUME TypeInv, [Next]_vars PROVE TypeInv'
  OBVIOUS
<1> USE DEF TypeInv, TypeOK, grantVars, Pass, Take, Release, Refuse
<1>1. ASSUME NEW s \in Senders, Sender(s) PROVE TypeInv'
  <2>1. CASE TakeFence(s)
    BY <2>1 DEF TakeFence, Locks, LocksOf
  <2>2. CASE LockRows(s)
    BY <2>2 DEF LockRows, Locks, LocksOf
  <2>3. CASE LockDeployment(s)
    BY <2>3 DEF LockDeployment, Locks, LocksOf
  <2>4. CASE Authorize(s)
    BY <2>4 DEF Authorize, Locks, LocksOf
  <2>5. CASE Send(s)
    BY <2>5 DEF Send, Locks, LocksOf
  <2>6. QED BY <1>1, <2>1, <2>2, <2>3, <2>4, <2>5 DEF Sender
<1>2. ASSUME NEW t \in Admins, Admin(t) PROVE TypeInv'
  <2>1. CASE Acquire(t)
    <3>1. /\ NextLock(t) \in Locks
          /\ got[t] + 1 <= Len(LocksOf(t))
          /\ got[t] + 1 \in 0..2
      <4>1. Len(LocksOf(t)) \in 1..2 /\ got[t] \in 0..2 /\ got[t] <= Len(LocksOf(t))
        BY PlanLocks
      <4>2. got[t] # Len(LocksOf(t))
        BY <2>1 DEF Acquire, Complete
      <4>3. got[t] + 1 \in 1..Len(LocksOf(t)) /\ got[t] + 1 \in 0..2
        <5> DEFINE n == Len(LocksOf(t))
                   g == got[t]
        <5>1. n \in 1..2 /\ g \in 0..2 /\ g <= n /\ g # n
          BY <4>1, <4>2
        <5> HIDE DEF n, g
        <5>2. g + 1 \in 1..n /\ g + 1 \in 0..2
          BY <5>1
        <5>3. QED BY <5>2 DEF n, g
      <4>4. NextLock(t) \in Locks
        BY <4>3, PlanLocks DEF NextLock
      <4>5. QED BY <4>1, <4>3, <4>4
    <3>2. /\ got' \in [Admins -> 0..2]
          /\ \A u \in Admins : got'[u] <= Len(LocksOf(u))
      <4>1. \A u \in Admins : got'[u] = IF u = t THEN got[t] + 1 ELSE got[u]
        BY <2>1 DEF Acquire
      <4>2. got' = [u \in Admins |-> got'[u]]
        BY <2>1 DEF Acquire
      <4>3. QED BY <3>1, <4>1, <4>2
    <3>3. owner' \in [Locks -> SUBSET (Senders \cup Admins)]
      BY <2>1, <3>1 DEF Acquire
    <3>4. QED BY <2>1, <3>2, <3>3 DEF Acquire, LocksOf
  <2>2. CASE Commit(t)
    BY <2>2 DEF Commit, Activated, Deactivated, Denied, Disabled, LocksOf
  <2>3. CASE AbortVictim(t)
    BY <2>3 DEF AbortVictim, LocksOf
  <2>4. QED BY <1>2, <2>1, <2>2, <2>3 DEF Admin
<1>3. CASE UNCHANGED vars
  BY <1>3 DEF vars, LocksOf
<1>4. QED BY <1>1, <1>2, <1>3 DEF Next

LEMMA TypeInvariant == Spec => []TypeInv
<1>1. Init => TypeInv
  <2> SUFFICES ASSUME Init PROVE TypeInv
    OBVIOUS
  <2>1. \A t \in Admins : got[t] <= Len(LocksOf(t))
    BY PlanLocks DEF Init
  <2>2. QED BY <2>1 DEF Init, TypeInv, TypeOK, Locks
<1>2. QED BY <1>1, TypeStep, PTL DEF Spec

\* Every lock is held by senders and administrative transactions only, and no
\* transaction takes more locks than its plan names.
THEOREM TypeCorrect == Spec => []TypeOK
BY TypeInvariant, PTL DEF TypeInv

-----------------------------------------------------------------------------
(* The fence.  Whoever passed a check still holds the fence it was made     *)
(* under, and a transaction that may commit holds it alone.                 *)

Fenced(s) == step[s] \in {"fenced", "rows", "checked", "send"}

HasFence(t) == \E k \in 1..got[t] : LocksOf(t)[k] = "fence"

FenceInv ==
  /\ \A s \in Senders : Fenced(s) => s \in owner["fence"]
  /\ \A t \in Admins : stage[t] = "open" /\ HasFence(t) => owner["fence"] = {t}
  /\ \A s \in Senders :
       /\ step[s] \in {"rows", "checked", "send"} => enabled
       /\ step[s] \in {"checked", "send"} => revision = "r1"
       /\ step[s] = "send" => allowed

LEMMA SenderKeepsFence ==
  ASSUME TypeInv, FenceInv, NEW s \in Senders, Sender(s)
  PROVE  FenceInv'
<1> USE DEF TypeInv, TypeOK, grantVars, Pass
<1>1. s \notin Admins
  BY FenceAssumption
<1>2. UNCHANGED <<revision, allowed, enabled, got, stage>>
  BY DEF Sender, TakeFence, LockRows, LockDeployment, Authorize, Send
<1>3. \A t \in Admins : HasFence(t)' <=> HasFence(t)
  BY <1>2 DEF HasFence, LocksOf
<1>4. \A u \in Senders : u # s => step'[u] = step[u]
  BY DEF Sender, TakeFence, LockRows, LockDeployment, Authorize, Send, Refuse
<1>5. \A x : x # s => (x \in owner'["fence"] <=> x \in owner["fence"])
  BY DEF Sender, TakeFence, LockRows, LockDeployment, Authorize, Send, Refuse,
         Take, Release, Locks
<1>6. /\ Fenced(s)' => s \in owner'["fence"]
      /\ step'[s] \in {"rows", "checked", "send"} => enabled
      /\ step'[s] \in {"checked", "send"} => revision = "r1"
      /\ step'[s] = "send" => allowed
  <2>1. CASE TakeFence(s)
    BY <2>1 DEF TakeFence, Fenced, Take, Locks
  <2>2. CASE LockRows(s)
    BY <2>2 DEF LockRows, Fenced, Take, Refuse, Locks, FenceInv
  <2>3. CASE LockDeployment(s)
    BY <2>3 DEF LockDeployment, Fenced, Take, Refuse, Locks, FenceInv
  <2>4. CASE Authorize(s)
    BY <2>4 DEF Authorize, Fenced, Release, Refuse, Locks, FenceInv
  <2>5. CASE Send(s)
    BY <2>5 DEF Send, Fenced
  <2>6. QED BY <2>1, <2>2, <2>3, <2>4, <2>5 DEF Sender
<1>7. ASSUME NEW t \in Admins, stage[t] = "open", HasFence(t)
      PROVE  owner'["fence"] = {t}
  <2>1. owner["fence"] = {t}
    BY <1>7 DEF FenceInv
  <2>2. s \notin owner'["fence"]
    <3>1. ~TakeFence(s)
      BY <2>1 DEF TakeFence, Shareable
    <3>2. s \notin owner["fence"]
      BY <1>1, <2>1
    <3>3. QED
      BY <3>1, <3>2
         DEF Sender, LockRows, LockDeployment, Authorize, Send, Refuse, Take,
             Release, Locks
  <2>3. QED BY <1>5, <2>1, <2>2, <1>1
<1>8. QED
  BY <1>2, <1>3, <1>4, <1>5, <1>6, <1>7 DEF FenceInv, Fenced

LEMMA AdminKeepsFence ==
  ASSUME TypeInv, FenceInv, NEW t \in Admins, Admin(t)
  PROVE  FenceInv'
<1> USE DEF TypeInv, TypeOK, grantVars
<1>1. t \notin Senders
  BY FenceAssumption
<1>2. CASE Acquire(t)
  <2>1. UNCHANGED <<revision, allowed, enabled, step, stage>>
    BY <1>2 DEF Acquire
  <2>2. NextLock(t) \in Locks
    BY <1>2, PlanLocks DEF Acquire, Complete, NextLock
  <2>3. \A u \in Admins : u # t => (HasFence(u)' <=> HasFence(u))
    BY <1>2 DEF Acquire, HasFence, LocksOf
  <2>4. CASE NextLock(t) = "fence"
    <3>1. owner["fence"] = {} /\ owner'["fence"] = {t}
      BY <1>2, <2>4 DEF Acquire, Free, Take, Locks
    <3>2. \A s \in Senders : ~Fenced(s)
      BY <3>1 DEF FenceInv
    <3>3. \A u \in Admins : u # t => ~(stage[u] = "open" /\ HasFence(u))
      BY <3>1 DEF FenceInv
    <3>4. QED BY <2>1, <2>3, <3>1, <3>2, <3>3 DEF FenceInv, Fenced
  <2>5. CASE NextLock(t) # "fence"
    <3>1. owner'["fence"] = owner["fence"]
      BY <1>2, <2>5 DEF Acquire, Take, Locks
    <3>2. HasFence(t)' => HasFence(t)
      BY <1>2, <2>5 DEF Acquire, HasFence, NextLock, LocksOf
    <3>3. QED BY <2>1, <2>3, <3>1, <3>2 DEF FenceInv, Fenced
  <2>6. QED BY <2>4, <2>5
<1>3. ASSUME Release(t, Locks), stage' = [stage EXCEPT ![t] = "done"],
             UNCHANGED <<step, got>>
      PROVE  /\ \A s \in Senders : Fenced(s)' => s \in owner'["fence"]
             /\ \A u \in Admins : (stage[u] = "open" /\ HasFence(u))' => owner'["fence"] = {u}
  <2>1. owner'["fence"] = owner["fence"] \ {t}
    BY <1>3 DEF Release, Locks
  <2>2. \A u \in Admins : (stage[u] = "open" /\ HasFence(u))' =>
          u # t /\ stage[u] = "open" /\ HasFence(u)
    BY <1>3 DEF HasFence, LocksOf
  <2>3. QED BY <1>1, <1>3, <2>1, <2>2 DEF FenceInv, Fenced
<1>4. CASE Commit(t)
  <2>1. HasFence(t)
    BY <1>4, PlanLocks DEF Commit, Complete, HasFence
  <2>2. \A s \in Senders : ~Fenced(s)
    BY <1>1, <1>4, <2>1 DEF Commit, FenceInv
  <2>3. step' = step
    BY <1>4 DEF Commit
  <2>4. QED BY <1>3, <1>4, <2>2, <2>3 DEF Commit, FenceInv, Fenced
<1>5. CASE AbortVictim(t)
  BY <1>3, <1>5 DEF AbortVictim, FenceInv
<1>6. QED BY <1>2, <1>4, <1>5 DEF Admin

\* What a sender was authorized by stays in force until its answer is
\* recorded, whichever rules, revisions, accounts or connections are changed
\* meanwhile.
THEOREM AuthorizationIsFenced == Spec => []FencedAuthorization
<1>1. Init => FenceInv
  BY DEF Init, FenceInv, Fenced, HasFence
<1>2. TypeInv /\ FenceInv /\ [Next]_vars => FenceInv'
  <2> SUFFICES ASSUME TypeInv, FenceInv, [Next]_vars PROVE FenceInv'
    OBVIOUS
  <2>1. CASE UNCHANGED vars
    BY <2>1 DEF vars, FenceInv, Fenced, HasFence, LocksOf
  <2>2. QED BY <2>1, SenderKeepsFence, AdminKeepsFence DEF Next
<1>3. FenceInv => FencedAuthorization
  BY DEF FenceInv, FencedAuthorization
<1>4. QED BY <1>1, <1>2, <1>3, TypeInvariant, PTL DEF Spec
-----------------------------------------------------------------------------
(* Waiting.  Who has a lock, and in which order locks are taken.            *)

Taken(t, k) == \E i \in 1..got[t] : LocksOf(t)[i] = k

HoldInv ==
  /\ TypeInv /\ FenceInv
  /\ \A s \in Senders :
       /\ s \in owner["fence"] => Fenced(s)
       /\ s \in owner["rows"] => step[s] \in {"rows", "checked"}
       /\ s \in owner["deployment"] => step[s] = "checked"
  /\ \A t \in Admins, k \in Locks :
       t \in owner[k] <=> stage[t] = "open" /\ Taken(t, k)

\* What each transaction locks
LEMMA PlanIs ==
  ASSUME NEW t \in Admins
  PROVE  /\ Op[t] \in {"activate", "deactivate", "deny", "disable"}
         /\ Op[t] = "activate" => LocksOf(t) = <<"fence", "deployment">>
         /\ Op[t] = "deactivate" => LocksOf(t) = <<"deployment", "fence">>
         /\ Op[t] = "deny" => LocksOf(t) = <<"fence">>
         /\ Op[t] = "disable" => LocksOf(t) = <<"fence", "rows">>
BY FenceAssumption DEF LocksOf, Plan

\* How far each transaction can be
LEMMA GotIs ==
  ASSUME NEW t \in Admins, got[t] \in 0..2, got[t] <= Len(LocksOf(t))
  PROVE  /\ Op[t] = "deny" => got[t] \in 0..1 /\ (got[t] = 1 => Complete(t))
         /\ got[t] = 2 => Complete(t)
         /\ got[t] = 0 => NextLock(t) = LocksOf(t)[1]
         /\ got[t] = 1 => NextLock(t) = LocksOf(t)[2]
<1> DEFINE n == Len(LocksOf(t))
<1>1. n \in 1..2 /\ (Op[t] = "deny" => n = 1)
  <2>1. CASE Op[t] = "deny"
    BY <2>1, PlanIs
  <2>2. CASE Op[t] # "deny"
    BY <2>2, PlanIs
  <2> QED BY <2>1, <2>2
<1>2. Complete(t) <=> got[t] = n
  BY DEF Complete
<1>3. NextLock(t) = LocksOf(t)[got[t] + 1]
  BY DEF NextLock
<1> HIDE DEF n
<1>4. got[t] <= n
  BY DEF n
<1> QED BY <1>1, <1>2, <1>3, <1>4

LEMMA FenceStep == TypeInv /\ FenceInv /\ [Next]_vars => FenceInv'
<1> SUFFICES ASSUME TypeInv, FenceInv, [Next]_vars PROVE FenceInv'
  OBVIOUS
<1>1. CASE UNCHANGED vars
  BY <1>1 DEF vars, FenceInv, Fenced, HasFence, LocksOf
<1>2. QED BY <1>1, SenderKeepsFence, AdminKeepsFence DEF Next

LEMMA SenderHolds ==
  ASSUME HoldInv, NEW s \in Senders, Sender(s), TypeInv', FenceInv'
  PROVE  HoldInv'
<1> USE DEF TypeInv, TypeOK, grantVars, Pass
<1>1. s \notin Admins /\ UNCHANGED <<got, stage>>
  BY FenceAssumption
     DEF Sender, TakeFence, LockRows, LockDeployment, Authorize, Send
<1>2. \A u \in Senders : u # s => step'[u] = step[u]
  BY DEF HoldInv, Sender, TakeFence, LockRows, LockDeployment, Authorize, Send, Refuse
<1>3. \A x, k : k \in Locks /\ x # s => (x \in owner'[k] <=> x \in owner[k])
  BY DEF HoldInv, Sender, TakeFence, LockRows, LockDeployment, Authorize, Send, Refuse,
         Take, Release, Locks
<1>4. /\ s \in owner'["fence"] => Fenced(s)'
      /\ s \in owner'["rows"] => step'[s] \in {"rows", "checked"}
      /\ s \in owner'["deployment"] => step'[s] = "checked"
  <2> USE DEF HoldInv, Fenced, Take, Release, Refuse, Locks
  <2>1. CASE TakeFence(s)
    BY <2>1 DEF TakeFence
  <2>2. CASE LockRows(s)
    BY <2>2 DEF LockRows
  <2>3. CASE LockDeployment(s)
    BY <2>3 DEF LockDeployment
  <2>4. CASE Authorize(s)
    BY <2>4 DEF Authorize
  <2>5. CASE Send(s)
    BY <2>5 DEF Send
  <2> QED BY <2>1, <2>2, <2>3, <2>4, <2>5 DEF Sender
<1>5. \A t \in Admins, k \in Locks : Taken(t, k)' <=> Taken(t, k)
  BY <1>1 DEF Taken, LocksOf
<1>6. \A t \in Admins, k \in Locks :
        t \in owner'[k] <=> stage'[t] = "open" /\ Taken(t, k)'
  BY <1>1, <1>3, <1>5 DEF HoldInv
<1>7. \A u \in Senders :
        /\ u \in owner'["fence"] => Fenced(u)'
        /\ u \in owner'["rows"] => step'[u] \in {"rows", "checked"}
        /\ u \in owner'["deployment"] => step'[u] = "checked"
  BY <1>2, <1>3, <1>4 DEF HoldInv, Fenced, Locks
<1> QED BY <1>6, <1>7 DEF HoldInv

LEMMA AdminHolds ==
  ASSUME HoldInv, NEW t \in Admins, Admin(t), TypeInv', FenceInv'
  PROVE  HoldInv'
<1> USE DEF TypeInv, TypeOK, grantVars
<1>1. t \notin Senders /\ step' = step
  BY FenceAssumption DEF Admin, Acquire, Commit, AbortVictim
<1>2. \A u \in Admins : u # t => stage'[u] = stage[u] /\ got'[u] = got[u]
  BY DEF HoldInv, Admin, Acquire, Commit, AbortVictim
<1>3. \A x, k : k \in Locks /\ x # t => (x \in owner'[k] <=> x \in owner[k])
  <2> SUFFICES ASSUME NEW x, NEW k \in Locks, x # t
               PROVE  x \in owner'[k] <=> x \in owner[k]
    OBVIOUS
  <2>1. CASE Acquire(t)
    <3>1. owner' = [owner EXCEPT ![NextLock(t)] = @ \cup {t}] /\ owner \in [Locks -> SUBSET (Senders \cup Admins)]
      BY <2>1 DEF Acquire, Take, HoldInv
    <3>2. owner'[k] = owner[k] \/ owner'[k] = owner[k] \cup {t}
      BY <3>1
    <3> QED BY <3>2
  <2>2. CASE Commit(t) \/ AbortVictim(t)
    BY <2>2 DEF Commit, AbortVictim, Release
  <2> QED BY <2>1, <2>2 DEF Admin
<1>4. \A k \in Locks : t \in owner'[k] <=> stage'[t] = "open" /\ Taken(t, k)'
  <2>1. CASE Acquire(t)
    <3>1. stage' = stage /\ stage[t] = "open" /\ got'[t] = got[t] + 1
      BY <2>1 DEF Acquire, HoldInv
    <3>2. got[t] \in Nat
      BY DEF HoldInv
    <3>3. \A k \in Locks : Taken(t, k)' <=> Taken(t, k) \/ NextLock(t) = k
      BY <3>1, <3>2 DEF Taken, NextLock, LocksOf
    <3>4. \A k \in Locks : t \in owner'[k] <=> t \in owner[k] \/ NextLock(t) = k
      BY <2>1 DEF Acquire, Take, HoldInv
    <3> QED BY <3>1, <3>3, <3>4 DEF HoldInv
  <2>2. CASE Commit(t) \/ AbortVictim(t)
    <3>1. stage'[t] = "done" /\ \A k \in Locks : t \notin owner'[k]
      BY <2>2 DEF Commit, AbortVictim, Release, HoldInv
    <3> QED BY <3>1
  <2> QED BY <2>1, <2>2 DEF Admin
<1>5. \A u \in Admins, k \in Locks : u # t => (Taken(u, k)' <=> Taken(u, k))
  BY <1>2 DEF Taken, LocksOf
<1>6. \A u \in Admins, k \in Locks :
        u \in owner'[k] <=> stage'[u] = "open" /\ Taken(u, k)'
  BY <1>2, <1>3, <1>4, <1>5 DEF HoldInv
<1>7. \A s \in Senders :
        /\ s \in owner'["fence"] => Fenced(s)'
        /\ s \in owner'["rows"] => step'[s] \in {"rows", "checked"}
        /\ s \in owner'["deployment"] => step'[s] = "checked"
  BY <1>1, <1>3 DEF HoldInv, Fenced, Locks
<1> QED BY <1>6, <1>7 DEF HoldInv

\* Where all wait, and no deactivation has met a sender between its checks, nobody
\* has the fence: a sender that has it waits only for rows whose owner would need it,
\* and a transaction that has it for one that PostgreSQL would end with it.
LEMMA NobodyAtTheFence ==
  ASSUME HoldInv, ~Stuck,
         \A s \in Senders : step[s] # "done" => SenderWaits(s),
         \A t \in Admins : stage[t] = "open" => AdminWaits(t)
  PROVE  /\ \A s \in Senders : step[s] \in {"claimed", "done"}
         /\ owner["fence"] = {}
<1> USE DEF HoldInv, TypeInv, TypeOK
<1>1. \A s \in Senders : step[s] \notin {"checked", "send"}
  BY DEF SenderWaits
<1>2. \A s \in Senders : Fenced(s) => \A t \in Admins : ~(stage[t] = "open" /\ HasFence(t))
  BY FenceAssumption DEF FenceInv
<1>3. ASSUME NEW t \in Admins, t \in owner["deployment"] \/ t \in owner["rows"]
      PROVE  /\ stage[t] = "open" /\ got[t] \in 1..2
             /\ HasFence(t) \/ (Op[t] = "deactivate" /\ t \in owner["deployment"])
  <2>1. stage[t] = "open" /\ (Taken(t, "deployment") \/ Taken(t, "rows"))
    BY <1>3 DEF Locks
  <2>2. got[t] \in 1..2
    BY <2>1 DEF Taken
  <2>3. CASE Op[t] = "activate" \/ Op[t] = "disable"
    BY <2>1, <2>2, <2>3, PlanIs DEF HasFence
  <2>4. CASE Op[t] = "deny"
    BY <2>1, <2>2, <2>4, PlanIs DEF HasFence
  <2>5. CASE Op[t] = "deactivate"
    <3>1. ~Taken(t, "rows")
      BY <2>2, <2>5, PlanIs DEF Taken
    <3> QED BY <1>3, <2>1, <2>2, <2>5, <3>1 DEF Locks
  <2> QED BY <2>1, <2>2, <2>3, <2>4, <2>5, PlanIs
<1>4. \A s \in Senders : step[s] # "rows"
  <2> SUFFICES ASSUME NEW s \in Senders, step[s] = "rows" PROVE FALSE
    OBVIOUS
  <2>1. PICK x \in Senders \cup Admins : x \in owner["deployment"]
    BY DEF SenderWaits, Free, Locks
  <2>2. x \in Admins
    BY <1>1, <2>1
  <2>3. Op[x] # "deactivate"
    BY <2>1, <2>2 DEF Stuck, Holds
  <2>4. stage[x] = "open" /\ HasFence(x)
    BY <1>3, <2>1, <2>2, <2>3
  <2> QED BY <1>2, <2>2, <2>4 DEF Fenced
<1>5. \A s \in Senders : step[s] # "fenced"
  <2> SUFFICES ASSUME NEW s \in Senders, step[s] = "fenced" PROVE FALSE
    OBVIOUS
  <2>1. PICK x \in Senders \cup Admins : x \in owner["rows"]
    BY DEF SenderWaits, Free, Locks
  <2>2. x \in Admins
    BY <1>1, <1>4, <2>1
  <2>3. Op[x] # "deactivate"
    <3>1. Taken(x, "rows") /\ got[x] \in 1..2
      BY <1>3, <2>1, <2>2 DEF Locks
    <3> QED BY <2>2, <3>1, PlanIs DEF Taken
  <2>4. stage[x] = "open" /\ HasFence(x)
    BY <1>3, <2>1, <2>2, <2>3
  <2> QED BY <1>2, <2>2, <2>4 DEF Fenced
<1>6. \A s \in Senders : step[s] \in {"claimed", "done"}
  BY <1>1, <1>4, <1>5
<1>7. \A s \in Senders, k \in Locks : s \notin owner[k]
  BY <1>6 DEF Fenced, Locks
<1>8. \A t \in Admins : ~(stage[t] = "open" /\ HasFence(t))
  <2> SUFFICES ASSUME NEW t \in Admins, stage[t] = "open", HasFence(t) PROVE FALSE
    OBVIOUS
  <2>1. owner["fence"] = {t}
    BY DEF FenceInv
  <2>2. ~Complete(t) /\ ~Free(NextLock(t)) /\ ~Deadlocked(t)
    BY DEF AdminWaits
  <2>3. got[t] \in 0..2 /\ got[t] # 0 /\ got[t] <= Len(LocksOf(t)) /\ got[t] # Len(LocksOf(t))
    BY <2>2 DEF HasFence, Complete
  <2>4. got[t] = 1 /\ Op[t] \in {"activate", "disable"}
    <3>1. got[t] = 1 /\ Op[t] # "deny"
      BY <2>2, <2>3, GotIs
    <3>2. Op[t] # "deactivate"
      BY <3>1, PlanIs DEF HasFence
    <3> QED BY <3>1, <3>2, PlanIs
  <2>5. NextLock(t) = IF Op[t] = "activate" THEN "deployment" ELSE "rows"
    BY <2>4, PlanIs DEF NextLock
  <2>6. PICK x \in Senders \cup Admins : x \in owner[NextLock(t)]
    BY <2>2, <2>5 DEF Free, Locks
  <2>7. x \in Admins
    BY <1>7, <2>5, <2>6 DEF Locks
  <2>8. x # t
    <3>1. ~Taken(t, NextLock(t))
      BY <2>4, <2>5, PlanIs DEF Taken
    <3> QED BY <2>5, <2>6, <3>1 DEF Locks
  <2>9. stage[x] = "open" /\ got[x] \in 1..2 /\ ~HasFence(x)
    BY <1>3, <2>1, <2>5, <2>6, <2>7, <2>8 DEF FenceInv
  <2>10. Op[x] = "deactivate" /\ x \in owner["deployment"]
    BY <1>3, <2>5, <2>6, <2>7, <2>9
  <2>11. got[x] = 1
    BY <2>7, <2>9, <2>10, PlanIs DEF HasFence
  <2>12. ~Complete(x) /\ NextLock(x) = "fence"
    BY <2>7, <2>10, <2>11, PlanIs DEF Complete, NextLock
  <2>13. WaitsFor(x, t)
    BY <2>1, <2>9, <2>12 DEF WaitsFor, Holds
  <2>14. WaitsFor(t, x)
    BY <2>2, <2>6 DEF WaitsFor, Holds
  <2> QED BY <2>2, <2>7, <2>8, <2>13, <2>14 DEF Deadlocked
<1>9. \A t \in Admins : t \notin owner["fence"]
  BY <1>8 DEF Taken, HasFence, Locks
<1> QED BY <1>6, <1>7, <1>9 DEF Locks

LEMMA HoldMoves == HoldInv => SomebodyMoves
<1> SUFFICES ASSUME HoldInv, ~SomebodyMoves PROVE FALSE
  OBVIOUS
<1> USE DEF HoldInv, TypeInv, TypeOK
<1>1. /\ ~Done /\ ~Stuck
      /\ \A s \in Senders : step[s] # "done" => SenderWaits(s)
      /\ \A t \in Admins : stage[t] = "open" => AdminWaits(t)
  BY DEF SomebodyMoves
<1>2. /\ \A s \in Senders : step[s] \in {"claimed", "done"}
      /\ owner["fence"] = {}
  BY <1>1, NobodyAtTheFence
<1>3. \A s \in Senders : step[s] = "done"
  BY <1>1, <1>2 DEF SenderWaits, Shareable
<1>4. PICK t \in Admins : stage[t] = "open"
  BY <1>1, <1>3 DEF Done
<1>5. ASSUME NEW u \in Admins, stage[u] = "open"
      PROVE  Op[u] = "deactivate" /\ got[u] = 0 /\ owner["deployment"] # {}
  <2>1. ~Complete(u) /\ ~Free(NextLock(u))
    BY <1>1, <1>5 DEF AdminWaits
  <2>2. NextLock(u) # "fence"
    BY <1>2, <2>1 DEF Free
  <2>3. ~Taken(u, "fence")
    BY <1>2, <1>5 DEF Locks
  <2>4. got[u] \in 0..2 /\ got[u] <= Len(LocksOf(u)) /\ got[u] # Len(LocksOf(u))
    BY <2>1 DEF Complete
  <2>5. got[u] = 0
    <3>1. CASE got[u] = 1
      BY <2>2, <2>3, <2>4, <3>1, PlanIs DEF NextLock, Taken
    <3>2. CASE got[u] = 2
      BY <2>1, <2>4, <3>2, GotIs
    <3> QED BY <2>4, <3>1, <3>2
  <2>6. Op[u] = "deactivate"
    BY <2>2, <2>5, PlanIs DEF NextLock
  <2>7. NextLock(u) = "deployment"
    BY <2>5, <2>6, PlanIs DEF NextLock
  <2> QED BY <2>1, <2>5, <2>6, <2>7 DEF Free
<1>6. PICK x \in Senders \cup Admins : x \in owner["deployment"]
  BY <1>4, <1>5 DEF Locks
<1>7. x \in Admins /\ stage[x] = "open" /\ Taken(x, "deployment")
  BY <1>3, <1>6 DEF Locks
<1> QED BY <1>5, <1>7 DEF Taken

\* Whatever locks senders and administrative transactions have taken in whatever order,
\* one of them need not wait, but where a deactivation has met a sender between its
\* checks: no other cycle of waiting is hidden from the database.
THEOREM OthersNeverBlock == Spec => []SomebodyMoves
<1>1. Init => HoldInv
  <2> SUFFICES ASSUME Init PROVE HoldInv
    OBVIOUS
  <2>1. TypeInv
    BY PlanLocks DEF Init, TypeInv, TypeOK, Locks
  <2>2. FenceInv
    BY DEF Init, FenceInv, Fenced, HasFence
  <2> QED BY <2>1, <2>2 DEF Init, HoldInv, Taken, Locks
<1>2. HoldInv /\ [Next]_vars => HoldInv'
  <2> SUFFICES ASSUME HoldInv, [Next]_vars PROVE HoldInv'
    OBVIOUS
  <2>1. TypeInv' /\ FenceInv'
    BY TypeStep, FenceStep DEF HoldInv
  <2>2. CASE UNCHANGED vars
    BY <2>1, <2>2 DEF vars, HoldInv, Fenced, Taken, LocksOf
  <2> QED BY <2>1, <2>2, SenderHolds, AdminHolds DEF Next
<1> QED BY <1>1, <1>2, HoldMoves, PTL DEF Spec
=============================================================================
