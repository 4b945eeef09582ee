-------------------------- MODULE EventDispatchProofs -----------------------
(***************************************************************************)
(* Proofs about EventDispatch, for any number of callbacks, deployments,   *)
(* workers, faults and overruns.                                           *)
(***************************************************************************)
EXTENDS EventDispatch, FiniteSetTheorems, WellFoundedInduction, TLAPS

-----------------------------------------------------------------------------
(* The least of some numbers, and of the queue and the routes.             *)

LEMMA MinIsIn ==
  ASSUME NEW S \in SUBSET Nat, S # {}
  PROVE  Min(S) \in S
<1> DEFINE Less == OpToRel(<, Nat)
<1>1. PICK x \in S : \A y \in S : ~(<<y, x>> \in Less)
  BY NatLessThanWellFounded, WFMin
<1>2. \A a, b \in Nat : a < b => <<a, b>> \in Less
  BY DEF OpToRel
<1> HIDE DEF Less
<1>3. ASSUME NEW y \in S PROVE x <= y
  <2>1. y \in Nat /\ x \in Nat /\ ~(<<y, x>> \in Less)
    BY <1>1
  <2>2. ~(y < x)
    BY <1>2, <2>1, Zenon
  <2> QED BY <2>1, <2>2
<1> QED BY <1>3 DEF Min

-----------------------------------------------------------------------------
(* Where a worker is, and what its transaction holds there.                *)

Steps == Inside \cup {"recover", "claim", "next", "enter", "mark"}
Busy(w) == pc[w] \in Inside \cup {"enter", "mark"}

PlaceOK(w) ==
  /\ ~Busy(w) => session[w] = Idle
  /\ pc[w] \in {"recover", "claim"} => queue[w] = {}
  /\ pc[w] = "next" => queue[w] # {}
  /\ Busy(w) => session[w].event \in queue[w] /\ Kind(session[w].event) \in {"group", "private"}
  /\ pc[w] \in {"enter", "mark", "discover", "route"} =>
       session[w].draft = NoRecords /\ session[w].replies = NoReplies
  /\ pc[w] \in {"enter", "mark", "discover"} => ~session[w].novel
  /\ pc[w] \in {"insert", "judge", "call"} => session[w].left # {}

\* An event that was not received is nobody's and has nothing.
Received ==
  \A e \in Events :
    /\ inbox[e] = "ABSENT" => Kind(e) = "orphan" /\ rows[e] = NoReplies /\ record[e] = NoRecords
    /\ \A w \in Workers : e \in queue[w] => inbox[e] # "ABSENT"

TypeInv == TypeOK /\ Received /\ \A w \in Workers : PlaceOK(w)

LEMMA NothingTyped ==
  /\ NoRecords \in [Deployments -> RecordStatuses \cup {"NONE"}]
  /\ NoReplies \in [Deployments -> SUBSET Replies]
BY DEF NoRecords, NoReplies

LEMMA IdleTyped == Idle \in Sessions
BY NothingTyped DEF Idle, Sessions

LEMMA IdleFields ==
  /\ Idle.draft = NoRecords /\ Idle.replies = NoReplies /\ ~Idle.novel /\ Idle.left = {}
  /\ Idle.loaded = NoRecords
BY DEF Idle

LEMMA SessionSet ==
  ASSUME TypeOK, NEW w \in Workers, NEW x \in Sessions, session' = [session EXCEPT ![w] = x]
  PROVE  /\ session' \in [Workers -> Sessions] /\ session'[w] = x
         /\ \A v \in Workers : v # w => session'[v] = session[v]
BY DEF TypeOK

LEMMA Went ==
  ASSUME TypeOK, NEW w \in Workers, NEW p \in Steps, pc' = [pc EXCEPT ![w] = p]
  PROVE  /\ pc' \in [Workers -> Steps] /\ pc'[w] = p
         /\ \A v \in Workers : v # w => pc'[v] = pc[v]
BY DEF TypeOK, Steps

\* The other workers do not notice the step of one of them.
LEMMA OthersPlaced ==
  ASSUME TypeInv, NEW v \in Workers, session'[v] = session[v], pc'[v] = pc[v],
         queue'[v] = queue[v],
         \A e \in Events : inbox[e] # "ABSENT" => callback'[e] = callback[e]
  PROVE  PlaceOK(v)'
<1>1. queue[v] \subseteq Events
  BY DEF TypeInv, TypeOK
<1>2. Busy(v) => Kind(session[v].event)' = Kind(session[v].event)
  BY <1>1 DEF TypeInv, PlaceOK, Received, Kind
<1>3. PlaceOK(v) /\ (Busy(v)' <=> Busy(v))
  BY DEF TypeInv, Busy
<1> QED BY <1>2, <1>3 DEF PlaceOK, Kind

\* A step of one worker that receives no event
LEMMA WorkerStep ==
  ASSUME TypeInv, NEW w \in Workers, NEW x \in Sessions, NEW p \in Steps,
         session' = [session EXCEPT ![w] = x], pc' = [pc EXCEPT ![w] = p],
         \A v \in Workers : v # w => queue'[v] = queue[v], UNCHANGED callback,
         PlaceOK(w)'
  PROVE  /\ session' \in [Workers -> Sessions] /\ pc' \in [Workers -> Steps]
         /\ \A v \in Workers : PlaceOK(v)'
<1>1. TypeOK
  BY DEF TypeInv
<1>2. /\ session' \in [Workers -> Sessions] /\ pc' \in [Workers -> Steps]
      /\ \A v \in Workers : v # w => session'[v] = session[v] /\ pc'[v] = pc[v]
  BY <1>1, SessionSet, Went
<1>3. \A v \in Workers : v # w => PlaceOK(v)'
  BY <1>2, OthersPlaced
<1> QED BY <1>2, <1>3

\* What Close leaves
LEMMA CloseIs ==
  ASSUME TypeInv, NEW w \in Workers, NEW e \in queue[w], Close(w, e), UNCHANGED callback
  PROVE  /\ session' \in [Workers -> Sessions] /\ pc' \in [Workers -> Steps]
         /\ queue' \in [Workers -> SUBSET Events]
         /\ session'[w] = Idle /\ pc'[w] \in {"recover", "next"}
         /\ queue'[w] = queue[w] \ {e}
         /\ \A v \in Workers : v # w => /\ session'[v] = session[v] /\ pc'[v] = pc[v]
                                        /\ queue'[v] = queue[v]
         /\ \A v \in Workers : PlaceOK(v)'
<1> DEFINE p == IF queue[w] = {e} THEN "recover" ELSE "next"
<1>1. /\ session' = [session EXCEPT ![w] = Idle] /\ pc' = [pc EXCEPT ![w] = p]
      /\ queue' = [queue EXCEPT ![w] = @ \ {e}]
  BY DEF Close, Goto
<1>2. p \in Steps /\ p \in {"recover", "next"}
  BY DEF Steps
<1>3. TypeOK /\ Idle \in Sessions
  BY IdleTyped DEF TypeInv
<1>4. /\ queue' \in [Workers -> SUBSET Events] /\ queue'[w] = queue[w] \ {e}
      /\ \A v \in Workers : v # w => queue'[v] = queue[v]
  BY <1>1, <1>3 DEF TypeOK
<1>5. /\ session'[w] = Idle /\ pc'[w] = p
      /\ \A v \in Workers : v # w => session'[v] = session[v] /\ pc'[v] = pc[v]
  BY <1>1, <1>2, <1>3, SessionSet, Went
<1>6. PlaceOK(w)'
  BY <1>2, <1>4, <1>5 DEF PlaceOK, Busy, Inside
<1> HIDE DEF p
<1> QED BY <1>1, <1>2, <1>3, <1>4, <1>5, <1>6, WorkerStep

\* What a session commits to its event: the drafts that differ from what was loaded
Written(w, d) == session[w].draft[d] \notin {"NONE", session[w].loaded[d]}

LEMMA CommitIs ==
  ASSUME TypeInv, NEW w \in Workers, NEW e \in Events, CommitRecords(w, e)
  PROVE  /\ known' \subseteq Kinds \X {ActorOf[f] : f \in Events}
         /\ record' \in [Events -> [Deployments -> RecordStatuses \cup {"NONE"}]]
         /\ rows' \in [Events -> [Deployments -> SUBSET Replies]]
         /\ \A f \in Events : f # e => record'[f] = record[f] /\ rows'[f] = rows[f]
         /\ \A d \in Deployments :
              /\ Written(w, d) => record'[e][d] = session[w].draft[d]
              /\ ~Written(w, d) => record'[e][d] = record[e][d]
              /\ rows'[e][d] = rows[e][d] \cup session[w].replies[d]
<1>0. TypeOK /\ session[w] \in Sessions
  BY DEF TypeInv, TypeOK
<1> DEFINE new == [d \in Deployments |->
                     IF session[w].draft[d] \in {"NONE", session[w].loaded[d]}
                     THEN record[e][d] ELSE session[w].draft[d]]
           more == [d \in Deployments |-> rows[e][d] \cup session[w].replies[d]]
<1>1. record' = [record EXCEPT ![e] = new] /\ rows' = [rows EXCEPT ![e] = more]
  BY DEF CommitRecords
<1>2. /\ session[w].draft \in [Deployments -> RecordStatuses \cup {"NONE"}]
      /\ session[w].replies \in [Deployments -> SUBSET Replies]
  BY <1>0 DEF Sessions
<1>3. new \in [Deployments -> RecordStatuses \cup {"NONE"}]
  BY <1>0, <1>2 DEF TypeOK
<1>4. more \in [Deployments -> SUBSET Replies]
  BY <1>0, <1>2 DEF TypeOK
<1>5. Actor(e) \in Kinds \X {ActorOf[f] : f \in Events}
  BY <1>0 DEF TypeOK, Actor, Kind
<1>6. known' \subseteq Kinds \X {ActorOf[f] : f \in Events}
  BY <1>0, <1>5 DEF CommitRecords, TypeOK
<1>7. \A d \in Deployments : /\ Written(w, d) => new[d] = session[w].draft[d]
                             /\ ~Written(w, d) => new[d] = record[e][d]
  BY DEF Written
<1> HIDE DEF new
<1>8. more = [d \in Deployments |-> rows[e][d] \cup session[w].replies[d]]
  OBVIOUS
<1> HIDE DEF more
<1>9. /\ record' \in [Events -> [Deployments -> RecordStatuses \cup {"NONE"}]]
      /\ rows' \in [Events -> [Deployments -> SUBSET Replies]]
      /\ record'[e] = new /\ rows'[e] = more
      /\ \A f \in Events : f # e => record'[f] = record[f] /\ rows'[f] = rows[f]
  BY <1>0, <1>1, <1>3, <1>4 DEF TypeOK
<1> QED BY <1>6, <1>7, <1>8, <1>9

LEMMA TypeInit == Init => TypeInv
<1> SUFFICES ASSUME Init PROVE TypeInv
  OBVIOUS
<1>1. TypeOK
  <2>1. /\ session \in [Workers -> Sessions]
        /\ record \in [Events -> [Deployments -> RecordStatuses \cup {"NONE"}]]
        /\ rows \in [Events -> [Deployments -> SUBSET Replies]]
    BY IdleTyped, NothingTyped DEF Init
  <2>2. /\ inbox \in [Events -> InboxStatuses \cup {"ABSENT"}]
        /\ callback \in [Events -> [kind : Kinds, command : BOOLEAN]]
        /\ pc \in [Workers -> Inside \cup {"recover", "claim", "next", "enter", "mark"}]
    BY DEF Init, Kinds
  <2>3. /\ due \in [Events -> BOOLEAN] /\ tries \in [Events -> Nat]
        /\ known \subseteq Kinds \X {ActorOf[e] : e \in Events}
        /\ running \subseteq Deployments /\ locked \subseteq Fickle
        /\ calls \in [Events -> [Deployments -> Nat]] /\ queue \in [Workers -> SUBSET Events]
        /\ faults \in 0..MaxFaults /\ overruns \in 0..MaxOverruns
    BY DispatchAssumption DEF Init
  <2> QED BY <2>1, <2>2, <2>3 DEF TypeOK
<1>2. Received
  BY DEF Init, Received, Kind
<1>3. \A w \in Workers : PlaceOK(w)
  BY DEF Init, PlaceOK, Busy, Inside
<1> QED BY <1>1, <1>2, <1>3 DEF TypeInv

LEMMA StillReceived ==
  ASSUME TypeInv, UNCHANGED callback,
         \A e \in Events :
           /\ inbox[e] # "ABSENT" => inbox'[e] # "ABSENT"
           /\ inbox'[e] = "ABSENT" => rows'[e] = rows[e] /\ record'[e] = record[e],
         \A w \in Workers, e \in Events :
           e \in queue'[w] => e \in queue[w] \/ inbox'[e] # "ABSENT"
  PROVE  Received'
<1> SUFFICES ASSUME NEW e \in Events
             PROVE  /\ inbox'[e] = "ABSENT" => /\ Kind(e)' = "orphan" /\ rows'[e] = NoReplies
                                               /\ record'[e] = NoRecords
                    /\ \A w \in Workers : e \in queue'[w] => inbox'[e] # "ABSENT"
  BY DEF Received, NoReplies, NoRecords
<1>1. Kind(e)' = Kind(e)
  BY DEF Kind
<1> QED BY <1>1 DEF TypeInv, Received

LEMMA NobodyMoved ==
  ASSUME TypeInv, UNCHANGED <<callback, session, pc, queue>>
  PROVE  \A w \in Workers : PlaceOK(w)'
BY OthersPlaced

\* A worker inside a transaction has an event that was received.
LEMMA AtWork ==
  ASSUME TypeInv, NEW w \in Workers, Busy(w)
  PROVE  /\ session[w].event \in queue[w] /\ session[w].event \in Events
         /\ inbox[session[w].event] # "ABSENT" /\ session[w] \in Sessions
         /\ Kind(session[w].event) \in {"group", "private"}
<1>1. TypeOK /\ PlaceOK(w) /\ Received
  BY DEF TypeInv
<1>2. session[w].event \in queue[w] /\ queue[w] \subseteq Events /\ session[w] \in Sessions
  BY <1>1 DEF PlaceOK, TypeOK
<1> QED BY <1>1, <1>2 DEF Received, PlaceOK

LEMMA RouteIsLeft ==
  ASSUME TypeInv, NEW w \in Workers, session[w].left # {}
  PROVE  Route(w) \in session[w].left /\ Route(w) \in Deployments
<1>1. session[w].left \subseteq Deployments /\ Deployments \subseteq Nat
  BY DispatchAssumption DEF TypeInv, TypeOK, Sessions
<1> QED BY <1>1, MinIsIn DEF Route

LEMMA NextEvent ==
  ASSUME TypeInv, NEW w \in Workers, pc[w] = "next"
  PROVE  Min(queue[w]) \in queue[w] /\ Min(queue[w]) \in Events
<1>1. queue[w] \subseteq Events /\ queue[w] # {} /\ Events \subseteq Nat
  BY DispatchAssumption DEF TypeInv, TypeOK, PlaceOK
<1> QED BY <1>1, MinIsIn

-----------------------------------------------------------------------------
(* The types are kept, action by action.                                   *)

LEMMA TypeIngest == ASSUME TypeInv, NEW e \in Events, Ingest(e) PROVE TypeInv'
<1>1. PICK c \in Contents[e] :
        /\ callback' = [callback EXCEPT ![e] = c]
        /\ inbox' = [inbox EXCEPT ![e] =
                       IF c.kind = "self" THEN "IGNORED_SELF" ELSE "NORMALIZED"]
  BY DEF Ingest
<1>2. /\ due' = [due EXCEPT ![e] = TRUE] /\ inbox[e] = "ABSENT"
      /\ UNCHANGED <<tries, record, rows, known, running, locked, calls, pc, queue, session, faults,
                     overruns>>
  BY DEF Ingest
<1>3. TypeOK /\ Received /\ c \in [kind : Kinds, command : BOOLEAN]
  BY DispatchAssumption DEF TypeInv
<1>4. /\ callback' \in [Events -> [kind : Kinds, command : BOOLEAN]]
      /\ inbox' \in [Events -> InboxStatuses \cup {"ABSENT"}] /\ due' \in [Events -> BOOLEAN]
  BY <1>1, <1>2, <1>3 DEF TypeOK, InboxStatuses
<1>5. TypeOK'
  BY <1>2, <1>3, <1>4 DEF TypeOK
<1>6. \A f \in Events : /\ f # e => callback'[f] = callback[f] /\ inbox'[f] = inbox[f]
                        /\ inbox'[e] # "ABSENT"
  BY <1>1, <1>3 DEF TypeOK
<1>7. Received'
  BY <1>2, <1>3, <1>6 DEF Received, Kind, NoReplies, NoRecords
<1>8. \A w \in Workers : PlaceOK(w)'
  <2>1. \A f \in Events : inbox[f] # "ABSENT" => callback'[f] = callback[f]
    BY <1>2, <1>6
  <2> QED BY <1>2, <2>1, OthersPlaced
<1> QED BY <1>5, <1>7, <1>8 DEF TypeInv

LEMMA TypeToggle ==
  ASSUME TypeInv, NEW d \in Deployments, LockDeployment(d) \/ Toggle(d) PROVE TypeInv'
<1>1. /\ UNCHANGED <<callback, inbox, due, tries, record, rows, known, calls, pc, queue,
                     session, faults, overruns>>
      /\ running' \subseteq Deployments /\ locked' \subseteq Fickle
  BY DEF LockDeployment, Toggle, tableVars, TypeInv, TypeOK
<1>2. TypeOK'
  BY <1>1 DEF TypeInv, TypeOK
<1> QED BY <1>1, <1>2, StillReceived, NobodyMoved DEF TypeInv

LEMMA TypeTime == ASSUME TypeInv, NEW e \in Events, TimePasses(e) PROVE TypeInv'
<1>1. /\ UNCHANGED <<callback, inbox, tries, record, rows, known, running, locked, calls, pc, queue,
                     session, faults>>
      /\ due' = [due EXCEPT ![e] = TRUE]
      /\ overruns' = overruns \/ (overruns < MaxOverruns /\ overruns' = overruns + 1)
  BY DEF TimePasses
<1>2. due' \in [Events -> BOOLEAN] /\ overruns' \in 0..MaxOverruns
  BY <1>1, DispatchAssumption DEF TypeInv, TypeOK
<1>3. TypeOK'
  BY <1>1, <1>2 DEF TypeInv, TypeOK
<1> QED BY <1>1, <1>3, StillReceived, NobodyMoved DEF TypeInv

\* A worker that takes an event on or lets go of all
LEMMA TypeRecover == ASSUME TypeInv, NEW w \in Workers, RecoverExpiredLeases(w) PROVE TypeInv'
<1>1. PICK S \in SUBSET Expired :
        inbox' = [e \in Events |-> IF e \in S THEN "NORMALIZED" ELSE inbox[e]]
  BY DEF RecoverExpiredLeases
<1>2. /\ pc[w] = "recover" /\ pc' = [pc EXCEPT ![w] = "claim"]
      /\ UNCHANGED <<callback, due, tries, record, rows, known, running, locked, calls, queue,
                     session, faults, overruns>>
  BY DEF RecoverExpiredLeases, Goto
<1>3. TypeOK /\ PlaceOK(w) /\ session[w] = Idle /\ session[w] \in Sessions /\ queue[w] = {}
  BY <1>2 DEF TypeInv, TypeOK, PlaceOK, Busy, Inside
<1>4. inbox' \in [Events -> InboxStatuses \cup {"ABSENT"}]
  BY <1>1, <1>3 DEF TypeOK, InboxStatuses
<1>5. \A e \in Events : inbox'[e] = "ABSENT" <=> inbox[e] = "ABSENT"
  BY <1>1 DEF Expired
<1>6. /\ "claim" \in Steps /\ session' = [session EXCEPT ![w] = Idle]
  BY <1>2, <1>3 DEF Steps, TypeOK
<1>7. pc'[w] = "claim"
  BY <1>2, <1>3 DEF TypeOK
<1>8. PlaceOK(w)'
  BY <1>2, <1>3, <1>7 DEF PlaceOK, Busy, Inside
<1>9. pc' \in [Workers -> Steps] /\ \A v \in Workers : PlaceOK(v)'
  BY <1>2, <1>6, <1>8, IdleTyped, WorkerStep
<1>10. TypeOK'
  BY <1>2, <1>3, <1>4, <1>9 DEF TypeOK, Steps
<1>11. Received'
  BY <1>2, <1>5, StillReceived
<1> QED BY <1>9, <1>10, <1>11 DEF TypeInv

LEMMA TypeClaim == ASSUME TypeInv, NEW w \in Workers, ClaimDueEvents(w) PROVE TypeInv'
<1> DEFINE batch == FirstOf(Claimable, BatchSize)
           p == IF batch = {} THEN "recover" ELSE "next"
<1>1. /\ inbox' = [e \in Events |-> IF e \in batch THEN "DISPATCHING" ELSE inbox[e]]
      /\ due' = [e \in Events |-> due[e] /\ e \notin batch]
      /\ tries' = [e \in Events |-> IF e \in batch THEN tries[e] + 1 ELSE tries[e]]
      /\ queue' = [queue EXCEPT ![w] = batch] /\ pc' = [pc EXCEPT ![w] = p]
      /\ UNCHANGED <<callback, record, rows, known, running, locked, calls, session, faults, overruns>>
      /\ pc[w] = "claim"
  BY DEF ClaimDueEvents, Goto
<1>2. batch \subseteq Events /\ \A e \in batch : inbox[e] = "NORMALIZED"
  BY DEF FirstOf, Claimable
<1>3. p \in Steps /\ p \in {"recover", "next"} /\ (p = "recover" <=> batch = {})
  BY DEF Steps
<1> HIDE DEF batch, p
<1>4. TypeOK /\ PlaceOK(w) /\ session[w] = Idle /\ session[w] \in Sessions
  BY <1>1 DEF TypeInv, TypeOK, PlaceOK, Busy, Inside
<1>5. inbox' \in [Events -> InboxStatuses \cup {"ABSENT"}]
  BY <1>1, <1>4 DEF TypeOK, InboxStatuses
<1>6. due' \in [Events -> BOOLEAN] /\ tries' \in [Events -> Nat]
  BY <1>1, <1>4 DEF TypeOK
<1>7. /\ queue' \in [Workers -> SUBSET Events] /\ queue'[w] = batch
      /\ \A v \in Workers : v # w => queue'[v] = queue[v]
  BY <1>1, <1>2, <1>4 DEF TypeOK
<1>8. \A e \in Events : /\ inbox'[e] = "ABSENT" <=> inbox[e] = "ABSENT"
                        /\ e \in batch => inbox'[e] # "ABSENT"
  BY <1>1, <1>2
<1>9. session' = [session EXCEPT ![w] = Idle] /\ pc'[w] = p
  BY <1>1, <1>4 DEF TypeOK
<1>10. PlaceOK(w)'
  BY <1>1, <1>3, <1>4, <1>7, <1>9 DEF PlaceOK, Busy, Inside
<1>11. pc' \in [Workers -> Steps] /\ \A v \in Workers : PlaceOK(v)'
  BY <1>1, <1>3, <1>7, <1>9, <1>10, IdleTyped, WorkerStep
<1>12. TypeOK'
  BY <1>1, <1>4, <1>5, <1>6, <1>7, <1>11 DEF TypeOK, Steps
<1>13. Received'
  <2>1. \A v \in Workers, e \in Events :
          e \in queue'[v] => e \in queue[v] \/ inbox'[e] # "ABSENT"
    BY <1>7, <1>8
  <2> QED BY <1>1, <1>8, <2>1, StillReceived
<1> QED BY <1>11, <1>12, <1>13 DEF TypeInv

\* A worker goes on with its transaction, or gives it up.
LEMMA TypeInside ==
  ASSUME TypeInv, NEW w \in Workers, NEW x \in Sessions, NEW p \in Steps,
         session' = [session EXCEPT ![w] = x], pc' = [pc EXCEPT ![w] = p],
         UNCHANGED <<tableVars, running, locked, queue, overruns>>,
         calls' \in [Events -> [Deployments -> Nat]], faults' \in 0..MaxFaults,
         PlaceOK(w)'
  PROVE  TypeInv'
<1>1. /\ session' \in [Workers -> Sessions] /\ pc' \in [Workers -> Steps]
      /\ \A v \in Workers : PlaceOK(v)'
  BY WorkerStep DEF tableVars
<1>2. TypeOK'
  BY <1>1 DEF TypeInv, TypeOK, tableVars, Steps
<1>3. Received'
  BY StillReceived DEF tableVars
<1> QED BY <1>1, <1>2, <1>3 DEF TypeInv

\* A dispatch ends.
LEMMA TypeClose ==
  ASSUME TypeInv, NEW w \in Workers, NEW e \in queue[w], Close(w, e),
         NEW status \in InboxStatuses, inbox' = [inbox EXCEPT ![e] = status],
         due' \in [Events -> BOOLEAN],
         CommitRecords(w, e) \/ UNCHANGED <<record, rows, known>>,
         UNCHANGED <<callback, tries, running, locked, calls, faults, overruns>>
  PROVE  TypeInv'
<1>0. TypeOK /\ Received /\ e \in Events /\ inbox[e] # "ABSENT"
  BY DEF TypeInv, TypeOK, Received
<1>1. /\ session' \in [Workers -> Sessions] /\ pc' \in [Workers -> Steps]
      /\ queue' \in [Workers -> SUBSET Events] /\ \A v \in Workers : queue'[v] \subseteq queue[v]
      /\ \A v \in Workers : PlaceOK(v)'
  <2>1. /\ queue'[w] = queue[w] \ {e} /\ \A v \in Workers : v # w => queue'[v] = queue[v]
        /\ session' \in [Workers -> Sessions] /\ pc' \in [Workers -> Steps]
        /\ queue' \in [Workers -> SUBSET Events] /\ \A v \in Workers : PlaceOK(v)'
    BY CloseIs
  <2> QED BY <2>1
<1>2. /\ known' \subseteq Kinds \X {ActorOf[f] : f \in Events}
      /\ record' \in [Events -> [Deployments -> RecordStatuses \cup {"NONE"}]]
      /\ rows' \in [Events -> [Deployments -> SUBSET Replies]]
      /\ \A f \in Events : f # e => record'[f] = record[f] /\ rows'[f] = rows[f]
  <2>1. CASE CommitRecords(w, e)
    BY <1>0, <2>1, CommitIs
  <2>2. CASE UNCHANGED <<record, rows, known>>
    BY <1>0, <2>2 DEF TypeOK
  <2> QED BY <2>1, <2>2
<1>3. /\ inbox' \in [Events -> InboxStatuses \cup {"ABSENT"}] /\ inbox'[e] # "ABSENT"
      /\ \A f \in Events : f # e => inbox'[f] = inbox[f]
  BY <1>0 DEF TypeOK, InboxStatuses
<1>4. TypeOK'
  BY <1>0, <1>1, <1>2, <1>3 DEF TypeOK, Steps
<1>5. Received'
  BY <1>0, <1>1, <1>2, <1>3, StillReceived
<1> QED BY <1>1, <1>4, <1>5 DEF TypeInv

LEMMA OpenedTyped ==
  ASSUME TypeInv, NEW e \in Events, inbox[e] # "ABSENT"
  PROVE  /\ Opened(e) \in Sessions /\ Opened(e).event = e /\ Opened(e).draft = NoRecords
         /\ Opened(e).replies = NoReplies /\ ~Opened(e).novel /\ Opened(e).left = {}
         /\ Opened(e).count = tries[e]
<1> DEFINE i == Idle
           status == inbox[e]
           n == tries[e]
<1>1. i \in Sessions /\ status \in InboxStatuses \cup {"ABSENT"} /\ n \in Nat
  BY IdleTyped DEF TypeInv, TypeOK
<1>2. Opened(e) = [i EXCEPT !.event = e, !.seen = status, !.count = n]
  BY DEF Opened
<1>3. /\ i.draft = NoRecords /\ i.replies = NoReplies /\ ~i.novel /\ i.left = {}
  BY IdleFields
<1> HIDE DEF i, status
<1> QED BY <1>1, <1>2, <1>3 DEF Sessions

LEMMA TypeBegin == ASSUME TypeInv, NEW w \in Workers, Begin(w) PROVE TypeInv'
<1> DEFINE e == Min(queue[w])
<1>1. /\ pc[w] = "next"
      /\ UNCHANGED <<callback, due, tries, record, rows, known, running, locked, calls, faults, overruns>>
  BY DEF Begin
<1>2. e \in queue[w] /\ e \in Events /\ inbox[e] # "ABSENT" /\ TypeOK
  BY <1>1, NextEvent DEF TypeInv, Received
<1>3. ASSUME NEW status \in InboxStatuses, inbox' = [inbox EXCEPT ![e] = status], Close(w, e)
      PROVE  TypeInv'
  BY <1>1, <1>2, <1>3, TypeClose DEF TypeOK
<1>4. ASSUME Kind(e) \in {"group", "private"}, session' = [session EXCEPT ![w] = Opened(e)],
             Goto(w, "enter"), UNCHANGED <<inbox, queue>>
      PROVE  TypeInv'
  <2>1. Opened(e) \in Sessions /\ "enter" \in Steps /\ pc' = [pc EXCEPT ![w] = "enter"]
    BY <1>2, <1>4, OpenedTyped DEF Goto, Steps
  <2>2. /\ session'[w] = Opened(e) /\ pc'[w] = "enter" /\ queue'[w] = queue[w]
    BY <1>2, <1>4, <2>1, SessionSet, Went
  <2>3. PlaceOK(w)'
    BY <1>1, <1>2, <1>4, <2>2, OpenedTyped
       DEF PlaceOK, Busy, Inside, Kind, NoRecords, NoReplies
  <2> QED BY <1>1, <1>2, <1>4, <2>1, <2>3, TypeInside DEF TypeOK, tableVars
<1>5. inbox[e] \in InboxStatuses /\ {"DISPATCHED", "FAILED"} \subseteq InboxStatuses
  BY <1>2 DEF TypeOK, InboxStatuses
<1> QED BY <1>3, <1>4, <1>5 DEF Begin

LEMMA TypeEnter == ASSUME TypeInv, NEW w \in Workers, Enter(w) PROVE TypeInv'
<1> DEFINE p == IF Actor(session[w].event) \in known THEN "route" ELSE "discover"
<1>1. /\ pc[w] = "enter" /\ pc' = [pc EXCEPT ![w] = p]
      /\ UNCHANGED <<tableVars, running, locked, calls, queue, session, faults, overruns>>
  BY DEF Enter, Goto
<1>2. p \in {"route", "discover"} /\ p \in Steps
  BY DEF Steps, Inside
<1> HIDE DEF p
<1>3. TypeOK /\ PlaceOK(w) /\ session[w] \in Sessions /\ session' = [session EXCEPT ![w] = session[w]]
  BY <1>1 DEF TypeInv, TypeOK
<1>4. pc'[w] = p
  BY <1>2, <1>1, <1>3, Went
<1>5. PlaceOK(w)'
  BY <1>1, <1>2, <1>3, <1>4 DEF PlaceOK, Busy, Inside, Kind, tableVars, NoRecords, NoReplies
<1> QED BY <1>1, <1>2, <1>3, <1>5, TypeInside DEF TypeOK

\* The transaction is rolled back, the event kept.
LEMMA RaiseIs ==
  ASSUME TypeInv, NEW w \in Workers, Busy(w), Raise(w),
         UNCHANGED <<tableVars, running, locked, calls, queue, overruns>>, faults' \in 0..MaxFaults
  PROVE  /\ TypeInv' /\ pc'[w] = "mark" /\ session'[w].event = session[w].event
         /\ session'[w].draft = NoRecords /\ session'[w].replies = NoReplies
         /\ ~session'[w].novel /\ session'[w].left = {}
         /\ \A v \in Workers : v # w => session'[v] = session[v] /\ pc'[v] = pc[v]
<1> DEFINE i == Idle
           e == session[w].event
           x == [i EXCEPT !.event = e]
<1>1. session' = [session EXCEPT ![w] = x] /\ pc' = [pc EXCEPT ![w] = "mark"]
  BY DEF Raise, Goto
<1>2. /\ e \in queue[w] /\ e \in Events /\ Kind(e) \in {"group", "private"} /\ TypeOK
  BY AtWork DEF TypeInv
<1>3. i \in Sessions /\ i.draft = NoRecords /\ i.replies = NoReplies /\ ~i.novel /\ i.left = {}
  BY IdleTyped, IdleFields
<1> HIDE DEF i, e
<1>4. /\ x \in Sessions /\ x.event = e /\ x.draft = NoRecords /\ x.replies = NoReplies
      /\ ~x.novel /\ x.left = {}
  BY <1>2, <1>3 DEF Sessions
<1> HIDE DEF x
<1>5. /\ session'[w] = x /\ pc'[w] = "mark" /\ "mark" \in Steps
      /\ \A v \in Workers : v # w => session'[v] = session[v] /\ pc'[v] = pc[v]
  BY <1>1, <1>2, <1>4, SessionSet, Went DEF Steps
<1>6. PlaceOK(w)'
  BY <1>2, <1>4, <1>5 DEF PlaceOK, Busy, Inside, Kind, tableVars, NoRecords, NoReplies
<1>7. TypeInv'
  BY <1>1, <1>2, <1>4, <1>5, <1>6, TypeInside DEF TypeOK
<1> QED BY <1>4, <1>5, <1>7 DEF e

LEMMA TypeDiscover == ASSUME TypeInv, NEW w \in Workers, Discover(w) PROVE TypeInv'
<1>1. /\ pc[w] = "discover" /\ Busy(w) /\ TypeOK /\ PlaceOK(w)
      /\ UNCHANGED <<tableVars, running, locked, calls, queue, faults, overruns>>
  BY DEF Discover, Busy, Inside, TypeInv
<1>2. CASE Raise(w)
  BY <1>1, <1>2, RaiseIs DEF TypeOK
<1>3. CASE session' = [session EXCEPT ![w].novel = TRUE] /\ Goto(w, "route")
  <2> DEFINE y == session[w]
             x == [y EXCEPT !.novel = TRUE]
  <2>1. session' = [session EXCEPT ![w] = x] /\ y \in Sessions
    BY <1>1, <1>3 DEF TypeOK
  <2>2. /\ x \in Sessions /\ x.event = y.event /\ x.draft = y.draft
        /\ x.replies = y.replies
    <3> HIDE DEF y
    <3> QED BY <2>1 DEF Sessions
  <2> HIDE DEF x
  <2>3. "route" \in Steps /\ pc' = [pc EXCEPT ![w] = "route"]
    BY <1>3 DEF Steps, Inside, Goto
  <2>4. session'[w] = x /\ pc'[w] = "route"
    BY <1>1, <2>1, <2>2, <2>3, SessionSet, Went
  <2>5. PlaceOK(w)'
    BY <1>1, <2>2, <2>4 DEF PlaceOK, Busy, Inside, Kind, tableVars, NoRecords, NoReplies
  <2> QED BY <1>1, <2>1, <2>2, <2>3, <2>5, TypeInside DEF TypeOK
<1> QED BY <1>2, <1>3 DEF Discover

\* What the steps of a transaction do to its session
SameEvent(w) == /\ session'[w].event = session[w].event /\ session'[w].count = session[w].count
                /\ session'[w].seen = session[w].seen
Others(w) == \A v \in Workers : v # w => session'[v] = session[v] /\ pc'[v] = pc[v]

LEMMA Moves ==
  ASSUME TypeOK, NEW w \in Workers, NEW x \in Sessions, NEW p \in Steps,
         session' = [session EXCEPT ![w] = x], pc' = [pc EXCEPT ![w] = p]
  PROVE  session'[w] = x /\ pc'[w] = p /\ Others(w)
BY SessionSet, Went DEF Others

LEMMA ChooseIs ==
  ASSUME TypeInv, NEW w \in Workers, Busy(w), NEW routes \in SUBSET Deployments,
         session' = [session EXCEPT ![w].left = routes], Goto(w, "plugin"),
         UNCHANGED <<tableVars, running, locked, calls, queue, faults, overruns>>
  PROVE  /\ TypeInv' /\ SameEvent(w) /\ Others(w) /\ pc'[w] = "plugin"
         /\ session'[w].left = routes /\ session'[w].novel = session[w].novel
         /\ session'[w].draft = session[w].draft /\ session'[w].replies = session[w].replies
         /\ session'[w].loaded = session[w].loaded
<1> DEFINE y == session[w]
           x == [y EXCEPT !.left = routes]
<1>1. TypeOK /\ PlaceOK(w) /\ y \in Sessions /\ session' = [session EXCEPT ![w] = x]
  BY DEF TypeInv, TypeOK
<1>2. /\ x \in Sessions /\ x.event = y.event /\ x.draft = y.draft /\ x.replies = y.replies
      /\ x.novel = y.novel /\ x.left = routes /\ x.count = y.count /\ x.seen = y.seen
      /\ x.loaded = y.loaded
  <2> HIDE DEF y
  <2> QED BY <1>1 DEF Sessions
<1> HIDE DEF x
<1>3. "plugin" \in Steps /\ pc' = [pc EXCEPT ![w] = "plugin"]
  BY DEF Steps, Inside, Goto
<1>4. session'[w] = x /\ pc'[w] = "plugin" /\ Others(w)
  BY <1>1, <1>2, <1>3, Moves
<1>5. PlaceOK(w)'
  BY <1>1, <1>2, <1>4 DEF PlaceOK, Busy, Inside, Kind, tableVars
<1> QED BY <1>1, <1>2, <1>3, <1>4, <1>5, TypeInside DEF TypeOK, SameEvent

LEMMA LoadIs ==
  ASSUME TypeInv, NEW w \in Workers, pc[w] = "plugin", NEW d \in session[w].left,
         session' = [session EXCEPT ![w].loaded[d] = record[session[w].event][d]],
         NEW p \in {"insert", "judge"}, Goto(w, p),
         UNCHANGED <<tableVars, running, locked, calls, queue, faults, overruns>>
  PROVE  /\ TypeInv' /\ SameEvent(w) /\ Others(w) /\ pc'[w] = p
         /\ session'[w].left = session[w].left /\ session'[w].novel = session[w].novel
         /\ session'[w].draft = session[w].draft /\ session'[w].replies = session[w].replies
         /\ session'[w].loaded =
              [session[w].loaded EXCEPT ![d] = record[session[w].event][d]]
<1> DEFINE y == session[w]
           f == [y.loaded EXCEPT ![d] = record[session[w].event][d]]
           x == [y EXCEPT !.loaded = f]
<1>0. Busy(w)
  BY DEF Busy, Inside
<1>1. TypeOK /\ PlaceOK(w) /\ y \in Sessions /\ session' = [session EXCEPT ![w] = x]
  BY DEF TypeInv, TypeOK
<1>2. /\ y.event \in Events /\ d \in Deployments
      /\ y.loaded \in [Deployments -> RecordStatuses \cup {"NONE"}]
  BY <1>0, <1>1, AtWork DEF Sessions
<1>3. f \in [Deployments -> RecordStatuses \cup {"NONE"}]
  BY <1>1, <1>2 DEF TypeOK
<1>4. /\ x \in Sessions /\ x.event = y.event /\ x.draft = y.draft /\ x.replies = y.replies
      /\ x.novel = y.novel /\ x.left = y.left /\ x.count = y.count /\ x.seen = y.seen
      /\ x.loaded = f
  <2> HIDE DEF y, f
  <2> QED BY <1>1, <1>3 DEF Sessions
<1> HIDE DEF x
<1>5. p \in Steps /\ pc' = [pc EXCEPT ![w] = p]
  BY DEF Steps, Inside, Goto
<1>6. session'[w] = x /\ pc'[w] = p /\ Others(w)
  BY <1>1, <1>4, <1>5, Moves
<1>7. PlaceOK(w)'
  BY <1>0, <1>1, <1>4, <1>6 DEF PlaceOK, Busy, Inside, Kind, tableVars
<1> QED BY <1>1, <1>4, <1>5, <1>6, <1>7, TypeInside DEF TypeOK, SameEvent

LEMMA InsertIs ==
  ASSUME TypeInv, NEW w \in Workers, pc[w] = "insert", NEW d \in session[w].left,
         session' = [session EXCEPT ![w].draft[d] = "PENDING"], Goto(w, "judge"),
         UNCHANGED <<tableVars, running, locked, calls, queue, faults, overruns>>
  PROVE  /\ TypeInv' /\ SameEvent(w) /\ Others(w) /\ pc'[w] = "judge"
         /\ session'[w].left = session[w].left /\ session'[w].novel = session[w].novel
         /\ session'[w].draft = [session[w].draft EXCEPT ![d] = "PENDING"]
         /\ session'[w].replies = session[w].replies
         /\ session'[w].loaded = session[w].loaded
<1> DEFINE y == session[w]
           f == [y.draft EXCEPT ![d] = "PENDING"]
           x == [y EXCEPT !.draft = f]
<1>0. Busy(w)
  BY DEF Busy, Inside
<1>1. TypeOK /\ PlaceOK(w) /\ y \in Sessions /\ session' = [session EXCEPT ![w] = x]
  BY DEF TypeInv, TypeOK
<1>2. f \in [Deployments -> RecordStatuses \cup {"NONE"}]
  BY <1>1 DEF Sessions, RecordStatuses
<1>3. /\ x \in Sessions /\ x.event = y.event /\ x.draft = f /\ x.replies = y.replies
      /\ x.novel = y.novel /\ x.left = y.left /\ x.count = y.count /\ x.seen = y.seen
      /\ x.loaded = y.loaded
  <2> HIDE DEF y, f
  <2> QED BY <1>1, <1>2 DEF Sessions
<1> HIDE DEF x
<1>4. "judge" \in Steps /\ pc' = [pc EXCEPT ![w] = "judge"]
  BY DEF Steps, Inside, Goto
<1>5. session'[w] = x /\ pc'[w] = "judge" /\ Others(w)
  BY <1>1, <1>3, <1>4, Moves
<1>6. PlaceOK(w)'
  BY <1>0, <1>1, <1>3, <1>5 DEF PlaceOK, Busy, Inside, Kind, tableVars
<1> QED BY <1>1, <1>3, <1>4, <1>5, <1>6, TypeInside DEF TypeOK, SameEvent

LEMMA EndRouteIs ==
  ASSUME TypeInv, NEW w \in Workers, pc[w] \in {"judge", "call"},
         NEW status \in RecordStatuses, NEW replies \in SUBSET Replies,
         EndRoute(w, status, replies),
         UNCHANGED <<tableVars, running, locked, calls, queue, faults, overruns>>
  PROVE  /\ TypeInv' /\ SameEvent(w) /\ Others(w) /\ pc'[w] = "plugin"
         /\ Route(w) \in session[w].left /\ Route(w) \in Deployments
         /\ session'[w].left = session[w].left \ {Route(w)}
         /\ session'[w].novel = session[w].novel
         /\ session'[w].draft = [session[w].draft EXCEPT ![Route(w)] = status]
         /\ session'[w].replies = [session[w].replies EXCEPT ![Route(w)] = replies]
         /\ session'[w].loaded = session[w].loaded
<1> DEFINE y == session[w]
           d == Route(w)
           f == [y.draft EXCEPT ![d] = status]
           g == [y.replies EXCEPT ![d] = replies]
           l == y.left \ {d}
           x == [y EXCEPT !.draft = f, !.replies = g, !.left = l, !.call = 0]
<1>0. Busy(w)
  BY DEF Busy, Inside
<1>1. TypeOK /\ PlaceOK(w) /\ y \in Sessions /\ y.left # {}
  BY DEF TypeInv, TypeOK, PlaceOK
<1>2. session' = [session EXCEPT ![w] = x]
  BY <1>1 DEF EndRoute, TypeOK, Sessions
<1>3. d \in y.left /\ d \in Deployments
  BY <1>1, RouteIsLeft
<1> HIDE DEF d
<1>4. /\ f \in [Deployments -> RecordStatuses \cup {"NONE"}]
      /\ g \in [Deployments -> SUBSET Replies] /\ l \in SUBSET Deployments
  BY <1>1 DEF Sessions
<1>5. /\ x \in Sessions /\ x.event = y.event /\ x.draft = f /\ x.replies = g
      /\ x.novel = y.novel /\ x.left = l /\ x.count = y.count /\ x.seen = y.seen
      /\ x.loaded = y.loaded
  <2> HIDE DEF y, f, g, l
  <2> QED BY <1>1, <1>4 DEF Sessions
<1> HIDE DEF x
<1>6. "plugin" \in Steps /\ pc' = [pc EXCEPT ![w] = "plugin"]
  BY DEF Steps, Inside, EndRoute, Goto
<1>7. session'[w] = x /\ pc'[w] = "plugin" /\ Others(w)
  BY <1>1, <1>2, <1>5, <1>6, Moves
<1>8. PlaceOK(w)'
  BY <1>0, <1>1, <1>5, <1>7 DEF PlaceOK, Busy, Inside, Kind, tableVars
<1> QED BY <1>1, <1>2, <1>3, <1>5, <1>6, <1>7, <1>8, TypeInside DEF TypeOK, SameEvent, d

LEMMA CallIs ==
  ASSUME TypeInv, NEW w \in Workers, pc[w] = "judge",
         calls' = [calls EXCEPT ![session[w].event][Route(w)] = @ + 1],
         session' = [session EXCEPT ![w].call = calls[session[w].event][Route(w)] + 1],
         Goto(w, "call"), UNCHANGED <<tableVars, running, locked, queue, faults, overruns>>
  PROVE  /\ TypeInv' /\ SameEvent(w) /\ Others(w) /\ pc'[w] = "call"
         /\ session'[w].left = session[w].left /\ session'[w].novel = session[w].novel
         /\ session'[w].draft = session[w].draft
         /\ session'[w].replies = session[w].replies
         /\ session'[w].loaded = session[w].loaded
<1> DEFINE y == session[w]
           n == calls[session[w].event][Route(w)] + 1
           x == [y EXCEPT !.call = n]
<1>0. Busy(w)
  BY DEF Busy, Inside
<1>1. TypeOK /\ PlaceOK(w) /\ y \in Sessions /\ session' = [session EXCEPT ![w] = x]
      /\ y.left # {}
  BY DEF TypeInv, TypeOK, PlaceOK
<1>2. y.event \in Events /\ Route(w) \in Deployments
  BY <1>0, <1>1, AtWork, RouteIsLeft
<1>3. n \in Nat /\ calls' \in [Events -> [Deployments -> Nat]]
  BY <1>1, <1>2 DEF TypeOK
<1>4. /\ x \in Sessions /\ x.event = y.event /\ x.draft = y.draft /\ x.replies = y.replies
      /\ x.novel = y.novel /\ x.left = y.left /\ x.count = y.count /\ x.seen = y.seen
      /\ x.loaded = y.loaded
  <2> HIDE DEF y, n
  <2> QED BY <1>1, <1>3 DEF Sessions
<1> HIDE DEF x
<1>5. "call" \in Steps /\ pc' = [pc EXCEPT ![w] = "call"]
  BY DEF Steps, Inside, Goto
<1>6. session'[w] = x /\ pc'[w] = "call" /\ Others(w)
  BY <1>1, <1>4, <1>5, Moves
<1>7. PlaceOK(w)'
  BY <1>0, <1>1, <1>4, <1>6 DEF PlaceOK, Busy, Inside, Kind, tableVars
<1> QED BY <1>1, <1>3, <1>4, <1>5, <1>6, <1>7, TypeInside DEF TypeOK, SameEvent

LEMMA RepliesTyped ==
  ASSUME NEW acts \in Results, NEW n \in Nat, NEW have
  PROVE  NewReplies(have, acts, n) \in SUBSET Replies
<1>1. \A i \in DOMAIN acts : acts[i] \in Submitted
  BY DEF Submitted
<1>2. \A i \in DOMAIN acts : [key |-> acts[i].key, text |-> acts[i].text, call |-> n] \in Replies
  BY <1>1 DEF Replies
<1> QED BY <1>2 DEF NewReplies

\* Of one call
LEMMA RepliesOfOneCall ==
  ASSUME NEW acts, NEW n, NEW have, NEW r \in NewReplies(have, acts, n)
  PROVE  r.call = n
BY DEF NewReplies

\* What a plugin answered, as EndRoute takes it
LEMMA AnswerIs ==
  ASSUME TypeInv, NEW w \in Workers, Answer(w)
  PROVE  \E status \in RecordStatuses, replies \in SUBSET Replies :
           /\ EndRoute(w, status, replies)
           /\ status \in {"FAILED_RETRYABLE", "REJECTED", "SUCCEEDED"}
           /\ replies # {} => status \in {"REJECTED", "SUCCEEDED"}
           /\ \A r \in replies : r.call = session[w].call
<1> DEFINE have == rows[session[w].event][Route(w)]
           n == session[w].call
<1>1. n \in Nat
  BY DEF TypeInv, TypeOK, Sessions
<1>2. CASE EndRoute(w, "FAILED_RETRYABLE", {})
  BY <1>2 DEF RecordStatuses
<1>3. CASE EndRoute(w, "REJECTED", {})
  BY <1>3 DEF RecordStatuses
<1>4. ASSUME NEW acts \in Results,
             EndRoute(w, IF \E i \in DOMAIN acts : Clashes(have, acts, i)
                           THEN "REJECTED" ELSE "SUCCEEDED",
                      NewReplies(have, acts, n))
      PROVE  \E status \in RecordStatuses, replies \in SUBSET Replies :
               /\ EndRoute(w, status, replies)
               /\ status \in {"FAILED_RETRYABLE", "REJECTED", "SUCCEEDED"}
               /\ replies # {} => status \in {"REJECTED", "SUCCEEDED"}
               /\ \A r \in replies : r.call = session[w].call
  <2> DEFINE status == IF \E i \in DOMAIN acts : Clashes(have, acts, i)
                         THEN "REJECTED" ELSE "SUCCEEDED"
             replies == NewReplies(have, acts, n)
  <2>1. status \in RecordStatuses /\ status \in {"REJECTED", "SUCCEEDED"}
    BY DEF RecordStatuses
  <2>2. EndRoute(w, status, replies)
    BY <1>4
  <2>3. replies \in SUBSET Replies
    BY <1>1, RepliesTyped
  <2>4. \A r \in replies : r.call = session[w].call
    BY RepliesOfOneCall
  <2> HIDE DEF status, replies
  <2> QED BY <2>1, <2>2, <2>3, <2>4
<1> QED BY <1>2, <1>3, <1>4 DEF Answer

LEMMA TypeRoutes == ASSUME TypeInv, NEW w \in Workers, SelectRoutes(w) PROVE TypeInv'
<1> DEFINE e == session[w].event
           routes == RoutesOf[e] \cap running
<1>1. /\ pc[w] = "route" /\ Busy(w) /\ TypeOK
      /\ UNCHANGED <<callback, due, tries, running, locked, calls, faults, overruns>>
  BY DEF SelectRoutes, Busy, Inside, TypeInv
<1>2. e \in queue[w] /\ e \in Events
  BY <1>1, AtWork
<1>3. CASE inbox' = [inbox EXCEPT ![e] = "FAILED"] /\ CommitRecords(w, e) /\ Close(w, e)
  <2>1. "FAILED" \in InboxStatuses /\ due' \in [Events -> BOOLEAN]
    BY <1>1 DEF InboxStatuses, TypeOK
  <2> HIDE DEF e
  <2> QED BY <1>1, <1>2, <1>3, <2>1, TypeClose
<1>4. CASE /\ session' = [session EXCEPT ![w].left = routes] /\ Goto(w, "plugin")
           /\ UNCHANGED <<inbox, record, rows, known, queue>>
  <2>1. routes \in SUBSET Deployments
    BY <1>1 DEF TypeOK
  <2> HIDE DEF routes
  <2> QED BY <1>1, <1>4, <2>1, ChooseIs DEF tableVars
<1> QED BY <1>3, <1>4 DEF SelectRoutes

\* One of the routes is passed over, or its record loaded.
LEMMA LoadRecordIs ==
  ASSUME TypeInv, NEW w \in Workers, LoadRecord(w)
  PROVE  LET e == session[w].event
             d == Route(w)
         IN  /\ TypeInv' /\ SameEvent(w) /\ Others(w) /\ pc[w] = "plugin"
             /\ d \in session[w].left /\ d \in Deployments
             /\ UNCHANGED <<tableVars, running, locked, calls, queue, faults, overruns>>
             /\ session'[w].novel = session[w].novel /\ session'[w].draft = session[w].draft
             /\ session'[w].replies = session[w].replies
             /\ \/ /\ record[e][d] \in TerminalRecords /\ pc'[w] = "plugin"
                   /\ session'[w].left = session[w].left \ {d}
                   /\ session'[w].loaded = session[w].loaded
                \/ /\ record[e][d] \notin TerminalRecords /\ pc'[w] \in {"insert", "judge"}
                   /\ pc'[w] = "insert" => record[e][d] = "NONE"
                   /\ pc'[w] = "judge" => record[e][d] # "NONE"
                   /\ session'[w].left = session[w].left
                   /\ session'[w].loaded = [session[w].loaded EXCEPT ![d] = record[e][d]]
<1> DEFINE e == session[w].event
           d == Route(w)
           p == IF record[e][d] = "NONE" THEN "insert" ELSE "judge"
           rest == session[w].left \ {d}
<1>1. /\ pc[w] = "plugin" /\ Busy(w) /\ TypeOK /\ session[w].left # {}
      /\ UNCHANGED <<tableVars, running, locked, calls, queue, faults, overruns>>
  BY DEF LoadRecord, Busy, Inside, TypeInv
<1>2. d \in session[w].left /\ d \in Deployments /\ rest \in SUBSET Deployments
      /\ pc = [pc EXCEPT ![w] = "plugin"]
  BY <1>1, RouteIsLeft DEF TypeOK, Sessions
<1>3. CASE record[e][d] \in TerminalRecords /\ UNCHANGED pc
           /\ session' = [session EXCEPT ![w].left = @ \ {d}]
  <2>1. session' = [session EXCEPT ![w].left = rest] /\ Goto(w, "plugin")
    BY <1>1, <1>2, <1>3 DEF TypeOK, Goto
  <2> HIDE DEF rest, d
  <2>2. /\ TypeInv' /\ SameEvent(w) /\ Others(w) /\ pc'[w] = "plugin"
        /\ session'[w].left = rest /\ session'[w].novel = session[w].novel
        /\ session'[w].draft = session[w].draft /\ session'[w].replies = session[w].replies
        /\ session'[w].loaded = session[w].loaded
    BY <1>1, <1>2, <2>1, ChooseIs
  <2> QED BY <1>1, <1>2, <1>3, <2>2 DEF rest, d
<1>4. CASE record[e][d] \notin TerminalRecords /\ Goto(w, p)
           /\ session' = [session EXCEPT ![w].loaded[d] = record[e][d]]
  <2>1. p \in {"insert", "judge"} /\ (p = "insert" <=> record[e][d] = "NONE")
    OBVIOUS
  <2> HIDE DEF p, d
  <2>2. /\ TypeInv' /\ SameEvent(w) /\ Others(w) /\ pc'[w] = p
        /\ session'[w].left = session[w].left /\ session'[w].novel = session[w].novel
        /\ session'[w].draft = session[w].draft /\ session'[w].replies = session[w].replies
        /\ session'[w].loaded = [session[w].loaded EXCEPT ![d] = record[session[w].event][d]]
    BY <1>1, <1>2, <1>4, <2>1, LoadIs
  <2> QED BY <1>1, <1>2, <1>4, <2>1, <2>2 DEF d
<1> QED BY <1>3, <1>4 DEF LoadRecord, Passed

LEMMA InsertRecordIs ==
  ASSUME TypeInv, NEW w \in Workers, InsertRecord(w)
  PROVE  /\ UNCHANGED <<tableVars, running, locked, calls, queue, faults, overruns>>
         /\ pc[w] = "insert" /\ Busy(w) /\ faults' \in 0..MaxFaults
         /\ Route(w) \in session[w].left /\ Route(w) \in Deployments
         /\ \/ Raise(w) /\ record[session[w].event][Route(w)] # "NONE"
            \/ /\ session' = [session EXCEPT ![w].draft[Route(w)] = "PENDING"]
               /\ Goto(w, "judge") /\ record[session[w].event][Route(w)] = "NONE"
<1>1. pc[w] = "insert" /\ session[w].left # {} /\ faults \in 0..MaxFaults
  BY DEF InsertRecord, TypeInv, PlaceOK, TypeOK
<1> QED BY <1>1, RouteIsLeft DEF InsertRecord, Busy, Inside

LEMMA TypeInsert == ASSUME TypeInv, NEW w \in Workers, InsertRecord(w) PROVE TypeInv'
<1>1. CASE Raise(w)
  BY <1>1, InsertRecordIs, RaiseIs
<1>2. ASSUME NEW d \in session[w].left,
             session' = [session EXCEPT ![w].draft[d] = "PENDING"], Goto(w, "judge")
      PROVE  TypeInv'
  BY <1>2, InsertRecordIs, InsertIs
<1> QED BY <1>1, <1>2, InsertRecordIs

LEMMA TypeJudge == ASSUME TypeInv, NEW w \in Workers, Judge(w) PROVE TypeInv'
<1>1. pc[w] = "judge" /\ UNCHANGED <<tableVars, running, locked, queue, faults, overruns>>
  BY DEF Judge
<1>2. CASE EndRoute(w, "DENIED", {}) /\ UNCHANGED calls
  <2>1. "DENIED" \in RecordStatuses /\ {} \in SUBSET Replies
    BY DEF RecordStatuses
  <2> QED BY <1>1, <1>2, <2>1, EndRouteIs
<1>3. CASE /\ calls' = [calls EXCEPT ![session[w].event][Route(w)] = @ + 1]
           /\ session' = [session EXCEPT ![w].call = calls[session[w].event][Route(w)] + 1]
           /\ Goto(w, "call")
  BY <1>1, <1>3, CallIs
<1> QED BY <1>2, <1>3 DEF Judge

LEMMA TypeAnswer == ASSUME TypeInv, NEW w \in Workers, Answer(w) PROVE TypeInv'
<1>1. pc[w] = "call" /\ UNCHANGED <<tableVars, running, locked, calls, queue, faults, overruns>>
  BY DEF Answer
<1>2. PICK status \in RecordStatuses, replies \in SUBSET Replies : EndRoute(w, status, replies)
  BY AnswerIs
<1> QED BY <1>1, <1>2, EndRouteIs

\* How an event ends when its transaction commits
LEMMA SettleIs ==
  ASSUME TypeInv, NEW w \in Workers, Settle(w)
  PROVE  LET e == session[w].event
         IN  /\ pc[w] = "plugin" /\ session[w].left = {} /\ e \in queue[w] /\ e \in Events
             /\ CommitRecords(w, e) /\ Close(w, e)
             /\ UNCHANGED <<callback, tries, running, locked, calls, faults, overruns>>
             /\ \E status \in InboxStatuses :
                  /\ inbox' = [inbox EXCEPT ![e] = status]
                  /\ ~Retryable(w) => status = "DISPATCHED"
                  /\ Retryable(w) => status # "DISPATCHED" \/ status = inbox[e]
                  /\ status = "FAILED" =>
                       (Retryable(w) /\ Exhausted(w)) \/ status = inbox[e]
             /\ due' = [due EXCEPT ![e] = IF Retryable(w) /\ ~Exhausted(w) THEN FALSE ELSE @]
             /\ due' \in [Events -> BOOLEAN]
<1> DEFINE e == session[w].event
           status == IF ~Retryable(w) THEN "DISPATCHED"
                     ELSE IF Exhausted(w) THEN "FAILED"
                     ELSE IF session[w].seen = "NORMALIZED" THEN inbox[e] ELSE "NORMALIZED"
<1>1. /\ pc[w] = "plugin" /\ session[w].left = {} /\ Busy(w) /\ TypeOK
      /\ CommitRecords(w, e) /\ Close(w, e)
      /\ UNCHANGED <<callback, tries, running, locked, calls, faults, overruns>>
      /\ due' = [due EXCEPT ![e] = IF Retryable(w) /\ ~Exhausted(w) THEN FALSE ELSE @]
  BY DEF Settle, Busy, Inside, TypeInv
<1>2. e \in queue[w] /\ e \in Events /\ inbox[e] # "ABSENT"
  BY <1>1, AtWork
<1>3. inbox' = [inbox EXCEPT ![e] = status]
  BY <1>1, <1>2 DEF Settle, TypeOK
<1>4. status \in InboxStatuses
  BY <1>1, <1>2 DEF TypeOK, InboxStatuses
<1>5. /\ ~Retryable(w) => status = "DISPATCHED"
      /\ Retryable(w) => status # "DISPATCHED" \/ status = inbox[e]
      /\ status = "FAILED" => (Retryable(w) /\ Exhausted(w)) \/ status = inbox[e]
  OBVIOUS
<1>6. due' \in [Events -> BOOLEAN]
  BY <1>1, <1>2 DEF TypeOK
<1> HIDE DEF status, e
<1>7. \E st \in InboxStatuses :
        /\ inbox' = [inbox EXCEPT ![e] = st]
        /\ ~Retryable(w) => st = "DISPATCHED"
        /\ Retryable(w) => st # "DISPATCHED" \/ st = inbox[e]
        /\ st = "FAILED" => (Retryable(w) /\ Exhausted(w)) \/ st = inbox[e]
  BY <1>3, <1>4, <1>5
<1> QED BY <1>1, <1>2, <1>6, <1>7 DEF e

LEMMA TypeSettle == ASSUME TypeInv, NEW w \in Workers, Settle(w) PROVE TypeInv'
<1> DEFINE e == session[w].event
<1>1. /\ e \in queue[w] /\ CommitRecords(w, e) /\ Close(w, e)
      /\ UNCHANGED <<callback, tries, running, locked, calls, faults, overruns>>
      /\ due' \in [Events -> BOOLEAN]
  BY SettleIs
<1>2. PICK status \in InboxStatuses : inbox' = [inbox EXCEPT ![e] = status]
  BY SettleIs
<1> HIDE DEF e
<1> QED BY <1>1, <1>2, TypeClose

LEMMA TypeMark == ASSUME TypeInv, NEW w \in Workers, MarkFailed(w) PROVE TypeInv'
<1> DEFINE e == session[w].event
<1>1. /\ pc[w] = "mark" /\ Busy(w) /\ TypeOK /\ Close(w, e)
      /\ inbox' = [inbox EXCEPT ![e] = "FAILED"]
      /\ UNCHANGED <<callback, due, tries, record, rows, known, running, locked, calls, faults, overruns>>
  BY DEF MarkFailed, Busy, TypeInv
<1>2. e \in queue[w] /\ "FAILED" \in InboxStatuses /\ due' \in [Events -> BOOLEAN]
  BY <1>1, AtWork DEF InboxStatuses, TypeOK
<1> HIDE DEF e
<1> QED BY <1>1, <1>2, TypeClose

LEMMA AbortIs ==
  ASSUME TypeInv, NEW w \in Workers, Abort(w)
  PROVE  /\ TypeInv' /\ faults' = faults + 1
         /\ UNCHANGED <<tableVars, running, locked, calls, overruns>>
         /\ session'[w] = Idle /\ pc'[w] = "recover" /\ queue'[w] = {} /\ Others(w)
         /\ \A v \in Workers : v # w => queue'[v] = queue[v]
<1>1. /\ TypeOK /\ "recover" \in Steps /\ pc' = [pc EXCEPT ![w] = "recover"]
      /\ session' = [session EXCEPT ![w] = Idle] /\ queue' = [queue EXCEPT ![w] = {}]
      /\ UNCHANGED <<tableVars, running, locked, calls, overruns>>
      /\ faults < MaxFaults /\ faults' = faults + 1
  BY DEF Abort, Goto, Steps, TypeInv
<1>2. session'[w] = Idle /\ pc'[w] = "recover" /\ Others(w)
  BY <1>1, IdleTyped, Moves
<1>3. /\ queue'[w] = {} /\ \A v \in Workers : v # w => queue'[v] = queue[v]
      /\ queue' \in [Workers -> SUBSET Events]
  BY <1>1 DEF TypeOK
<1>4. PlaceOK(w)'
  BY <1>2, <1>3 DEF PlaceOK, Busy, Inside
<1>5. /\ session' \in [Workers -> Sessions] /\ pc' \in [Workers -> Steps]
      /\ \A v \in Workers : PlaceOK(v)'
  BY <1>1, <1>3, <1>4, IdleTyped, WorkerStep DEF tableVars
<1>6. faults' \in 0..MaxFaults
  BY <1>1, DispatchAssumption DEF TypeOK
<1>7. TypeOK'
  BY <1>1, <1>3, <1>5, <1>6 DEF TypeOK, tableVars, Steps
<1>8. Received'
  <2>1. \A v \in Workers, e \in Events : e \in queue'[v] => e \in queue[v]
    BY <1>3
  <2> QED BY <1>1, <2>1, StillReceived DEF tableVars
<1> QED BY <1>1, <1>2, <1>3, <1>5, <1>7, <1>8 DEF TypeInv

LEMMA StatementFailsIs ==
  ASSUME TypeInv, NEW w \in Workers, StatementFails(w)
  PROVE  /\ Busy(w) /\ Raise(w) /\ UNCHANGED <<tableVars, running, locked, calls, queue, overruns>>
         /\ faults' \in 0..MaxFaults /\ faults' = faults + 1
BY DispatchAssumption DEF StatementFails, Busy, TypeInv, TypeOK

LEMMA TypeStep == TypeInv /\ [Next]_vars => TypeInv'
<1> SUFFICES ASSUME TypeInv, [Next]_vars PROVE TypeInv'
  OBVIOUS
<1>1. CASE UNCHANGED vars
  <2>1. TypeOK' /\ Received'
    BY <1>1 DEF vars, TypeInv, TypeOK, Received, Kind, NoReplies, NoRecords
  <2> QED BY <1>1, <2>1, NobodyMoved DEF vars, TypeInv
<1>2. ASSUME NEW w \in Workers, RunOnce(w) PROVE TypeInv'
  BY <1>2, TypeRecover, TypeClaim, TypeBegin, TypeEnter, TypeDiscover, TypeRoutes,
     LoadRecordIs, TypeInsert, TypeJudge, TypeAnswer, TypeSettle, TypeMark DEF RunOnce
<1>3. ASSUME NEW w \in Workers, StatementFails(w) \/ Abort(w) PROVE TypeInv'
  BY <1>3, StatementFailsIs, RaiseIs, AbortIs
<1>4. ASSUME NEW d \in Deployments, LockDeployment(d) \/ Toggle(d) PROVE TypeInv'
  BY <1>4, TypeToggle
<1> QED BY <1>1, <1>2, <1>3, <1>4, TypeIngest, TypeTime DEF Next

LEMMA TypeInvariant == Spec => []TypeInv
  BY TypeInit, TypeStep, PTL DEF Spec

\* Every table keeps its type, and every worker's transaction.
THEOREM TypeCorrect == Spec => []TypeOK
<1>1. TypeInv => TypeOK
  BY DEF TypeInv
<1> QED BY <1>1, TypeInvariant, PTL

-----------------------------------------------------------------------------
(* The records.  What a transaction has drafted for a route it may commit:  *)
(* the route was open when its record was loaded, nobody else has drafted   *)
(* for it, and if its record was inserted there is still none.              *)

Open == {"NONE", "FAILED_RETRYABLE"}

DraftOK(w) == Busy(w) =>
  LET e == session[w].event
      s == session[w]
  IN  \A d \in Deployments :
        /\ s.draft[d] = "PENDING" => d \in s.left
        /\ d \in s.left /\ s.draft[d] # "NONE" =>
             s.draft[d] = "PENDING" /\ pc[w] \in {"judge", "call"} /\ d = Route(w)
        /\ s.draft[d] # "NONE" =>
             s.loaded[d] \in Open /\ (s.loaded[d] = "NONE" => record[e][d] = "NONE")
        /\ pc[w] \in {"insert", "judge", "call"} /\ d = Route(w) =>
             /\ s.loaded[d] \in Open
             /\ pc[w] = "insert" => s.loaded[d] = "NONE"
             /\ pc[w] # "insert" /\ s.loaded[d] = "NONE" => s.draft[d] = "PENDING"

\* Every route is still to be taken, or has ended, in this dispatch or an earlier one.
CoverOK(w) == pc[w] \in {"plugin", "insert", "judge", "call"} =>
  LET e == session[w].event
  IN  \A d \in RoutesOf[e] \ Fickle :
        \/ d \in session[w].left
        \/ session[w].draft[d] \in TerminalRecords \cup {"FAILED_RETRYABLE"}
        \/ record[e][d] \in TerminalRecords

Exclusive ==
  \A v, w \in Workers : v # w =>
    \A e \in Events, d \in Deployments : ~(Touched(v, e, d) /\ Touched(w, e, d))

NoPending == \A e \in Events, d \in Deployments : record[e][d] # "PENDING"

RecordInv ==
  /\ TypeInv /\ Deployments \ Fickle \subseteq running
  /\ NoPending /\ Exclusive /\ HandledByAll
  /\ \A w \in Workers : DraftOK(w) /\ CoverOK(w)

LEMMA RecordInit == Init => RecordInv
<1> SUFFICES ASSUME Init PROVE RecordInv
  OBVIOUS
<1>1. \A w \in Workers : ~Busy(w) /\ pc[w] = "recover"
  BY DEF Init, Busy, Inside
<1>2. \A w \in Workers, e \in Events, d \in Deployments : ~Touched(w, e, d)
  BY IdleFields DEF Init, Touched, NoRecords
<1>3. NoPending /\ HandledByAll /\ running = Deployments
  BY DEF Init, NoPending, HandledByAll, NoRecords
<1> QED BY <1>1, <1>2, <1>3, TypeInit DEF RecordInv, DraftOK, CoverOK, Exclusive

\* No event is handled by the step
HandledKept ==
  \A e \in Events : inbox'[e] = "DISPATCHED" /\ Kind(e)' \in {"group", "private"} =>
    inbox[e] = "DISPATCHED" /\ Kind(e) \in {"group", "private"}

LEMMA OtherDrafts ==
  ASSUME RecordInv, NEW v \in Workers, session'[v] = session[v], pc'[v] = pc[v],
         UNCHANGED record
  PROVE  DraftOK(v)' /\ CoverOK(v)'
<1>1. DraftOK(v) /\ CoverOK(v)
  BY DEF RecordInv
<1>2. (Busy(v)' <=> Busy(v)) /\ Route(v)' = Route(v)
  BY DEF Busy, Route
<1> QED BY <1>1, <1>2 DEF DraftOK, CoverOK

LEMMA OtherTouches ==
  ASSUME NEW v \in Workers, session'[v] = session[v]
  PROVE  \A e \in Events, d \in Deployments : Touched(v, e, d)' <=> Touched(v, e, d)
BY DEF Touched

\* A worker goes on, and drafts at most for a record that is free.
LEMMA DraftStep ==
  ASSUME RecordInv, TypeInv', NEW w \in Workers, Others(w),
         UNCHANGED <<record, running>>, HandledKept, DraftOK(w)', CoverOK(w)',
         \A e \in Events, d \in Deployments :
           Touched(w, e, d)' => Touched(w, e, d) \/ RecordFree(w, e, d)
  PROVE  RecordInv'
<1>1. \A v \in Workers : v # w => session'[v] = session[v] /\ pc'[v] = pc[v]
  BY DEF Others
<1>2. \A v \in Workers : DraftOK(v)' /\ CoverOK(v)'
  <2>1. \A v \in Workers : v # w => DraftOK(v)' /\ CoverOK(v)'
    BY <1>1, OtherDrafts
  <2> QED BY <2>1
<1>3. Exclusive'
  <2>1. ASSUME NEW v \in Workers, v # w, NEW e \in Events, NEW d \in Deployments
        PROVE  ~(Touched(v, e, d)' /\ Touched(w, e, d)')
    BY <1>1, <2>1, OtherTouches DEF RecordInv, Exclusive, RecordFree
  <2>2. ASSUME NEW u \in Workers, NEW v \in Workers, u # v, u # w, v # w,
               NEW e \in Events, NEW d \in Deployments
        PROVE  ~(Touched(u, e, d)' /\ Touched(v, e, d)')
    BY <1>1, <2>2, OtherTouches DEF RecordInv, Exclusive
  <2> QED BY <2>1, <2>2 DEF Exclusive
<1>4. NoPending'
  BY DEF RecordInv, NoPending
<1>5. HandledByAll'
  BY DEF RecordInv, HandledByAll, HandledKept
<1> QED BY <1>2, <1>3, <1>4, <1>5 DEF RecordInv

\* A worker goes on that has nothing drafted.
LEMMA EmptyStep ==
  ASSUME RecordInv, TypeInv', NEW w \in Workers, Others(w),
         UNCHANGED <<record, running>>, HandledKept,
         session'[w].draft = NoRecords,
         pc'[w] \notin {"plugin", "insert", "judge", "call"}
  PROVE  RecordInv'
<1>1. \A e \in Events, d \in Deployments : ~Touched(w, e, d)'
  BY DEF Touched, NoRecords
<1>2. DraftOK(w)'
  BY DEF DraftOK, NoRecords
<1>3. CoverOK(w)'
  BY DEF CoverOK
<1> QED BY <1>1, <1>2, <1>3, DraftStep

\* Nobody moves.
LEMMA StillStep ==
  ASSUME RecordInv, TypeInv', UNCHANGED <<session, pc, record>>,
         Deployments \ Fickle \subseteq running', HandledKept
  PROVE  RecordInv'
<1>1. \A v \in Workers : DraftOK(v)' /\ CoverOK(v)'
  BY OtherDrafts
<1>2. Exclusive' /\ NoPending'
  BY DEF RecordInv, Exclusive, NoPending, Touched
<1>3. HandledByAll'
  BY DEF RecordInv, HandledByAll, HandledKept
<1> QED BY <1>1, <1>2, <1>3 DEF RecordInv

\* A record that is terminal stays so, whatever the rivals of its event commit.
TerminalStays ==
  \A e \in Events, d \in Deployments :
    record[e][d] \in TerminalRecords => record'[e][d] \in TerminalRecords

LEMMA CommitKeeps ==
  ASSUME RecordInv, NEW w \in Workers, Busy(w), CommitRecords(w, session[w].event),
         \A d \in Deployments : session[w].draft[d] # "PENDING"
  PROVE  /\ TerminalStays /\ NoPending'
         /\ \A e \in Events : e # session[w].event => record'[e] = record[e]
         /\ \A d \in Deployments :
              /\ record'[session[w].event][d] # record[session[w].event][d] => Written(w, d)
              /\ session[w].draft[d] \in TerminalRecords =>
                   record'[session[w].event][d] \in TerminalRecords
<1> DEFINE e == session[w].event
           s == session[w]
<1>1. e \in Events /\ s \in Sessions /\ TypeInv /\ DraftOK(w)
  BY AtWork DEF RecordInv
<1>2. /\ \A f \in Events : f # e => record'[f] = record[f]
      /\ \A d \in Deployments : /\ Written(w, d) => record'[e][d] = s.draft[d]
                                /\ ~Written(w, d) => record'[e][d] = record[e][d]
  BY <1>1, CommitIs
<1>3. \A d \in Deployments : s.draft[d] \in {"NONE", "FAILED_RETRYABLE"} \cup TerminalRecords
  BY <1>1 DEF Sessions, RecordStatuses, TerminalRecords
<1>4. ASSUME NEW d \in Deployments, Written(w, d)
      PROVE  /\ s.draft[d] \in {"FAILED_RETRYABLE"} \cup TerminalRecords
             /\ s.draft[d] = "FAILED_RETRYABLE" => record[e][d] = "NONE"
  BY <1>1, <1>3, <1>4 DEF Written, DraftOK, Open
<1>5. ASSUME NEW d \in Deployments
      PROVE  /\ record[e][d] \in TerminalRecords => record'[e][d] \in TerminalRecords
             /\ record'[e][d] # "PENDING"
             /\ s.draft[d] \in TerminalRecords => record'[e][d] \in TerminalRecords
             /\ record'[e][d] # record[e][d] => Written(w, d)
  <2>1. record[e][d] # "PENDING"
    BY <1>1 DEF RecordInv, NoPending
  <2>2. s.draft[d] \in TerminalRecords => Written(w, d)
    BY <1>1 DEF Written, DraftOK, Open, TerminalRecords
  <2> QED BY <1>2, <1>4, <2>1, <2>2 DEF TerminalRecords
<1>6. TerminalStays
  BY <1>2, <1>5 DEF TerminalStays
<1>7. NoPending'
  BY <1>2, <1>5 DEF NoPending, RecordInv
<1> QED BY <1>2, <1>5, <1>6, <1>7

LEMMA CommitStep ==
  ASSUME RecordInv, TypeInv', NEW w \in Workers, Busy(w),
         \A d \in Deployments : session[w].draft[d] # "PENDING",
         CommitRecords(w, session[w].event), Close(w, session[w].event),
         UNCHANGED <<callback, running>>,
         \A f \in Events : f # session[w].event => inbox'[f] = inbox[f],
         inbox'[session[w].event] = "DISPATCHED" =>
           \/ inbox[session[w].event] = "DISPATCHED"
           \/ pc[w] = "plugin" /\ session[w].left = {} /\ ~Retryable(w)
  PROVE  RecordInv' /\ TerminalStays
<1> DEFINE e == session[w].event
<1>1. e \in Events /\ e \in queue[w] /\ TypeInv /\ DraftOK(w) /\ CoverOK(w)
  BY AtWork DEF RecordInv
<1>2. /\ session'[w] = Idle /\ pc'[w] \in {"recover", "next"}
      /\ \A v \in Workers : v # w => session'[v] = session[v] /\ pc'[v] = pc[v]
  BY <1>1, CloseIs
<1>4. /\ TerminalStays /\ NoPending'
      /\ \A f \in Events : f # e => record'[f] = record[f]
      /\ \A d \in Deployments :
           /\ record'[e][d] # record[e][d] => Touched(w, e, d)
           /\ session[w].draft[d] \in TerminalRecords => record'[e][d] \in TerminalRecords
  <2>1. \A d \in Deployments : Written(w, d) => Touched(w, e, d)
    BY DEF Written, Touched
  <2> QED BY <2>1, CommitKeeps
<1>5. ASSUME NEW v \in Workers, v # w PROVE DraftOK(v)' /\ CoverOK(v)'
  <2>1. /\ session'[v] = session[v] /\ pc'[v] = pc[v] /\ DraftOK(v) /\ CoverOK(v)
        /\ (Busy(v)' <=> Busy(v)) /\ Route(v)' = Route(v)
    BY <1>2, <1>5 DEF RecordInv, Busy, Route
  <2>2. Busy(v) => session[v].event \in Events
    BY <1>1, AtWork
  <2>3. ASSUME Busy(v), NEW d \in Deployments, session[v].draft[d] # "NONE",
               record[session[v].event][d] = "NONE"
        PROVE  record'[session[v].event][d] = "NONE"
    <3>1. Touched(v, session[v].event, d)
      BY <2>3 DEF Touched
    <3>2. ~Touched(w, session[v].event, d)
      BY <1>5, <2>2, <2>3, <3>1 DEF RecordInv, Exclusive
    <3> QED BY <1>4, <2>2, <2>3, <3>2
  <2>4. DraftOK(v)'
    BY <2>1, <2>3 DEF DraftOK
  <2>5. CoverOK(v)'
    <3>1. pc[v] \in {"plugin", "insert", "judge", "call"} => Busy(v)
      BY DEF Busy, Inside
    <3>2. \A f \in Events : RoutesOf[f] \subseteq Deployments
      BY DispatchAssumption
    <3> QED BY <1>4, <2>1, <2>2, <3>1, <3>2 DEF CoverOK, TerminalStays
  <2> QED BY <2>4, <2>5
<1>6. DraftOK(w)' /\ CoverOK(w)'
  BY <1>2 DEF DraftOK, CoverOK, Busy, Inside
<1>7. Exclusive'
  <2>1. \A f \in Events, d \in Deployments : ~Touched(w, f, d)'
    BY <1>2, IdleFields DEF Touched, NoRecords
  <2>2. ASSUME NEW u \in Workers, NEW v \in Workers, u # v, u # w, v # w,
               NEW f \in Events, NEW d \in Deployments
        PROVE  ~(Touched(u, f, d)' /\ Touched(v, f, d)')
    BY <1>2, <2>2, OtherTouches DEF RecordInv, Exclusive
  <2> QED BY <2>1, <2>2 DEF Exclusive
<1>8. HandledByAll'
  <2> SUFFICES ASSUME NEW f \in Events, inbox'[f] = "DISPATCHED",
                      Kind(f)' \in {"group", "private"}, NEW d \in RoutesOf[f] \ Fickle
               PROVE  record'[f][d] \in TerminalRecords
    BY DEF HandledByAll
  <2>1. d \in Deployments /\ Kind(f) \in {"group", "private"}
    BY DispatchAssumption DEF Kind
  <2>2. CASE inbox[f] = "DISPATCHED"
    BY <1>4, <2>1, <2>2 DEF RecordInv, HandledByAll, TerminalStays
  <2>3. CASE f = e /\ pc[w] = "plugin" /\ session[w].left = {} /\ ~Retryable(w)
    <3>1. session[w].draft[d] # "FAILED_RETRYABLE"
      BY <2>1, <2>3 DEF Retryable
    <3>2. session[w].draft[d] \in TerminalRecords \/ record[e][d] \in TerminalRecords
      BY <1>1, <2>1, <2>3, <3>1 DEF CoverOK, TerminalRecords
    <3> QED BY <1>1, <1>4, <2>1, <2>3, <3>2 DEF TerminalStays
  <2> QED BY <2>2, <2>3
<1>9. Deployments \ Fickle \subseteq running'
  BY DEF RecordInv
<1> QED BY <1>4, <1>5, <1>6, <1>7, <1>8, <1>9 DEF RecordInv

\* The steps of the transaction at its routes
LEMMA RecordLoad == ASSUME RecordInv, NEW w \in Workers, LoadRecord(w) PROVE RecordInv'
<1> DEFINE e == session[w].event
           d == Route(w)
<1>0. /\ TypeInv /\ DraftOK(w) /\ CoverOK(w) /\ Deployments \ Fickle \subseteq running
  BY DEF RecordInv
<1>1. /\ TypeInv' /\ SameEvent(w) /\ Others(w) /\ pc[w] = "plugin"
      /\ d \in session[w].left /\ d \in Deployments
      /\ UNCHANGED <<tableVars, running, locked, calls, queue, faults, overruns>>
      /\ session'[w].novel = session[w].novel /\ session'[w].draft = session[w].draft
      /\ \/ /\ record[e][d] \in TerminalRecords /\ pc'[w] = "plugin"
            /\ session'[w].left = session[w].left \ {d}
            /\ session'[w].loaded = session[w].loaded
         \/ /\ record[e][d] \notin TerminalRecords /\ pc'[w] \in {"insert", "judge"}
            /\ pc'[w] = "insert" => record[e][d] = "NONE"
            /\ pc'[w] = "judge" => record[e][d] # "NONE"
            /\ session'[w].left = session[w].left
            /\ session'[w].loaded = [session[w].loaded EXCEPT ![d] = record[e][d]]
  BY <1>0, LoadRecordIs
<1>2. Busy(w) /\ Busy(w)'
  BY <1>1 DEF Busy, Inside
<1>3. e \in Events /\ session[w] \in Sessions /\ session'[w].event = e
  BY <1>0, <1>1, <1>2, AtWork DEF SameEvent
<1>4. /\ \A x \in Deployments : /\ session[w].draft[x] # "PENDING"
                                /\ x \in session[w].left => session[w].draft[x] = "NONE"
  BY <1>0, <1>1, <1>2 DEF DraftOK
<1>5. record[e][d] \in TerminalRecords \cup Open
  BY <1>0, <1>1, <1>3
     DEF RecordInv, TypeInv, TypeOK, NoPending, Open, TerminalRecords, RecordStatuses
<1>6. UNCHANGED record /\ UNCHANGED running /\ HandledKept
  BY <1>1 DEF tableVars, HandledKept, Kind
<1> HIDE DEF d, e
<1>7. CASE /\ record[e][d] \in TerminalRecords /\ pc'[w] = "plugin"
           /\ session'[w].left = session[w].left \ {d}
           /\ session'[w].loaded = session[w].loaded
  <2>1. DraftOK(w)'
    BY <1>0, <1>1, <1>2, <1>3, <1>4, <1>6, <1>7 DEF DraftOK, e
  <2>2. CoverOK(w)'
    BY <1>0, <1>1, <1>3, <1>6, <1>7 DEF CoverOK, e
  <2>3. \A f \in Events, x \in Deployments : Touched(w, f, x)' => Touched(w, f, x)
    BY <1>1, <1>3 DEF Touched, e
  <2> QED BY <1>1, <1>6, <2>1, <2>2, <2>3, DraftStep
<1>8. CASE /\ record[e][d] \notin TerminalRecords /\ pc'[w] \in {"insert", "judge"}
           /\ pc'[w] = "insert" => record[e][d] = "NONE"
           /\ pc'[w] = "judge" => record[e][d] # "NONE"
           /\ session'[w].left = session[w].left
           /\ session'[w].loaded = [session[w].loaded EXCEPT ![d] = record[e][d]]
  <2>1. Route(w)' = d
    BY <1>8 DEF Route, d
  <2>2. /\ session'[w].loaded[d] = record[e][d] /\ record[e][d] \in Open
        /\ \A x \in Deployments : x # d => session'[w].loaded[x] = session[w].loaded[x]
    BY <1>1, <1>3, <1>5, <1>8 DEF Sessions
  <2>3. DraftOK(w)'
    BY <1>0, <1>1, <1>2, <1>3, <1>4, <1>6, <1>8, <2>1, <2>2 DEF DraftOK, e
  <2>4. CoverOK(w)'
    BY <1>0, <1>1, <1>3, <1>6, <1>8 DEF CoverOK, e
  <2>5. \A f \in Events, x \in Deployments : Touched(w, f, x)' => Touched(w, f, x)
    BY <1>1, <1>3 DEF Touched, e
  <2> QED BY <1>1, <1>6, <2>3, <2>4, <2>5, DraftStep
<1> QED BY <1>1, <1>7, <1>8

LEMMA RecordInsert == ASSUME RecordInv, NEW w \in Workers, InsertRecord(w) PROVE RecordInv'
<1> DEFINE e == session[w].event
           d == Route(w)
<1>0. /\ TypeInv /\ DraftOK(w) /\ CoverOK(w) /\ Deployments \ Fickle \subseteq running
  BY DEF RecordInv
<1>1. /\ UNCHANGED <<tableVars, running, locked, calls, queue, faults, overruns>>
      /\ pc[w] = "insert" /\ Busy(w) /\ faults' \in 0..MaxFaults
      /\ d \in session[w].left /\ d \in Deployments /\ e \in Events /\ session[w] \in Sessions
  BY <1>0, InsertRecordIs, AtWork
<1>2. UNCHANGED record /\ UNCHANGED running /\ HandledKept
  BY <1>1 DEF tableVars, HandledKept, Kind
<1>3. CASE Raise(w)
  <2>1. /\ TypeInv' /\ pc'[w] = "mark" /\ session'[w].draft = NoRecords /\ Others(w)
    BY <1>0, <1>1, <1>3, RaiseIs DEF Others
  <2> QED BY <1>2, <2>1, EmptyStep
<1>4. CASE /\ session' = [session EXCEPT ![w].draft[d] = "PENDING"]
           /\ Goto(w, "judge") /\ record[e][d] = "NONE"
  <2> HIDE DEF d
  <2>1. /\ TypeInv' /\ SameEvent(w) /\ Others(w) /\ pc'[w] = "judge"
        /\ session'[w].left = session[w].left
        /\ session'[w].draft = [session[w].draft EXCEPT ![d] = "PENDING"]
        /\ session'[w].loaded = session[w].loaded
    BY <1>0, <1>1, <1>4, InsertIs
  <2>2. Busy(w)' /\ session'[w].event = e /\ Route(w)' = d
    BY <2>1 DEF Busy, Inside, SameEvent, Route, d
  <2>3. /\ session'[w].draft[d] = "PENDING"
        /\ \A x \in Deployments : x # d => session'[w].draft[x] = session[w].draft[x]
    BY <1>1, <2>1 DEF Sessions
  <2>4. session[w].loaded[d] = "NONE"
    BY <1>0, <1>1 DEF DraftOK, d
  <2>5. DraftOK(w)'
    <3>1. \A x \in Deployments : /\ session[w].draft[x] # "PENDING"
                                 /\ x \in session[w].left => session[w].draft[x] = "NONE"
      BY <1>0, <1>1 DEF DraftOK
    <3>2. \A x \in Deployments : session[w].draft[x] # "NONE" =>
            session[w].loaded[x] \in Open /\ (session[w].loaded[x] = "NONE" => record[e][x] = "NONE")
      BY <1>0, <1>1 DEF DraftOK
    <3> HIDE DEF e
    <3> QED BY <1>1, <1>2, <1>4, <2>1, <2>2, <2>3, <2>4, <3>1, <3>2 DEF DraftOK, Open
  <2>6. CoverOK(w)'
    <3>1. \A f \in Events : RoutesOf[f] \subseteq Deployments
      BY DispatchAssumption
    <3> QED BY <1>0, <1>1, <1>2, <2>1, <2>2, <2>3, <3>1 DEF CoverOK
  <2>7. \A f \in Events, x \in Deployments :
          Touched(w, f, x)' => Touched(w, f, x) \/ RecordFree(w, f, x)
    <3>1. RecordFree(w, e, d)
      BY DEF InsertRecord, d
    <3> QED BY <2>2, <2>3, <3>1 DEF Touched
  <2> QED BY <1>2, <2>1, <2>5, <2>6, <2>7, DraftStep
<1> QED BY <1>0, <1>3, <1>4, InsertRecordIs

LEMMA RecordEndRoute ==
  ASSUME RecordInv, NEW w \in Workers, pc[w] \in {"judge", "call"},
         NEW status \in RecordStatuses, status # "PENDING", NEW replies \in SUBSET Replies,
         EndRoute(w, status, replies),
         UNCHANGED <<tableVars, running, locked, calls, queue, faults, overruns>>
  PROVE  RecordInv'
<1> DEFINE e == session[w].event
           d == Route(w)
<1>0. /\ TypeInv /\ DraftOK(w) /\ CoverOK(w) /\ Deployments \ Fickle \subseteq running /\ Busy(w)
  BY DEF RecordInv, Busy, Inside
<1>1. /\ TypeInv' /\ SameEvent(w) /\ Others(w) /\ pc'[w] = "plugin"
      /\ d \in session[w].left /\ d \in Deployments
      /\ session'[w].left = session[w].left \ {d}
      /\ session'[w].draft = [session[w].draft EXCEPT ![d] = status]
      /\ session'[w].loaded = session[w].loaded
  BY <1>0, EndRouteIs
<1>2. UNCHANGED record /\ UNCHANGED running /\ HandledKept
  BY DEF tableVars, HandledKept, Kind
<1>3. Busy(w)' /\ session'[w].event = e /\ e \in Events /\ session[w] \in Sessions
  BY <1>0, <1>1, AtWork DEF Busy, Inside, SameEvent
<1>4. /\ session'[w].draft[d] = status
      /\ \A x \in Deployments : x # d => session'[w].draft[x] = session[w].draft[x]
  BY <1>1, <1>3 DEF Sessions
<1>5. session[w].loaded[d] \in Open /\ (session[w].loaded[d] = "NONE" => record[e][d] = "NONE")
  BY <1>0, <1>1 DEF DraftOK
<1>6. RecordFree(w, e, d)
  BY DEF EndRoute
<1>7. \A x \in Deployments : x # d =>
        /\ session[w].draft[x] # "PENDING"
        /\ x \in session[w].left => session[w].draft[x] = "NONE"
        /\ session[w].draft[x] # "NONE" =>
             session[w].loaded[x] \in Open /\ (session[w].loaded[x] = "NONE" => record[e][x] = "NONE")
  BY <1>0, <1>1 DEF DraftOK
<1>8. status \in TerminalRecords \cup {"FAILED_RETRYABLE"} /\ status # "NONE"
  BY DEF RecordStatuses, TerminalRecords
<1> HIDE DEF d, e
<1>9. DraftOK(w)'
  BY <1>1, <1>2, <1>3, <1>4, <1>5, <1>7, <1>8 DEF DraftOK
<1>10. CoverOK(w)'
  <2>1. \A f \in Events : RoutesOf[f] \subseteq Deployments
    BY DispatchAssumption
  <2> QED BY <1>0, <1>1, <1>2, <1>3, <1>4, <1>8, <2>1 DEF CoverOK, e
<1>11. \A f \in Events, x \in Deployments :
         Touched(w, f, x)' => Touched(w, f, x) \/ RecordFree(w, f, x)
  BY <1>3, <1>4, <1>6 DEF Touched, e
<1> QED BY <1>1, <1>2, <1>9, <1>10, <1>11, DraftStep

LEMMA RecordJudge == ASSUME RecordInv, NEW w \in Workers, Judge(w) PROVE RecordInv'
<1>0. /\ TypeInv /\ DraftOK(w) /\ CoverOK(w) /\ Busy(w) /\ pc[w] = "judge"
      /\ UNCHANGED <<tableVars, running, locked, queue, faults, overruns>>
  BY DEF RecordInv, Busy, Inside, Judge
<1>1. CASE EndRoute(w, "DENIED", {}) /\ UNCHANGED calls
  <2>1. "DENIED" \in RecordStatuses /\ {} \in SUBSET Replies
    BY DEF RecordStatuses
  <2> QED BY <1>0, <1>1, <2>1, RecordEndRoute
<1>2. CASE /\ calls' = [calls EXCEPT ![session[w].event][Route(w)] = @ + 1]
           /\ session' = [session EXCEPT ![w].call = calls[session[w].event][Route(w)] + 1]
           /\ Goto(w, "call")
  <2>1. /\ TypeInv' /\ SameEvent(w) /\ Others(w) /\ pc'[w] = "call"
        /\ session'[w].left = session[w].left
        /\ session'[w].draft = session[w].draft
        /\ session'[w].loaded = session[w].loaded
    BY <1>0, <1>2, CallIs
  <2>2. UNCHANGED record /\ UNCHANGED running /\ HandledKept
    BY <1>0 DEF tableVars, HandledKept, Kind
  <2>3. Busy(w)' /\ session'[w].event = session[w].event /\ Route(w)' = Route(w)
    BY <2>1 DEF Busy, Inside, SameEvent, Route
  <2>4. DraftOK(w)' /\ CoverOK(w)'
    BY <1>0, <2>1, <2>2, <2>3 DEF DraftOK, CoverOK
  <2>5. \A f \in Events, x \in Deployments : Touched(w, f, x)' => Touched(w, f, x)
    BY <2>1, <2>3 DEF Touched
  <2> QED BY <2>1, <2>2, <2>4, <2>5, DraftStep
<1> QED BY <1>1, <1>2 DEF Judge

LEMMA RecordAnswer == ASSUME RecordInv, NEW w \in Workers, Answer(w) PROVE RecordInv'
<1>1. pc[w] = "call" /\ UNCHANGED <<tableVars, running, locked, calls, queue, faults, overruns>>
  BY DEF Answer
<1>2. PICK status \in RecordStatuses, replies \in SUBSET Replies :
        /\ EndRoute(w, status, replies)
        /\ status \in {"FAILED_RETRYABLE", "REJECTED", "SUCCEEDED"}
  BY AnswerIs DEF RecordInv
<1> QED BY <1>1, <1>2, RecordEndRoute

LEMMA RecordSettle == ASSUME RecordInv, NEW w \in Workers, Settle(w) PROVE RecordInv' /\ TerminalStays
<1> DEFINE e == session[w].event
<1>0. TypeInv /\ TypeInv' /\ DraftOK(w)
  BY TypeSettle DEF RecordInv
<1>1. /\ pc[w] = "plugin" /\ session[w].left = {} /\ e \in Events
      /\ CommitRecords(w, e) /\ Close(w, e) /\ UNCHANGED <<callback, running>>
  BY <1>0, SettleIs
<1>2. PICK status \in InboxStatuses :
        /\ inbox' = [inbox EXCEPT ![e] = status]
        /\ Retryable(w) => status # "DISPATCHED" \/ status = inbox[e]
  BY <1>0, SettleIs
<1>3. Busy(w) /\ \A d \in Deployments : session[w].draft[d] # "PENDING"
  BY <1>0, <1>1 DEF DraftOK, Busy, Inside
<1>4. /\ \A f \in Events : f # e => inbox'[f] = inbox[f]
      /\ inbox'[e] = status
  BY <1>0, <1>1, <1>2 DEF TypeInv, TypeOK
<1> QED BY <1>0, <1>1, <1>2, <1>3, <1>4, CommitStep

LEMMA RecordRoutes ==
  ASSUME RecordInv, NEW w \in Workers, SelectRoutes(w) PROVE RecordInv' /\ TerminalStays
<1> DEFINE e == session[w].event
           routes == RoutesOf[e] \cap running
<1>0. /\ TypeInv /\ TypeInv' /\ PlaceOK(w) /\ pc[w] = "route" /\ Busy(w)
      /\ UNCHANGED <<callback, due, tries, running, locked, calls, faults, overruns>>
      /\ Deployments \ Fickle \subseteq running
  BY TypeRoutes DEF RecordInv, TypeInv, SelectRoutes, Busy, Inside
<1>1. /\ session[w].draft = NoRecords /\ e \in Events
  BY <1>0, AtWork DEF PlaceOK
<1>2. CASE inbox' = [inbox EXCEPT ![e] = "FAILED"] /\ CommitRecords(w, e) /\ Close(w, e)
  <2>1. \A d \in Deployments : session[w].draft[d] # "PENDING"
    BY <1>1 DEF NoRecords
  <2>2. /\ \A f \in Events : f # e => inbox'[f] = inbox[f]
        /\ inbox'[e] = "FAILED"
    BY <1>0, <1>1, <1>2 DEF TypeInv, TypeOK
  <2> QED BY <1>0, <1>2, <2>1, <2>2, CommitStep
<1>3. CASE /\ session' = [session EXCEPT ![w].left = routes] /\ Goto(w, "plugin")
           /\ UNCHANGED <<inbox, record, rows, known, queue>>
  <2>1. routes \in SUBSET Deployments /\ RoutesOf[e] \ Fickle \subseteq routes
    BY <1>0, <1>1, DispatchAssumption DEF TypeInv, TypeOK
  <2> HIDE DEF routes
  <2>2. /\ SameEvent(w) /\ Others(w) /\ pc'[w] = "plugin"
        /\ session'[w].left = routes /\ session'[w].draft = session[w].draft
    BY <1>0, <1>3, <2>1, ChooseIs DEF tableVars
  <2>3. session'[w].event = e /\ UNCHANGED record /\ UNCHANGED running /\ HandledKept
    BY <1>0, <1>3, <2>2 DEF SameEvent, HandledKept, Kind
  <2>4. DraftOK(w)'
    BY <1>1, <2>2 DEF DraftOK, NoRecords
  <2>5. CoverOK(w)'
    BY <2>1, <2>2, <2>3 DEF CoverOK
  <2>6. \A f \in Events, d \in Deployments : Touched(w, f, d)' => Touched(w, f, d)
    BY <1>1, <2>2 DEF Touched, NoRecords
  <2>7. TerminalStays
    BY <2>3 DEF TerminalStays
  <2> QED BY <1>0, <2>2, <2>3, <2>4, <2>5, <2>6, <2>7, DraftStep
<1> QED BY <1>2, <1>3 DEF SelectRoutes

\* The steps at which nothing is drafted
LEMMA RecordOutside ==
  ASSUME RecordInv, TypeInv',
         \/ \E e \in Events : Ingest(e) \/ TimePasses(e)
         \/ \E d \in Deployments : LockDeployment(d) \/ Toggle(d)
         \/ \E w \in Workers : RecoverExpiredLeases(w) \/ ClaimDueEvents(w)
  PROVE  RecordInv'
<1>0. TypeInv /\ TypeOK /\ Deployments \ Fickle \subseteq running
  BY DEF RecordInv, TypeInv
<1>1. ASSUME NEW e \in Events, Ingest(e) PROVE RecordInv'
  <2>1. \A f \in Events : /\ f # e => inbox'[f] = inbox[f] /\ callback'[f] = callback[f]
                          /\ inbox'[e] \in {"IGNORED_SELF", "NORMALIZED"}
    BY <1>0, <1>1 DEF Ingest, TypeOK
  <2>2. HandledKept
    BY <2>1 DEF HandledKept, Kind
  <2> QED BY <1>0, <1>1, <2>2, StillStep DEF Ingest
<1>2. ASSUME NEW e \in Events, TimePasses(e) PROVE RecordInv'
  <2>1. HandledKept
    BY <1>2 DEF TimePasses, HandledKept, Kind
  <2> QED BY <1>0, <1>2, <2>1, StillStep DEF TimePasses
<1>3. ASSUME NEW d \in Deployments, LockDeployment(d) \/ Toggle(d) PROVE RecordInv'
  <2>1. HandledKept
    BY <1>3 DEF LockDeployment, Toggle, HandledKept, Kind, tableVars
  <2>2. d \in Fickle
    BY <1>0, <1>3 DEF LockDeployment, Toggle, TypeOK
  <2> QED BY <1>0, <1>3, <2>1, <2>2, StillStep DEF LockDeployment, Toggle, tableVars
<1>4. ASSUME NEW w \in Workers, NEW p \in {"claim", "recover", "next"}, Goto(w, p),
             pc[w] \in {"recover", "claim"}, UNCHANGED <<callback, record, running, session>>,
             \A e \in Events : inbox'[e] = "DISPATCHED" => inbox[e] = "DISPATCHED"
      PROVE  RecordInv'
  <2>1. p \in Steps /\ pc' = [pc EXCEPT ![w] = p]
    BY <1>4 DEF Goto, Steps
  <2>2. Others(w) /\ pc'[w] = p
    BY <1>0, <1>4, <2>1, Went DEF Others
  <2>3. session[w].draft = NoRecords
    BY <1>0, <1>4, IdleFields DEF TypeInv, PlaceOK, Busy, Inside
  <2>4. HandledKept
    BY <1>4 DEF HandledKept, Kind
  <2> QED BY <1>4, <2>2, <2>3, <2>4, EmptyStep
<1>5. ASSUME NEW w \in Workers, RecoverExpiredLeases(w) PROVE RecordInv'
  <2>1. \A e \in Events : inbox'[e] = "DISPATCHED" => inbox[e] = "DISPATCHED"
    BY <1>5 DEF RecoverExpiredLeases
  <2> QED BY <1>4, <1>5, <2>1 DEF RecoverExpiredLeases
<1>6. ASSUME NEW w \in Workers, ClaimDueEvents(w) PROVE RecordInv'
  <2>1. \A e \in Events : inbox'[e] = "DISPATCHED" => inbox[e] = "DISPATCHED"
    BY <1>6 DEF ClaimDueEvents
  <2>2. PICK p \in {"recover", "next"} : Goto(w, p)
    BY <1>6 DEF ClaimDueEvents
  <2> QED BY <1>4, <1>6, <2>1, <2>2 DEF ClaimDueEvents
<1> QED BY <1>1, <1>2, <1>3, <1>5, <1>6

LEMMA RecordBefore ==
  ASSUME RecordInv, TypeInv', NEW w \in Workers,
         Begin(w) \/ Enter(w) \/ Discover(w) \/ MarkFailed(w) \/ StatementFails(w) \/ Abort(w)
  PROVE  RecordInv'
<1>0. TypeInv /\ TypeOK /\ Received
  BY DEF RecordInv, TypeInv
<1>1. ASSUME NEW e \in queue[w], Close(w, e), UNCHANGED <<callback, record, running>>, HandledKept
      PROVE  RecordInv'
  <2>1. /\ session'[w] = Idle /\ pc'[w] \in {"recover", "next"} /\ Others(w)
    BY <1>0, <1>1, CloseIs DEF Others
  <2>2. session'[w].draft = NoRecords
    BY <2>1, IdleFields
  <2> QED BY <1>1, <2>1, <2>2, EmptyStep
<1>2. CASE Begin(w)
  <2> DEFINE e == Min(queue[w])
  <2>1. /\ pc[w] = "next" /\ UNCHANGED <<callback, record, running>>
        /\ e \in queue[w] /\ e \in Events
    BY <1>0, <1>2, NextEvent DEF Begin
  <2>2. ASSUME NEW status, inbox' = [inbox EXCEPT ![e] = status], Close(w, e),
               \/ status = inbox[e]
               \/ Kind(e) \in {"system", "orphan"}
        PROVE  RecordInv'
    <3>1. HandledKept
      BY <1>0, <2>1, <2>2 DEF HandledKept, Kind, TypeOK
    <3> QED BY <1>1, <2>1, <2>2, <3>1
  <2>3. CASE session' = [session EXCEPT ![w] = Opened(e)] /\ Goto(w, "enter")
             /\ UNCHANGED <<inbox, queue>>
    <3>1. /\ Opened(e) \in Sessions /\ "enter" \in Steps /\ Opened(e).draft = NoRecords
          /\ pc' = [pc EXCEPT ![w] = "enter"]
      BY <1>0, <2>1, <2>3, OpenedTyped DEF Received, Goto, Steps
    <3>2. session'[w] = Opened(e) /\ pc'[w] = "enter" /\ Others(w)
      BY <1>0, <2>3, <3>1, Moves
    <3>3. HandledKept
      BY <2>1, <2>3 DEF HandledKept, Kind
    <3> QED BY <2>1, <3>1, <3>2, <3>3, EmptyStep
  <2> QED BY <1>2, <2>2, <2>3 DEF Begin
<1>3. CASE Enter(w)
  <2>1. PICK p \in {"route", "discover"} : pc' = [pc EXCEPT ![w] = p]
    BY <1>3 DEF Enter, Goto
  <2>2. pc'[w] = p /\ Others(w)
    BY <1>0, <1>3, <2>1, Went DEF Others, Enter, Steps, Inside
  <2>3. session[w].draft = NoRecords
    BY <1>0, <1>3 DEF TypeInv, PlaceOK, Enter
  <2>4. HandledKept /\ UNCHANGED record
    BY <1>3 DEF Enter, HandledKept, Kind, tableVars
  <2> QED BY <1>3, <2>2, <2>3, <2>4, EmptyStep DEF Enter
<1>4. ASSUME Raise(w), Busy(w), UNCHANGED <<tableVars, running, locked, calls, queue, overruns>>,
             faults' \in 0..MaxFaults
      PROVE  RecordInv'
  <2>1. pc'[w] = "mark" /\ session'[w].draft = NoRecords /\ Others(w)
    BY <1>0, <1>4, RaiseIs DEF Others
  <2>2. HandledKept /\ UNCHANGED record
    BY <1>4 DEF HandledKept, Kind, tableVars
  <2> QED BY <1>4, <2>1, <2>2, EmptyStep
<1>5. CASE Discover(w)
  <2>1. /\ pc[w] = "discover" /\ Busy(w) /\ faults' \in 0..MaxFaults
        /\ UNCHANGED <<tableVars, running, locked, calls, queue, overruns>>
    BY <1>0, <1>5 DEF Discover, Busy, Inside, TypeOK
  <2>2. CASE Raise(w)
    BY <1>4, <2>1, <2>2
  <2>3. CASE session' = [session EXCEPT ![w].novel = TRUE] /\ Goto(w, "route")
    <3>1. session'[w].draft = session[w].draft /\ \A v \in Workers : v # w => session'[v] = session[v]
      BY <1>0, <2>3 DEF TypeOK, Sessions
    <3>2. "route" \in Steps /\ pc' = [pc EXCEPT ![w] = "route"]
      BY <2>3 DEF Steps, Inside, Goto
    <3>3. pc'[w] = "route" /\ Others(w)
      BY <1>0, <3>1, <3>2, Went DEF Others
    <3>4. session[w].draft = NoRecords
      BY <1>0, <2>1 DEF TypeInv, PlaceOK
    <3>5. HandledKept /\ UNCHANGED record
      BY <2>1 DEF HandledKept, Kind, tableVars
    <3> QED BY <2>1, <3>1, <3>3, <3>4, <3>5, EmptyStep
  <2> QED BY <1>5, <2>2, <2>3 DEF Discover
<1>6. CASE MarkFailed(w)
  <2> DEFINE e == session[w].event
  <2>1. /\ Busy(w) /\ Close(w, e) /\ inbox' = [inbox EXCEPT ![e] = "FAILED"]
        /\ UNCHANGED <<callback, record, running>>
    BY <1>6 DEF MarkFailed, Busy
  <2>2. e \in queue[w] /\ e \in Events
    BY <1>0, <2>1, AtWork
  <2>3. HandledKept
    BY <1>0, <2>1, <2>2 DEF HandledKept, Kind, TypeOK
  <2> QED BY <1>1, <2>1, <2>2, <2>3
<1>7. CASE StatementFails(w)
  BY <1>0, <1>4, <1>7, StatementFailsIs
<1>8. CASE Abort(w)
  <2>1. /\ UNCHANGED <<tableVars, running>> /\ session'[w] = Idle /\ pc'[w] = "recover" /\ Others(w)
    BY <1>0, <1>8, AbortIs
  <2>2. session'[w].draft = NoRecords
    BY <2>1, IdleFields
  <2>3. HandledKept /\ UNCHANGED record
    BY <2>1 DEF HandledKept, Kind, tableVars
  <2> QED BY <2>1, <2>2, <2>3, EmptyStep
<1> QED BY <1>2, <1>3, <1>5, <1>6, <1>7, <1>8

LEMMA RecordStep == RecordInv /\ [Next]_vars => RecordInv'
<1> SUFFICES ASSUME RecordInv, [Next]_vars PROVE RecordInv'
  OBVIOUS
<1>0. TypeInv /\ TypeInv'
  BY TypeStep DEF RecordInv
<1>1. CASE UNCHANGED vars
  <2>1. HandledKept
    BY <1>1 DEF vars, HandledKept, Kind
  <2> QED BY <1>0, <1>1, <2>1, StillStep DEF vars, RecordInv
<1>2. ASSUME NEW w \in Workers, RunOnce(w) PROVE RecordInv'
  BY <1>0, <1>2, RecordOutside, RecordBefore, RecordRoutes, RecordLoad, RecordInsert,
     RecordJudge, RecordAnswer, RecordSettle DEF RunOnce
<1>3. ASSUME NEW w \in Workers, StatementFails(w) \/ Abort(w) PROVE RecordInv'
  BY <1>0, <1>3, RecordBefore
<1> QED BY <1>0, <1>1, <1>2, <1>3, RecordOutside DEF Next

\* An event that is DISPATCHED is finished with every deployment that was there throughout,
\* also when leases are overrun and several workers dispatch it: a late failure writes
\* nothing over a rival's success, as a record is written only where it differs from what
\* was loaded, and only what was open is loaded.
THEOREM HandledByEveryone == Spec => []HandledByAll
<1>1. RecordInv => HandledByAll
  BY DEF RecordInv
<1> QED BY <1>1, RecordInit, RecordStep, PTL DEF Spec

-----------------------------------------------------------------------------
(* The leases.  Until one is overrun, the events of a batch are its         *)
(* worker's alone.                                                          *)

Leased ==
  overruns = 0 => \A w \in Workers : \A e \in queue[w] :
    /\ inbox[e] = "DISPATCHING" /\ ~due[e]
    /\ \A v \in Workers : v # w => e \notin queue[v]

\* A worker ends the dispatch of an event of its batch.
Ends(w, e) ==
  /\ e \in queue[w] /\ Close(w, e)
  /\ \A f \in Events : f # e => inbox'[f] = inbox[f] /\ due'[f] = due[f]
  /\ UNCHANGED <<callback, overruns>>

\* Or goes on with it, or begins one.
GoesOn == UNCHANGED <<callback, inbox, due, queue, overruns>>

LEMMA RunOnceIs ==
  ASSUME TypeInv, NEW w \in Workers, RunOnce(w)
  PROVE  \/ RecoverExpiredLeases(w) \/ ClaimDueEvents(w) \/ GoesOn
         \/ \E e \in Events : Ends(w, e)
<1>0. TypeOK
  BY DEF TypeInv
<1>1. ASSUME NEW e \in Events, e \in queue[w], Close(w, e), NEW status,
             inbox' = [inbox EXCEPT ![e] = status],
             \A f \in Events : f # e => due'[f] = due[f], UNCHANGED <<callback, overruns>>
      PROVE  Ends(w, e)
  BY <1>0, <1>1 DEF Ends, TypeOK
<1>2. CASE Begin(w)
  <2> DEFINE e == Min(queue[w])
  <2>1. e \in queue[w] /\ e \in Events /\ UNCHANGED <<callback, due, overruns>>
    BY <1>2, NextEvent DEF Begin
  <2>2. ASSUME NEW status, inbox' = [inbox EXCEPT ![e] = status], Close(w, e)
        PROVE  Ends(w, e)
    <3> HIDE DEF e
    <3> QED BY <1>1, <2>1, <2>2
  <2>3. CASE UNCHANGED <<inbox, queue>>
    BY <2>1, <2>3 DEF GoesOn
  <2> QED BY <1>2, <2>1, <2>2, <2>3 DEF Begin
<1>3. CASE Enter(w) \/ Discover(w) \/ LoadRecord(w) \/ InsertRecord(w) \/ Judge(w) \/ Answer(w)
  BY <1>3 DEF Enter, Discover, LoadRecord, InsertRecord, Judge, Answer, GoesOn, tableVars
<1>4. CASE SelectRoutes(w)
  <2> DEFINE e == session[w].event
  <2>1. e \in queue[w] /\ e \in Events /\ UNCHANGED <<callback, due, overruns>>
    BY <1>4, AtWork DEF SelectRoutes, Busy, Inside
  <2>2. CASE UNCHANGED <<inbox, queue>>
    BY <2>1, <2>2 DEF GoesOn
  <2>3. CASE inbox' = [inbox EXCEPT ![e] = "FAILED"] /\ Close(w, e)
    BY <1>1, <2>1, <2>3
  <2> QED BY <1>4, <2>1, <2>2, <2>3 DEF SelectRoutes
<1>5. CASE Settle(w)
  <2> DEFINE e == session[w].event
  <2>1. e \in queue[w] /\ e \in Events /\ UNCHANGED <<callback, overruns>> /\ Close(w, e)
    BY <1>5, SettleIs
  <2>2. PICK status \in InboxStatuses : inbox' = [inbox EXCEPT ![e] = status]
    BY <1>5, SettleIs
  <2>3. PICK soon : due' = [due EXCEPT ![e] = soon]
    BY <1>5 DEF Settle
  <2> HIDE DEF e
  <2>4. \A f \in Events : f # e => due'[f] = due[f]
    BY <1>0, <2>3 DEF TypeOK
  <2> QED BY <1>1, <2>1, <2>2, <2>4
<1>6. CASE MarkFailed(w)
  <2> DEFINE e == session[w].event
  <2>1. /\ Close(w, e) /\ inbox' = [inbox EXCEPT ![e] = "FAILED"] /\ Busy(w)
        /\ UNCHANGED <<callback, due, overruns>>
    BY <1>6 DEF MarkFailed, Busy
  <2>2. e \in queue[w] /\ e \in Events
    BY <2>1, AtWork
  <2> HIDE DEF e
  <2> QED BY <1>1, <2>1, <2>2
<1> QED BY <1>2, <1>3, <1>4, <1>5, <1>6 DEF RunOnce

LEMMA LeaseInit == Init => Leased
BY DEF Init, Leased

LEMMA LeaseStep == TypeInv /\ Leased /\ [Next]_vars => Leased'
<1> SUFFICES ASSUME TypeInv, Leased, [Next]_vars, overruns' = 0 PROVE Leased'
  BY DEF Leased
<1>0. TypeOK /\ Received /\ overruns \in Nat
  BY DispatchAssumption DEF TypeInv, TypeOK
<1> DEFINE Good == \A w \in Workers : \A e \in queue'[w] :
                     /\ inbox'[e] = "DISPATCHING" /\ ~due'[e]
                     /\ \A v \in Workers : v # w => e \notin queue'[v]
<1>1. ASSUME NEW e \in Events, Ingest(e) PROVE Good
  <2>1. /\ UNCHANGED <<queue, overruns>> /\ \A w \in Workers : e \notin queue[w]
        /\ \A f \in Events : f # e => inbox'[f] = inbox[f] /\ due'[f] = due[f]
    BY <1>0, <1>1 DEF Ingest, Received, TypeOK
  <2>2. \A w \in Workers : \A f \in queue[w] : f \in Events /\ f # e
    BY <1>0, <2>1 DEF TypeOK
  <2>3. \A w \in Workers : \A f \in queue[w] : inbox'[f] = inbox[f] /\ due'[f] = due[f]
    BY <2>1, <2>2
  <2> QED BY <2>1, <2>3 DEF Leased
<1>2. ASSUME NEW e \in Events, TimePasses(e) PROVE Good
  <2>1. /\ UNCHANGED <<queue, inbox>> /\ overruns = 0
        /\ \A f \in Events : f # e => due'[f] = due[f]
    BY <1>0, <1>2 DEF TimePasses, TypeOK
  <2>2. \A w \in Workers : e \notin queue[w]
    BY <1>0, <1>2, <2>1 DEF TimePasses, Leased
  <2>3. \A w \in Workers : \A f \in queue[w] : f \in Events /\ f # e
    BY <1>0, <2>2 DEF TypeOK
  <2>4. \A w \in Workers : \A f \in queue[w] : inbox'[f] = inbox[f] /\ due'[f] = due[f]
    BY <2>1, <2>3
  <2> QED BY <2>1, <2>4 DEF Leased
<1>3. ASSUME GoesOn PROVE Good
  BY <1>3 DEF GoesOn, Leased
<1>4. ASSUME NEW w \in Workers, RecoverExpiredLeases(w) PROVE Good
  <2>1. /\ UNCHANGED <<queue, due, overruns>>
        /\ \A e \in Events : ~due[e] => inbox'[e] = inbox[e]
    BY <1>4 DEF RecoverExpiredLeases, Expired
  <2> QED BY <1>0, <2>1 DEF Leased, TypeOK
<1>5. ASSUME NEW w \in Workers, ClaimDueEvents(w) PROVE Good
  <2> DEFINE batch == FirstOf(Claimable, BatchSize)
  <2>1. /\ batch \subseteq Events /\ \A e \in batch : inbox[e] = "NORMALIZED"
        /\ inbox' = [e \in Events |-> IF e \in batch THEN "DISPATCHING" ELSE inbox[e]]
        /\ due' = [e \in Events |-> due[e] /\ e \notin batch]
        /\ queue' = [queue EXCEPT ![w] = batch] /\ UNCHANGED overruns
    BY <1>5 DEF ClaimDueEvents, FirstOf, Claimable
  <2> HIDE DEF batch
  <2>2. /\ queue'[w] = batch /\ \A v \in Workers : v # w => queue'[v] = queue[v]
        /\ \A v \in Workers : queue[v] \cap batch = {} /\ queue[v] \subseteq Events
    BY <1>0, <2>1 DEF TypeOK, Leased
  <2>3. \A e \in batch : inbox'[e] = "DISPATCHING" /\ ~due'[e]
    BY <2>1
  <2>4. \A v \in Workers : \A e \in queue[v] : inbox'[e] = "DISPATCHING" /\ ~due'[e]
    BY <2>1, <2>2 DEF Leased
  <2> QED BY <2>1, <2>2, <2>3, <2>4 DEF Leased
<1>6. ASSUME NEW w \in Workers, NEW e \in Events, Ends(w, e) PROVE Good
  <2>1. /\ queue'[w] = queue[w] \ {e} /\ \A v \in Workers : v # w => queue'[v] = queue[v]
    BY <1>6, CloseIs DEF Ends
  <2>2. \A v \in Workers : queue[v] \subseteq Events
    BY <1>0 DEF TypeOK
  <2>3. \A v \in Workers : \A f \in queue'[v] : f \in queue[v] /\ f # e /\ f \in Events
    BY <1>6, <2>1, <2>2 DEF Leased, Ends
  <2>4. \A v \in Workers : \A f \in queue'[v] : inbox'[f] = inbox[f] /\ due'[f] = due[f]
    BY <1>6, <2>3 DEF Ends
  <2>5. overruns = 0
    BY <1>6 DEF Ends
  <2>6. \A v \in Workers : \A f \in queue[v] :
          /\ inbox[f] = "DISPATCHING" /\ ~due[f]
          /\ \A u \in Workers : u # v => f \notin queue[u]
    BY <2>5 DEF Leased
  <2> QED BY <2>3, <2>4, <2>6
<1>7. ASSUME NEW w \in Workers, Abort(w) PROVE Good
  <2>1. /\ UNCHANGED <<inbox, due, overruns>> /\ queue'[w] = {}
        /\ \A v \in Workers : v # w => queue'[v] = queue[v]
    BY <1>7, AbortIs DEF tableVars
  <2> QED BY <2>1 DEF Leased
<1>8. ASSUME \/ UNCHANGED vars \/ \E d \in Deployments : LockDeployment(d) \/ Toggle(d)
             \/ \E w \in Workers : StatementFails(w)
      PROVE  GoesOn
  BY <1>8 DEF vars, LockDeployment, Toggle, StatementFails, GoesOn, tableVars
<1>9. ASSUME NEW w \in Workers, RunOnce(w) PROVE Good
  <2> HIDE DEF Good
  <2> QED BY <1>3, <1>4, <1>5, <1>6, <1>9, RunOnceIs
<1>10. Good
  <2> HIDE DEF Good
  <2> QED BY <1>1, <1>2, <1>3, <1>7, <1>8, <1>9 DEF Next
<1> QED BY <1>10 DEF Leased

\* What a settled event keeps
Intact(e) ==
  /\ inbox'[e] = inbox[e] /\ tries'[e] = tries[e] /\ calls'[e] = calls[e]
  /\ record'[e] = record[e] /\ rows'[e] = rows[e]

\* Nobody holds it: who writes an event, or calls a plugin for it, has it in his batch, so
\* that it is DISPATCHING.
LEMMA SettledIsKept ==
  ASSUME TypeInv, Leased, NEW w \in Workers, RunOnce(w), NEW e \in Events,
         inbox[e] \in Settled, overruns = 0
  PROVE  Intact(e)
<1>0. TypeOK /\ e \notin queue[w] /\ inbox[e] \notin {"NORMALIZED", "DISPATCHING"}
  BY DEF TypeInv, Leased, Settled
<1>1. CASE RecoverExpiredLeases(w)
  BY <1>0, <1>1 DEF RecoverExpiredLeases, Expired, Intact
<1>2. CASE ClaimDueEvents(w)
  BY <1>0, <1>2 DEF ClaimDueEvents, FirstOf, Claimable, Intact
<1>3. CASE Begin(w)
  <2>1. PICK f \in Events : f = Min(queue[w]) /\ f # e
    BY <1>0, <1>3, NextEvent DEF Begin
  <2>2. /\ UNCHANGED <<tries, record, rows, calls>>
        /\ UNCHANGED inbox \/ \E status : inbox' = [inbox EXCEPT ![f] = status]
    BY <1>3, <2>1 DEF Begin
  <2> QED BY <1>0, <2>1, <2>2 DEF TypeOK, Intact
<1>4. ASSUME Busy(w) PROVE session[w].event \in Events /\ session[w].event # e
  BY <1>0, <1>4, AtWork
<1>5. CASE Judge(w)
  <2>1. PICK f \in Events : f = session[w].event /\ f # e
    BY <1>4, <1>5 DEF Judge, Busy, Inside
  <2>2. /\ UNCHANGED <<inbox, tries, record, rows>>
        /\ UNCHANGED calls \/ \E n : calls' = [calls EXCEPT ![f] = n]
    BY <1>5, <2>1 DEF Judge, tableVars
  <2> QED BY <1>0, <2>1, <2>2 DEF TypeOK, Intact
<1>6. CASE SelectRoutes(w) \/ Settle(w)
  <2>1. PICK f \in Events : f = session[w].event /\ f # e
    BY <1>4, <1>6 DEF SelectRoutes, Settle, Busy, Inside
  <2>2. CommitRecords(w, f) \/ UNCHANGED <<record, rows>>
    BY <1>6, <2>1 DEF SelectRoutes, Settle
  <2>3. record'[e] = record[e] /\ rows'[e] = rows[e]
    BY <2>1, <2>2, CommitIs
  <2>4. /\ UNCHANGED <<tries, calls>>
        /\ UNCHANGED inbox \/ \E status : inbox' = [inbox EXCEPT ![f] = status]
    BY <1>6, <2>1 DEF SelectRoutes, Settle
  <2> QED BY <1>0, <2>1, <2>3, <2>4 DEF TypeOK, Intact
<1>7. CASE MarkFailed(w)
  BY <1>0, <1>4, <1>7 DEF MarkFailed, Busy, Intact
<1>8. CASE \/ Enter(w) \/ Discover(w) \/ LoadRecord(w) \/ InsertRecord(w) \/ Answer(w)
  BY <1>8 DEF Enter, Discover, LoadRecord, InsertRecord, Answer, Intact, tableVars
<1> QED BY <1>1, <1>2, <1>3, <1>5, <1>6, <1>7, <1>8 DEF RunOnce

\* A settled event stays as it is while no lease is overrun, through crashes and failed
\* transactions of any worker.
THEOREM SettledIsFinal == Spec => SettledStands
<1> DEFINE Stands == \A e \in Events : inbox[e] \in Settled /\ overruns = 0 => Intact(e)
<1>1. TypeInv /\ Leased /\ [Next]_vars => Stands
  <2> SUFFICES ASSUME TypeInv, Leased, [Next]_vars, NEW e \in Events,
                      inbox[e] \in Settled, overruns = 0
               PROVE  Intact(e)
    OBVIOUS
  <2>1. ASSUME NEW f \in Events, Ingest(f) PROVE Intact(e)
    <3>1. inbox[e] # "ABSENT"
      BY DEF Settled
    <3> QED BY <2>1, <3>1 DEF Ingest, TypeInv, TypeOK, Intact
  <2>2. ASSUME \/ UNCHANGED vars \/ \E d \in Deployments : LockDeployment(d) \/ Toggle(d)
               \/ \E f \in Events : TimePasses(f)
               \/ \E w \in Workers : StatementFails(w) \/ Abort(w)
        PROVE  Intact(e)
    BY <2>2 DEF vars, LockDeployment, Toggle, TimePasses, StatementFails, Abort, tableVars, Intact
  <2> QED BY <2>1, <2>2, SettledIsKept DEF Next
<1>2. TypeInv /\ Leased /\ [Next]_vars => (TypeInv /\ Leased)'
  BY TypeStep, LeaseStep
<1> QED BY <1>1, <1>2, TypeInit, LeaseInit, PTL DEF Spec, SettledStands, Intact

-----------------------------------------------------------------------------
(* The replies.  While the chat room or the leases keep the rivals of an    *)
(* event apart, a record is at the commit what it was when it was loaded,   *)
(* and a record with replies is final.                                      *)

Rooms ==
  \A v, w \in Workers :
    /\ v # w /\ pc[v] \in Inside /\ pc[w] \in Inside
    /\ Kind(session[v].event) = "group" /\ Kind(session[w].event) = "group"
    => RoomOf[session[v].event] # RoomOf[session[w].event]

Fresh(w) == pc[w] \in Inside /\ Guarded(session[w].event) =>
  \A d \in Deployments :
    \/ session[w].draft[d] # "NONE"
    \/ pc[w] \in {"insert", "judge", "call"} /\ d = Route(w)
    => session[w].loaded[d] = record[session[w].event][d]

OneCall(replies) == \A r, s \in replies : r.call = s.call

Kept(w) ==
  \A d \in Deployments : session[w].replies[d] # {} =>
    session[w].draft[d] \in {"SUCCEEDED", "REJECTED"} /\ OneCall(session[w].replies[d])

RowsOK ==
  \A e \in Events, d \in Deployments : Guarded(e) /\ rows[e][d] # {} =>
    record[e][d] \in {"SUCCEEDED", "REJECTED"} /\ OneCall(rows[e][d])

ReplyInv ==
  /\ RecordInv /\ Leased /\ Rooms /\ RowsOK
  /\ \A w \in Workers : Fresh(w) /\ Kept(w)

\* What RecordsStand asks of a step
Stand ==
  \A e \in Events, d \in Deployments : Guarded(e) =>
    /\ record[e][d] \in TerminalRecords => record'[e][d] = record[e][d]
    /\ rows'[e][d] # rows[e][d] =>
         /\ record[e][d] \notin TerminalRecords
         /\ record'[e][d] \in {"SUCCEEDED", "REJECTED"}

LEMMA ReplyInit == Init => ReplyInv
<1> SUFFICES ASSUME Init PROVE ReplyInv
  OBVIOUS
<1>1. \A w \in Workers : pc[w] \notin Inside /\ session[w].replies = NoReplies
  BY IdleFields DEF Init, Inside
<1>2. \A e \in Events, d \in Deployments : rows[e][d] = {}
  BY DEF Init, NoReplies
<1> QED BY <1>1, <1>2, RecordInit, LeaseInit DEF ReplyInv, Rooms, RowsOK, Fresh, Kept, NoReplies

\* Two transactions of one event: neither its room nor its lease keeps them apart.
LEMMA Apart ==
  ASSUME ReplyInv, NEW v \in Workers, NEW w \in Workers, v # w,
         pc[v] \in Inside, pc[w] \in Inside, session[v].event = session[w].event
  PROVE  ~Guarded(session[w].event)
<1>1. Busy(v) /\ Busy(w) /\ TypeInv
  BY DEF Busy, ReplyInv, RecordInv
<1>2. session[w].event \in queue[v] /\ session[w].event \in queue[w]
  BY <1>1, AtWork
<1>3. overruns # 0
  BY <1>2 DEF ReplyInv, Leased
<1> QED BY <1>3 DEF Guarded, ReplyInv, Rooms

\* A worker moves and commits nothing.
LEMMA ReplyMove ==
  ASSUME ReplyInv, RecordInv', Leased', NEW w \in Workers, Others(w),
         UNCHANGED <<callback, record, rows, overruns>>, Fresh(w)', Kept(w)',
         \/ pc'[w] \notin Inside
         \/ pc[w] \in Inside /\ session'[w].event = session[w].event
         \/ RoomFree(w, session'[w].event)
  PROVE  ReplyInv' /\ Stand
<1>1. /\ \A v \in Workers : v # w => session'[v] = session[v] /\ pc'[v] = pc[v]
      /\ \A e : (Kind(e)' = Kind(e)) /\ (Guarded(e)' <=> Guarded(e))
  BY DEF Others, Kind, Guarded
<1>2. ASSUME NEW v \in Workers PROVE Fresh(v)' /\ Kept(v)'
  <2>1. CASE v # w
    BY <1>1, <2>1 DEF ReplyInv, Fresh, Kept, Route
  <2> QED BY <2>1
<1>3. Rooms'
  <2>1. ASSUME NEW v \in Workers, v # w, pc'[v] \in Inside, pc'[w] \in Inside,
               Kind(session[v].event) = "group", Kind(session'[w].event) = "group"
        PROVE  RoomOf[session[v].event] # RoomOf[session'[w].event]
    <3>1. pc[v] \in Inside
      BY <1>1, <2>1
    <3>2. CASE pc[w] \in Inside /\ session'[w].event = session[w].event
      BY <2>1, <3>1, <3>2 DEF ReplyInv, Rooms
    <3>3. CASE RoomFree(w, session'[w].event)
      BY <2>1, <3>1, <3>3 DEF RoomFree
    <3> QED BY <2>1, <3>2, <3>3
  <2>2. ASSUME NEW u \in Workers, NEW v \in Workers, u # v, u # w, v # w,
               pc'[u] \in Inside, pc'[v] \in Inside,
               Kind(session[u].event) = "group", Kind(session[v].event) = "group"
        PROVE  RoomOf[session[u].event] # RoomOf[session[v].event]
    BY <1>1, <2>2 DEF ReplyInv, Rooms
  <2>3. \A e : Kind(e)' = Kind(e)
    BY <1>1
  <2>4. \A v \in Workers : Kind(session[v].event)' = Kind(session'[v].event)
    BY DEF Kind
  <2> QED BY <1>1, <2>1, <2>2, <2>4 DEF Rooms
<1>4. RowsOK'
  BY <1>1 DEF ReplyInv, RowsOK
<1> QED BY <1>2, <1>3, <1>4 DEF ReplyInv, Stand

\* Nobody moves: an event arrives, or a lease is overrun.
LEMMA ReplyStill ==
  ASSUME ReplyInv, RecordInv', Leased', UNCHANGED <<session, pc, record, rows>>,
         \A e \in Events : inbox[e] # "ABSENT" => callback'[e] = callback[e],
         overruns' = 0 => overruns = 0
  PROVE  ReplyInv' /\ Stand
<1>1. TypeInv /\ \A e \in Events : inbox[e] # "ABSENT" => Kind(e)' = Kind(e) /\ (Guarded(e)' => Guarded(e))
  BY DEF ReplyInv, RecordInv, Kind, Guarded
<1>2. ASSUME NEW w \in Workers, pc[w] \in Inside
      PROVE  /\ Kind(session[w].event)' = Kind(session[w].event)
             /\ Guarded(session[w].event)' => Guarded(session[w].event)
  <2>1. Busy(w)
    BY <1>2 DEF Busy
  <2>2. session[w].event \in Events /\ inbox[session[w].event] # "ABSENT"
    BY <1>1, <2>1, AtWork
  <2>3. callback'[session[w].event] = callback[session[w].event]
    BY <2>2
  <2> QED BY <2>3 DEF Kind, Guarded
<1>3. \A w \in Workers : Fresh(w)' /\ Kept(w)'
  BY <1>2 DEF ReplyInv, Fresh, Kept, Route
<1>4. Rooms'
  BY <1>2 DEF ReplyInv, Rooms
<1>5. RowsOK'
  <2>1. \A e \in Events : inbox[e] = "ABSENT" => \A d \in Deployments : rows[e][d] = {}
    BY <1>1 DEF TypeInv, Received, NoReplies
  <2> QED BY <1>1, <2>1 DEF ReplyInv, RowsOK
<1> QED BY <1>3, <1>4, <1>5 DEF ReplyInv, Stand

\* A transaction commits.
LEMMA ReplyCommit ==
  ASSUME ReplyInv, RecordInv', Leased', NEW w \in Workers, pc[w] \in Inside,
         \A d \in Deployments : session[w].draft[d] # "PENDING",
         CommitRecords(w, session[w].event), Close(w, session[w].event),
         UNCHANGED <<callback, overruns>>
  PROVE  ReplyInv' /\ Stand
<1> DEFINE e == session[w].event
           s == session[w]
<1>1. /\ Busy(w) /\ TypeInv /\ e \in Events /\ e \in queue[w] /\ s \in Sessions
      /\ DraftOK(w) /\ Fresh(w) /\ Kept(w)
  BY AtWork DEF Busy, ReplyInv, RecordInv
<1>2. /\ session'[w] = Idle /\ pc'[w] \in {"recover", "next"}
      /\ \A v \in Workers : v # w => session'[v] = session[v] /\ pc'[v] = pc[v]
  BY <1>1, CloseIs
<1>3. /\ \A f \in Events : f # e => record'[f] = record[f] /\ rows'[f] = rows[f]
      /\ \A d \in Deployments : /\ Written(w, d) => record'[e][d] = s.draft[d]
                                /\ ~Written(w, d) => record'[e][d] = record[e][d]
                                /\ rows'[e][d] = rows[e][d] \cup s.replies[d]
  BY <1>1, CommitIs
<1>4. \A f : (Kind(f)' = Kind(f)) /\ (Guarded(f)' <=> Guarded(f))
  BY DEF Kind, Guarded
<1>5. ASSUME NEW d \in Deployments, Guarded(e), Written(w, d)
      PROVE  record[e][d] \in Open /\ rows[e][d] = {}
  <2>1. s.loaded[d] = record[e][d] /\ s.loaded[d] \in Open
    BY <1>1, <1>5 DEF Fresh, DraftOK, Written
  <2>2. record[e][d] \notin {"SUCCEEDED", "REJECTED"}
    BY <2>1 DEF Open
  <2> QED BY <1>1, <1>5, <2>1, <2>2 DEF ReplyInv, RowsOK
<1>6. ASSUME NEW d \in Deployments, Guarded(e), s.replies[d] # {}
      PROVE  /\ Written(w, d) /\ s.draft[d] \in {"SUCCEEDED", "REJECTED"}
             /\ OneCall(s.replies[d])
  <2>1. s.draft[d] \in {"SUCCEEDED", "REJECTED"} /\ OneCall(s.replies[d])
    BY <1>1, <1>6 DEF Kept
  <2>2. s.loaded[d] \in Open
    BY <1>1, <2>1 DEF DraftOK
  <2> QED BY <2>1, <2>2 DEF Written, Open
<1>7. RowsOK'
  <2> SUFFICES ASSUME NEW f \in Events, NEW d \in Deployments, Guarded(f), rows'[f][d] # {}
               PROVE  record'[f][d] \in {"SUCCEEDED", "REJECTED"} /\ OneCall(rows'[f][d])
    BY <1>4 DEF RowsOK, OneCall
  <2>1. CASE f # e
    BY <1>3, <2>1 DEF ReplyInv, RowsOK
  <2>2. CASE f = e /\ s.replies[d] # {}
    <3>1. Written(w, d) /\ rows[e][d] = {}
      BY <1>5, <1>6, <2>2
    <3>2. rows'[e][d] = s.replies[d] /\ record'[e][d] = s.draft[d]
      BY <1>3, <3>1
    <3> QED BY <1>6, <2>2, <3>2
  <2>3. CASE f = e /\ s.replies[d] = {}
    <3>1. rows'[e][d] = rows[e][d] /\ ~Written(w, d)
      BY <1>3, <1>5, <2>3
    <3>2. record'[e][d] = record[e][d]
      BY <1>3, <3>1
    <3> QED BY <1>1, <2>3, <3>1, <3>2 DEF ReplyInv, RowsOK
  <2> QED BY <2>1, <2>2, <2>3
<1>8. Stand
  <2> SUFFICES ASSUME NEW f \in Events, NEW d \in Deployments, Guarded(f)
               PROVE  /\ record[f][d] \in TerminalRecords => record'[f][d] = record[f][d]
                      /\ rows'[f][d] # rows[f][d] =>
                           /\ record[f][d] \notin TerminalRecords
                           /\ record'[f][d] \in {"SUCCEEDED", "REJECTED"}
    BY DEF Stand
  <2>1. CASE f # e
    BY <1>3, <2>1
  <2>2. CASE f = e /\ Written(w, d)
    <3>1. record[e][d] \notin TerminalRecords /\ rows[e][d] = {}
      BY <1>5, <2>2 DEF Open, TerminalRecords
    <3>2. s.replies[d] # {} => record'[e][d] \in {"SUCCEEDED", "REJECTED"}
      BY <1>3, <1>6, <2>2
    <3> QED BY <1>3, <2>2, <3>1, <3>2
  <2>3. CASE f = e /\ ~Written(w, d)
    BY <1>3, <1>6, <2>3
  <2> QED BY <2>1, <2>2, <2>3
<1>9. ASSUME NEW v \in Workers, v # w PROVE Fresh(v)' /\ Kept(v)'
  <2>1. session'[v] = session[v] /\ pc'[v] = pc[v] /\ Route(v)' = Route(v) /\ Fresh(v) /\ Kept(v)
    BY <1>2, <1>9 DEF ReplyInv, Route
  <2>2. ASSUME pc[v] \in Inside, Guarded(session[v].event)
        PROVE  record'[session[v].event] = record[session[v].event]
    <3>1. Busy(v) /\ session[v].event # e
      BY <1>9, <2>2, Apart DEF Busy
    <3>2. session[v].event \in Events
      BY <1>1, <3>1, AtWork
    <3> QED BY <1>3, <3>1, <3>2
  <2>3. (Guarded(session[v].event))' <=> Guarded(session[v].event)
    BY <2>1 DEF Guarded, Kind
  <2> HIDE DEF e, s
  <2> QED BY <2>1, <2>2, <2>3 DEF Fresh, Kept
<1>10. Fresh(w)' /\ Kept(w)'
  BY <1>2, IdleFields DEF Fresh, Kept, NoReplies, Inside
<1>11. Rooms'
  <2>1. pc'[w] \notin Inside
    BY <1>2 DEF Inside
  <2>2. \A v \in Workers : v # w => Kind(session[v].event)' = Kind(session[v].event)
    BY <1>2 DEF Kind
  <2> HIDE DEF e, s
  <2> QED BY <1>2, <2>1, <2>2 DEF ReplyInv, Rooms
<1> QED BY <1>7, <1>8, <1>9, <1>10, <1>11 DEF ReplyInv

\* A worker is outside a transaction after its step, or has lost what it did in one.
LEMMA ReplyEmpty ==
  ASSUME ReplyInv, RecordInv', Leased', NEW w \in Workers, Others(w),
         UNCHANGED <<callback, record, rows, overruns>>,
         session'[w].replies = NoReplies, pc'[w] \notin Inside
  PROVE  ReplyInv' /\ Stand
<1>1. Fresh(w)' /\ Kept(w)'
  BY DEF Fresh, Kept, NoReplies
<1> QED BY <1>1, ReplyMove

LEMMA ReplyClose ==
  ASSUME ReplyInv, RecordInv', Leased', NEW w \in Workers, NEW e \in queue[w], Close(w, e),
         UNCHANGED <<callback, record, rows, overruns>>
  PROVE  ReplyInv' /\ Stand
<1>1. session'[w] = Idle /\ pc'[w] \in {"recover", "next"} /\ Others(w)
  BY CloseIs DEF ReplyInv, RecordInv, Others
<1>2. session'[w].replies = NoReplies /\ pc'[w] \notin Inside
  BY <1>1, IdleFields DEF Inside
<1> QED BY <1>1, <1>2, ReplyEmpty

LEMMA ReplyRaise ==
  ASSUME ReplyInv, RecordInv', Leased', NEW w \in Workers, Busy(w), Raise(w),
         UNCHANGED <<tableVars, running, locked, calls, queue, overruns>>, faults' \in 0..MaxFaults
  PROVE  ReplyInv' /\ Stand
<1>1. pc'[w] = "mark" /\ session'[w].replies = NoReplies /\ Others(w)
  BY RaiseIs DEF ReplyInv, RecordInv, Others
<1> QED BY <1>1, ReplyEmpty DEF tableVars, Inside

\* The steps before and after the routes of a transaction
LEMMA ReplyOutside ==
  ASSUME ReplyInv, RecordInv', Leased', NEW w \in Workers,
         \/ RecoverExpiredLeases(w) \/ ClaimDueEvents(w) \/ Begin(w) \/ MarkFailed(w)
         \/ StatementFails(w) \/ Abort(w)
  PROVE  ReplyInv' /\ Stand
<1>0. TypeInv /\ TypeOK /\ Received
  BY DEF ReplyInv, RecordInv, TypeInv
<1>1. CASE RecoverExpiredLeases(w) \/ ClaimDueEvents(w)
  <2>1. PICK p \in {"claim", "recover", "next"} : pc' = [pc EXCEPT ![w] = p]
    BY <1>1 DEF RecoverExpiredLeases, ClaimDueEvents, Goto
  <2>2. /\ pc[w] \in {"recover", "claim"} /\ UNCHANGED <<callback, record, rows, overruns, session>>
    BY <1>1 DEF RecoverExpiredLeases, ClaimDueEvents
  <2>3. pc'[w] = p /\ Others(w)
    BY <1>0, <2>1, <2>2, Went DEF Steps, Others
  <2>4. session[w].replies = NoReplies
    BY <1>0, <2>2, IdleFields DEF TypeInv, PlaceOK, Busy, Inside
  <2>5. pc'[w] \notin Inside
    BY <2>3 DEF Inside
  <2> QED BY <2>2, <2>3, <2>4, <2>5, ReplyEmpty
<1>2. CASE Begin(w)
  <2> DEFINE e == Min(queue[w])
  <2>1. /\ e \in queue[w] /\ e \in Events /\ UNCHANGED <<callback, record, rows, overruns>>
    BY <1>0, <1>2, NextEvent DEF Begin
  <2>2. CASE Close(w, e)
    BY <2>1, <2>2, ReplyClose
  <2>3. CASE session' = [session EXCEPT ![w] = Opened(e)] /\ Goto(w, "enter")
    <3>1. /\ Opened(e) \in Sessions /\ "enter" \in Steps /\ Opened(e).replies = NoReplies
          /\ pc' = [pc EXCEPT ![w] = "enter"]
      BY <1>0, <2>1, <2>3, OpenedTyped DEF Received, Goto, Steps
    <3>2. session'[w] = Opened(e) /\ pc'[w] = "enter" /\ Others(w)
      BY <1>0, <2>3, <3>1, Moves
    <3> HIDE DEF e
    <3> QED BY <2>1, <3>1, <3>2, ReplyEmpty DEF Inside
  <2> QED BY <1>2, <2>2, <2>3 DEF Begin
<1>3. CASE MarkFailed(w)
  <2> DEFINE e == session[w].event
  <2>1. /\ Busy(w) /\ Close(w, e) /\ UNCHANGED <<callback, record, rows, overruns>>
    BY <1>3 DEF MarkFailed, Busy
  <2>2. e \in queue[w]
    BY <1>0, <2>1, AtWork
  <2> QED BY <2>1, <2>2, ReplyClose
<1>4. CASE StatementFails(w)
  BY <1>0, <1>4, StatementFailsIs, ReplyRaise
<1>5. CASE Abort(w)
  <2>1. /\ UNCHANGED <<tableVars, overruns>> /\ session'[w] = Idle /\ pc'[w] = "recover" /\ Others(w)
    BY <1>0, <1>5, AbortIs
  <2> QED BY <2>1, IdleFields, ReplyEmpty DEF tableVars, Inside
<1> QED BY <1>1, <1>2, <1>3, <1>4, <1>5

LEMMA ReplyContext ==
  ASSUME ReplyInv, RecordInv', Leased', NEW w \in Workers, Enter(w) \/ Discover(w)
  PROVE  ReplyInv' /\ Stand
<1>0. TypeInv /\ TypeOK /\ PlaceOK(w)
  BY DEF ReplyInv, RecordInv, TypeInv
<1>1. ASSUME session'[w].draft = NoRecords, session'[w].replies = NoReplies,
             pc'[w] \in {"discover", "route"}
      PROVE  Fresh(w)' /\ Kept(w)'
  BY <1>1 DEF Fresh, Kept, NoRecords, NoReplies
<1>2. CASE Enter(w)
  <2>1. PICK p \in {"route", "discover"} : pc' = [pc EXCEPT ![w] = p]
    BY <1>2 DEF Enter, Goto
  <2>2. pc'[w] = p /\ Others(w) /\ UNCHANGED <<tableVars, overruns, session>>
    BY <1>0, <1>2, <2>1, Went DEF Others, Enter, Steps, Inside
  <2>3. /\ session'[w].draft = NoRecords /\ session'[w].replies = NoReplies
        /\ RoomFree(w, session'[w].event)
    BY <1>0, <1>2, <2>2 DEF PlaceOK, Enter
  <2>4. UNCHANGED <<callback, record, rows, overruns>>
    BY <2>2 DEF tableVars
  <2>5. Fresh(w)' /\ Kept(w)'
    BY <1>1, <2>1, <2>2, <2>3
  <2> QED BY <2>2, <2>3, <2>4, <2>5, ReplyMove
<1>3. CASE Discover(w)
  <2>1. /\ pc[w] = "discover" /\ Busy(w) /\ faults' \in 0..MaxFaults
        /\ UNCHANGED <<tableVars, running, locked, calls, queue, faults, overruns>>
    BY <1>0, <1>3 DEF Discover, Busy, Inside, TypeOK
  <2>2. CASE Raise(w)
    BY <2>1, <2>2, ReplyRaise
  <2>3. CASE session' = [session EXCEPT ![w].novel = TRUE] /\ Goto(w, "route")
    <3>1. /\ session'[w].draft = session[w].draft /\ session'[w].replies = session[w].replies
          /\ session'[w].event = session[w].event
          /\ \A v \in Workers : v # w => session'[v] = session[v]
      BY <1>0, <2>3 DEF TypeOK, Sessions
    <3>2. "route" \in Steps /\ pc' = [pc EXCEPT ![w] = "route"]
      BY <2>3 DEF Steps, Inside, Goto
    <3>3. pc'[w] = "route" /\ Others(w) /\ pc[w] \in Inside
      BY <1>0, <2>1, <3>1, <3>2, Went DEF Others, Inside
    <3>4. session'[w].draft = NoRecords /\ session'[w].replies = NoReplies
      BY <1>0, <2>1, <3>1 DEF PlaceOK
    <3>5. UNCHANGED <<callback, record, rows, overruns>>
      BY <2>1 DEF tableVars
    <3>6. Fresh(w)' /\ Kept(w)'
      BY <1>1, <3>3, <3>4
    <3> QED BY <3>1, <3>3, <3>5, <3>6, ReplyMove
  <2> QED BY <1>3, <2>2, <2>3 DEF Discover
<1> QED BY <1>2, <1>3

\* A worker goes on at its routes.
LEMMA ReplyGoesOn ==
  ASSUME ReplyInv, RecordInv', Leased', NEW w \in Workers, Others(w), SameEvent(w),
         UNCHANGED <<tableVars, overruns>>, pc[w] \in Inside, Fresh(w)', Kept(w)'
  PROVE  ReplyInv' /\ Stand
BY ReplyMove DEF tableVars, SameEvent

LEMMA ReplyLoad ==
  ASSUME ReplyInv, RecordInv', Leased', NEW w \in Workers, LoadRecord(w)
  PROVE  ReplyInv' /\ Stand
<1> DEFINE e == session[w].event
           d == Route(w)
<1>0. TypeInv /\ Fresh(w) /\ Kept(w) /\ DraftOK(w)
  BY DEF ReplyInv, RecordInv
<1>1. /\ SameEvent(w) /\ Others(w) /\ pc[w] = "plugin" /\ d \in session[w].left
      /\ d \in Deployments /\ UNCHANGED <<tableVars, overruns>>
      /\ session'[w].draft = session[w].draft /\ session'[w].replies = session[w].replies
      /\ \/ pc'[w] = "plugin" /\ session'[w].loaded = session[w].loaded
         \/ /\ session'[w].left = session[w].left
            /\ session'[w].loaded = [session[w].loaded EXCEPT ![d] = record[e][d]]
  BY <1>0, LoadRecordIs
<1>2. /\ session'[w].event = e /\ Busy(w) /\ session[w] \in Sessions /\ pc[w] \in Inside
      /\ UNCHANGED record /\ (Guarded(e)' <=> Guarded(e))
  BY <1>0, <1>1 DEF SameEvent, Busy, Inside, TypeInv, TypeOK, tableVars, Guarded, Kind
<1>3. session[w].draft[d] = "NONE"
  BY <1>0, <1>1, <1>2 DEF DraftOK
<1>4. \A x \in Deployments : Guarded(e) /\ session[w].draft[x] # "NONE" =>
        session[w].loaded[x] = record[e][x]
  BY <1>0, <1>2 DEF Fresh
<1>5. Guarded(session[w].event)' => Guarded(e)
  BY <1>1, <1>2 DEF Guarded, Kind, tableVars
<1> HIDE DEF e, d
<1>6. CASE pc'[w] = "plugin" /\ session'[w].loaded = session[w].loaded
  <2>1. Fresh(w)'
    BY <1>1, <1>2, <1>4, <1>5, <1>6 DEF Fresh
  <2> QED BY <1>0, <1>1, <1>2, <2>1, ReplyGoesOn DEF Kept
<1>7. CASE /\ session'[w].left = session[w].left
           /\ session'[w].loaded = [session[w].loaded EXCEPT ![d] = record[e][d]]
  <2>1. Route(w)' = d
    BY <1>7 DEF Route, d
  <2>2. /\ session'[w].loaded[d] = record[e][d]
        /\ \A x \in Deployments : x # d => session'[w].loaded[x] = session[w].loaded[x]
    BY <1>1, <1>2, <1>7 DEF Sessions
  <2>3. Fresh(w)'
    BY <1>1, <1>2, <1>4, <1>5, <2>1, <2>2 DEF Fresh
  <2> QED BY <1>0, <1>1, <1>2, <2>3, ReplyGoesOn DEF Kept
<1> QED BY <1>1, <1>6, <1>7

LEMMA ReplyInsert ==
  ASSUME ReplyInv, RecordInv', Leased', NEW w \in Workers, InsertRecord(w)
  PROVE  ReplyInv' /\ Stand
<1> DEFINE e == session[w].event
           d == Route(w)
<1>0. TypeInv /\ Fresh(w) /\ Kept(w) /\ DraftOK(w)
  BY DEF ReplyInv, RecordInv
<1>1. /\ UNCHANGED <<tableVars, running, locked, calls, queue, faults, overruns>>
      /\ pc[w] = "insert" /\ Busy(w) /\ faults' \in 0..MaxFaults
      /\ d \in session[w].left /\ d \in Deployments /\ session[w] \in Sessions
  BY <1>0, InsertRecordIs, AtWork
<1>2. CASE Raise(w)
  BY <1>1, <1>2, ReplyRaise
<1>3. CASE session' = [session EXCEPT ![w].draft[d] = "PENDING"] /\ Goto(w, "judge")
  <2>1. session[w].draft[d] = "NONE" /\ session[w].replies[d] = {}
    BY <1>0, <1>1 DEF DraftOK, Kept
  <2>2. \A x \in Deployments : Guarded(e) /\ (session[w].draft[x] # "NONE" \/ x = d) =>
          session[w].loaded[x] = record[e][x]
    BY <1>0, <1>1 DEF Fresh, Inside
  <2> HIDE DEF d
  <2>3. /\ SameEvent(w) /\ Others(w) /\ pc'[w] = "judge"
        /\ session'[w].left = session[w].left
        /\ session'[w].draft = [session[w].draft EXCEPT ![d] = "PENDING"]
        /\ session'[w].replies = session[w].replies
        /\ session'[w].loaded = session[w].loaded
    BY <1>0, <1>1, <1>3, InsertIs
  <2>4. /\ session'[w].event = e /\ pc[w] \in Inside /\ UNCHANGED record /\ Route(w)' = d
        /\ Guarded(session[w].event)' => Guarded(e)
    BY <1>1, <2>3 DEF SameEvent, Inside, tableVars, Guarded, Kind, Route, d
  <2>5. \A x \in Deployments : x # d => session'[w].draft[x] = session[w].draft[x]
    BY <1>1, <2>3 DEF Sessions
  <2> HIDE DEF e
  <2>6. Fresh(w)'
    BY <2>2, <2>3, <2>4, <2>5 DEF Fresh
  <2>7. Kept(w)'
    BY <1>0, <2>1, <2>3, <2>5 DEF Kept
  <2> QED BY <1>1, <2>3, <2>4, <2>6, <2>7, ReplyGoesOn
<1> QED BY <1>0, <1>2, <1>3, InsertRecordIs

LEMMA ReplyEndRoute ==
  ASSUME ReplyInv, RecordInv', Leased', NEW w \in Workers, pc[w] \in {"judge", "call"},
         NEW status \in RecordStatuses, NEW replies \in SUBSET Replies,
         replies # {} => status \in {"REJECTED", "SUCCEEDED"}, OneCall(replies),
         EndRoute(w, status, replies),
         UNCHANGED <<tableVars, running, locked, calls, queue, faults, overruns>>
  PROVE  ReplyInv' /\ Stand
<1> DEFINE e == session[w].event
           d == Route(w)
<1>0. TypeInv /\ Fresh(w) /\ Kept(w) /\ pc[w] \in Inside /\ session[w] \in Sessions
  BY DEF ReplyInv, RecordInv, Inside, TypeInv, TypeOK
<1>1. /\ SameEvent(w) /\ Others(w) /\ pc'[w] = "plugin" /\ d \in Deployments
      /\ session'[w].draft = [session[w].draft EXCEPT ![d] = status]
      /\ session'[w].replies = [session[w].replies EXCEPT ![d] = replies]
      /\ session'[w].loaded = session[w].loaded
  BY <1>0, EndRouteIs
<1>2. /\ session'[w].event = e /\ UNCHANGED record
      /\ Guarded(session[w].event)' => Guarded(e)
  BY <1>1 DEF SameEvent, tableVars, Guarded, Kind
<1>3. \A x \in Deployments : Guarded(e) /\ (session[w].draft[x] # "NONE" \/ x = d) =>
        session[w].loaded[x] = record[e][x]
  BY <1>0 DEF Fresh
<1> HIDE DEF d, e
<1>4. /\ session'[w].draft[d] = status /\ session'[w].replies[d] = replies
      /\ \A x \in Deployments : x # d => /\ session'[w].draft[x] = session[w].draft[x]
                                         /\ session'[w].replies[x] = session[w].replies[x]
  BY <1>0, <1>1 DEF Sessions
<1>5. Fresh(w)'
  BY <1>1, <1>2, <1>3, <1>4 DEF Fresh
<1>6. Kept(w)'
  BY <1>0, <1>1, <1>4 DEF Kept
<1> QED BY <1>0, <1>1, <1>5, <1>6, ReplyGoesOn

LEMMA ReplyCall ==
  ASSUME ReplyInv, RecordInv', Leased', NEW w \in Workers, Judge(w) \/ Answer(w)
  PROVE  ReplyInv' /\ Stand
<1>0. TypeInv /\ Fresh(w) /\ Kept(w)
  BY DEF ReplyInv, RecordInv
<1>1. CASE EndRoute(w, "DENIED", {}) /\ UNCHANGED calls /\ Judge(w)
  <2>1. "DENIED" \in RecordStatuses /\ {} \in SUBSET Replies /\ OneCall({})
    BY DEF RecordStatuses, OneCall
  <2>2. pc[w] = "judge" /\ UNCHANGED <<tableVars, running, locked, calls, queue, faults, overruns>>
    BY <1>1 DEF Judge
  <2> QED BY <1>1, <2>1, <2>2, ReplyEndRoute
<1>2. CASE /\ calls' = [calls EXCEPT ![session[w].event][Route(w)] = @ + 1]
           /\ session' = [session EXCEPT ![w].call = calls[session[w].event][Route(w)] + 1]
           /\ Goto(w, "call") /\ Judge(w)
  <2>0. pc[w] = "judge" /\ UNCHANGED <<tableVars, running, locked, queue, faults, overruns>>
    BY <1>2 DEF Judge
  <2>1. /\ SameEvent(w) /\ Others(w) /\ pc'[w] = "call"
        /\ session'[w].left = session[w].left
        /\ session'[w].draft = session[w].draft
        /\ session'[w].replies = session[w].replies
        /\ session'[w].loaded = session[w].loaded
    BY <1>0, <1>2, <2>0, CallIs
  <2>2. /\ session'[w].event = session[w].event /\ Route(w)' = Route(w) /\ pc[w] \in Inside
        /\ Guarded(session[w].event)' => Guarded(session[w].event)
        /\ UNCHANGED record
    BY <2>0, <2>1 DEF SameEvent, Route, Inside, tableVars, Guarded, Kind
  <2>3. Fresh(w)'
    BY <1>0, <2>0, <2>1, <2>2 DEF Fresh
  <2>4. Kept(w)'
    BY <1>0, <2>1 DEF Kept
  <2> QED BY <2>0, <2>1, <2>2, <2>3, <2>4, ReplyGoesOn
<1>3. CASE Answer(w)
  <2>1. pc[w] = "call" /\ UNCHANGED <<tableVars, running, locked, calls, queue, faults, overruns>>
    BY <1>3 DEF Answer
  <2>2. PICK status \in RecordStatuses, replies \in SUBSET Replies :
          /\ EndRoute(w, status, replies)
          /\ replies # {} => status \in {"REJECTED", "SUCCEEDED"}
          /\ \A r \in replies : r.call = session[w].call
    BY <1>0, <1>3, AnswerIs
  <2>3. OneCall(replies)
    BY <2>2 DEF OneCall
  <2> QED BY <2>1, <2>2, <2>3, ReplyEndRoute
<1> QED BY <1>1, <1>2, <1>3 DEF Judge

LEMMA ReplyEnds ==
  ASSUME ReplyInv, RecordInv', Leased', NEW w \in Workers, SelectRoutes(w) \/ Settle(w)
  PROVE  ReplyInv' /\ Stand
<1> DEFINE e == session[w].event
           routes == RoutesOf[e] \cap running
<1>0. TypeInv /\ Fresh(w) /\ Kept(w) /\ DraftOK(w) /\ PlaceOK(w)
  BY DEF ReplyInv, RecordInv, TypeInv
<1>1. CASE Settle(w)
  <2>1. /\ pc[w] = "plugin" /\ session[w].left = {} /\ CommitRecords(w, e) /\ Close(w, e)
        /\ UNCHANGED <<callback, overruns>>
    BY <1>0, <1>1, SettleIs
  <2>2. pc[w] \in Inside /\ \A d \in Deployments : session[w].draft[d] # "PENDING"
    BY <1>0, <2>1 DEF DraftOK, Busy, Inside
  <2> QED BY <2>1, <2>2, ReplyCommit
<1>2. CASE SelectRoutes(w)
  <2>1. /\ pc[w] = "route" /\ pc[w] \in Inside /\ Busy(w)
        /\ UNCHANGED <<callback, due, tries, running, locked, calls, faults, overruns>>
    BY <1>2 DEF SelectRoutes, Inside, Busy
  <2>2. session[w].draft = NoRecords /\ session[w].replies = NoReplies
    BY <1>0, <2>1 DEF PlaceOK
  <2>3. CASE CommitRecords(w, e) /\ Close(w, e)
    BY <2>1, <2>2, <2>3, ReplyCommit DEF NoRecords
  <2>4. CASE /\ session' = [session EXCEPT ![w].left = routes] /\ Goto(w, "plugin")
             /\ UNCHANGED <<inbox, record, rows, known, queue>>
    <3>1. routes \in SUBSET Deployments
      BY <1>0 DEF TypeInv, TypeOK
    <3>2. UNCHANGED <<tableVars, running, locked, calls, queue, faults, overruns>>
      BY <2>1, <2>4 DEF tableVars
    <3> HIDE DEF routes
    <3>3. /\ SameEvent(w) /\ Others(w) /\ pc'[w] = "plugin"
          /\ session'[w].draft = session[w].draft /\ session'[w].replies = session[w].replies
      BY <1>0, <2>1, <2>4, <3>1, <3>2, ChooseIs
    <3>4. Fresh(w)' /\ Kept(w)'
      BY <2>2, <3>3 DEF Fresh, Kept, NoRecords, NoReplies
    <3> QED BY <2>1, <3>2, <3>3, <3>4, ReplyGoesOn
  <2> QED BY <1>2, <2>3, <2>4 DEF SelectRoutes
<1> QED BY <1>1, <1>2

LEMMA ReplyStep == ReplyInv /\ [Next]_vars => ReplyInv' /\ [Stand]_<<record, rows>>
<1> SUFFICES ASSUME ReplyInv, [Next]_vars PROVE ReplyInv' /\ Stand
  OBVIOUS
<1>0. RecordInv' /\ Leased' /\ TypeInv /\ TypeOK
  BY RecordStep, LeaseStep DEF ReplyInv, RecordInv, TypeInv
<1>1. CASE UNCHANGED vars
  BY <1>0, <1>1, ReplyStill DEF vars
<1>2. ASSUME NEW e \in Events, Ingest(e) PROVE ReplyInv' /\ Stand
  <2>1. /\ UNCHANGED <<session, pc, record, rows, overruns>>
        /\ \A f \in Events : inbox[f] # "ABSENT" => callback'[f] = callback[f]
    BY <1>0, <1>2 DEF Ingest, TypeOK
  <2> QED BY <1>0, <2>1, ReplyStill
<1>3. ASSUME NEW e \in Events, TimePasses(e) PROVE ReplyInv' /\ Stand
  <2>1. /\ UNCHANGED <<callback, session, pc, record, rows>> /\ overruns \in Nat
        /\ overruns' \in {overruns, overruns + 1}
    BY <1>0, <1>3, DispatchAssumption DEF TimePasses, TypeOK
  <2> QED BY <1>0, <2>1, ReplyStill
<1>4. ASSUME NEW d \in Deployments, LockDeployment(d) \/ Toggle(d) PROVE ReplyInv' /\ Stand
  BY <1>0, <1>4, ReplyStill DEF LockDeployment, Toggle, tableVars
<1>5. ASSUME NEW w \in Workers, RunOnce(w) \/ StatementFails(w) \/ Abort(w)
      PROVE  ReplyInv' /\ Stand
  BY <1>0, <1>5, ReplyOutside, ReplyContext, ReplyLoad, ReplyInsert, ReplyCall, ReplyEnds
     DEF RunOnce
<1> QED BY <1>1, <1>2, <1>3, <1>4, <1>5 DEF Next

\* The replies of an event and a plugin are of one call, unless its lease was overrun and
\* no chat room serialises it, whatever crashes and retries there are.
THEOREM RepliesOfOneResult == Spec => []OneResult
<1>1. ReplyInv => OneResult
  BY DEF ReplyInv, RowsOK, OneCall, OneResult
<1>2. ReplyInv /\ [Next]_vars => ReplyInv'
  BY ReplyStep
<1> QED BY <1>1, <1>2, ReplyInit, PTL DEF Spec

\* And a terminal record stands: no retry and no rival writes over it, and replies reach
\* the outbox only in the commit that makes their record terminal.
THEOREM RecordsAreFinal == Spec => RecordsStand
<1>1. ReplyInv /\ [Next]_vars => [Stand]_<<record, rows>>
  BY ReplyStep
<1>2. ReplyInv /\ [Next]_vars => ReplyInv'
  BY ReplyStep
<1> QED BY <1>1, <1>2, ReplyInit, PTL DEF Spec, RecordsStand, Stand

-----------------------------------------------------------------------------
(* The attempts.  What is left of the attempts of an event is counted: the  *)
(* workers that may still give it back for a retry, and the row itself      *)
(* while somebody may claim it.  Only a crash or an overrun adds to them.   *)

On(w, e) == Busy(w) /\ session[w].event = e

\* The worker can still end the dispatch of e as a retry.
Chance(w, e) ==
  /\ e \in queue[w]
  /\ IF On(w, e) THEN pc[w] # "mark" /\ session[w].count < MaxAttempts
                 ELSE tries[e] < MaxAttempts
Chances(e) == {w \in Workers : Chance(w, e)}

\* The retry of a worker that loaded NORMALIZED does not write the status: the row may
\* stay DISPATCHING with nobody at it, and be recovered when its delay ends.
Stale(w, e) == On(w, e) /\ session[w].seen = "NORMALIZED"

\* The row can be claimed, now or later, with no overrun of a lease.
Free(e) ==
  \/ inbox[e] = "NORMALIZED"
  \/ /\ inbox[e] = "DISPATCHING"
     /\ due[e] \/ \A w \in Workers : e \in queue[w] => Stale(w, e)
Spare(e) == IF Free(e) THEN 1 ELSE 0

\* Chances that are ever given: one, and what faults and overruns add
Limit == 1 + faults + overruns

\* Claims from the last permitted one on
Spent(n) == IF n < MaxAttempts THEN 0 ELSE n - MaxAttempts + 1

\* What the worker has called for e, if it ever will in this attempt, it has called.
Called(w, e, d) ==
  /\ On(w, e)
  /\ \/ pc[w] = "mark"
     \/ pc[w] \in {"plugin", "insert", "judge", "call"} /\ d \notin session[w].left
     \/ pc[w] = "call" /\ Route(w) = d
Holders(e) == {w \in Workers : e \in queue[w]}
Uncalled(e, d) == {w \in Workers : e \in queue[w] /\ ~Called(w, e, d)}

CountOK(e) ==
  /\ inbox[e] = "ABSENT" => tries[e] = 0
  /\ IsFiniteSet(Holders(e))
  /\ Spent(tries[e]) + Cardinality(Chances(e)) + Spare(e) <= Limit
  /\ \A d \in Deployments : calls[e][d] + Cardinality(Uncalled(e, d)) <= tries[e]

CountInv == TypeInv /\ \A e \in Events : CountOK(e)

LEMMA LimitIs == /\ TypeInv => Limit \in Nat
                 /\ TypeInv' => Limit' \in Nat
BY DispatchAssumption DEF TypeInv, TypeOK, Limit

LEMMA CountTypes ==
  ASSUME CountInv, NEW e \in Events
  PROVE  /\ tries[e] \in Nat /\ Limit \in Nat /\ MaxAttempts \in Nat
         /\ MaxAttempts > 0 /\ Spent(tries[e]) \in Nat /\ Spare(e) \in {0, 1}
         /\ IsFiniteSet(Holders(e))
         /\ IsFiniteSet(Chances(e)) /\ Cardinality(Chances(e)) \in Nat
         /\ \A d \in Deployments : /\ calls[e][d] \in Nat /\ IsFiniteSet(Uncalled(e, d))
                                   /\ Cardinality(Uncalled(e, d)) \in Nat
<1>1. IsFiniteSet(Holders(e)) /\ TypeOK
  BY DEF CountInv, CountOK, TypeInv
<1>2. Chances(e) \in SUBSET Holders(e) /\ \A d \in Deployments : Uncalled(e, d) \in SUBSET Holders(e)
  BY DEF Chances, Chance, Uncalled, Holders
<1>3. /\ tries[e] \in Nat /\ faults \in Nat /\ overruns \in Nat /\ MaxAttempts \in Nat
      /\ MaxAttempts > 0 /\ \A d \in Deployments : calls[e][d] \in Nat
  <2>1. /\ tries \in [Events -> Nat] /\ calls \in [Events -> [Deployments -> Nat]]
        /\ faults \in 0..MaxFaults /\ overruns \in 0..MaxOverruns
    BY <1>1 DEF TypeOK
  <2> QED BY <2>1, DispatchAssumption
<1>4. IsFiniteSet(Chances(e)) /\ Cardinality(Chances(e)) \in Nat
  BY <1>1, <1>2, FS_Subset, FS_CardinalityType
<1>5. ASSUME NEW d \in Deployments
      PROVE  IsFiniteSet(Uncalled(e, d)) /\ Cardinality(Uncalled(e, d)) \in Nat
  BY <1>1, <1>2, FS_Subset, FS_CardinalityType
<1>6. Spent(tries[e]) \in Nat /\ Spare(e) \in {0, 1}
  BY <1>3 DEF Spent, Spare
<1> QED BY <1>1, <1>3, <1>4, <1>5, <1>6, LimitIs DEF CountInv

\* A set that only loses members counts less, and one less when it has lost one.
LEMMA Fewer ==
  ASSUME NEW S, NEW T, IsFiniteSet(S), T \subseteq S
  PROVE  /\ IsFiniteSet(T) /\ Cardinality(T) \in Nat /\ Cardinality(S) \in Nat
         /\ Cardinality(T) <= Cardinality(S)
         /\ T # S => Cardinality(T) + 1 <= Cardinality(S)
<1>1. /\ IsFiniteSet(T) /\ Cardinality(T) <= Cardinality(S)
      /\ Cardinality(S) = Cardinality(T) => S = T
  BY FS_Subset
<1>2. Cardinality(T) \in Nat /\ Cardinality(S) \in Nat
  BY <1>1, FS_CardinalityType
<1> QED BY <1>1, <1>2

LEMMA Budget ==
  ASSUME NEW s \in Nat, NEW n \in Nat, NEW m \in Nat, NEW a \in Nat, NEW b \in Nat,
         NEW limit \in Nat, NEW limit1 \in Nat, s + n + a <= limit,
         limit <= limit1, m + b <= n + a \/ (m + b <= n + a + 1 /\ limit < limit1)
  PROVE  s + m + b <= limit1
OBVIOUS

\* A step that claims nothing: chances are only lost, but for what a fault or an overrun
\* gives back, and for the one a retry returns to the row.
LEMMA CountKept ==
  ASSUME CountInv, TypeInv', NEW e \in Events, tries'[e] = tries[e],
         inbox'[e] = "ABSENT" => inbox[e] = "ABSENT",
         Holders(e)' \subseteq Holders(e), Chances(e)' \subseteq Chances(e),
         \A d \in Deployments :
           /\ Uncalled(e, d)' \subseteq Uncalled(e, d)
           /\ \/ calls'[e][d] = calls[e][d]
              \/ calls'[e][d] = calls[e][d] + 1 /\ Uncalled(e, d)' # Uncalled(e, d),
         Limit <= Limit',
         \/ Free(e)' => Free(e) \/ Chances(e)' # Chances(e)
         \/ Limit < Limit'
  PROVE  CountOK(e)'
<1>1. /\ tries[e] \in Nat /\ Limit \in Nat
      /\ Spent(tries[e]) \in Nat /\ Spare(e) \in {0, 1}
      /\ Spent(tries[e]) + Cardinality(Chances(e)) + Spare(e) <= Limit
      /\ IsFiniteSet(Holders(e)) /\ IsFiniteSet(Chances(e))
      /\ \A d \in Deployments : /\ calls[e][d] \in Nat /\ IsFiniteSet(Uncalled(e, d))
                                /\ calls[e][d] + Cardinality(Uncalled(e, d)) <= tries[e]
  BY CountTypes DEF CountInv, CountOK
<1>2. Limit' \in Nat
  BY LimitIs
<1>3. IsFiniteSet(Holders(e)')
  BY <1>1, Fewer
<1>4. /\ Cardinality(Chances(e)') \in Nat /\ Cardinality(Chances(e)) \in Nat
      /\ Cardinality(Chances(e)') <= Cardinality(Chances(e))
      /\ Chances(e)' # Chances(e) => Cardinality(Chances(e)') + 1 <= Cardinality(Chances(e))
  BY <1>1, Fewer
<1>5. /\ Spare(e)' \in {0, 1}
      /\ Spare(e) = 0 => ~Free(e)
      /\ Spare(e)' = 1 => Free(e)'
  BY DEF Spare
<1>6. Spent(tries[e])' = Spent(tries[e])
  BY DEF Spent
<1>7. Spent(tries[e]) + Cardinality(Chances(e)') + Spare(e)' <= Limit'
  <2> DEFINE n == Cardinality(Chances(e))
             m == Cardinality(Chances(e)')
             free == Free(e)'
  <2>1. /\ n \in Nat /\ m \in Nat /\ m <= n
        /\ Chances(e)' # Chances(e) => m + 1 <= n
    BY <1>4
  <2>2. Spare(e)' = IF free THEN 1 ELSE 0
    BY DEF Spare
  <2>3. \/ free => Free(e) \/ Chances(e)' # Chances(e)
        \/ Limit < Limit'
    OBVIOUS
  <2>4. Spare(e) = IF Free(e) THEN 1 ELSE 0
    BY DEF Spare
  <2> HIDE DEF n, m, free
  <2>5. \/ m + Spare(e)' <= n + Spare(e)
        \/ Limit < Limit'
    BY <1>5, <2>1, <2>2, <2>3, <2>4
  <2>6. m + Spare(e)' <= n + Spare(e) + 1
    BY <1>1, <1>5, <2>1
  <2>8. Spare(e) \in Nat /\ Spare(e)' \in Nat
    BY <1>1, <1>5
  <2>9. Spent(tries[e]) + n + Spare(e) <= Limit
    BY <1>1 DEF n
  <2>10. Spent(tries[e]) + m + Spare(e)' <= Limit'
    BY <1>1, <2>1, <2>5, <2>6, <1>2, <2>8, <2>9, Budget
  <2> QED BY <2>10 DEF m
<1>8. ASSUME NEW d \in Deployments
      PROVE  (calls[e][d] + Cardinality(Uncalled(e, d)) <= tries[e])'
  <2>1. /\ Cardinality(Uncalled(e, d)') \in Nat /\ Cardinality(Uncalled(e, d)) \in Nat
        /\ Cardinality(Uncalled(e, d)') <= Cardinality(Uncalled(e, d))
        /\ Uncalled(e, d)' # Uncalled(e, d) =>
             Cardinality(Uncalled(e, d)') + 1 <= Cardinality(Uncalled(e, d))
    BY <1>1, Fewer
  <2> QED BY <1>1, <2>1
<1>9. (inbox[e] = "ABSENT" => tries[e] = 0)'
  BY DEF CountInv, CountOK
<1> QED BY <1>3, <1>6, <1>7, <1>8, <1>9 DEF CountOK

\* What no step touches
LEMMA Unmoved ==
  ASSUME NEW v \in Workers, NEW e \in Events, session'[v] = session[v], pc'[v] = pc[v],
         queue'[v] = queue[v]
  PROVE  /\ tries'[e] = tries[e] => Chance(v, e)' = Chance(v, e)
         /\ Stale(v, e)' = Stale(v, e)
         /\ \A d \in Deployments : Called(v, e, d)' = Called(v, e, d)
<1>1. (On(v, e)' = On(v, e)) /\ (Route(v)' = Route(v))
  BY DEF On, Busy, Route
<1> QED BY <1>1 DEF Chance, Stale, Called

\* Only one worker moves, and does not come to hold e.
LEMMA OneMoves ==
  ASSUME NEW w \in Workers, Others(w), \A v \in Workers : v # w => queue'[v] = queue[v],
         NEW e \in Events, tries'[e] = tries[e], e \in queue'[w] => e \in queue[w],
         Chance(w, e)' => Chance(w, e),
         \A d \in Deployments : e \in queue'[w] /\ Called(w, e, d) => Called(w, e, d)'
  PROVE  /\ Holders(e)' \subseteq Holders(e) /\ Chances(e)' \subseteq Chances(e)
         /\ \A d \in Deployments : Uncalled(e, d)' \subseteq Uncalled(e, d)
<1>1. ASSUME NEW v \in Workers, v # w
      PROVE  /\ queue'[v] = queue[v] /\ (Chance(v, e)' = Chance(v, e))
             /\ \A d \in Deployments : Called(v, e, d)' = Called(v, e, d)
  BY <1>1, Unmoved DEF Others
<1>2. Holders(e)' \subseteq Holders(e)
  BY <1>1 DEF Holders
<1>3. Chances(e)' \subseteq Chances(e)
  BY <1>1 DEF Chances
<1>4. ASSUME NEW d \in Deployments PROVE Uncalled(e, d)' \subseteq Uncalled(e, d)
  BY <1>1 DEF Uncalled
<1> QED BY <1>2, <1>3, <1>4

\* A row that is not written is not freed, if who held it holds it and is not stale.
LEMMA NotFreed ==
  ASSUME NEW w \in Workers, Others(w), \A v \in Workers : v # w => queue'[v] = queue[v],
         NEW e \in Events, inbox'[e] = inbox[e], due'[e] = due[e],
         e \in queue[w] => e \in queue'[w] /\ (Stale(w, e)' => Stale(w, e)),
         Free(e)'
  PROVE  Free(e)
<1>1. ASSUME NEW v \in Workers, v # w
      PROVE  queue'[v] = queue[v] /\ (Stale(v, e)' = Stale(v, e))
  BY <1>1, Unmoved DEF Others
<1>2. \A v \in Workers : e \in queue[v] => e \in queue'[v] /\ (Stale(v, e)' => Stale(v, e))
  BY <1>1
<1>3. \/ inbox[e] = "NORMALIZED"
      \/ /\ inbox[e] = "DISPATCHING"
         /\ due[e] \/ \A v \in Workers : e \in queue'[v] => Stale(v, e)'
  BY DEF Free
<1> QED BY <1>2, <1>3 DEF Free

\* A worker goes on with its transaction, or raises out of it.
LEMMA CountGoes ==
  ASSUME CountInv, TypeInv', NEW w \in Workers, Others(w), Busy(w), Busy(w)',
         UNCHANGED <<inbox, due, tries, queue, overruns>>,
         NEW e \in Events, session[w].event = e, session'[w].event = e, faults' \in {faults, faults + 1},
         pc[w] # "mark",
         \/ pc'[w] = "mark" /\ session'[w].seen # "NORMALIZED"
         \/ session'[w].count = session[w].count /\ session'[w].seen = session[w].seen,
         \A d \in Deployments : Called(w, e, d) => Called(w, e, d)',
         \/ UNCHANGED calls
         \/ \E x \in Deployments : /\ calls' = [calls EXCEPT ![e][x] = @ + 1]
                                   /\ ~Called(w, e, x) /\ Called(w, e, x)'
  PROVE  CountInv'
<1>1. e \in queue[w] /\ TypeInv /\ TypeOK
  BY AtWork DEF CountInv, TypeInv
<1> SUFFICES ASSUME NEW f \in Events PROVE CountOK(f)'
  BY DEF CountInv
<1>2. (On(w, f) <=> f = e) /\ (On(w, f)' <=> f = e)
  BY DEF On
<1>3. Chance(w, f)' => Chance(w, f)
  BY <1>2 DEF Chance
<1>4. Stale(w, f)' => Stale(w, f)
  BY <1>2 DEF Stale
<1>5. \A d \in Deployments : Called(w, f, d) => Called(w, f, d)'
  BY <1>2 DEF Called
<1>6. /\ Holders(f)' \subseteq Holders(f) /\ Chances(f)' \subseteq Chances(f)
      /\ \A d \in Deployments : Uncalled(f, d)' \subseteq Uncalled(f, d)
  BY <1>3, <1>5, OneMoves
<1>7. ASSUME NEW d \in Deployments
      PROVE  \/ calls'[f][d] = calls[f][d]
             \/ calls'[f][d] = calls[f][d] + 1 /\ Uncalled(f, d)' # Uncalled(f, d)
  <2>1. CASE UNCHANGED calls
    BY <2>1
  <2>2. ASSUME NEW x \in Deployments, calls' = [calls EXCEPT ![e][x] = @ + 1],
               ~Called(w, e, x), Called(w, e, x)'
        PROVE  \/ calls'[f][d] = calls[f][d]
               \/ calls'[f][d] = calls[f][d] + 1 /\ Uncalled(f, d)' # Uncalled(f, d)
    <3>1. CASE f # e \/ d # x
      BY <1>1, <2>2, <3>1 DEF TypeOK
    <3>2. CASE f = e /\ d = x
      <4>1. calls'[f][d] = calls[f][d] + 1
        BY <1>1, <2>2, <3>2 DEF TypeOK
      <4>2. w \in Uncalled(f, d) /\ w \notin Uncalled(f, d)'
        BY <1>1, <2>2, <3>2 DEF Uncalled
      <4> QED BY <4>1, <4>2
    <3> QED BY <3>1, <3>2
  <2> QED BY <2>1, <2>2
<1>8. Free(f)' => Free(f)
  BY <1>4, NotFreed
<1>9. Limit <= Limit'
  <2>1. Limit \in Nat /\ faults \in Nat /\ overruns \in Nat
    BY <1>1, LimitIs, DispatchAssumption DEF TypeOK
  <2>2. Limit' = Limit \/ Limit' = Limit + 1
    BY <2>1 DEF Limit
  <2> QED BY <2>1, <2>2
<1> QED BY <1>6, <1>7, <1>8, <1>9, CountKept

\* The dispatch of an event ends, and with it the chance of this worker: it frees the row
\* only if it had one.
LEMMA CountEnds ==
  ASSUME CountInv, TypeInv', NEW w \in Workers, NEW e \in Events, Ends(w, e),
         Busy(w) => session[w].event = e, UNCHANGED <<tries, calls, faults>>,
         inbox'[e] # "ABSENT", Free(e)' => Chance(w, e)
  PROVE  CountInv'
<1>1. /\ queue'[w] = queue[w] \ {e} /\ session'[w] = Idle /\ pc'[w] \in {"recover", "next"}
      /\ Others(w) /\ \A v \in Workers : v # w => queue'[v] = queue[v]
      /\ e \in queue[w]
  BY CloseIs DEF Ends, CountInv, Others
<1> SUFFICES ASSUME NEW f \in Events PROVE CountOK(f)'
  BY DEF CountInv
<1>2. ~On(w, f)' /\ ~Stale(w, f)'
  BY <1>1 DEF On, Stale, Busy, Inside
<1>3. f # e => ~On(w, f)
  BY DEF On
<1>4. /\ Chance(w, f)' => Chance(w, f)
      /\ \A d \in Deployments : f \in queue'[w] /\ Called(w, f, d) => Called(w, f, d)'
  BY <1>1, <1>2, <1>3 DEF Chance, Called
<1>5. /\ Holders(f)' \subseteq Holders(f) /\ Chances(f)' \subseteq Chances(f)
      /\ \A d \in Deployments : Uncalled(f, d)' \subseteq Uncalled(f, d)
  BY <1>1, <1>4, OneMoves
<1>6. Free(f)' => Free(f) \/ Chances(f)' # Chances(f)
  <2>1. CASE f = e
    <3>1. w \notin Chances(e)'
      BY <1>1 DEF Chances, Chance
    <3>2. Chance(w, e) => w \in Chances(e)
      BY DEF Chances
    <3> QED BY <2>1, <3>1, <3>2
  <2>2. CASE f # e
    BY <1>1, <1>2, <2>2, NotFreed DEF Ends
  <2> QED BY <2>1, <2>2
<1>7. (inbox'[f] = "ABSENT" => inbox[f] = "ABSENT") /\ Limit <= Limit'
  <2>1. Limit' = Limit /\ Limit \in Nat
    BY LimitIs DEF Ends, Limit, CountInv
  <2> QED BY <2>1 DEF Ends
<1> QED BY <1>5, <1>6, <1>7, CountKept

LEMMA CountRaise ==
  ASSUME CountInv, TypeInv', NEW w \in Workers, Busy(w), pc[w] # "mark", Raise(w),
         UNCHANGED <<tableVars, running, locked, calls, queue, overruns>>,
         faults' \in {faults, faults + 1}
  PROVE  CountInv'
<1>0. TypeInv /\ TypeOK /\ faults' \in 0..MaxFaults
  BY DEF CountInv, TypeInv, TypeOK
<1>1. PICK e \in Events : session[w].event = e
  BY <1>0, AtWork
<1>2. pc'[w] = "mark" /\ session'[w].event = e /\ Others(w)
  BY <1>0, <1>1, RaiseIs DEF Others
<1>3. session'[w].seen # "NORMALIZED"
  BY <1>0 DEF Raise, Idle, TypeOK
<1>4. Busy(w)' /\ \A d \in Deployments : Called(w, e, d)'
  BY <1>2 DEF Busy, Called, On
<1> QED BY <1>1, <1>2, <1>3, <1>4, CountGoes DEF tableVars

\* A worker goes on, and calls nobody.
LEMMA CountMoves ==
  ASSUME CountInv, TypeInv', NEW w \in Workers, SameEvent(w), Others(w),
         UNCHANGED <<tableVars, running, locked, calls, queue, faults, overruns>>,
         pc[w] \in Inside \cup {"enter"}, pc'[w] \in Inside,
         pc[w] \in {"plugin", "insert", "judge", "call"} =>
           /\ pc'[w] \in {"plugin", "insert", "judge"}
           /\ session'[w].left \subseteq session[w].left
           /\ pc[w] = "call" => Route(w) \notin session'[w].left
  PROVE  CountInv'
<1>1. Busy(w) /\ Busy(w)' /\ pc[w] # "mark" /\ TypeInv
  BY DEF Busy, Inside, CountInv
<1>2. PICK e \in Events : session[w].event = e
  BY <1>1, AtWork
<1>3. session'[w].event = e
  BY <1>2 DEF SameEvent
<1>4. ASSUME NEW d \in Deployments, Called(w, e, d) PROVE Called(w, e, d)'
  <2>1. pc[w] \in {"plugin", "insert", "judge", "call"}
    BY <1>1, <1>4 DEF Called
  <2>2. d \notin session'[w].left
    BY <1>1, <1>4, <2>1 DEF Called
  <2> QED BY <1>1, <1>3, <2>1, <2>2 DEF Called, On
<1> QED BY <1>1, <1>2, <1>3, <1>4, CountGoes DEF tableVars, SameEvent

LEMMA CountContext ==
  ASSUME CountInv, TypeInv', NEW w \in Workers, Enter(w) \/ Discover(w)
  PROVE  CountInv'
<1>0. TypeInv /\ TypeOK
  BY DEF CountInv, TypeInv
<1>1. CASE Enter(w)
  <2>1. PICK p \in {"route", "discover"} : pc' = [pc EXCEPT ![w] = p]
    BY <1>1 DEF Enter, Goto
  <2>2. /\ pc[w] = "enter"
        /\ UNCHANGED <<tableVars, running, locked, calls, queue, session, faults, overruns>>
    BY <1>1 DEF Enter
  <2>3. pc'[w] = p /\ SameEvent(w) /\ Others(w)
    BY <1>0, <2>1, <2>2, Went DEF Others, SameEvent, Steps, Inside
  <2>4. p \in Inside
    BY DEF Inside
  <2> QED BY <2>2, <2>3, <2>4, CountMoves
<1>2. CASE Discover(w)
  <2>1. /\ pc[w] = "discover" /\ Busy(w)
        /\ UNCHANGED <<tableVars, running, locked, calls, queue, faults, overruns>>
    BY <1>2 DEF Discover, Busy, Inside
  <2>2. CASE Raise(w)
    BY <2>1, <2>2, CountRaise
  <2>3. CASE session' = [session EXCEPT ![w].novel = TRUE] /\ Goto(w, "route")
    <3>1. SameEvent(w) /\ \A v \in Workers : v # w => session'[v] = session[v]
      BY <1>0, <2>3 DEF TypeOK, Sessions, SameEvent
    <3>2. "route" \in Steps /\ pc' = [pc EXCEPT ![w] = "route"]
      BY <2>3 DEF Steps, Inside, Goto
    <3>3. pc'[w] = "route" /\ Others(w) /\ {"route", "discover"} \subseteq Inside
      BY <1>0, <3>1, <3>2, Went DEF Others, Inside
    <3> QED BY <2>1, <3>1, <3>3, CountMoves
  <2> QED BY <1>2, <2>2, <2>3 DEF Discover
<1> QED BY <1>1, <1>2

LEMMA CountRecords ==
  ASSUME CountInv, TypeInv', NEW w \in Workers, LoadRecord(w) \/ InsertRecord(w)
  PROVE  CountInv'
<1>0. TypeInv /\ TypeOK
  BY DEF CountInv, TypeInv
<1>1. CASE LoadRecord(w)
  <2>1. /\ SameEvent(w) /\ Others(w) /\ pc[w] = "plugin"
        /\ UNCHANGED <<tableVars, running, locked, calls, queue, faults, overruns>>
        /\ pc'[w] \in {"plugin", "insert", "judge"}
        /\ session'[w].left \subseteq session[w].left
    BY <1>0, <1>1, LoadRecordIs
  <2> QED BY <2>1, CountMoves DEF Inside
<1>2. CASE InsertRecord(w)
  <2>1. /\ UNCHANGED <<tableVars, running, locked, calls, queue, faults, overruns>>
        /\ pc[w] = "insert" /\ Busy(w)
    BY <1>0, <1>2, InsertRecordIs
  <2>2. CASE Raise(w)
    BY <2>1, <2>2, CountRaise
  <2>3. ASSUME NEW d \in session[w].left,
               session' = [session EXCEPT ![w].draft[d] = "PENDING"], Goto(w, "judge")
        PROVE  CountInv'
    <3>1. /\ SameEvent(w) /\ Others(w) /\ pc'[w] = "judge"
          /\ session'[w].left = session[w].left
      BY <1>0, <2>1, <2>3, InsertIs
    <3> QED BY <2>1, <3>1, CountMoves DEF Inside
  <2> QED BY <1>0, <1>2, <2>2, <2>3, InsertRecordIs
<1> QED BY <1>1, <1>2

LEMMA CountEndRoute ==
  ASSUME CountInv, TypeInv', NEW w \in Workers, pc[w] \in {"judge", "call"},
         NEW status \in RecordStatuses, NEW replies \in SUBSET Replies,
         EndRoute(w, status, replies),
         UNCHANGED <<tableVars, running, locked, calls, queue, faults, overruns>>
  PROVE  CountInv'
<1>1. /\ SameEvent(w) /\ Others(w) /\ pc'[w] = "plugin"
      /\ session'[w].left = session[w].left \ {Route(w)}
  BY EndRouteIs DEF CountInv
<1> QED BY <1>1, CountMoves DEF Inside

\* A plugin is called at most once in an attempt.
LEMMA CountCall ==
  ASSUME CountInv, TypeInv', NEW w \in Workers, Judge(w) \/ Answer(w)
  PROVE  CountInv'
<1>0. TypeInv /\ TypeOK
  BY DEF CountInv, TypeInv
<1>1. CASE EndRoute(w, "DENIED", {}) /\ UNCHANGED calls /\ Judge(w)
  <2>1. "DENIED" \in RecordStatuses /\ {} \in SUBSET Replies
    BY DEF RecordStatuses
  <2>2. pc[w] = "judge" /\ UNCHANGED <<tableVars, running, locked, calls, queue, faults, overruns>>
    BY <1>1 DEF Judge
  <2> QED BY <1>1, <2>1, <2>2, CountEndRoute
<1>2. CASE /\ calls' = [calls EXCEPT ![session[w].event][Route(w)] = @ + 1]
           /\ session' = [session EXCEPT ![w].call = calls[session[w].event][Route(w)] + 1]
           /\ Goto(w, "call") /\ Judge(w)
  <2>1. /\ pc[w] = "judge" /\ Busy(w) /\ session[w].left # {}
        /\ UNCHANGED <<tableVars, running, locked, queue, faults, overruns>>
    BY <1>0, <1>2 DEF Judge, Busy, Inside, TypeInv, PlaceOK
  <2>2. /\ SameEvent(w) /\ Others(w) /\ pc'[w] = "call"
        /\ session'[w].left = session[w].left
    BY <1>0, <1>2, <2>1, CallIs
  <2>3. PICK e \in Events : session[w].event = e
    BY <1>0, <2>1, AtWork
  <2>4. PICK x \in Deployments : Route(w) = x /\ x \in session[w].left
    BY <1>0, <2>1, RouteIsLeft
  <2>5. Route(w)' = x /\ session'[w].event = e /\ Busy(w)'
    BY <2>2, <2>3, <2>4 DEF Route, SameEvent, Busy, Inside
  <2>6. \A d \in Deployments : Called(w, e, d) => Called(w, e, d)'
    BY <2>1, <2>2, <2>5 DEF Called, On
  <2>7. ~Called(w, e, x) /\ Called(w, e, x)'
    BY <2>1, <2>2, <2>4, <2>5 DEF Called, On
  <2>8. calls' = [calls EXCEPT ![e][x] = @ + 1]
    BY <1>2, <2>3, <2>4
  <2> QED BY <2>1, <2>2, <2>3, <2>5, <2>6, <2>7, <2>8, CountGoes DEF tableVars, SameEvent
<1>3. CASE Answer(w)
  <2>1. pc[w] = "call" /\ UNCHANGED <<tableVars, running, locked, calls, queue, faults, overruns>>
    BY <1>3 DEF Answer
  <2>2. PICK status \in RecordStatuses, replies \in SUBSET Replies : EndRoute(w, status, replies)
    BY <1>0, <1>3, AnswerIs
  <2> QED BY <2>1, <2>2, CountEndRoute
<1> QED BY <1>1, <1>2, <1>3 DEF Judge

LEMMA EndsIs ==
  ASSUME TypeInv, NEW w \in Workers, NEW e \in Events, e \in queue[w], Close(w, e), NEW status,
         inbox' = [inbox EXCEPT ![e] = status], \A f \in Events : f # e => due'[f] = due[f],
         UNCHANGED <<callback, overruns>>
  PROVE  Ends(w, e) /\ inbox'[e] = status
BY DEF Ends, TypeInv, TypeOK

\* The attempt count is loaded with the event.
LEMMA CountBegin ==
  ASSUME CountInv, TypeInv', NEW w \in Workers, Begin(w)
  PROVE  CountInv'
<1>0. TypeInv /\ TypeOK
  BY DEF CountInv, TypeInv
<1>1. PICK e \in Events : e = Min(queue[w]) /\ e \in queue[w] /\ inbox[e] # "ABSENT"
  BY <1>0, NextEvent DEF Begin, TypeInv, Received
<1>2. /\ pc[w] = "next" /\ ~Busy(w)
      /\ UNCHANGED <<callback, due, tries, record, rows, known, running, locked, calls, faults, overruns>>
  BY DEF Begin, Busy, Inside
<1>3. ASSUME NEW status \in Settled, inbox' = [inbox EXCEPT ![e] = status], Close(w, e)
      PROVE  CountInv'
  <2>1. Ends(w, e) /\ inbox'[e] = status
    BY <1>0, <1>1, <1>2, <1>3, EndsIs
  <2>2. ~Free(e)' /\ inbox'[e] # "ABSENT"
    BY <2>1 DEF Free, Settled
  <2> QED BY <1>2, <2>1, <2>2, CountEnds
<1>4. ASSUME session' = [session EXCEPT ![w] = Opened(e)], Goto(w, "enter"),
             UNCHANGED <<inbox, queue>>
      PROVE  CountInv'
  <2>1. /\ Opened(e) \in Sessions /\ Opened(e).event = e /\ Opened(e).count = tries[e]
        /\ Opened(e).seen = inbox[e]
    BY <1>0, <1>1, OpenedTyped DEF Opened, Idle
  <2>2. "enter" \in Steps /\ pc' = [pc EXCEPT ![w] = "enter"]
    BY <1>4 DEF Goto, Steps
  <2>3. session'[w] = Opened(e) /\ pc'[w] = "enter" /\ Others(w)
    BY <1>0, <1>4, <2>1, <2>2, Moves
  <2> SUFFICES ASSUME NEW f \in Events PROVE CountOK(f)'
    BY DEF CountInv
  <2>4. ~On(w, f) /\ (On(w, f)' <=> f = e)
    BY <1>2, <2>1, <2>3 DEF On, Busy
  <2>5. /\ Chance(w, f)' => Chance(w, f)
        /\ \A d \in Deployments : ~Called(w, f, d)
    BY <1>2, <1>4, <2>1, <2>3, <2>4 DEF Chance, Called
  <2>6. /\ Holders(f)' \subseteq Holders(f) /\ Chances(f)' \subseteq Chances(f)
        /\ \A d \in Deployments : Uncalled(f, d)' \subseteq Uncalled(f, d)
    BY <1>2, <1>4, <2>3, <2>5, OneMoves
  <2>7. Free(f)' => Free(f)
    <3>1. CASE inbox[f] = "NORMALIZED"
      BY <3>1 DEF Free
    <3>2. CASE inbox[f] # "NORMALIZED"
      <4>1. ~Stale(w, f)'
        BY <2>1, <2>3, <2>4, <3>2 DEF Stale
      <4> QED BY <1>2, <1>4, <2>3, <4>1, NotFreed
    <3> QED BY <3>1, <3>2
  <2>8. Limit <= Limit'
    BY <1>0, <1>2, LimitIs DEF Limit
  <2> QED BY <1>2, <1>4, <2>6, <2>7, <2>8, CountKept
<1>5. inbox[e] \in {"DISPATCHED", "IGNORED_SELF"} => inbox[e] \in Settled
  BY DEF Settled
<1>6. "DISPATCHED" \in Settled /\ "FAILED" \in Settled
  BY DEF Settled
<1>7. \/ /\ inbox[e] \in {"DISPATCHED", "IGNORED_SELF"} /\ Close(w, e)
         /\ inbox' = [inbox EXCEPT ![e] = inbox[e]]
      \/ inbox' = [inbox EXCEPT ![e] = "DISPATCHED"] /\ Close(w, e)
      \/ inbox' = [inbox EXCEPT ![e] = "FAILED"] /\ Close(w, e)
      \/ /\ session' = [session EXCEPT ![w] = Opened(e)] /\ Goto(w, "enter")
         /\ UNCHANGED <<inbox, queue>>
  BY <1>1 DEF Begin
<1> QED BY <1>3, <1>4, <1>5, <1>6, <1>7

\* A dispatch that ends without a retry frees nothing; a retry is a chance used.
LEMMA CountCommit ==
  ASSUME CountInv, TypeInv', NEW w \in Workers, SelectRoutes(w) \/ Settle(w) \/ MarkFailed(w)
  PROVE  CountInv'
<1>0. TypeInv /\ TypeOK
  BY DEF CountInv, TypeInv
<1>1. Busy(w)
  BY DEF SelectRoutes, Settle, MarkFailed, Busy, Inside
<1>2. PICK e \in Events : e = session[w].event /\ e \in queue[w] /\ inbox[e] # "ABSENT"
  BY <1>0, <1>1, AtWork
<1>3. ASSUME Close(w, e), inbox' = [inbox EXCEPT ![e] = "FAILED"],
             UNCHANGED <<callback, due, tries, calls, faults, overruns>>
      PROVE  CountInv'
  <2>1. Ends(w, e) /\ inbox'[e] = "FAILED"
    BY <1>0, <1>2, <1>3, EndsIs
  <2>2. ~Free(e)'
    BY <2>1 DEF Free
  <2> QED BY <1>2, <1>3, <2>1, <2>2, CountEnds
<1>4. CASE MarkFailed(w)
  BY <1>2, <1>3, <1>4 DEF MarkFailed
<1>5. CASE SelectRoutes(w)
  <2> DEFINE routes == RoutesOf[e] \cap running
  <2>1. /\ pc[w] = "route"
        /\ UNCHANGED <<callback, due, tries, running, locked, calls, faults, overruns>>
    BY <1>5 DEF SelectRoutes
  <2>2. CASE /\ session' = [session EXCEPT ![w].left = routes] /\ Goto(w, "plugin")
             /\ UNCHANGED <<inbox, record, rows, known, queue>>
    <3>1. routes \in SUBSET Deployments
      BY <1>0 DEF TypeOK
    <3>2. UNCHANGED <<tableVars, running, locked, calls, queue, faults, overruns>>
      BY <2>1, <2>2 DEF tableVars
    <3> HIDE DEF routes
    <3>3. SameEvent(w) /\ Others(w) /\ pc'[w] = "plugin"
      BY <1>0, <1>1, <2>2, <3>1, <3>2, ChooseIs
    <3> QED BY <2>1, <3>2, <3>3, CountMoves DEF Inside
  <2> QED BY <1>2, <1>3, <1>5, <2>1, <2>2 DEF SelectRoutes
<1>6. CASE Settle(w)
  <2>1. /\ pc[w] = "plugin" /\ Close(w, e)
        /\ UNCHANGED <<callback, tries, running, locked, calls, faults, overruns>>
    BY <1>0, <1>2, <1>6, SettleIs
  <2>2. PICK status \in InboxStatuses :
          /\ inbox' = [inbox EXCEPT ![e] = status]
          /\ status \in {"DISPATCHED", "FAILED"} \/ ~Exhausted(w)
    BY <1>2, <1>6, <1>0 DEF Settle, TypeOK, InboxStatuses
  <2>3. PICK soon : due' = [due EXCEPT ![e] = soon]
    BY <1>2, <1>6 DEF Settle
  <2>4. \A f \in Events : f # e => due'[f] = due[f]
    BY <1>0, <2>3 DEF TypeOK
  <2>5. Ends(w, e) /\ inbox'[e] = status
    <3>1. inbox' = [inbox EXCEPT ![e] = status] /\ UNCHANGED <<callback, overruns>>
      BY <2>1, <2>2
    <3>2. inbox'[e] = status /\ \A f \in Events : f # e => inbox'[f] = inbox[f]
      BY <1>0, <3>1 DEF TypeOK
    <3> QED BY <1>2, <2>1, <2>4, <3>1, <3>2 DEF Ends
  <2>6. inbox'[e] # "ABSENT"
    BY <2>5 DEF InboxStatuses
  <2>7. Free(e)' => Chance(w, e)
    <3>1. Free(e)' => ~Exhausted(w)
      BY <2>2, <2>5 DEF Free
    <3>2. session[w].count \in Nat /\ MaxAttempts \in Nat
      BY <1>0, DispatchAssumption DEF TypeOK, Sessions
    <3>3. ~Exhausted(w) => session[w].count < MaxAttempts
      BY <3>2 DEF Exhausted
    <3> QED BY <1>1, <1>2, <2>1, <3>1, <3>3 DEF Chance, On
  <2> QED BY <1>2, <2>1, <2>5, <2>6, <2>7, CountEnds
<1> QED BY <1>4, <1>5, <1>6

\* A claim takes the chance of the row, and a try.
LEMMA CountClaim ==
  ASSUME CountInv, TypeInv', NEW w \in Workers, ClaimDueEvents(w)
  PROVE  CountInv'
<1> DEFINE batch == FirstOf(Claimable, BatchSize)
<1>0. TypeInv /\ TypeOK
  BY DEF CountInv, TypeInv
<1>1. /\ inbox' = [e \in Events |-> IF e \in batch THEN "DISPATCHING" ELSE inbox[e]]
      /\ due' = [e \in Events |-> due[e] /\ e \notin batch]
      /\ tries' = [e \in Events |-> IF e \in batch THEN tries[e] + 1 ELSE tries[e]]
      /\ queue' = [queue EXCEPT ![w] = batch] /\ pc[w] = "claim"
      /\ UNCHANGED <<calls, session, faults, overruns>>
  BY DEF ClaimDueEvents
<1>2. batch \subseteq Events /\ \A e \in batch : inbox[e] = "NORMALIZED"
  BY DEF FirstOf, Claimable
<1>3. PICK p \in {"recover", "next"} : pc' = [pc EXCEPT ![w] = p]
  BY DEF ClaimDueEvents, Goto
<1> HIDE DEF batch
<1>4. /\ queue[w] = {} /\ queue'[w] = batch /\ pc'[w] = p /\ Others(w)
      /\ \A v \in Workers : v # w => queue'[v] = queue[v]
  BY <1>0, <1>1, <1>2, <1>3, Went DEF TypeInv, TypeOK, PlaceOK, Others, Steps
<1>5. \A e : ~On(w, e) /\ ~On(w, e)'
  BY <1>1, <1>4 DEF On, Busy, Inside
<1>6. Limit \in Nat /\ Limit' = Limit
  BY <1>0, <1>1, LimitIs DEF Limit
<1> SUFFICES ASSUME NEW e \in Events PROVE CountOK(e)'
  BY DEF CountInv
<1>7. CASE e \notin batch
  <2>1. /\ tries'[e] = tries[e] /\ inbox'[e] = inbox[e] /\ due'[e] = due[e]
        /\ e \notin queue[w] /\ e \notin queue'[w]
    BY <1>0, <1>1, <1>4, <1>7 DEF TypeOK
  <2>2. ~Chance(w, e)'
    BY <2>1 DEF Chance
  <2>3. /\ Holders(e)' \subseteq Holders(e) /\ Chances(e)' \subseteq Chances(e)
        /\ \A d \in Deployments : Uncalled(e, d)' \subseteq Uncalled(e, d)
    BY <1>4, <2>1, <2>2, OneMoves
  <2>4. Free(e)' => Free(e)
    BY <1>4, <2>1, NotFreed
  <2> QED BY <1>1, <1>6, <2>1, <2>3, <2>4, CountKept
<1>8. CASE e \in batch
  <2>1. /\ tries'[e] = tries[e] + 1 /\ inbox[e] = "NORMALIZED" /\ inbox'[e] = "DISPATCHING"
        /\ ~due'[e] /\ e \notin queue[w] /\ e \in queue'[w]
    BY <1>1, <1>2, <1>4, <1>8
  <2>2. /\ tries[e] \in Nat /\ MaxAttempts \in Nat /\ IsFiniteSet(Holders(e))
        /\ IsFiniteSet(Chances(e)) /\ Cardinality(Chances(e)) \in Nat
        /\ Spent(tries[e]) + Cardinality(Chances(e)) + Spare(e) <= Limit
        /\ \A d \in Deployments :
             /\ IsFiniteSet(Uncalled(e, d)) /\ Cardinality(Uncalled(e, d)) \in Nat
             /\ calls[e][d] \in Nat /\ calls[e][d] + Cardinality(Uncalled(e, d)) <= tries[e]
    BY CountTypes DEF CountInv, CountOK
  <2>3. ASSUME NEW v \in Workers, v # w
        PROVE  /\ queue'[v] = queue[v] /\ (Chance(v, e)' => Chance(v, e))
               /\ \A d \in Deployments : Called(v, e, d)' = Called(v, e, d)
    <3>1. session'[v] = session[v] /\ pc'[v] = pc[v] /\ queue'[v] = queue[v]
      BY <1>4, <2>3 DEF Others
    <3>2. On(v, e)' = On(v, e)
      BY <3>1 DEF On, Busy
    <3> QED BY <2>1, <2>2, <3>1, <3>2, Unmoved DEF Chance
  <2>4. IsFiniteSet(Holders(e)')
    <3>1. Holders(e)' \subseteq Holders(e) \cup {w}
      BY <2>3 DEF Holders
    <3>2. IsFiniteSet(Holders(e) \cup {w})
      BY <2>2, FS_AddElement
    <3> QED BY <3>1, <3>2, Fewer
  <2>5. ASSUME NEW d \in Deployments
        PROVE  (calls[e][d] + Cardinality(Uncalled(e, d)) <= tries[e])'
    <3> DEFINE new == Uncalled(e, d)'
    <3>1. new \subseteq Uncalled(e, d) \cup {w}
      BY <2>3 DEF Uncalled
    <3> HIDE DEF new
    <3>2. /\ IsFiniteSet(Uncalled(e, d) \cup {w})
          /\ Cardinality(Uncalled(e, d) \cup {w}) \in
               {Cardinality(Uncalled(e, d)), Cardinality(Uncalled(e, d)) + 1}
      BY <2>2, FS_AddElement
    <3>3. Cardinality(new) \in Nat /\ Cardinality(new) <= Cardinality(Uncalled(e, d)) + 1
      BY <2>2, <3>1, <3>2, Fewer
    <3>4. calls'[e][d] = calls[e][d]
      BY <1>1
    <3>5. calls'[e][d] + Cardinality(new) <= tries'[e]
      BY <2>1, <2>2, <3>3, <3>4
    <3> QED BY <3>5 DEF new
  <2>6. Spare(e) = 1 /\ Spare(e)' = 0
    <3>1. Free(e)
      BY <2>1 DEF Free
    <3>2. ~Stale(w, e)'
      BY <1>5 DEF Stale
    <3>3. ~Free(e)'
      BY <2>1, <3>2 DEF Free
    <3> QED BY <3>1, <3>3 DEF Spare
  <2> DEFINE old == Cardinality(Chances(e))
             new == Cardinality(Chances(e)')
  <2>7. CASE tries[e] + 1 < MaxAttempts
    <3>1. Chances(e)' \subseteq Chances(e) \cup {w}
      BY <2>3 DEF Chances
    <3>2. /\ IsFiniteSet(Chances(e) \cup {w})
          /\ Cardinality(Chances(e) \cup {w}) \in {old, old + 1}
      BY <2>2, FS_AddElement
    <3>3. new \in Nat /\ new <= Cardinality(Chances(e) \cup {w})
      BY <3>1, <3>2, Fewer
    <3>4. Spent(tries[e]) = 0 /\ Spent(tries'[e]) = 0
      BY <2>1, <2>2, <2>7 DEF Spent
    <3>5. old \in Nat /\ Spent(tries[e]) + old + Spare(e) <= Limit
      BY <2>2
    <3> HIDE DEF old, new
    <3>6. Spent(tries'[e]) + new + Spare(e)' <= Limit'
      BY <1>6, <2>6, <3>2, <3>3, <3>4, <3>5
    <3> QED BY <2>1, <2>4, <2>5, <3>6 DEF new, CountOK, Spent
  <2>8. CASE ~(tries[e] + 1 < MaxAttempts)
    <3>1. ~Chance(w, e)'
      BY <1>5, <2>1, <2>2, <2>8 DEF Chance
    <3>2. Chances(e)' \subseteq Chances(e)
      BY <2>3, <3>1 DEF Chances
    <3>3. new \in Nat /\ new <= old
      BY <2>2, <3>2, Fewer
    <3>4. /\ Spent(tries[e]) \in Nat /\ Spent(tries'[e]) \in Nat
          /\ Spent(tries'[e]) <= Spent(tries[e]) + 1
      BY <2>1, <2>2, <2>8 DEF Spent
    <3>5. old \in Nat /\ Spent(tries[e]) + old + Spare(e) <= Limit
      BY <2>2
    <3> HIDE DEF old, new
    <3>6. Spent(tries'[e]) + new + Spare(e)' <= Limit'
      BY <1>6, <2>6, <3>3, <3>4, <3>5
    <3> QED BY <2>1, <2>4, <2>5, <3>6 DEF new, CountOK, Spent
  <2> QED BY <2>7, <2>8
<1> QED BY <1>7, <1>8

LEMMA CountRecover ==
  ASSUME CountInv, TypeInv', NEW w \in Workers, RecoverExpiredLeases(w)
  PROVE  CountInv'
<1>0. TypeInv /\ TypeOK
  BY DEF CountInv, TypeInv
<1>1. /\ pc[w] = "recover" /\ pc' = [pc EXCEPT ![w] = "claim"]
      /\ UNCHANGED <<due, tries, calls, queue, session, faults, overruns>>
      /\ \A e \in Events : inbox'[e] = inbox[e] \/ (inbox[e] = "DISPATCHING" /\ due[e])
      /\ \A e \in Events : inbox'[e] = "ABSENT" => inbox[e] = "ABSENT"
  BY DEF RecoverExpiredLeases, Goto, Expired
<1>2. queue[w] = {} /\ Others(w)
  BY <1>0, <1>1, Went DEF TypeInv, PlaceOK, Others, Steps
<1> SUFFICES ASSUME NEW e \in Events PROVE CountOK(e)'
  BY DEF CountInv
<1>3. ~Chance(w, e)'
  BY <1>1, <1>2 DEF Chance
<1>4. /\ Holders(e)' \subseteq Holders(e) /\ Chances(e)' \subseteq Chances(e)
      /\ \A d \in Deployments : Uncalled(e, d)' \subseteq Uncalled(e, d)
  BY <1>1, <1>2, <1>3, OneMoves
<1>5. Free(e)' => Free(e)
  <2>1. CASE inbox'[e] = inbox[e]
    BY <1>1, <1>2, <2>1, NotFreed
  <2>2. CASE inbox[e] = "DISPATCHING" /\ due[e]
    BY <2>2 DEF Free
  <2> QED BY <1>1, <2>1, <2>2
<1>6. Limit <= Limit'
  BY <1>0, <1>1, LimitIs DEF Limit
<1> QED BY <1>1, <1>4, <1>5, <1>6, CountKept

LEMMA CountAbort ==
  ASSUME CountInv, TypeInv', NEW w \in Workers, Abort(w)
  PROVE  CountInv'
<1>0. TypeInv /\ TypeOK
  BY DEF CountInv, TypeInv
<1>1. /\ faults' = faults + 1 /\ UNCHANGED <<tableVars, running, locked, calls, overruns>>
      /\ queue'[w] = {} /\ Others(w) /\ \A v \in Workers : v # w => queue'[v] = queue[v]
  BY <1>0, AbortIs
<1> SUFFICES ASSUME NEW e \in Events PROVE CountOK(e)'
  BY DEF CountInv
<1>2. ~Chance(w, e)' /\ tries'[e] = tries[e] /\ calls' = calls /\ inbox' = inbox
  BY <1>1 DEF Chance, tableVars
<1>3. /\ Holders(e)' \subseteq Holders(e) /\ Chances(e)' \subseteq Chances(e)
      /\ \A d \in Deployments : Uncalled(e, d)' \subseteq Uncalled(e, d)
  BY <1>1, <1>2, OneMoves
<1>4. Limit < Limit' /\ Limit <= Limit'
  <2>1. faults \in Nat /\ overruns \in Nat
    BY <1>0, DispatchAssumption DEF TypeOK
  <2>2. Limit \in Nat /\ Limit' = Limit + 1
    BY <1>1, <2>1 DEF Limit
  <2> QED BY <2>2
<1> QED BY <1>2, <1>3, <1>4, CountKept

\* Nobody moves: an event arrives, time passes, a deployment starts or stops.
LEMMA CountStill ==
  ASSUME NEW e \in Events, UNCHANGED <<session, pc, queue>>, tries'[e] = tries[e]
  PROVE  /\ Holders(e)' = Holders(e) /\ Chances(e)' = Chances(e)
         /\ \A d \in Deployments : Uncalled(e, d)' = Uncalled(e, d)
         /\ \A v \in Workers : Stale(v, e)' = Stale(v, e)
<1>1. \A v \in Workers :
        /\ Chance(v, e)' = Chance(v, e) /\ Stale(v, e)' = Stale(v, e)
        /\ \A d \in Deployments : Called(v, e, d)' = Called(v, e, d)
  BY Unmoved
<1> QED BY <1>1 DEF Holders, Chances, Uncalled

LEMMA CountIngest ==
  ASSUME CountInv, TypeInv', NEW e \in Events, Ingest(e)
  PROVE  CountInv'
<1>0. TypeInv /\ TypeOK
  BY DEF CountInv, TypeInv
<1>1. /\ inbox[e] = "ABSENT" /\ UNCHANGED <<tries, calls, pc, queue, session, faults, overruns>>
      /\ \A f \in Events : f # e => inbox'[f] = inbox[f] /\ due'[f] = due[f]
      /\ inbox'[e] # "ABSENT"
  BY <1>0 DEF Ingest, TypeOK
<1>2. Limit' = Limit /\ Limit \in Nat /\ Limit >= 1
  BY <1>0, <1>1, LimitIs, DispatchAssumption DEF Limit, TypeOK
<1> SUFFICES ASSUME NEW f \in Events PROVE CountOK(f)'
  BY DEF CountInv
<1>3. /\ Holders(f)' = Holders(f) /\ Chances(f)' = Chances(f)
      /\ \A d \in Deployments : Uncalled(f, d)' = Uncalled(f, d)
      /\ \A v \in Workers : Stale(v, f)' = Stale(v, f)
  BY <1>1, CountStill
<1>4. CASE f # e
  <2>1. Free(f)' => Free(f)
    BY <1>1, <1>3, <1>4 DEF Free
  <2> QED BY <1>1, <1>2, <1>3, <1>4, <2>1, CountKept
<1>5. CASE f = e
  <2>1. tries[e] = 0 /\ Chances(e) = {}
    BY <1>0, <1>1 DEF CountInv, CountOK, TypeInv, Received, Chances, Chance
  <2>2. Spent(tries'[e]) = 0 /\ Cardinality(Chances(e)') = 0 /\ Spare(e)' \in {0, 1}
    <3>1. Chances(e)' = {} /\ tries'[e] = 0
      BY <1>1, <1>3, <1>5, <2>1
    <3>2. Spent(0) = 0 /\ Spare(e)' \in {0, 1}
      BY DispatchAssumption DEF Spent, Spare
    <3> QED BY <3>1, <3>2, FS_EmptySet
  <2>3. Spent(tries'[e]) + Cardinality(Chances(e)') + Spare(e)' <= Limit'
    BY <1>2, <2>2
  <2>4. IsFiniteSet(Holders(e)') /\ \A d \in Deployments :
          calls'[e][d] + Cardinality(Uncalled(e, d)') <= tries'[e]
    BY <1>1, <1>3, <1>5 DEF CountInv, CountOK
  <2> QED BY <1>1, <1>5, <2>3, <2>4 DEF CountOK, Spent
<1> QED BY <1>4, <1>5

\* An overrun gives the row back beside the worker that has it.
LEMMA CountTime ==
  ASSUME CountInv, TypeInv', NEW e \in Events, TimePasses(e)
  PROVE  CountInv'
<1> DEFINE overrun == inbox[e] = "DISPATCHING" /\ \E w \in Workers : e \in queue[w]
<1>0. TypeInv /\ TypeOK /\ Limit \in Nat
  BY LimitIs DEF CountInv, TypeInv
<1>1. /\ UNCHANGED <<inbox, tries, calls, pc, queue, session, faults>>
      /\ \A f \in Events : f # e => due'[f] = due[f]
      /\ inbox[e] \in {"NORMALIZED", "DISPATCHING"}
      /\ overruns' = IF overrun THEN overruns + 1 ELSE overruns
  BY <1>0 DEF TimePasses, TypeOK
<1> HIDE DEF overrun
<1>2. Limit' = IF overrun THEN Limit + 1 ELSE Limit
  <2>1. faults \in Nat /\ overruns \in Nat
    BY <1>0, DispatchAssumption DEF TypeOK
  <2> QED BY <1>1, <2>1 DEF Limit
<1> SUFFICES ASSUME NEW f \in Events PROVE CountOK(f)'
  BY DEF CountInv
<1>3. /\ Holders(f)' = Holders(f) /\ Chances(f)' = Chances(f)
      /\ \A d \in Deployments : Uncalled(f, d)' = Uncalled(f, d)
      /\ \A v \in Workers : Stale(v, f)' = Stale(v, f)
  BY <1>1, CountStill
<1>4. \/ Free(f)' => Free(f)
      \/ Limit < Limit'
  <2>1. CASE overrun
    BY <1>0, <1>2, <2>1
  <2>2. CASE f # e
    BY <1>1, <1>3, <2>2 DEF Free
  <2>3. CASE f = e /\ ~overrun
    BY <1>1, <2>3 DEF Free, overrun
  <2> QED BY <2>1, <2>2, <2>3
<1>5. Limit <= Limit'
  BY <1>0, <1>2
<1> QED BY <1>1, <1>3, <1>4, <1>5, CountKept

LEMMA CountSame ==
  ASSUME CountInv, TypeInv', UNCHANGED <<inbox, due, tries, calls, pc, queue, session, faults, overruns>>
  PROVE  CountInv'
<1>1. Limit' = Limit /\ Limit \in Nat
  BY LimitIs DEF Limit, CountInv
<1> SUFFICES ASSUME NEW f \in Events PROVE CountOK(f)'
  BY DEF CountInv
<1>3. /\ Holders(f)' = Holders(f) /\ Chances(f)' = Chances(f)
      /\ \A d \in Deployments : Uncalled(f, d)' = Uncalled(f, d)
      /\ \A v \in Workers : Stale(v, f)' = Stale(v, f)
  BY CountStill
<1>4. Free(f)' => Free(f)
  BY <1>3 DEF Free
<1> QED BY <1>1, <1>3, <1>4, CountKept

LEMMA CountStep == CountInv /\ [Next]_vars => CountInv'
<1> SUFFICES ASSUME CountInv, [Next]_vars PROVE CountInv'
  OBVIOUS
<1>0. TypeInv /\ TypeInv'
  BY TypeStep DEF CountInv
<1>1. CASE UNCHANGED vars
  BY <1>0, <1>1, CountSame DEF vars
<1>2. ASSUME NEW w \in Workers, RunOnce(w) PROVE CountInv'
  BY <1>0, <1>2, CountRecover, CountClaim, CountBegin, CountContext, CountRecords, CountCall,
     CountCommit DEF RunOnce
<1>3. ASSUME NEW w \in Workers, StatementFails(w) PROVE CountInv'
  <2>1. /\ Busy(w) /\ Raise(w) /\ UNCHANGED <<tableVars, running, locked, calls, queue, overruns>>
        /\ faults' = faults + 1
    BY <1>0, <1>3, StatementFailsIs
  <2>2. pc[w] # "mark"
    BY <1>3 DEF StatementFails, Inside
  <2> QED BY <1>0, <2>1, <2>2, CountRaise
<1>4. ASSUME NEW d \in Deployments, LockDeployment(d) \/ Toggle(d) PROVE CountInv'
  BY <1>0, <1>4, CountSame DEF LockDeployment, Toggle, tableVars
<1> QED BY <1>0, <1>1, <1>2, <1>3, <1>4, CountIngest, CountTime, CountAbort DEF Next

LEMMA CountInit == Init => CountInv
<1> SUFFICES ASSUME Init, NEW e \in Events PROVE CountOK(e)
  BY TypeInit DEF CountInv
<1>1. Holders(e) = {} /\ Chances(e) = {} /\ \A d \in Deployments : Uncalled(e, d) = {}
  BY DEF Init, Holders, Chances, Chance, Uncalled
<1>2. tries[e] = 0 /\ inbox[e] = "ABSENT" /\ Limit = 1 /\ \A d \in Deployments : calls[e][d] = 0
  BY DEF Init, Limit
<1>3. Spent(tries[e]) = 0 /\ Spare(e) = 0
  BY <1>2, DispatchAssumption DEF Spent, Spare, Free
<1> QED BY <1>1, <1>2, <1>3, FS_EmptySet DEF CountOK

\* No plugin is called for an event more often than max_attempts, but for one more call for
\* each crash and each overrun of a lease.
THEOREM AttemptsAreLimited == Spec => []AttemptLimit
<1>1. CountInv => AttemptLimit
  <2> SUFFICES ASSUME CountInv, NEW e \in Events, NEW d \in Deployments
               PROVE  calls[e][d] <= MaxAttempts + faults + overruns
    BY DEF AttemptLimit
  <2>1. /\ tries[e] \in Nat /\ MaxAttempts \in Nat /\ Spare(e) \in {0, 1}
        /\ Cardinality(Chances(e)) \in Nat /\ Cardinality(Uncalled(e, d)) \in Nat
        /\ calls[e][d] \in Nat
        /\ Spent(tries[e]) + Cardinality(Chances(e)) + Spare(e) <= Limit
        /\ calls[e][d] + Cardinality(Uncalled(e, d)) <= tries[e]
    BY CountTypes DEF CountInv, CountOK
  <2>2. faults \in Nat /\ overruns \in Nat
    BY DispatchAssumption DEF CountInv, TypeInv, TypeOK
  <2>3. calls[e][d] <= tries[e]
    BY <2>1
  <2>4. tries[e] <= MaxAttempts + faults + overruns
    <3>1. CASE tries[e] < MaxAttempts
      BY <2>1, <2>2, <3>1
    <3>2. CASE ~(tries[e] < MaxAttempts)
      <4>1. Spent(tries[e]) = tries[e] - MaxAttempts + 1 /\ Spent(tries[e]) \in Nat
        BY <2>1, <3>2 DEF Spent
      <4>2. Spent(tries[e]) <= 1 + faults + overruns
        BY <2>1, <2>2, <4>1 DEF Limit
      <4> QED BY <2>1, <2>2, <4>1, <4>2
    <3> QED BY <3>1, <3>2
  <2> QED BY <2>1, <2>2, <2>3, <2>4
<1> QED BY <1>1, CountInit, CountStep, PTL DEF Spec

-----------------------------------------------------------------------------
(* The causes.  Where nothing crashes and no lease is overrun, a dispatch   *)
(* raises only when a rival, a contact sync or an operator has inserted its *)
(* actor.                                                                  *)

Calm == faults = 0 /\ overruns = 0
Raced(e) == Actor(e) \in Synced \/ \E f \in Events : Rivals(e, f)

\* What FailedForCause asks of a failed event
Cause(e) ==
  \/ Kind(e) = "orphan"
  \/ callback[e].command /\ Cardinality(RoutesOf[e]) > 1
  \/ Raced(e)
  \/ tries[e] = MaxAttempts /\ \E d \in Deployments : record[e][d] = "FAILED_RETRYABLE"

\* Who has raised, or will, has lost a race.
Blamed(w, e) ==
  /\ On(w, e)
  /\ \/ pc[w] = "mark"
     \/ pc[w] = "discover" /\ Actor(e) \in known
  => Raced(e)

\* The attempt count a dispatch has loaded is no more than that of the row.
Counted(w, e) == On(w, e) => session[w].count <= tries[e]

CauseInv ==
  /\ ReplyInv /\ CountInv
  /\ \A w \in Workers, e \in Events : Counted(w, e)
  /\ Calm => /\ \A w \in Workers, e \in Events : Blamed(w, e)
             /\ \A e \in Events : inbox[e] = "FAILED" => Cause(e)

LEMMA CalmBefore ==
  ASSUME TypeOK, [Next]_vars, Calm' PROVE Calm
<1>1. faults \in Nat /\ overruns \in Nat
  BY DispatchAssumption DEF TypeOK
<1>2. ASSUME NEW w \in Workers, RunOnce(w)
      PROVE  UNCHANGED <<faults, overruns>>
  BY <1>2 DEF RunOnce, RecoverExpiredLeases, ClaimDueEvents, Begin, Enter, Discover, SelectRoutes,
     LoadRecord, InsertRecord, Judge, Answer, Settle, MarkFailed
<1>3. ASSUME NEW w \in Workers, StatementFails(w) \/ Abort(w)
      PROVE  faults' = faults + 1
  BY <1>3 DEF StatementFails, Abort
<1>4. ASSUME NEW e \in Events, Ingest(e) \/ TimePasses(e)
      PROVE  faults' = faults /\ overruns' \in {overruns, overruns + 1}
  BY <1>4 DEF Ingest, TimePasses
<1>5. ASSUME UNCHANGED vars \/ \E d \in Deployments : LockDeployment(d) \/ Toggle(d)
      PROVE  UNCHANGED <<faults, overruns>>
  BY <1>5 DEF vars, LockDeployment, Toggle
<1> QED BY <1>1, <1>2, <1>3, <1>4, <1>5 DEF Next, Calm

\* An actor does not change, and who shares the actor of an event that was received was
\* received.
LEMMA RacedStays ==
  ASSUME TypeInv, NEW e \in Events, Kind(e) # "orphan",
         \A f \in Events : inbox[f] # "ABSENT" => callback'[f] = callback[f]
  PROVE  /\ Kind(e)' = Kind(e) /\ Actor(e)' = Actor(e) /\ callback'[e] = callback[e]
         /\ Raced(e) => Raced(e)'
<1>1. \A f \in Events : Kind(f) # "orphan" => Kind(f)' = Kind(f) /\ callback'[f] = callback[f]
  BY DEF TypeInv, Received, Kind
<1>2. ASSUME NEW f \in Events, Rivals(e, f) PROVE Rivals(e, f)'
  <2>1. Kind(f) # "orphan"
    BY <1>2 DEF Rivals, Actor
  <2> QED BY <1>1, <1>2, <2>1 DEF Rivals, Actor
<1> QED BY <1>1, <1>2 DEF Actor, Raced

\* What a turn of a worker does to its transaction
Idles(w) == ~Busy(w)'
Continues(w) ==
  /\ Busy(w) /\ SameEvent(w) /\ pc'[w] # "mark"
  /\ pc'[w] = "discover" => Actor(session[w].event) \notin known /\ UNCHANGED known
Reason(w) ==
  \/ faults' = faults + 1
  \/ pc[w] = "discover" /\ Actor(session[w].event) \in known \cup Synced
  \/ pc[w] = "insert" /\ record[session[w].event][Route(w)] # "NONE"
Raises(w) ==
  /\ Busy(w) /\ pc'[w] = "mark" /\ UNCHANGED known /\ Reason(w)
  /\ session'[w].event = session[w].event /\ session'[w].count = 0
Opens(w, e) ==
  /\ pc'[w] = "enter" /\ session'[w].event = e /\ session'[w].count = tries[e]

Turns(w) == Others(w) /\ (Idles(w) \/ Continues(w) \/ Raises(w) \/ \E e \in Events : Opens(w, e))

LEMMA RaiseTurns ==
  ASSUME TypeInv, NEW w \in Workers, Busy(w), Raise(w), Reason(w),
         UNCHANGED <<tableVars, running, locked, calls, queue, overruns>>, faults' \in 0..MaxFaults
  PROVE  Turns(w)
<1>1. pc'[w] = "mark" /\ session'[w].event = session[w].event /\ Others(w)
  BY RaiseIs DEF Others
<1>2. session'[w].count = 0
  BY DEF Raise, Idle, TypeInv, TypeOK
<1> QED BY <1>1, <1>2 DEF Turns, Raises, tableVars

LEMMA CloseTurns ==
  ASSUME TypeInv, NEW w \in Workers, NEW e \in queue[w], Close(w, e), UNCHANGED callback
  PROVE  Turns(w)
<1>1. pc'[w] \in {"recover", "next"} /\ Others(w)
  BY CloseIs DEF Others
<1> QED BY <1>1 DEF Turns, Idles, Busy, Inside

LEMMA TurnsOutside ==
  ASSUME TypeInv, NEW w \in Workers,
         \/ RecoverExpiredLeases(w) \/ ClaimDueEvents(w) \/ Begin(w)
         \/ StatementFails(w) \/ Abort(w)
  PROVE  Turns(w)
<1>0. TypeOK
  BY DEF TypeInv
<1>1. CASE RecoverExpiredLeases(w) \/ ClaimDueEvents(w)
  <2>1. PICK p \in {"claim", "recover", "next"} : pc' = [pc EXCEPT ![w] = p]
    BY <1>1 DEF RecoverExpiredLeases, ClaimDueEvents, Goto
  <2>2. UNCHANGED session
    BY <1>1 DEF RecoverExpiredLeases, ClaimDueEvents
  <2>3. pc'[w] = p /\ Others(w)
    BY <1>0, <2>1, <2>2, Went DEF Steps, Others
  <2> QED BY <2>3 DEF Turns, Idles, Busy, Inside
<1>2. CASE Begin(w)
  <2>1. PICK e \in Events : e = Min(queue[w]) /\ e \in queue[w] /\ inbox[e] # "ABSENT"
    BY <1>2, NextEvent DEF Begin, TypeInv, Received
  <2>2. UNCHANGED callback
    BY <1>2 DEF Begin
  <2>3. CASE session' = [session EXCEPT ![w] = Opened(e)] /\ Goto(w, "enter")
    <3>1. /\ Opened(e) \in Sessions /\ Opened(e).event = e /\ Opened(e).count = tries[e]
      BY <2>1, OpenedTyped
    <3>2. "enter" \in Steps /\ pc' = [pc EXCEPT ![w] = "enter"]
      BY <2>3 DEF Goto, Steps
    <3>3. session'[w] = Opened(e) /\ pc'[w] = "enter" /\ Others(w)
      BY <1>0, <2>3, <3>1, <3>2, Moves
    <3> QED BY <3>1, <3>3 DEF Turns, Opens
  <2> QED BY <1>2, <2>1, <2>2, <2>3, CloseTurns DEF Begin
<1>3. CASE StatementFails(w)
  BY <1>3, StatementFailsIs, RaiseTurns DEF Reason
<1>4. CASE Abort(w)
  <2>1. pc'[w] = "recover" /\ Others(w)
    BY <1>4, AbortIs
  <2> QED BY <2>1 DEF Turns, Idles, Busy, Inside
<1> QED BY <1>1, <1>2, <1>3, <1>4

LEMMA TurnsContext ==
  ASSUME TypeInv, NEW w \in Workers, Enter(w) \/ Discover(w)
  PROVE  Turns(w)
<1>0. TypeOK
  BY DEF TypeInv
<1>1. CASE Enter(w)
  <2> DEFINE p == IF Actor(session[w].event) \in known THEN "route" ELSE "discover"
  <2>1. /\ pc[w] = "enter" /\ pc' = [pc EXCEPT ![w] = p] /\ p \in Steps /\ UNCHANGED <<session, known>>
    BY <1>1 DEF Enter, Goto, Steps, Inside, tableVars
  <2>2. /\ p = "discover" => Actor(session[w].event) \notin known
        /\ p # "mark"
    OBVIOUS
  <2> HIDE DEF p
  <2>3. pc'[w] = p /\ SameEvent(w) /\ Others(w) /\ Busy(w)
    BY <1>0, <2>1, Went DEF Others, SameEvent, Busy
  <2> QED BY <2>1, <2>2, <2>3 DEF Turns, Continues
<1>2. CASE Discover(w)
  <2>1. /\ pc[w] = "discover" /\ Busy(w) /\ faults' \in 0..MaxFaults
        /\ UNCHANGED <<tableVars, running, locked, calls, queue, faults, overruns>>
    BY <1>0, <1>2 DEF Discover, Busy, Inside, TypeOK
  <2>2. CASE Actor(session[w].event) \in known \cup Synced /\ Raise(w)
    BY <2>1, <2>2, RaiseTurns DEF Reason
  <2>3. CASE session' = [session EXCEPT ![w].novel = TRUE] /\ Goto(w, "route")
    <3>1. SameEvent(w) /\ \A v \in Workers : v # w => session'[v] = session[v]
      BY <1>0, <2>3 DEF TypeOK, Sessions, SameEvent
    <3>2. "route" \in Steps /\ pc' = [pc EXCEPT ![w] = "route"]
      BY <2>3 DEF Steps, Inside, Goto
    <3>3. pc'[w] = "route" /\ Others(w)
      BY <1>0, <3>1, <3>2, Went DEF Others
    <3> QED BY <2>1, <3>1, <3>3 DEF Turns, Continues
  <2> QED BY <1>2, <2>2, <2>3 DEF Discover
<1> QED BY <1>1, <1>2

LEMMA TurnsRecords ==
  ASSUME TypeInv, NEW w \in Workers, LoadRecord(w) \/ InsertRecord(w)
  PROVE  Turns(w)
<1>1. CASE LoadRecord(w)
  <2>1. /\ SameEvent(w) /\ Others(w) /\ pc[w] = "plugin"
        /\ pc'[w] \in {"plugin", "insert", "judge"}
    BY <1>1, LoadRecordIs
  <2> QED BY <2>1 DEF Turns, Continues, Busy, Inside
<1>2. CASE InsertRecord(w)
  <2>1. /\ UNCHANGED <<tableVars, running, locked, calls, queue, faults, overruns>>
        /\ pc[w] = "insert" /\ Busy(w) /\ faults' \in 0..MaxFaults
    BY <1>2, InsertRecordIs
  <2>2. CASE Raise(w) /\ record[session[w].event][Route(w)] # "NONE"
    BY <2>1, <2>2, RaiseTurns DEF Reason
  <2>3. ASSUME NEW d \in session[w].left,
               session' = [session EXCEPT ![w].draft[d] = "PENDING"], Goto(w, "judge")
        PROVE  Turns(w)
    <3>1. SameEvent(w) /\ Others(w) /\ pc'[w] = "judge"
      BY <2>1, <2>3, InsertIs
    <3> QED BY <2>1, <3>1 DEF Turns, Continues
  <2> QED BY <1>2, <2>2, <2>3, InsertRecordIs
<1> QED BY <1>1, <1>2

LEMMA TurnsCall ==
  ASSUME TypeInv, NEW w \in Workers, Judge(w) \/ Answer(w)
  PROVE  Turns(w)
<1>1. ASSUME pc[w] \in {"judge", "call"}, NEW status \in RecordStatuses,
             NEW replies \in SUBSET Replies, EndRoute(w, status, replies),
             UNCHANGED <<tableVars, running, locked, calls, queue, faults, overruns>>
      PROVE  Turns(w)
  <2>1. SameEvent(w) /\ Others(w) /\ pc'[w] = "plugin"
    BY <1>1, EndRouteIs
  <2> QED BY <1>1, <2>1 DEF Turns, Continues, Busy, Inside
<1>2. CASE EndRoute(w, "DENIED", {}) /\ UNCHANGED calls /\ Judge(w)
  <2>1. "DENIED" \in RecordStatuses /\ {} \in SUBSET Replies
    BY DEF RecordStatuses
  <2>2. pc[w] = "judge" /\ UNCHANGED <<tableVars, running, locked, calls, queue, faults, overruns>>
    BY <1>2 DEF Judge
  <2> QED BY <1>1, <1>2, <2>1, <2>2
<1>3. CASE /\ calls' = [calls EXCEPT ![session[w].event][Route(w)] = @ + 1]
           /\ session' = [session EXCEPT ![w].call = calls[session[w].event][Route(w)] + 1]
           /\ Goto(w, "call") /\ Judge(w)
  <2>1. pc[w] = "judge" /\ UNCHANGED <<tableVars, running, locked, queue, faults, overruns>>
    BY <1>3 DEF Judge
  <2>2. SameEvent(w) /\ Others(w) /\ pc'[w] = "call"
    BY <1>3, <2>1, CallIs
  <2> QED BY <2>1, <2>2 DEF Turns, Continues, Busy, Inside
<1>4. CASE Answer(w)
  <2>1. pc[w] = "call" /\ UNCHANGED <<tableVars, running, locked, calls, queue, faults, overruns>>
    BY <1>4 DEF Answer
  <2>2. PICK status \in RecordStatuses, replies \in SUBSET Replies : EndRoute(w, status, replies)
    BY <1>4, AnswerIs
  <2> QED BY <1>1, <2>1, <2>2
<1> QED BY <1>2, <1>3, <1>4 DEF Judge

LEMMA TurnsEnds ==
  ASSUME TypeInv, NEW w \in Workers, SelectRoutes(w) \/ Settle(w) \/ MarkFailed(w)
  PROVE  Turns(w)
<1>1. /\ Busy(w) /\ UNCHANGED callback
  BY DEF SelectRoutes, Settle, MarkFailed, Busy, Inside
<1>2. session[w].event \in queue[w]
  BY <1>1, AtWork
<1>3. CASE Close(w, session[w].event)
  BY <1>1, <1>2, <1>3, CloseTurns
<1>4. CASE SelectRoutes(w) /\ ~Close(w, session[w].event)
  <2> DEFINE routes == RoutesOf[session[w].event] \cap running
  <2>1. /\ session' = [session EXCEPT ![w].left = routes] /\ Goto(w, "plugin")
        /\ UNCHANGED <<tableVars, running, locked, calls, queue, faults, overruns>>
    BY <1>4 DEF SelectRoutes, tableVars
  <2>2. routes \in SUBSET Deployments
    BY DEF TypeInv, TypeOK
  <2> HIDE DEF routes
  <2>3. SameEvent(w) /\ Others(w) /\ pc'[w] = "plugin"
    BY <1>1, <2>1, <2>2, ChooseIs
  <2> QED BY <1>1, <2>3 DEF Turns, Continues
<1> QED BY <1>3, <1>4 DEF Settle, MarkFailed

LEMMA TurnsAll ==
  ASSUME TypeInv, NEW w \in Workers, RunOnce(w) \/ StatementFails(w) \/ Abort(w)
  PROVE  /\ Turns(w) /\ UNCHANGED callback
         /\ \A e \in Events : /\ tries'[e] \in {tries[e], tries[e] + 1}
                              /\ inbox[e] # "NORMALIZED" => tries'[e] = tries[e]
         /\ \/ UNCHANGED known
            \/ /\ pc[w] \in Inside
               /\ known' \subseteq known \cup {Actor(session[w].event)}
<1>0. TypeOK
  BY DEF TypeInv
<1>1. Turns(w)
  BY TurnsOutside, TurnsContext, TurnsRecords, TurnsCall, TurnsEnds DEF RunOnce
<1>2. UNCHANGED callback
  BY DEF RunOnce, RecoverExpiredLeases, ClaimDueEvents, Begin, Enter, Discover, SelectRoutes,
     LoadRecord, InsertRecord, Judge, Answer, Settle, MarkFailed, StatementFails, Abort, tableVars
<1>3. ASSUME NEW e \in Events
      PROVE  /\ tries'[e] \in {tries[e], tries[e] + 1}
             /\ inbox[e] # "NORMALIZED" => tries'[e] = tries[e]
  <2>1. CASE ClaimDueEvents(w)
    BY <2>1 DEF ClaimDueEvents, FirstOf, Claimable
  <2>2. CASE ~ClaimDueEvents(w)
    BY <2>2 DEF RunOnce, RecoverExpiredLeases, Begin, Enter, Discover, SelectRoutes,
       LoadRecord, InsertRecord, Judge, Answer, Settle, MarkFailed, StatementFails, Abort,
       tableVars
  <2> QED BY <2>1, <2>2
<1>4. \/ UNCHANGED known
      \/ /\ pc[w] \in Inside
         /\ known' \subseteq known \cup {Actor(session[w].event)}
  <2>1. CASE SelectRoutes(w) \/ Settle(w)
    BY <2>1 DEF SelectRoutes, Settle, CommitRecords, Inside
  <2>2. CASE ~(SelectRoutes(w) \/ Settle(w))
    BY <2>2 DEF RunOnce, RecoverExpiredLeases, ClaimDueEvents, Begin, Enter, Discover,
       LoadRecord, InsertRecord, Judge, Answer, MarkFailed, StatementFails, Abort, tableVars
  <2> QED BY <2>1, <2>2
<1> QED BY <1>1, <1>2, <1>3, <1>4

\* Nothing of a dispatch changes outside the workers.
LEMMA OutsideIs ==
  ASSUME TypeInv,
         \/ UNCHANGED vars \/ \E d \in Deployments : LockDeployment(d) \/ Toggle(d)
         \/ \E e \in Events : Ingest(e) \/ TimePasses(e)
  PROVE  /\ UNCHANGED <<session, pc, queue, tries, known, record, calls>>
         /\ \A f \in Events : /\ inbox[f] # "ABSENT" => callback'[f] = callback[f]
                              /\ inbox'[f] = "FAILED" => inbox[f] = "FAILED"
<1>0. TypeOK
  BY DEF TypeInv
<1>1. ASSUME UNCHANGED vars \/ \E d \in Deployments : LockDeployment(d) \/ Toggle(d)
      PROVE  UNCHANGED <<session, pc, queue, tries, known, record, calls, callback, inbox>>
  BY <1>1 DEF vars, LockDeployment, Toggle, tableVars
<1>2. ASSUME NEW e \in Events, TimePasses(e)
      PROVE  UNCHANGED <<session, pc, queue, tries, known, record, calls, callback, inbox>>
  BY <1>2 DEF TimePasses
<1>3. ASSUME NEW e \in Events, Ingest(e)
      PROVE  /\ UNCHANGED <<session, pc, queue, tries, known, record, calls>>
             /\ \A f \in Events : /\ inbox[f] # "ABSENT" => callback'[f] = callback[f]
                                  /\ inbox'[f] = "FAILED" => inbox[f] = "FAILED"
  BY <1>0, <1>3 DEF Ingest, TypeOK
<1> QED BY <1>1, <1>2, <1>3

LEMMA CountedStep ==
  ASSUME CauseInv, [Next]_vars, NEW w \in Workers, NEW e \in Events
  PROVE  Counted(w, e)'
<1>0. TypeInv /\ TypeOK /\ Counted(w, e) /\ tries[e] \in Nat
  BY DEF CauseInv, CountInv, TypeInv, TypeOK
<1>1. ASSUME NEW v \in Workers, RunOnce(v) \/ StatementFails(v) \/ Abort(v)
      PROVE  Counted(w, e)'
  <2>1. /\ Turns(v) /\ tries'[e] \in {tries[e], tries[e] + 1}
        /\ inbox[e] # "NORMALIZED" => tries'[e] = tries[e]
    BY <1>0, <1>1, TurnsAll
  <2>2. CASE session'[w] = session[w] /\ pc'[w] = pc[w]
    <3>1. On(w, e)' = On(w, e)
      BY <2>2 DEF On, Busy
    <3>2. session[w].count \in Nat
      BY <1>0 DEF TypeOK, Sessions
    <3> QED BY <1>0, <2>1, <2>2, <3>1, <3>2 DEF Counted
  <2>3. CASE w = v /\ Idles(w)
    BY <2>3 DEF Idles, Counted, On
  <2>4. CASE w = v /\ Continues(w)
    <3>1. session[w].count \in Nat
      BY <1>0 DEF TypeOK, Sessions
    <3> QED BY <1>0, <2>1, <2>4, <3>1 DEF Continues, SameEvent, Counted, On
  <2>5. CASE w = v /\ Raises(w)
    BY <1>0, <2>1, <2>5 DEF Raises, Counted
  <2>6. ASSUME w = v, NEW f \in Events, Opens(w, f)
        PROVE  Counted(w, e)'
    BY <1>0, <2>1, <2>6 DEF Opens, Counted, On
  <2> QED BY <2>1, <2>2, <2>3, <2>4, <2>5, <2>6 DEF Turns, Others
<1>2. ASSUME UNCHANGED <<session, pc, tries>> PROVE Counted(w, e)'
  BY <1>0, <1>2 DEF Counted, On, Busy
<1> QED BY <1>0, <1>1, <1>2, OutsideIs DEF Next

\* A dispatch that goes on after the commit of another that had the same actor
LEMMA RivalCommits ==
  ASSUME ReplyInv, overruns = 0, NEW v \in Workers, NEW w \in Workers, v # w,
         pc[v] \in Inside, pc[w] \in Inside, NEW e \in Events, session[w].event = e,
         Actor(session[v].event) = Actor(e)
  PROVE  Raced(e)
<1>0. TypeInv /\ Leased /\ Rooms
  BY DEF ReplyInv, RecordInv
<1>1. PICK f \in Events : f = session[v].event /\ f \in queue[v]
  BY <1>0, AtWork DEF Busy
<1>2. e \in queue[w]
  BY <1>0, AtWork DEF Busy
<1>3. e # f
  BY <1>0, <1>1, <1>2 DEF Leased
<1>4. Kind(e) = Kind(f) /\ Actor(e) = Actor(f)
  BY <1>1 DEF Actor
<1>5. Kind(e) = "group" => RoomOf[e] # RoomOf[f]
  BY <1>0, <1>1, <1>4 DEF Rooms
<1> QED BY <1>3, <1>4, <1>5 DEF Raced, Rivals

LEMMA BlamedStep ==
  ASSUME CauseInv, [Next]_vars, Calm, Calm', NEW w \in Workers, NEW e \in Events
  PROVE  Blamed(w, e)'
<1>0. TypeInv /\ TypeOK /\ Blamed(w, e) /\ ReplyInv /\ overruns = 0 /\ faults = 0 /\ faults' = 0
  BY DEF CauseInv, CountInv, TypeInv, Calm
<1>1. /\ \A f \in Events : inbox[f] # "ABSENT" => callback'[f] = callback[f]
      /\ \/ UNCHANGED <<session, pc, known>>
         \/ \E v \in Workers : RunOnce(v) \/ StatementFails(v) \/ Abort(v)
  BY <1>0, OutsideIs, TurnsAll DEF Next
<1>2. ASSUME On(w, e)
      PROVE  Actor(e)' = Actor(e) /\ (Raced(e) => Raced(e)')
  <2>1. Kind(e) # "orphan"
    BY <1>0, <1>2, AtWork DEF On
  <2> QED BY <1>0, <1>1, <2>1, RacedStays
<1>3. CASE UNCHANGED <<session, pc, known>>
  <2>1. On(w, e)' = On(w, e)
    BY <1>3 DEF On, Busy
  <2> QED BY <1>0, <1>2, <1>3, <2>1 DEF Blamed
<1>4. ASSUME NEW v \in Workers, RunOnce(v) \/ StatementFails(v) \/ Abort(v)
      PROVE  Blamed(w, e)'
  <2>1. /\ Turns(v)
        /\ \/ UNCHANGED known
           \/ pc[v] \in Inside /\ known' \subseteq known \cup {Actor(session[v].event)}
    BY <1>0, <1>4, TurnsAll
  <2>2. CASE w # v
    <3>1. session'[w] = session[w] /\ pc'[w] = pc[w] /\ (On(w, e)' = On(w, e))
      BY <2>1, <2>2 DEF Turns, Others, On, Busy
    <3>2. ASSUME On(w, e), pc[w] = "discover", Actor(e) \in known' PROVE Raced(e)
      <4>1. CASE Actor(e) \in known
        BY <1>0, <3>2, <4>1 DEF Blamed
      <4>2. CASE Actor(e) \notin known
        <5>1. pc[v] \in Inside /\ Actor(session[v].event) = Actor(e)
          BY <2>1, <3>2, <4>2
        <5>2. pc[w] \in Inside /\ session[w].event = e
          BY <3>2 DEF Inside, On
        <5> QED BY <1>0, <2>2, <5>1, <5>2, RivalCommits
      <4> QED BY <4>1, <4>2
    <3> QED BY <1>0, <1>2, <3>1, <3>2 DEF Blamed
  <2>3. CASE w = v /\ Idles(w)
    BY <2>3 DEF Idles, Blamed, On
  <2>4. CASE w = v /\ Continues(w)
    <3>1. On(w, e)' => On(w, e)
      BY <2>4 DEF Continues, SameEvent, On
    <3>2. On(w, e) /\ pc'[w] = "discover" => Actor(e)' \notin known'
      BY <1>2, <2>4 DEF Continues, On
    <3>3. pc'[w] # "mark"
      BY <2>4 DEF Continues
    <3> QED BY <3>1, <3>2, <3>3 DEF Blamed
  <2>5. CASE w = v /\ Raises(w)
    <3>1. On(w, e)' => On(w, e)
      BY <2>5 DEF Raises, On
    <3>2. ASSUME On(w, e) PROVE Raced(e)
      <4>1. CASE pc[w] = "discover" /\ Actor(e) \in known \cup Synced
        BY <1>0, <3>2, <4>1 DEF Blamed, Raced
      <4>2. ~(pc[w] = "insert" /\ record[e][Route(w)] # "NONE")
        <5>1. SUFFICES ASSUME pc[w] = "insert" PROVE record[e][Route(w)] = "NONE"
          OBVIOUS
        <5>2. DraftOK(w) /\ Fresh(w) /\ Guarded(e) /\ PlaceOK(w)
          BY <1>0 DEF ReplyInv, RecordInv, Guarded, TypeInv
        <5>3. Route(w) \in Deployments
          BY <1>0, <5>1, <5>2, RouteIsLeft DEF PlaceOK
        <5>4. session[w].loaded[Route(w)] = "NONE"
          BY <3>2, <5>1, <5>2, <5>3 DEF DraftOK, On
        <5>5. session[w].loaded[Route(w)] = record[e][Route(w)]
          BY <3>2, <5>1, <5>2, <5>3 DEF Fresh, On, Inside
        <5> QED BY <5>4, <5>5
      <4> QED BY <1>0, <2>5, <3>2, <4>1, <4>2 DEF Raises, Reason, On
    <3> QED BY <1>2, <3>1, <3>2 DEF Blamed
  <2>6. ASSUME w = v, NEW f \in Events, Opens(w, f)
        PROVE  Blamed(w, e)'
    BY <2>6 DEF Opens, Blamed
  <2> QED BY <2>1, <2>2, <2>3, <2>4, <2>5, <2>6 DEF Turns
<1> QED BY <1>1, <1>3, <1>4

\* Who fails an event has a cause.
LEMMA FailedIs ==
  ASSUME CauseInv, Calm, NEW w \in Workers, RunOnce(w), NEW e \in Events,
         inbox[e] # "FAILED", inbox'[e] = "FAILED"
  PROVE  Cause(e)'
<1>0. TypeInv /\ TypeOK /\ ReplyInv /\ CountInv /\ overruns = 0 /\ faults = 0
  BY DEF CauseInv, CountInv, TypeInv, Calm
<1>1. UNCHANGED callback
  BY <1>0, TurnsAll
<1>2. (Kind(e)' = Kind(e)) /\ (Raced(e)' <=> Raced(e))
  BY <1>1 DEF Kind, Raced, Rivals, Actor
<1>3. CASE Begin(w)
  <2>1. e = Min(queue[w]) /\ Kind(e) = "orphan"
    BY <1>0, <1>3 DEF Begin, TypeOK
  <2> QED BY <1>2, <2>1 DEF Cause
<1>4. CASE MarkFailed(w)
  <2>1. pc[w] = "mark" /\ session[w].event = e
    BY <1>0, <1>4 DEF MarkFailed, TypeOK
  <2>2. Raced(e)
    BY <2>1 DEF CauseInv, Blamed, On, Busy
  <2> QED BY <1>2, <2>2 DEF Cause
<1>5. CASE SelectRoutes(w)
  <2>1. /\ session[w].event = e
        /\ callback[e].command /\ Cardinality(RoutesOf[e] \cap running) > 1
    BY <1>0, <1>5 DEF SelectRoutes, TypeOK
  <2>2. IsFiniteSet(RoutesOf[e])
    BY DispatchAssumption, FS_Subset
  <2>3. /\ Cardinality(RoutesOf[e] \cap running) <= Cardinality(RoutesOf[e])
        /\ Cardinality(RoutesOf[e] \cap running) \in Nat /\ Cardinality(RoutesOf[e]) \in Nat
    BY <2>2, Fewer
  <2> QED BY <1>1, <2>1, <2>3 DEF Cause
<1>6. CASE Settle(w)
  <2>1. /\ session[w].event = e /\ pc[w] = "plugin"
        /\ Retryable(w) /\ Exhausted(w) /\ CommitRecords(w, e) /\ UNCHANGED tries
    BY <1>0, <1>6 DEF Settle, TypeOK
  <2>2. tries[e] = MaxAttempts
    <3>1. On(w, e)
      BY <2>1 DEF On, Busy, Inside
    <3>2. session[w].count <= tries[e] /\ session[w].count >= MaxAttempts
      BY <2>1, <3>1 DEF CauseInv, Counted, Exhausted
    <3>3. session[w].count \in Nat /\ tries[e] \in Nat /\ MaxAttempts \in Nat
      BY <1>0, DispatchAssumption DEF TypeOK, Sessions
    <3>4. /\ Cardinality(Chances(e)) \in Nat /\ Spare(e) \in {0, 1}
          /\ Spent(tries[e]) + Cardinality(Chances(e)) + Spare(e) <= Limit
      BY <1>0, CountTypes DEF CountInv, CountOK
    <3>5. Spent(tries[e]) = tries[e] - MaxAttempts + 1 /\ Limit = 1
      BY <1>0, <3>2, <3>3 DEF Spent, Limit
    <3> QED BY <3>2, <3>3, <3>4, <3>5
  <2>3. PICK d \in Deployments : session[w].draft[d] = "FAILED_RETRYABLE"
    BY <2>1 DEF Retryable
  <2>4. /\ Written(w, d) => record'[e][d] = session[w].draft[d]
        /\ ~Written(w, d) => record'[e][d] = record[e][d]
    BY <1>0, <2>1, CommitIs
  <2>5. session[w].loaded[d] = record[e][d]
    BY <1>0, <2>1, <2>3 DEF ReplyInv, Fresh, Guarded, Inside
  <2>6. record'[e][d] = "FAILED_RETRYABLE"
    BY <2>3, <2>4, <2>5 DEF Written
  <2> QED BY <2>1, <2>2, <2>6 DEF Cause
<1>7. CASE \/ RecoverExpiredLeases(w) \/ ClaimDueEvents(w) \/ Enter(w) \/ Discover(w)
           \/ LoadRecord(w) \/ InsertRecord(w) \/ Judge(w) \/ Answer(w)
  BY <1>7 DEF RecoverExpiredLeases, ClaimDueEvents, Enter, Discover, LoadRecord, InsertRecord,
     Judge, Answer, tableVars
<1> QED BY <1>3, <1>4, <1>5, <1>6, <1>7 DEF RunOnce

\* And nobody is at an event that has failed.
LEMMA FailedStays ==
  ASSUME CauseInv, [Next]_vars, Calm, NEW e \in Events, inbox[e] = "FAILED", Cause(e)
  PROVE  Cause(e)'
<1>0. TypeInv /\ TypeOK /\ Leased /\ overruns = 0
  BY DEF CauseInv, CountInv, TypeInv, ReplyInv, Calm
<1>1. /\ tries'[e] = tries[e] /\ record'[e] = record[e]
      /\ \A f \in Events : inbox[f] # "ABSENT" => callback'[f] = callback[f]
  <2>1. ASSUME NEW w \in Workers, RunOnce(w) \/ StatementFails(w) \/ Abort(w)
        PROVE  UNCHANGED callback /\ tries'[e] = tries[e] /\ record'[e] = record[e]
    <3>1. UNCHANGED callback
      BY <1>0, <2>1, TurnsAll
    <3>2. CASE RunOnce(w)
      <4>1. Intact(e)
        BY <1>0, <3>2, SettledIsKept DEF Settled
      <4> QED BY <3>1, <4>1 DEF Intact
    <3>3. CASE StatementFails(w) \/ Abort(w)
      BY <3>1, <3>3 DEF StatementFails, Abort, tableVars
    <3> QED BY <2>1, <3>2, <3>3
  <2> QED BY <1>0, <2>1, OutsideIs DEF Next
<1>2. callback'[e] = callback[e] /\ (Kind(e)' = Kind(e))
  BY <1>1 DEF Kind
<1>3. Kind(e) # "orphan" /\ Raced(e) => Raced(e)'
  BY <1>0, <1>1, RacedStays
<1> QED BY <1>1, <1>2, <1>3 DEF Cause

LEMMA CauseInit == Init => CauseInv
<1> SUFFICES ASSUME Init PROVE CauseInv
  OBVIOUS
<1>1. \A w \in Workers, e \in Events : ~On(w, e)
  BY DEF Init, On, Busy, Inside
<1>2. \A e \in Events : inbox[e] # "FAILED"
  BY DEF Init
<1> QED BY <1>1, <1>2, ReplyInit, CountInit DEF CauseInv, Counted, Blamed

LEMMA CauseStep == CauseInv /\ [Next]_vars => CauseInv'
<1> SUFFICES ASSUME CauseInv, [Next]_vars PROVE CauseInv'
  OBVIOUS
<1>1. ReplyInv' /\ CountInv' /\ TypeInv
  BY ReplyStep, CountStep DEF CauseInv, CountInv
<1>2. \A w \in Workers, e \in Events : Counted(w, e)'
  BY CountedStep
<1>3. ASSUME Calm', NEW e \in Events, inbox'[e] = "FAILED" PROVE Cause(e)'
  <2>1. Calm
    BY <1>1, <1>3, CalmBefore DEF TypeInv
  <2>2. CASE inbox[e] = "FAILED"
    BY <1>3, <2>1, <2>2, FailedStays DEF CauseInv
  <2>3. CASE inbox[e] # "FAILED"
    <3>1. ~\E w \in Workers : StatementFails(w) \/ Abort(w)
      BY <1>3, <2>3 DEF StatementFails, Abort, tableVars
    <3>2. PICK w \in Workers : RunOnce(w)
      BY <1>1, <1>3, <2>3, <3>1, OutsideIs DEF Next
    <3> QED BY <1>3, <2>1, <2>3, <3>2, FailedIs
  <2> QED BY <2>2, <2>3
<1>4. Calm' => \A w \in Workers, e \in Events : Blamed(w, e)'
  BY <1>1, CalmBefore, BlamedStep DEF TypeInv
<1> QED BY <1>1, <1>2, <1>3, <1>4 DEF CauseInv

\* Where nothing crashes and no lease is overrun, an event fails only for want of a context,
\* for a command that two deployments claim, for a lost race to insert its actor, or because
\* its attempts are used up.
THEOREM FailuresHaveCauses == Spec => []FailedForCause
<1>1. CauseInv => FailedForCause
  BY DEF CauseInv, FailedForCause, Calm, Cause, Raced
<1> QED BY <1>1, CauseInit, CauseStep, PTL DEF Spec
=============================================================================
