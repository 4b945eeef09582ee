-------------------------- MODULE TaskAgentProofs --------------------------
(***************************************************************************)
(* Proofs about TaskAgent, for any number of definitions, sessions, keys,  *)
(* questions and principals, and for logs of any length.                   *)
(***************************************************************************)
EXTENDS TaskAgent, SequenceTheorems, TLAPS

-----------------------------------------------------------------------------
(* Type correctness.  A question that was asked has a run: the rows its     *)
(* answer writes depend on it.                                             *)

Asked(q) == questions[q].status # "NONE"

QuestionOK(q) ==
  IF Asked(q) THEN questions[q].run \in RunIds /\ questions[q].allowed \in Principals
              ELSE questions[q].open_slot = 0

TypeInv ==
  /\ TypeOK
  /\ "next" \in DOMAIN view
  /\ \A s \in Sessions : sessions[s].version # 0 => sessions[s].requester \in Principals
  /\ \A q \in Questions : QuestionOK(q)

LEMMA RunIdsAre ==
  /\ \A s \in Sessions, k \in Keys : <<s, k>> \in RunIds /\ <<s, k>>[1] = s
  /\ \A r \in RunIds : r[1] \in Sessions /\ r[2] \in Keys /\ r = <<r[1], r[2]>>
BY DEF RunIds

\* A view writes no row.
LEMMA ViewsOnlyRead ==
  ASSUME TypeInv, ViewStep
  PROVE  /\ UNCHANGED <<definitions, versions, sessions, runs, questions, inbox, events>>
         /\ TypeInv'
<1> DEFINE Nexts == {"SESSION", "RUN", "INBOX", "EVENTS", "QUESTIONS", "DONE"}
<1>1. UNCHANGED <<definitions, versions, sessions, runs, questions, inbox, events>>
  BY DEF ViewStep, ViewSession, ViewActiveRun, ViewInbox, ViewEvents, ViewQuestions,
         ViewReturned
<1>2. "next" \in DOMAIN view' /\ view'.next \in Nexts
  <2>1. CASE \E s \in Sessions : ViewSession(s)
    BY <2>1 DEF ViewSession, TypeInv
  <2>2. CASE ViewActiveRun
    BY <2>2 DEF ViewActiveRun, TypeInv
  <2>3. CASE ViewInbox
    BY <2>3 DEF ViewInbox, TypeInv
  <2>4. CASE ViewEvents
    BY <2>4 DEF ViewEvents, TypeInv
  <2>5. CASE ViewQuestions
    BY <2>5 DEF ViewQuestions, TypeInv
  <2>6. CASE ViewReturned
    BY <2>6 DEF ViewReturned, IdleView
  <2> QED BY <2>1, <2>2, <2>3, <2>4, <2>5, <2>6 DEF ViewStep
<1> QED BY <1>1, <1>2 DEF TypeInv, TypeOK, Asked, QuestionOK

LEMMA EventsTyped ==
  ASSUME TypeInv, NEW s \in Sessions, NEW es \in Seq(AgentEvent), AppendEvents(s, es)
  PROVE  events' \in [Sessions -> Seq(AgentEvent)]
<1>1. events[s] \o es \in Seq(AgentEvent)
  BY DEF TypeInv, TypeOK
<1> QED BY <1>1 DEF AppendEvents, TypeInv, TypeOK

LEMMA InboxTyped ==
  ASSUME TypeInv, NEW s \in Sessions, NEW x \in AgentSessionInbox, AppendInbox(s, x)
  PROVE  inbox' \in [Sessions -> Seq(AgentSessionInbox)]
<1>1. Append(inbox[s], x) \in Seq(AgentSessionInbox)
  BY DEF TypeInv, TypeOK
<1> QED BY <1>1 DEF AppendInbox, TypeInv, TypeOK

LEMMA MovedTyped ==
  ASSUME TypeInv, NEW r \in RunIds, NEW target \in AgentRunStatus
  PROVE  /\ Moved(r, target) \in [RunIds -> AgentRun]
         /\ Moved(r, target)[r].status = target
         /\ Moved(r, target)[r].active_slot = (IF target \in TERMINAL THEN 0 ELSE 1)
         /\ \A o \in RunIds : o # r => Moved(r, target)[o] = runs[o]
<1> DEFINE slot == IF target \in TERMINAL THEN 0 ELSE 1
           row == [runs[r] EXCEPT !.status = target, !.active_slot = slot]
<1>1. runs \in [RunIds -> AgentRun]
  BY DEF TypeInv, TypeOK
<1>2. row \in AgentRun /\ row.status = target /\ row.active_slot = slot
  <2> DEFINE x == runs[r]
  <2>1. x \in AgentRun /\ slot \in 0..1
    BY <1>1
  <2> HIDE DEF slot, x
  <2>2. LET y == [x EXCEPT !.status = target, !.active_slot = slot]
        IN  y \in AgentRun /\ y.status = target /\ y.active_slot = slot
    BY <2>1 DEF AgentRun
  <2> QED BY <2>2 DEF x
<1>3. Moved(r, target) = [runs EXCEPT ![r] = row]
  BY <1>1 DEF Moved
<1> HIDE DEF row
<1> QED BY <1>1, <1>2, <1>3

LEMMA StatusChangedTyped ==
  ASSUME TypeInv, NEW r \in RunIds, NEW target \in AgentRunStatus
  PROVE  StatusChanged(r, target) \in AgentEvent
BY DEF StatusChanged, NewEvent, TypeInv, TypeOK, AgentEvent, AgentRun

LEMMA TypeInit == Init => TypeInv
<1> SUFFICES ASSUME Init PROVE TypeInv
  OBVIOUS
<1>1. versions \in [Definitions -> 0..MaxVersions] /\ definitions \in SUBSET Definitions
  BY LimitsAssumption DEF Init
<1>2. sessions \in [Sessions -> AgentSession]
  BY LimitsAssumption DEF Init, AgentSession
<1>3. runs \in [RunIds -> AgentRun]
  BY DEF Init, AgentRun
<1>4. questions \in [Questions -> PendingQuestion]
  BY DEF Init, PendingQuestion
<1>5. inbox \in [Sessions -> Seq(AgentSessionInbox)] /\ events \in [Sessions -> Seq(AgentEvent)]
  BY DEF Init
<1>6. "next" \in DOMAIN view /\ view.next = "SESSION"
  BY DEF Init, IdleView
<1> QED BY <1>1, <1>2, <1>3, <1>4, <1>5, <1>6 DEF Init, TypeInv, TypeOK, Asked, QuestionOK

LEMMA ClosedRow ==
  ASSUME NEW x \in PendingQuestion, NEW target
  PROVE  /\ Closed(x, target) \in PendingQuestion
         /\ Closed(x, target).run = x.run /\ Closed(x, target).allowed = x.allowed
         /\ Closed(x, target).open_slot = 0
         /\ Closed(x, target).status \in {"EXPIRED", "CANCELLED"}
<1> DEFINE end == IF target = "EXPIRED" THEN "EXPIRED" ELSE "CANCELLED"
           slot == 0
<1>1. end \in {"EXPIRED", "CANCELLED"}
  OBVIOUS
<1>2. end \in PendingQuestionStatus /\ slot \in 0..1
  BY DEF PendingQuestionStatus
<1> HIDE DEF end, slot
<1>3. LET y == [x EXCEPT !.open_slot = slot, !.status = end]
      IN  /\ y \in PendingQuestion /\ y.run = x.run /\ y.allowed = x.allowed
          /\ y.open_slot = slot /\ y.status = end
  BY <1>2 DEF PendingQuestion
<1> QED BY <1>1, <1>3 DEF Closed, end, slot

LEMMA AnsweredRow ==
  ASSUME NEW x \in PendingQuestion, NEW p \in Principals, NEW n \in Nat
  PROVE  LET y == Answered(x, p, n)
         IN  /\ y \in PendingQuestion /\ y.run = x.run /\ y.allowed = x.allowed
             /\ y.open_slot = 0 /\ y.status = "ANSWERED" /\ y.answered_by = p
             /\ y.answer_inbox_seq = n
<1> DEFINE st == "ANSWERED"
           slot == 0
           z == [x EXCEPT !.status = st, !.open_slot = slot]
           y == [z EXCEPT !.answered_by = p, !.answer_inbox_seq = n]
<1>1. st \in PendingQuestionStatus /\ slot \in 0..1
  BY DEF PendingQuestionStatus
<1> HIDE DEF st, slot
<1>2. /\ z \in PendingQuestion /\ z.run = x.run /\ z.allowed = x.allowed
      /\ z.open_slot = slot /\ z.status = st
  BY <1>1 DEF PendingQuestion
<1> HIDE DEF z
<1>3. /\ y \in PendingQuestion /\ y.run = z.run /\ y.allowed = z.allowed
      /\ y.open_slot = z.open_slot /\ y.status = z.status /\ y.answered_by = p
      /\ y.answer_inbox_seq = n
  BY <1>2 DEF PendingQuestion
<1> QED BY <1>2, <1>3 DEF Answered, z, st, slot

\* What a transition does to the questions: those of its run close when it ends.
LEMMA CloseTyped ==
  ASSUME TypeInv, NEW r \in RunIds, NEW target \in AgentRunStatus,
         questions' = CloseOpenQuestions(r, target)
  PROVE  /\ questions' \in [Questions -> PendingQuestion]
         /\ \A q \in Questions : QuestionOK(q)'
         /\ \A q \in Questions :
              IF target \in TERMINAL /\ q \in OpenQuestions(r)
              THEN /\ questions'[q].open_slot = 0
                   /\ questions'[q].status \in {"EXPIRED", "CANCELLED"}
                   /\ questions'[q].run = r
              ELSE questions'[q] = questions[q]
<1>1. questions \in [Questions -> PendingQuestion]
  BY DEF TypeInv, TypeOK
<1>2. \A q \in OpenQuestions(r) : questions[q].run = r /\ Asked(q)
  BY DEF OpenQuestions, TypeInv, QuestionOK
<1>3. \A q \in Questions :
        questions'[q] = IF target \in TERMINAL /\ q \in OpenQuestions(r)
                        THEN Closed(questions[q], target) ELSE questions[q]
  BY DEF CloseOpenQuestions
<1>4. questions' = [q \in Questions |-> questions'[q]]
  BY DEF CloseOpenQuestions
<1>5. \A q \in Questions : QuestionOK(q)'
  BY <1>1, <1>2, <1>3, ClosedRow DEF TypeInv, QuestionOK, Asked
<1> QED BY <1>1, <1>2, <1>3, <1>4, <1>5, ClosedRow

LEMMA TypeStep == TypeInv /\ [Next]_vars => TypeInv'
<1> SUFFICES ASSUME TypeInv, [Next]_vars PROVE TypeInv'
  OBVIOUS
<1> USE LimitsAssumption
<1>1. ASSUME NEW d \in Definitions, CreateDefinition(d) PROVE TypeInv'
  BY <1>1 DEF CreateDefinition, TypeInv, TypeOK, Asked, QuestionOK
<1>2. ASSUME NEW d \in Definitions, PublishVersion(d) PROVE TypeInv'
  BY <1>2 DEF PublishVersion, TypeInv, TypeOK, Asked, QuestionOK
<1>3. ASSUME NEW s \in Sessions, NEW d \in Definitions, NEW n \in 1..MaxVersions,
             NEW p \in Principals, CreateSession(s, d, n, p)
      PROVE  TypeInv'
  <2> DEFINE e == NewEvent("SESSION_CREATED", NoRun, NoQuestion, "NONE", "NONE")
  <2>1. <<e>> \in Seq(AgentEvent)
    BY DEF NewEvent, AgentEvent
  <2>2. events' \in [Sessions -> Seq(AgentEvent)]
    BY <1>3, <2>1, EventsTyped DEF CreateSession
  <2>3. /\ sessions' \in [Sessions -> AgentSession]
        /\ \A o \in Sessions :
             sessions'[o].version # 0 => sessions'[o].requester \in Principals
    BY <1>3 DEF CreateSession, TypeInv, TypeOK, AgentSession
  <2> QED BY <1>3, <2>2, <2>3 DEF CreateSession, TypeInv, TypeOK, Asked, QuestionOK
<1>4. ASSUME NEW s \in Sessions, NEW k \in Keys, NEW i \in Inputs, CreateRun(s, k, i)
      PROVE  TypeInv'
  <2> DEFINE e == NewEvent("RUN_CREATED", <<s, k>>, NoQuestion, "NONE", "QUEUED")
             x == [kind |-> "RUN_REQUEST", run |-> <<s, k>>, question |-> NoQuestion,
                   actor |-> sessions[s].requester]
  <2>1. <<e>> \in Seq(AgentEvent)
    BY RunIdsAre DEF NewEvent, AgentEvent, AgentRunStatus, ACTIVE
  <2>2. events' \in [Sessions -> Seq(AgentEvent)]
    BY <1>4, <2>1, EventsTyped DEF CreateRun, InsertRun
  <2>3. x \in AgentSessionInbox
    BY <1>4, RunIdsAre DEF CreateRun, TypeInv, TypeOK, AgentSession, AgentSessionInbox
  <2>4. inbox' \in [Sessions -> Seq(AgentSessionInbox)]
    BY <1>4, <2>3, InboxTyped DEF CreateRun, InsertRun
  <2>5. runs' \in [RunIds -> AgentRun]
    BY <1>4, RunIdsAre
       DEF CreateRun, InsertRun, TypeInv, TypeOK, AgentRun, AgentRunStatus, ACTIVE
  <2> QED BY <1>4, <2>2, <2>4, <2>5 DEF CreateRun, InsertRun, TypeInv, TypeOK, Asked, QuestionOK
<1>5. ASSUME NEW r \in RunIds, NEW target \in AgentRunStatus, TransitionRun(r, target)
      PROVE  TypeInv'
  <2>1. runs' \in [RunIds -> AgentRun]
    BY <1>5, MovedTyped DEF TransitionRun
  <2>2. /\ questions' \in [Questions -> PendingQuestion]
        /\ \A q \in Questions : QuestionOK(q)'
    BY <1>5, CloseTyped DEF TransitionRun
  <2>3. events' \in [Sessions -> Seq(AgentEvent)]
    BY <1>5, StatusChangedTyped, EventsTyped, RunIdsAre DEF TransitionRun
  <2> QED BY <1>5, <2>1, <2>2, <2>3 DEF TransitionRun, TypeInv, TypeOK
<1>6. ASSUME NEW r \in RunIds, NEW q \in Questions, NEW p \in Principals,
             AskQuestion(r, q, p)
      PROVE  TypeInv'
  <2> DEFINE e == NewEvent("QUESTION_ASKED", r, q, "NONE", "NONE")
  <2>0. "WAITING_USER" \in AgentRunStatus
    BY DEF AgentRunStatus, ACTIVE
  <2>1. runs' \in [RunIds -> AgentRun]
    BY <1>6, <2>0, MovedTyped DEF AskQuestion
  <2>2. /\ questions' \in [Questions -> PendingQuestion]
        /\ \A x \in Questions : QuestionOK(x)'
    BY <1>6 DEF AskQuestion, TypeInv, TypeOK, PendingQuestion, PendingQuestionStatus, Asked, QuestionOK
  <2>3. e \in AgentEvent
    BY DEF NewEvent, AgentEvent
  <2>4. events' \in [Sessions -> Seq(AgentEvent)]
    <3>1. <<e, StatusChanged(r, "WAITING_USER")>> \in Seq(AgentEvent)
      BY <2>0, <2>3, StatusChangedTyped
    <3>2. AppendEvents(r[1], <<e, StatusChanged(r, "WAITING_USER")>>)
      BY <1>6 DEF AskQuestion
    <3> QED BY <3>1, <3>2, EventsTyped, RunIdsAre
  <2> QED BY <1>6, <2>1, <2>2, <2>4 DEF AskQuestion, TypeInv, TypeOK
<1>7. ASSUME NEW q \in Questions, QuestionFallsDue(q) PROVE TypeInv'
  BY <1>7 DEF QuestionFallsDue, TypeInv, TypeOK, PendingQuestion, Asked, QuestionOK
<1>8. ASSUME NEW q \in Questions, NEW p \in Principals, Answerable(q),
             ConsumeQuestionAnswer(q, p)
      PROVE  TypeInv'
  <2> DEFINE r == questions[q].run
             e == NewEvent("QUESTION_ANSWERED", r, q, "NONE", "NONE")
             x == [kind |-> "QUESTION_ANSWER", run |-> r, question |-> q, actor |-> p]
  <2>0. r \in RunIds /\ "QUEUED" \in AgentRunStatus
    BY <1>8 DEF Answerable, TypeInv, Asked, QuestionOK, AgentRunStatus, ACTIVE
  <2>1. runs' \in [RunIds -> AgentRun]
    BY <1>8, <2>0, MovedTyped DEF ConsumeQuestionAnswer
  <2>2. inbox[r[1]] \in Seq(AgentSessionInbox)
    BY <2>0, RunIdsAre DEF TypeInv, TypeOK
  <2>3. /\ questions' \in [Questions -> PendingQuestion]
        /\ \A y \in Questions : QuestionOK(y)'
    <3>1. questions \in [Questions -> PendingQuestion] /\ Asked(q)
      BY <1>8 DEF TypeInv, TypeOK, Answerable, Asked
    <3>2. Len(inbox[r[1]]) + 1 \in Nat
      BY <2>2
    <3>3. questions' = [questions EXCEPT ![q] = Answered(questions[q], p, Len(inbox[r[1]]) + 1)]
      BY <1>8, <3>1 DEF ConsumeQuestionAnswer
    <3> DEFINE row == Answered(questions[q], p, Len(inbox[r[1]]) + 1)
    <3>4. /\ row \in PendingQuestion /\ row.run = questions[q].run
          /\ row.allowed = questions[q].allowed /\ row.open_slot = 0 /\ row.status = "ANSWERED"
          /\ row.answered_by = p
      BY <3>1, <3>2, AnsweredRow
    <3> HIDE DEF row
    <3>5. questions' = [questions EXCEPT ![q] = row]
      BY <3>3 DEF row
    <3>6. /\ questions' \in [Questions -> PendingQuestion] /\ questions'[q] = row
          /\ \A y \in Questions : y # q => questions'[y] = questions[y]
      BY <3>1, <3>4, <3>5
    <3>7. \A y \in Questions : QuestionOK(y)
      BY DEF TypeInv
    <3>8. QuestionOK(q)'
      BY <3>1, <3>4, <3>6, <3>7 DEF QuestionOK, Asked
    <3>9. \A y \in Questions : y # q => QuestionOK(y)'
      BY <3>6, <3>7 DEF QuestionOK, Asked
    <3> QED BY <3>6, <3>8, <3>9
  <2>4. e \in AgentEvent
    BY <2>0 DEF NewEvent, AgentEvent
  <2>5. events' \in [Sessions -> Seq(AgentEvent)]
    <3>1. <<e, StatusChanged(r, "QUEUED")>> \in Seq(AgentEvent)
      BY <2>0, <2>4, StatusChangedTyped
    <3>2. AppendEvents(r[1], <<e, StatusChanged(r, "QUEUED")>>)
      BY <1>8 DEF ConsumeQuestionAnswer
    <3> QED BY <2>0, <3>1, <3>2, EventsTyped, RunIdsAre
  <2>6. x \in AgentSessionInbox
    BY <2>0 DEF AgentSessionInbox
  <2>7. inbox' \in [Sessions -> Seq(AgentSessionInbox)]
    BY <1>8, <2>0, <2>6, InboxTyped, RunIdsAre DEF ConsumeQuestionAnswer
  <2> QED BY <1>8, <2>1, <2>3, <2>5, <2>7 DEF ConsumeQuestionAnswer, TypeInv, TypeOK
<1>9. ASSUME NEW q \in Questions, AnswerQuestion(q) PROVE TypeInv'
  <2>1. questions[q].allowed \in Principals
    BY <1>9 DEF AnswerQuestion, Answerable, TypeInv, Asked, QuestionOK
  <2> QED BY <1>8, <1>9, <2>1 DEF AnswerQuestion
<1>10. CASE UNCHANGED vars
  BY <1>10 DEF vars, TypeInv, TypeOK, Asked, QuestionOK
<1>11. CASE DefinitionStep \/ SessionStep
  BY <1>1, <1>2, <1>3, <1>11 DEF DefinitionStep, SessionStep
<1>12. CASE RunStep
  BY <1>4, <1>5, <1>6, <1>12 DEF RunStep
<1>13. CASE QuestionStep
  BY <1>7, <1>8, <1>9, <1>13 DEF QuestionStep, OverrideAnswerQuestion
<1> QED BY <1>10, <1>11, <1>12, <1>13, ViewsOnlyRead DEF Next

LEMMA TypeInvariant == Spec => []TypeInv
  BY TypeInit, TypeStep, PTL DEF Spec

\* Rows, logs and the view keep their types whatever is requested, answered and moved
\* (the operations of task_agent/service.py).
THEOREM TypeCorrect == Spec => []TypeOK
<1>1. TypeInv => TypeOK
  BY DEF TypeInv
<1> QED BY <1>1, TypeInvariant, PTL

-----------------------------------------------------------------------------
(* The slot of a session and the question of a run.                         *)

Slots ==
  /\ \A r \in RunIds : (runs[r].active_slot = 1) <=> (runs[r].status \in ACTIVE)
  /\ \A a, b \in RunIds :
       a[1] = b[1] /\ runs[a].active_slot = 1 /\ runs[b].active_slot = 1 => a = b

LEMMA SlotsAre == OneActiveRun <=> Slots
<1>1. ASSUME OneActiveRun PROVE Slots
  BY <1>1, RunIdsAre DEF OneActiveRun, Slots, ActiveRuns
<1>2. ASSUME Slots PROVE OneActiveRun
  BY <1>2, RunIdsAre DEF OneActiveRun, Slots, ActiveRuns
<1> QED BY <1>1, <1>2

Waits(q) ==
  /\ (questions[q].open_slot = 1) <=> (questions[q].status = "PENDING")
  /\ questions[q].status = "PENDING" =>
       /\ runs[questions[q].run].status = "WAITING_USER"
       /\ \A x \in Questions :
            (questions[x].run = questions[q].run /\ questions[x].open_slot = 1) <=> (x = q)

LEMMA WaitsIs == OpenQuestionWaits <=> \A q \in Questions : Waits(q)
<1>1. ASSUME NEW q \in Questions
      PROVE  (OpenQuestions(questions[q].run) = {q}) <=>
             \A x \in Questions :
               (questions[x].run = questions[q].run /\ questions[x].open_slot = 1) <=> (x = q)
  BY DEF OpenQuestions
<1> QED BY <1>1 DEF OpenQuestionWaits, Waits

BusyInv == TypeInv /\ Slots /\ \A q \in Questions : Waits(q)

LEMMA StatusesDisjoint ==
  /\ AgentRunStatus = ACTIVE \cup TERMINAL /\ ACTIVE \cap TERMINAL = {}
  /\ "NONE" \notin AgentRunStatus
  /\ \A st \in AgentRunStatus : \A target \in ALLOWED_TRANSITIONS[st] :
       st \in ACTIVE /\ target \in AgentRunStatus
       /\ (st = "WAITING_USER" => target \in TERMINAL \cup {"QUEUED"})
<1>1. AgentRunStatus = ACTIVE \cup TERMINAL /\ ACTIVE \cap TERMINAL = {}
      /\ "NONE" \notin AgentRunStatus
  BY DEF AgentRunStatus, ACTIVE, TERMINAL
<1>2. ASSUME NEW st \in AgentRunStatus
      PROVE  \A target \in ALLOWED_TRANSITIONS[st] :
               st \in ACTIVE /\ target \in AgentRunStatus
               /\ (st = "WAITING_USER" => target \in TERMINAL \cup {"QUEUED"})
  <2>1. CASE st \in ACTIVE
    BY <2>1 DEF AgentRunStatus, ACTIVE, TERMINAL, ALLOWED_TRANSITIONS
  <2>2. CASE st \in TERMINAL
    BY <2>2 DEF AgentRunStatus, ACTIVE, TERMINAL, ALLOWED_TRANSITIONS
  <2> QED BY <1>1, <2>1, <2>2
<1> QED BY <1>1, <1>2

\* Moving a run that has not ended keeps the slots right.
LEMMA MoveSlots ==
  ASSUME BusyInv, NEW r \in RunIds, NEW target \in AgentRunStatus,
         runs[r].status \in ACTIVE, runs' = Moved(r, target)
  PROVE  Slots'
<1>1. \A o \in RunIds : runs'[o].active_slot = 1 => runs[o].active_slot = 1
  BY MovedTyped DEF BusyInv, Slots
<1>2. \A o \in RunIds : (runs'[o].active_slot = 1) <=> (runs'[o].status \in ACTIVE)
  BY MovedTyped, StatusesDisjoint DEF BusyInv, Slots
<1> QED BY <1>1, <1>2 DEF BusyInv, Slots

LEMMA BusyFrame ==
  ASSUME Slots, \A q \in Questions : Waits(q), UNCHANGED <<runs, questions>>
  PROVE  Slots' /\ \A q \in Questions : Waits(q)'
BY DEF Slots, Waits

LEMMA BusyInit == Init => BusyInv
  BY TypeInit, StatusesDisjoint DEF Init, BusyInv, Slots, Waits

LEMMA BusyStep == BusyInv /\ [Next]_vars => BusyInv'
<1> SUFFICES ASSUME BusyInv, [Next]_vars PROVE Slots' /\ \A x \in Questions : Waits(x)'
  BY TypeStep DEF BusyInv
<1> USE DEF BusyInv
<1>0. runs \in [RunIds -> AgentRun] /\ questions \in [Questions -> PendingQuestion]
  BY DEF TypeInv, TypeOK
<1>1. CASE DefinitionStep \/ SessionStep
  BY <1>1, BusyFrame
     DEF DefinitionStep, SessionStep, CreateDefinition, PublishVersion, CreateSession
<1>2. ASSUME NEW s \in Sessions, NEW k \in Keys, NEW i \in Inputs, CreateRun(s, k, i)
      PROVE  Slots' /\ \A x \in Questions : Waits(x)'
  <2> DEFINE r == <<s, k>>
  <2>1. /\ r \in RunIds /\ r[1] = s /\ runs[r].status = "NONE" /\ UNCHANGED questions
        /\ runs' = [runs EXCEPT ![r] = [status |-> "QUEUED", active_slot |-> 1, input |-> i]]
        /\ \A o \in RunIds : o[1] = s => runs[o].active_slot # 1
    BY <1>2, RunIdsAre DEF CreateRun, InsertRun, ActiveRuns
  <2>2. "QUEUED" \in ACTIVE
    BY DEF ACTIVE
  <2> HIDE DEF r
  <2>3. Slots'
    BY <1>0, <2>1, <2>2 DEF Slots
  <2>4. \A q \in Questions : questions[q].status = "PENDING" => questions[q].run # r
    BY <2>1 DEF Waits
  <2>5. \A x \in Questions : Waits(x)'
    BY <1>0, <2>1, <2>4 DEF Waits, OpenQuestions, TypeInv, QuestionOK, Asked
  <2> QED BY <2>3, <2>5
<1>3. ASSUME NEW r \in RunIds, NEW target \in AgentRunStatus, TransitionRun(r, target)
      PROVE  Slots' /\ \A x \in Questions : Waits(x)'
  <2>1. /\ runs[r].status \in ACTIVE
        /\ runs[r].status = "WAITING_USER" => \/ target \in TERMINAL
                                              \/ OpenQuestions(r) = {}
    BY <1>0, <1>3, StatusesDisjoint DEF TransitionRun, AgentRun
  <2>2. runs' = Moved(r, target) /\ questions' = CloseOpenQuestions(r, target)
    BY <1>3 DEF TransitionRun
  <2>3. Slots'
    BY <2>1, <2>2, MoveSlots
  <2>4. ASSUME NEW q \in Questions PROVE Waits(q)'
    <3>1. CASE target \in TERMINAL /\ q \in OpenQuestions(r)
      BY <2>2, <3>1, CloseTyped DEF Waits
    <3>2. CASE ~(target \in TERMINAL /\ q \in OpenQuestions(r))
      <4>1. questions'[q] = questions[q]
        BY <2>2, <3>2, CloseTyped
      <4>2. CASE questions[q].status # "PENDING"
        BY <4>1, <4>2 DEF Waits
      <4>3. CASE questions[q].status = "PENDING"
        <5>1. PICK o \in RunIds : o = questions[q].run
          BY <4>3 DEF TypeInv, QuestionOK, Asked
        <5>2. /\ questions[q].open_slot = 1 /\ runs[o].status = "WAITING_USER"
              /\ \A x \in Questions :
                   (questions[x].run = o /\ questions[x].open_slot = 1) <=> (x = q)
          BY <4>3, <5>1 DEF Waits
        <5>3. o # r
          BY <2>1, <3>2, <5>1, <5>2 DEF OpenQuestions
        <5>4. runs'[o].status = "WAITING_USER"
          BY <2>2, <5>2, <5>3, MovedTyped
        <5>5. \A x \in Questions :
                (questions'[x].run = o /\ questions'[x].open_slot = 1) <=> (x = q)
          BY <2>2, <5>2, <5>3, CloseTyped DEF OpenQuestions
        <5> QED BY <4>1, <4>3, <5>1, <5>2, <5>4, <5>5 DEF Waits
      <4> QED BY <4>2, <4>3
    <3> QED BY <3>1, <3>2
  <2> QED BY <2>3, <2>4
<1>4. ASSUME NEW r \in RunIds, NEW q \in Questions, NEW p \in Principals,
             AskQuestion(r, q, p)
      PROVE  Slots' /\ \A x \in Questions : Waits(x)'
  <2>0. "WAITING_USER" \in AgentRunStatus /\ "RUNNING" \in ACTIVE
    BY DEF AgentRunStatus, ACTIVE
  <2>1. /\ runs' = Moved(r, "WAITING_USER") /\ runs[r].status = "RUNNING"
        /\ OpenQuestions(r) = {} /\ questions[q].status = "NONE"
        /\ questions'[q].run = r /\ questions'[q].status = "PENDING"
        /\ questions'[q].open_slot = 1
        /\ \A x \in Questions : x # q => questions'[x] = questions[x]
    BY <1>0, <1>4 DEF AskQuestion
  <2>2. Slots'
    BY <2>0, <2>1, MoveSlots
  <2>4. ASSUME NEW x \in Questions, x # q PROVE Waits(x)'
    <3>1. CASE questions[x].status # "PENDING"
      BY <2>1, <2>4, <3>1 DEF Waits
    <3>2. CASE questions[x].status = "PENDING"
      <4>1. PICK o \in RunIds : o = questions[x].run
        BY <3>2 DEF TypeInv, QuestionOK, Asked
      <4>2. /\ questions[x].open_slot = 1 /\ runs[o].status = "WAITING_USER"
            /\ \A y \in Questions :
                 (questions[y].run = o /\ questions[y].open_slot = 1) <=> (y = x)
        BY <3>2, <4>1 DEF Waits
      <4>3. o # r
        BY <2>1, <4>2
      <4>4. runs'[o].status = "WAITING_USER"
        BY <2>0, <2>1, <4>2, <4>3, MovedTyped
      <4>5. \A y \in Questions :
              (questions'[y].run = o /\ questions'[y].open_slot = 1) <=> (y = x)
        BY <2>1, <2>4, <4>2, <4>3
      <4> QED BY <2>1, <2>4, <3>2, <4>1, <4>2, <4>4, <4>5 DEF Waits
    <3> QED BY <3>1, <3>2
  <2>5. \A x \in Questions : Waits(x)'
    <3>1. \A x \in Questions :
            (questions'[x].run = r /\ questions'[x].open_slot = 1) <=> (x = q)
      BY <2>1 DEF OpenQuestions
    <3>2. Waits(q)'
      BY <2>0, <2>1, <3>1, MovedTyped DEF Waits
    <3> QED BY <2>4, <3>2
  <2> QED BY <2>2, <2>5
<1>5. ASSUME NEW q \in Questions, QuestionFallsDue(q)
      PROVE  Slots' /\ \A x \in Questions : Waits(x)'
  <2>1. UNCHANGED runs /\ \A x \in Questions : /\ questions'[x].run = questions[x].run
                                             /\ questions'[x].status = questions[x].status
                                             /\ questions'[x].open_slot = questions[x].open_slot
    BY <1>0, <1>5 DEF QuestionFallsDue, PendingQuestion
  <2> QED BY <2>1 DEF Slots, Waits
<1>6. ASSUME NEW q \in Questions, NEW p \in Principals, Answerable(q),
             ConsumeQuestionAnswer(q, p)
      PROVE  Slots' /\ \A x \in Questions : Waits(x)'
  <2> DEFINE r == questions[q].run
  <2>0. "QUEUED" \in AgentRunStatus /\ "WAITING_USER" \in ACTIVE
    BY DEF AgentRunStatus, ACTIVE
  <2>1. /\ r \in RunIds /\ runs[r].status = "WAITING_USER" /\ OpenQuestions(r) = {q}
        /\ runs' = Moved(r, "QUEUED")
    BY <1>6 DEF Answerable, ConsumeQuestionAnswer, Waits, OpenQuestions, TypeInv, QuestionOK, Asked
  <2>2. Slots'
    BY <2>0, <2>1, MoveSlots
  <2>3. /\ questions'[q].status = "ANSWERED" /\ questions'[q].open_slot = 0
        /\ questions'[q].run = r
        /\ \A x \in Questions : x # q => questions'[x] = questions[x]
    <3>1. inbox[r[1]] \in Seq(AgentSessionInbox) /\ Len(inbox[r[1]]) + 1 \in Nat
      BY <2>1, RunIdsAre DEF TypeInv, TypeOK
    <3> QED BY <1>0, <1>6, <3>1, AnsweredRow DEF ConsumeQuestionAnswer
  <2>4. ASSUME NEW x \in Questions, x # q PROVE Waits(x)'
    <3>1. CASE questions[x].status # "PENDING"
      BY <2>3, <2>4, <3>1 DEF Waits
    <3>2. CASE questions[x].status = "PENDING"
      <4>1. PICK o \in RunIds : o = questions[x].run
        BY <3>2 DEF TypeInv, QuestionOK, Asked
      <4>2. /\ questions[x].open_slot = 1 /\ runs[o].status = "WAITING_USER"
            /\ \A y \in Questions :
                 (questions[y].run = o /\ questions[y].open_slot = 1) <=> (y = x)
        BY <3>2, <4>1 DEF Waits
      <4>3. o # r
        BY <2>1, <2>4, <4>2 DEF OpenQuestions
      <4>4. runs'[o].status = "WAITING_USER"
        BY <2>0, <2>1, <4>2, <4>3, MovedTyped
      <4>5. \A y \in Questions :
              (questions'[y].run = o /\ questions'[y].open_slot = 1) <=> (y = x)
        BY <2>3, <2>4, <4>2, <4>3
      <4> QED BY <2>3, <2>4, <3>2, <4>1, <4>2, <4>4, <4>5 DEF Waits
    <3> QED BY <3>1, <3>2
  <2>5. \A x \in Questions : Waits(x)'
    <3>1. Waits(q)'
      BY <2>3 DEF Waits
    <3> QED BY <2>4, <3>1
  <2> QED BY <2>2, <2>5
<1>7. ASSUME NEW q \in Questions, AnswerQuestion(q)
      PROVE  Slots' /\ \A x \in Questions : Waits(x)'
  <2>1. questions[q].allowed \in Principals
    BY <1>7 DEF AnswerQuestion, Answerable, TypeInv, QuestionOK, Asked
  <2> QED BY <1>6, <1>7, <2>1 DEF AnswerQuestion
<1>8. CASE ViewStep \/ UNCHANGED vars
  BY <1>8, ViewsOnlyRead, BusyFrame DEF vars
<1>9. CASE RunStep
  BY <1>2, <1>3, <1>4, <1>9 DEF RunStep
<1>10. CASE QuestionStep
  BY <1>5, <1>6, <1>7, <1>10 DEF QuestionStep, OverrideAnswerQuestion
<1> QED BY <1>1, <1>8, <1>9, <1>10 DEF Next

LEMMA BusyInvariant == Spec => []BusyInv
  BY BusyInit, BusyStep, PTL DEF Spec

\* A session works on one run at a time: create_run refuses a second run while the slot
\* is taken, and _transition_locked frees the slot when the run ends and only then.
THEOREM OneRunAtATime == Spec => []OneActiveRun
<1>1. BusyInv => OneActiveRun
  BY SlotsAre DEF BusyInv
<1> QED BY <1>1, BusyInvariant, PTL

\* An open question is the only one of a run that waits for the user: transition_run
\* does not queue such a run again, and ending it closes the question.
THEOREM NoQuestionLeftBehind == Spec => []OpenQuestionWaits
<1>1. BusyInv => OpenQuestionWaits
  BY WaitsIs DEF BusyInv
<1> QED BY <1>1, BusyInvariant, PTL

-----------------------------------------------------------------------------
(* What has ended stays; what a log holds is only added to.                 *)

LEMMA PrefixKept ==
  ASSUME NEW S, NEW log \in Seq(S), NEW more \in Seq(S)
  PROVE  SubSeq(log \o more, 1, Len(log)) = log
<1>1. CASE Len(log) = 0
  BY <1>1, SubSeqEmpty, EmptySeq
<1>2. CASE Len(log) # 0
  <2>1. 1 \in 1..Len(log) /\ Len(log) \in 1..Len(log)
    BY <1>2
  <2>2. SubSeq(log \o more, 1, Len(log)) = SubSeq(log, 1, Len(log))
    BY <2>1, SubSeqOfConcat1
  <2> QED BY <2>2, SubSeqFull
<1> QED BY <1>1, <1>2

RunsEnd == \A r \in RunIds : runs[r].status \in TERMINAL => runs'[r] = runs[r]
QuestionsEnd ==
  \A q \in Questions :
    questions[q].status \notin {"NONE", "PENDING"} => questions'[q] = questions[q]
EventsGrow == \A s \in Sessions : SubSeq(events'[s], 1, Len(events[s])) = events[s]
InboxGrows == \A s \in Sessions : SubSeq(inbox'[s], 1, Len(inbox[s])) = inbox[s]

LEMMA EventsAppended ==
  ASSUME TypeInv, NEW s \in Sessions, NEW es \in Seq(AgentEvent), AppendEvents(s, es)
  PROVE  EventsGrow
<1>1. ASSUME NEW o \in Sessions PROVE SubSeq(events'[o], 1, Len(events[o])) = events[o]
  <2>1. events[o] \in Seq(AgentEvent) /\ events \in [Sessions -> Seq(AgentEvent)]
    BY DEF TypeInv, TypeOK
  <2>2. CASE o = s
    BY <2>1, <2>2, PrefixKept DEF AppendEvents
  <2>3. CASE o # s
    BY <2>1, <2>3, SubSeqFull DEF AppendEvents
  <2> QED BY <2>2, <2>3
<1> QED BY <1>1 DEF EventsGrow

LEMMA InboxAppended ==
  ASSUME TypeInv, NEW s \in Sessions, NEW x \in AgentSessionInbox, AppendInbox(s, x)
  PROVE  InboxGrows
<1>1. ASSUME NEW o \in Sessions PROVE SubSeq(inbox'[o], 1, Len(inbox[o])) = inbox[o]
  <2>1. inbox[o] \in Seq(AgentSessionInbox) /\ inbox \in [Sessions -> Seq(AgentSessionInbox)]
    BY DEF TypeInv, TypeOK
  <2>2. CASE o = s
    <3>1. inbox'[o] = inbox[o] \o <<x>>
      BY <2>1, <2>2 DEF AppendInbox
    <3> QED BY <2>1, <3>1, PrefixKept
  <2>3. CASE o # s
    BY <2>1, <2>3, SubSeqFull DEF AppendInbox
  <2> QED BY <2>2, <2>3
<1> QED BY <1>1 DEF InboxGrows

LEMMA LogsKept ==
  ASSUME TypeInv
  PROVE  (UNCHANGED events => EventsGrow) /\ (UNCHANGED inbox => InboxGrows)
<1>1. ASSUME NEW s \in Sessions
      PROVE  /\ SubSeq(events[s], 1, Len(events[s])) = events[s]
             /\ SubSeq(inbox[s], 1, Len(inbox[s])) = inbox[s]
  <2>1. events[s] \in Seq(AgentEvent) /\ inbox[s] \in Seq(AgentSessionInbox)
    BY DEF TypeInv, TypeOK
  <2> QED BY <2>1, SubSeqFull
<1> QED BY <1>1 DEF EventsGrow, InboxGrows

\* The events and the inbox item each operation appends are of their types.
LEMMA AppendedTyped ==
  ASSUME BusyInv
  PROVE  /\ <<NewEvent("SESSION_CREATED", NoRun, NoQuestion, "NONE", "NONE")>> \in Seq(AgentEvent)
         /\ \A r \in RunIds :
              /\ <<NewEvent("RUN_CREATED", r, NoQuestion, "NONE", "QUEUED")>> \in Seq(AgentEvent)
              /\ \A target \in AgentRunStatus : StatusChanged(r, target) \in AgentEvent
              /\ \A q \in Questions :
                   /\ NewEvent("QUESTION_ASKED", r, q, "NONE", "NONE") \in AgentEvent
                   /\ NewEvent("QUESTION_ANSWERED", r, q, "NONE", "NONE") \in AgentEvent
                   /\ \A p \in Principals :
                        [kind |-> "QUESTION_ANSWER", run |-> r, question |-> q, actor |-> p]
                          \in AgentSessionInbox
              /\ sessions[r[1]].version # 0 =>
                   [kind |-> "RUN_REQUEST", run |-> r, question |-> NoQuestion,
                    actor |-> sessions[r[1]].requester] \in AgentSessionInbox
<1>1. <<NewEvent("SESSION_CREATED", NoRun, NoQuestion, "NONE", "NONE")>> \in Seq(AgentEvent)
  BY DEF NewEvent, AgentEvent
<1>2. ASSUME NEW r \in RunIds
      PROVE  /\ <<NewEvent("RUN_CREATED", r, NoQuestion, "NONE", "QUEUED")>> \in Seq(AgentEvent)
             /\ \A q \in Questions :
                  /\ NewEvent("QUESTION_ASKED", r, q, "NONE", "NONE") \in AgentEvent
                  /\ NewEvent("QUESTION_ANSWERED", r, q, "NONE", "NONE") \in AgentEvent
                  /\ \A p \in Principals :
                       [kind |-> "QUESTION_ANSWER", run |-> r, question |-> q, actor |-> p]
                         \in AgentSessionInbox
  BY DEF NewEvent, AgentEvent, AgentSessionInbox, AgentRunStatus, ACTIVE
<1>3. ASSUME NEW r \in RunIds, sessions[r[1]].version # 0
      PROVE  [kind |-> "RUN_REQUEST", run |-> r, question |-> NoQuestion,
              actor |-> sessions[r[1]].requester] \in AgentSessionInbox
  BY <1>3, RunIdsAre DEF BusyInv, TypeInv, AgentSessionInbox
<1> QED BY <1>1, <1>2, <1>3, StatusChangedTyped DEF BusyInv

LEMMA EndStep == BusyInv /\ [Next]_vars => RunsEnd /\ QuestionsEnd /\ EventsGrow /\ InboxGrows
<1> SUFFICES ASSUME BusyInv, [Next]_vars
             PROVE  RunsEnd /\ QuestionsEnd /\ EventsGrow /\ InboxGrows
  OBVIOUS
<1>0. /\ TypeInv /\ runs \in [RunIds -> AgentRun]
      /\ questions \in [Questions -> PendingQuestion]
  BY DEF BusyInv, TypeInv, TypeOK
<1>1. CASE DefinitionStep
  BY <1>0, <1>1, LogsKept
     DEF DefinitionStep, CreateDefinition, PublishVersion, RunsEnd, QuestionsEnd
<1>2. CASE SessionStep
  <2>1. PICK s \in Sessions, d \in Definitions, p \in Principals :
          \E n \in 1..MaxVersions : CreateSession(s, d, n, p)
    BY <1>2 DEF SessionStep
  <2>2. /\ UNCHANGED <<runs, questions, inbox>>
        /\ AppendEvents(s, <<NewEvent("SESSION_CREATED", NoRun, NoQuestion, "NONE", "NONE")>>)
    BY <2>1 DEF CreateSession
  <2> QED BY <1>0, <2>2, LogsKept, EventsAppended, AppendedTyped DEF RunsEnd, QuestionsEnd
<1>3. ASSUME NEW s \in Sessions, NEW k \in Keys, NEW i \in Inputs, CreateRun(s, k, i)
      PROVE  RunsEnd /\ QuestionsEnd /\ EventsGrow /\ InboxGrows
  <2>1. <<s, k>> \in RunIds /\ <<s, k>>[1] = s
    BY RunIdsAre
  <2>2. EventsGrow
    BY <1>0, <1>3, <2>1, EventsAppended, AppendedTyped DEF CreateRun, InsertRun
  <2>3. InboxGrows
    <3> DEFINE x == [kind |-> "RUN_REQUEST", run |-> <<s, k>>, question |-> NoQuestion,
                     actor |-> sessions[s].requester]
    <3>1. x \in AgentSessionInbox
      BY <1>3, <2>1, AppendedTyped DEF CreateRun
    <3>2. AppendInbox(s, x)
      BY <1>3 DEF CreateRun, InsertRun
    <3> QED BY <1>0, <3>1, <3>2, InboxAppended
  <2>4. RunsEnd /\ QuestionsEnd
    BY <1>0, <1>3, <2>1 DEF CreateRun, InsertRun, RunsEnd, QuestionsEnd, TERMINAL
  <2> QED BY <2>2, <2>3, <2>4
<1>4. ASSUME NEW r \in RunIds, NEW target \in AgentRunStatus, TransitionRun(r, target)
      PROVE  RunsEnd /\ QuestionsEnd /\ EventsGrow /\ InboxGrows
  <2>1. runs[r].status \in ACTIVE
    BY <1>0, <1>4, StatusesDisjoint DEF TransitionRun, AgentRun
  <2>2. RunsEnd
    BY <1>0, <1>4, <2>1, MovedTyped, StatusesDisjoint DEF TransitionRun, RunsEnd
  <2>3. QuestionsEnd
    BY <1>0, <1>4, CloseTyped DEF TransitionRun, QuestionsEnd, BusyInv, Waits, OpenQuestions
  <2>4. EventsGrow /\ InboxGrows
    <3>1. StatusChanged(r, target) \in AgentEvent
      BY <1>0, StatusChangedTyped
    <3>2. <<StatusChanged(r, target)>> \in Seq(AgentEvent)
      BY <3>1
    <3>3. AppendEvents(r[1], <<StatusChanged(r, target)>>) /\ UNCHANGED inbox
      BY <1>4 DEF TransitionRun
    <3> QED BY <1>0, <3>2, <3>3, LogsKept, EventsAppended, RunIdsAre
  <2> QED BY <2>2, <2>3, <2>4
<1>5. ASSUME NEW r \in RunIds, NEW q \in Questions, NEW p \in Principals,
             AskQuestion(r, q, p)
      PROVE  RunsEnd /\ QuestionsEnd /\ EventsGrow /\ InboxGrows
  <2>1. "WAITING_USER" \in AgentRunStatus /\ "RUNNING" \notin TERMINAL
    BY DEF AgentRunStatus, ACTIVE, TERMINAL
  <2>2. RunsEnd
    BY <1>0, <1>5, <2>1, MovedTyped DEF AskQuestion, RunsEnd
  <2>3. QuestionsEnd
    BY <1>0, <1>5 DEF AskQuestion, QuestionsEnd
  <2>4. <<NewEvent("QUESTION_ASKED", r, q, "NONE", "NONE"), StatusChanged(r, "WAITING_USER")>>
          \in Seq(AgentEvent)
    <3>1. NewEvent("QUESTION_ASKED", r, q, "NONE", "NONE") \in AgentEvent
      BY AppendedTyped
    <3>2. StatusChanged(r, "WAITING_USER") \in AgentEvent
      BY <1>0, <2>1, StatusChangedTyped
    <3> QED BY <3>1, <3>2
  <2>5. EventsGrow /\ InboxGrows
    BY <1>0, <1>5, <2>4, LogsKept, EventsAppended, RunIdsAre DEF AskQuestion
  <2> QED BY <2>2, <2>3, <2>5
<1>6. ASSUME NEW q \in Questions, QuestionFallsDue(q)
      PROVE  RunsEnd /\ QuestionsEnd /\ EventsGrow /\ InboxGrows
  BY <1>0, <1>6, LogsKept DEF QuestionFallsDue, RunsEnd, QuestionsEnd
<1>7. ASSUME NEW q \in Questions, NEW p \in Principals, Answerable(q),
             ConsumeQuestionAnswer(q, p)
      PROVE  RunsEnd /\ QuestionsEnd /\ EventsGrow /\ InboxGrows
  <2> DEFINE r == questions[q].run
             x == [kind |-> "QUESTION_ANSWER", run |-> r, question |-> q, actor |-> p]
             es == <<NewEvent("QUESTION_ANSWERED", r, q, "NONE", "NONE"),
                     StatusChanged(r, "QUEUED")>>
  <2>1. /\ "QUEUED" \in AgentRunStatus /\ "WAITING_USER" \notin TERMINAL
        /\ r \in RunIds /\ r[1] \in Sessions /\ runs[r].status = "WAITING_USER"
    BY <1>0, <1>7, RunIdsAre
       DEF AgentRunStatus, ACTIVE, TERMINAL, Answerable, TypeInv, QuestionOK, Asked
  <2>2. RunsEnd
    BY <1>0, <1>7, <2>1, MovedTyped DEF ConsumeQuestionAnswer, RunsEnd
  <2>3. QuestionsEnd
    BY <1>0, <1>7 DEF ConsumeQuestionAnswer, Answerable, QuestionsEnd
  <2>4. es \in Seq(AgentEvent) /\ x \in AgentSessionInbox
    <3>1. NewEvent("QUESTION_ANSWERED", r, q, "NONE", "NONE") \in AgentEvent
      BY <2>1, AppendedTyped
    <3>2. StatusChanged(r, "QUEUED") \in AgentEvent
      BY <1>0, <2>1, StatusChangedTyped
    <3>3. x \in AgentSessionInbox
      BY <2>1 DEF AgentSessionInbox
    <3> QED BY <3>1, <3>2, <3>3
  <2>5. AppendEvents(r[1], es) /\ AppendInbox(r[1], x)
    BY <1>7 DEF ConsumeQuestionAnswer
  <2>6. EventsGrow /\ InboxGrows
    BY <1>0, <2>1, <2>4, <2>5, EventsAppended, InboxAppended
  <2> QED BY <2>2, <2>3, <2>6
<1>8. ASSUME NEW q \in Questions, AnswerQuestion(q)
      PROVE  RunsEnd /\ QuestionsEnd /\ EventsGrow /\ InboxGrows
  <2>1. questions[q].allowed \in Principals
    BY <1>0, <1>8 DEF AnswerQuestion, Answerable, TypeInv, QuestionOK, Asked
  <2> QED BY <1>7, <1>8, <2>1 DEF AnswerQuestion
<1>9. CASE ViewStep \/ UNCHANGED vars
  BY <1>0, <1>9, ViewsOnlyRead, LogsKept DEF vars, RunsEnd, QuestionsEnd
<1>10. CASE RunStep
  BY <1>3, <1>4, <1>5, <1>10 DEF RunStep
<1>11. CASE QuestionStep
  BY <1>6, <1>7, <1>8, <1>11 DEF QuestionStep, OverrideAnswerQuestion
<1> QED BY <1>1, <1>2, <1>9, <1>10, <1>11 DEF Next

\* A run that ended is not moved again, a question that closed is not opened or answered
\* again, and no event or inbox item is lost or rewritten, whatever late answers,
\* overrides and transitions arrive.
THEOREM EndedForGood == Spec => EndedStays
<1>1. BusyInv /\ [Next]_vars =>
        [/\ \A r \in RunIds : runs[r].status \in TERMINAL => runs'[r] = runs[r]
         /\ \A q \in Questions :
              questions[q].status \notin {"NONE", "PENDING"} => questions'[q] = questions[q]
         /\ \A s \in Sessions :
              /\ SubSeq(events'[s], 1, Len(events[s])) = events[s]
              /\ SubSeq(inbox'[s], 1, Len(inbox[s])) = inbox[s]]_vars
  BY EndStep DEF RunsEnd, QuestionsEnd, EventsGrow, InboxGrows
<1> QED BY <1>1, BusyInvariant, PTL DEF Spec, EndedStays

-----------------------------------------------------------------------------
(* The story a log tells of one run, as the log grows by one event.         *)

Tells(log, r, st) ==
  \E i \in 1..Len(log) : /\ Moves(log[i], r)
                         /\ log[i].to = st
                         /\ \A j \in (i + 1)..Len(log) : ~Moves(log[j], r)

Chained(log, r) ==
  \A j \in 1..Len(log) : Moves(log[j], r) /\ log[j].type # "RUN_CREATED" =>
    \E i \in 1..(j - 1) : /\ Moves(log[i], r)
                          /\ log[i].to = log[j].from
                          /\ \A m \in (i + 1)..(j - 1) : ~Moves(log[m], r)

CreatedOnce(log, r) ==
  \A i, j \in 1..Len(log) :
    (/\ log[i].run = r /\ log[i].type = "RUN_CREATED"
     /\ log[j].run = r /\ log[j].type = "RUN_CREATED") => i = j

Story(log, r, st) ==
  /\ st # "NONE" => Tells(log, r, st)
  /\ st = "NONE" => \A i \in 1..Len(log) : log[i].run # r
  /\ Chained(log, r)
  /\ CreatedOnce(log, r)

LEMMA Appended ==
  ASSUME NEW log \in Seq(AgentEvent), NEW e \in AgentEvent
  PROVE  /\ Append(log, e) \in Seq(AgentEvent)
         /\ Len(log) \in Nat /\ Len(Append(log, e)) = Len(log) + 1
         /\ \A i \in 1..Len(log) : Append(log, e)[i] = log[i]
         /\ Append(log, e)[Len(log) + 1] = e
BY AppendProperties

LEMMA TellsKept ==
  ASSUME NEW log \in Seq(AgentEvent), NEW e \in AgentEvent, NEW r, NEW st,
         ~Moves(e, r), Tells(log, r, st)
  PROVE  Tells(Append(log, e), r, st)
<1> DEFINE new == Append(log, e)
           n == Len(log)
<1>1. /\ n \in Nat /\ Len(new) = n + 1 /\ new[n + 1] = e
      /\ \A i \in 1..n : new[i] = log[i]
  BY Appended
<1>2. PICK i \in 1..n : /\ Moves(log[i], r) /\ log[i].to = st
                        /\ \A j \in (i + 1)..n : ~Moves(log[j], r)
  BY DEF Tells
<1> HIDE DEF new, n
<1>3. Moves(new[i], r) /\ new[i].to = st
  BY <1>1, <1>2
<1>4. ASSUME NEW j \in (i + 1)..(n + 1) PROVE ~Moves(new[j], r)
  <2>1. CASE j = n + 1
    BY <1>1, <2>1
  <2>2. CASE j # n + 1
    <3>1. j \in (i + 1)..n /\ j \in 1..n
      BY <1>1, <2>2
    <3> QED BY <1>1, <1>2, <3>1
  <2> QED BY <2>1, <2>2
<1>5. i \in 1..(n + 1)
  BY <1>1
<1>6. Tells(new, r, st)
  BY <1>1, <1>3, <1>4, <1>5 DEF Tells
<1> QED BY <1>6 DEF new

LEMMA TellsNew ==
  ASSUME NEW log \in Seq(AgentEvent), NEW e \in AgentEvent, NEW r, Moves(e, r)
  PROVE  Tells(Append(log, e), r, e.to)
<1>1. Len(log) + 1 \in 1..(Len(log) + 1) /\ ((Len(log) + 1) + 1)..(Len(log) + 1) = {}
  BY Appended
<1> QED BY <1>1, Appended DEF Tells

LEMMA ChainedKept ==
  ASSUME NEW log \in Seq(AgentEvent), NEW e \in AgentEvent, NEW r, Chained(log, r),
         Moves(e, r) /\ e.type # "RUN_CREATED" => Tells(log, r, e.from)
  PROVE  Chained(Append(log, e), r)
<1> DEFINE new == Append(log, e)
           n == Len(log)
<1>1. /\ n \in Nat /\ Len(new) = n + 1 /\ new[n + 1] = e
      /\ \A i \in 1..n : new[i] = log[i]
  BY Appended
<1>2. \A j \in 1..n : Moves(log[j], r) /\ log[j].type # "RUN_CREATED" =>
        \E i \in 1..(j - 1) : /\ Moves(log[i], r) /\ log[i].to = log[j].from
                              /\ \A m \in (i + 1)..(j - 1) : ~Moves(log[m], r)
  BY DEF Chained
<1>3. Moves(e, r) /\ e.type # "RUN_CREATED" =>
        \E i \in 1..n : /\ Moves(log[i], r) /\ log[i].to = e.from
                        /\ \A m \in (i + 1)..n : ~Moves(log[m], r)
  BY DEF Tells
<1> HIDE DEF new, n
<1>4. ASSUME NEW j \in 1..(n + 1), Moves(new[j], r), new[j].type # "RUN_CREATED"
      PROVE  \E i \in 1..(j - 1) : /\ Moves(new[i], r) /\ new[i].to = new[j].from
                                   /\ \A m \in (i + 1)..(j - 1) : ~Moves(new[m], r)
  <2>1. PICK i \in 1..(j - 1) : /\ Moves(log[i], r) /\ log[i].to = new[j].from
                                /\ \A m \in (i + 1)..(j - 1) : ~Moves(log[m], r)
    <3>1. CASE j = n + 1
      <4>1. j - 1 = n
        BY <1>1, <3>1
      <4> QED BY <1>1, <1>3, <1>4, <3>1, <4>1
    <3>2. CASE j # n + 1
      <4>1. j \in 1..n
        BY <1>1, <3>2
      <4> QED BY <1>1, <1>2, <1>4, <4>1
    <3> QED BY <3>1, <3>2
  <2>2. \A m \in 1..(j - 1) : m \in 1..n
    BY <1>1
  <2>3. \A m \in (i + 1)..(j - 1) : m \in 1..(j - 1)
    BY <1>1
  <2> QED BY <1>1, <2>1, <2>2, <2>3
<1>5. Chained(new, r)
  BY <1>1, <1>4 DEF Chained
<1> QED BY <1>5 DEF new

LEMMA CreatedKept ==
  ASSUME NEW log \in Seq(AgentEvent), NEW e \in AgentEvent, NEW r, CreatedOnce(log, r),
         \/ ~(e.run = r /\ e.type = "RUN_CREATED")
         \/ \A i \in 1..Len(log) : log[i].run # r
  PROVE  CreatedOnce(Append(log, e), r)
<1> DEFINE new == Append(log, e)
           n == Len(log)
<1>1. /\ n \in Nat /\ Len(new) = n + 1 /\ new[n + 1] = e
      /\ \A i \in 1..n : new[i] = log[i]
  BY Appended
<1>2. \A i, j \in 1..n :
        (/\ log[i].run = r /\ log[i].type = "RUN_CREATED"
         /\ log[j].run = r /\ log[j].type = "RUN_CREATED") => i = j
  BY DEF CreatedOnce
<1>3. \/ ~(e.run = r /\ e.type = "RUN_CREATED")
      \/ \A i \in 1..n : log[i].run # r
  OBVIOUS
<1> HIDE DEF new, n
<1>4. \A i \in 1..(n + 1) : i \in 1..n \/ i = n + 1
  BY <1>1
<1>5. CreatedOnce(new, r)
  BY <1>1, <1>2, <1>3, <1>4 DEF CreatedOnce
<1> QED BY <1>5 DEF new

LEMMA UnmentionedKept ==
  ASSUME NEW log \in Seq(AgentEvent), NEW e \in AgentEvent, NEW r, e.run # r,
         \A i \in 1..Len(log) : log[i].run # r
  PROVE  \A i \in 1..Len(Append(log, e)) : Append(log, e)[i].run # r
<1>1. \A i \in 1..(Len(log) + 1) : i \in 1..Len(log) \/ i = Len(log) + 1
  BY Appended
<1> QED BY <1>1, Appended

\* An event of another run, or none
LEMMA StoryUnmentioned ==
  ASSUME NEW log \in Seq(AgentEvent), NEW e \in AgentEvent, NEW r, NEW st,
         Story(log, r, st), e.run # r
  PROVE  Story(Append(log, e), r, st)
<1>1. ~Moves(e, r)
  BY DEF Moves
<1> QED BY <1>1, TellsKept, ChainedKept, CreatedKept, UnmentionedKept DEF Story

\* An event of the run which moves nothing
LEMMA StoryOther ==
  ASSUME NEW log \in Seq(AgentEvent), NEW e \in AgentEvent, NEW r, NEW st,
         Story(log, r, st), st # "NONE", e.to = "NONE", e.type # "RUN_CREATED"
  PROVE  Story(Append(log, e), r, st)
<1>1. ~Moves(e, r)
  BY DEF Moves
<1> QED BY <1>1, TellsKept, ChainedKept, CreatedKept DEF Story

\* The run moves on
LEMMA StoryMoves ==
  ASSUME NEW log \in Seq(AgentEvent), NEW e \in AgentEvent, NEW r, NEW st,
         Story(log, r, st), st # "NONE", e.run = r, e.from = st, e.to # "NONE",
         e.type # "RUN_CREATED"
  PROVE  Story(Append(log, e), r, e.to)
<1>1. Moves(e, r)
  BY DEF Moves
<1> QED BY <1>1, TellsNew, ChainedKept, CreatedKept DEF Story

\* The run is created
LEMMA StoryBegins ==
  ASSUME NEW log \in Seq(AgentEvent), NEW e \in AgentEvent, NEW r,
         Story(log, r, "NONE"), e.run = r, e.to # "NONE", e.type = "RUN_CREATED"
  PROVE  Story(Append(log, e), r, e.to)
<1>1. Moves(e, r)
  BY DEF Moves
<1> QED BY <1>1, TellsNew, ChainedKept, CreatedKept DEF Story

-----------------------------------------------------------------------------
(* The inbox: one request of each run, one answer to each question.         *)

Requested(box, r, st) ==
  /\ st = "NONE" => \A i \in 1..Len(box) : box[i].run # r
  /\ \A i, j \in 1..Len(box) :
       (/\ box[i].run = r /\ box[i].kind = "RUN_REQUEST"
        /\ box[j].run = r /\ box[j].kind = "RUN_REQUEST") => i = j

LEMMA Received ==
  ASSUME NEW box \in Seq(AgentSessionInbox), NEW x \in AgentSessionInbox
  PROVE  /\ Len(box) \in Nat /\ Len(Append(box, x)) = Len(box) + 1
         /\ \A i \in 1..Len(box) : i \in 1..(Len(box) + 1) /\ Append(box, x)[i] = box[i]
         /\ Append(box, x)[Len(box) + 1] = x
         /\ \A i \in 1..(Len(box) + 1) : i \in 1..Len(box) \/ i = Len(box) + 1
<1>1. Len(box) \in Nat
  OBVIOUS
<1>2. \A i \in 1..(Len(box) + 1) : i \in 1..Len(box) \/ i = Len(box) + 1
  BY <1>1
<1> QED BY <1>1, <1>2, AppendProperties

\* An item of another run, or one that is no request
LEMMA RequestedKept ==
  ASSUME NEW box \in Seq(AgentSessionInbox), NEW x \in AgentSessionInbox, NEW r, NEW st,
         Requested(box, r, st), x.run # r \/ (x.kind # "RUN_REQUEST" /\ st # "NONE")
  PROVE  Requested(Append(box, x), r, st)
BY Received DEF Requested

\* The request of a run that is created
LEMMA RequestedBegins ==
  ASSUME NEW box \in Seq(AgentSessionInbox), NEW x \in AgentSessionInbox, NEW r, NEW st,
         Requested(box, r, "NONE"), st # "NONE"
  PROVE  Requested(Append(box, x), r, st)
BY Received DEF Requested

LEMMA RequestedMoves ==
  ASSUME NEW box, NEW r, NEW st, NEW to, Requested(box, r, st), to # "NONE" \/ to = st
  PROVE  Requested(box, r, to)
BY DEF Requested

LogInv ==
  /\ BusyInv
  /\ \A r \in RunIds : Story(events[r[1]], r, runs[r].status)
  /\ \A r \in RunIds : Requested(inbox[r[1]], r, runs[r].status)
  /\ AnsweredOnce

LEMMA EventsOne ==
  ASSUME TypeInv, NEW s \in Sessions, NEW e \in AgentEvent, AppendEvents(s, <<e>>)
  PROVE  /\ events'[s] = Append(events[s], e) /\ events[s] \in Seq(AgentEvent)
         /\ \A o \in Sessions : o # s => events'[o] = events[o]
<1>1. events \in [Sessions -> Seq(AgentEvent)]
  BY DEF TypeInv, TypeOK
<1>2. ASSUME NEW log \in Seq(AgentEvent) PROVE log \o <<e>> = Append(log, e)
  OBVIOUS
<1> QED BY <1>1, <1>2 DEF AppendEvents

LEMMA EventsTwo ==
  ASSUME TypeInv, NEW s \in Sessions, NEW e \in AgentEvent, NEW f \in AgentEvent,
         AppendEvents(s, <<e, f>>)
  PROVE  /\ events'[s] = Append(Append(events[s], e), f) /\ events[s] \in Seq(AgentEvent)
         /\ \A o \in Sessions : o # s => events'[o] = events[o]
<1>1. events \in [Sessions -> Seq(AgentEvent)]
  BY DEF TypeInv, TypeOK
<1>2. ASSUME NEW log \in Seq(AgentEvent) PROVE log \o <<e, f>> = Append(Append(log, e), f)
  OBVIOUS
<1> QED BY <1>1, <1>2 DEF AppendEvents

LEMMA InboxOne ==
  ASSUME TypeInv, NEW s \in Sessions, NEW x \in AgentSessionInbox, AppendInbox(s, x)
  PROVE  /\ inbox'[s] = Append(inbox[s], x) /\ inbox[s] \in Seq(AgentSessionInbox)
         /\ \A o \in Sessions : o # s => inbox'[o] = inbox[o]
BY DEF TypeInv, TypeOK, AppendInbox

\* Nothing is answered: the answers there are stay where they are.
LEMMA AnswersKept ==
  ASSUME LogInv, QuestionsEnd,
         \A q \in Questions :
           questions'[q].status = "ANSWERED" => questions[q].status = "ANSWERED",
         \/ UNCHANGED inbox
         \/ \E s \in Sessions, x \in AgentSessionInbox :
              AppendInbox(s, x) /\ x.question = NoQuestion
  PROVE  AnsweredOnce'
<1>1. TypeInv /\ inbox \in [Sessions -> Seq(AgentSessionInbox)]
  BY DEF LogInv, BusyInv, TypeInv, TypeOK
<1>2. ASSUME NEW s \in Sessions
      PROVE  /\ Len(inbox[s]) \in Nat
             /\ \A i \in 1..Len(inbox[s]) : i \in 1..Len(inbox'[s]) /\ inbox'[s][i] = inbox[s][i]
             /\ \A i \in 1..Len(inbox'[s]) : i \in 1..Len(inbox[s])
                                           \/ inbox'[s][i].question = NoQuestion
  <2>1. CASE inbox'[s] = inbox[s]
    BY <1>1, <2>1
  <2>2. CASE inbox'[s] # inbox[s]
    <3>1. PICK x \in AgentSessionInbox : AppendInbox(s, x) /\ x.question = NoQuestion
      BY <1>1, <2>2, InboxOne
    <3> QED BY <1>1, <3>1, InboxOne, Received
  <2> QED BY <2>1, <2>2
<1>3. ASSUME NEW q \in Questions
      PROVE  LET r == questions'[q].run
                 at == questions'[q].answer_inbox_seq
             IN IF questions'[q].status = "ANSWERED"
                THEN /\ at \in 1..Len(inbox'[r[1]])
                     /\ inbox'[r[1]][at] =
                          [kind |-> "QUESTION_ANSWER", run |-> r, question |-> q,
                           actor |-> questions'[q].answered_by]
                     /\ \A s \in Sessions : \A i \in 1..Len(inbox'[s]) :
                          inbox'[s][i].question = q => s = r[1] /\ i = at
                ELSE \A s \in Sessions : \A i \in 1..Len(inbox'[s]) :
                       inbox'[s][i].question # q
  <2>1. q # NoQuestion
    BY RowsAssumption
  <2>2. CASE questions'[q].status = "ANSWERED"
    <3>1. questions[q].status = "ANSWERED" /\ questions'[q] = questions[q]
      BY <2>2 DEF QuestionsEnd
    <3>2. questions[q].run[1] \in Sessions
      BY <1>1, <3>1, RunIdsAre DEF TypeInv, QuestionOK, Asked
    <3>3. /\ questions[q].answer_inbox_seq \in 1..Len(inbox[questions[q].run[1]])
          /\ inbox[questions[q].run[1]][questions[q].answer_inbox_seq] =
               [kind |-> "QUESTION_ANSWER", run |-> questions[q].run, question |-> q,
                actor |-> questions[q].answered_by]
          /\ \A s \in Sessions : \A i \in 1..Len(inbox[s]) :
               inbox[s][i].question = q =>
                 s = questions[q].run[1] /\ i = questions[q].answer_inbox_seq
      BY <3>1 DEF LogInv, AnsweredOnce
    <3> QED BY <1>2, <2>1, <2>2, <3>1, <3>2, <3>3
  <2>3. CASE questions'[q].status # "ANSWERED"
    <3>1. questions[q].status # "ANSWERED"
      BY <2>3 DEF QuestionsEnd
    <3>2. \A s \in Sessions : \A i \in 1..Len(inbox[s]) : inbox[s][i].question # q
      BY <3>1 DEF LogInv, AnsweredOnce
    <3> QED BY <1>2, <2>1, <2>3, <3>2
  <2> QED BY <2>2, <2>3
<1> QED BY <1>3 DEF AnsweredOnce

Stories == \A r \in RunIds : Story(events[r[1]], r, runs[r].status)
Requests == \A r \in RunIds : Requested(inbox[r[1]], r, runs[r].status)

\* Nothing of the logs and the runs changes.
LEMMA LogFrame ==
  ASSUME LogInv, QuestionsEnd, UNCHANGED <<runs, events, inbox>>,
         \A q \in Questions :
           questions'[q].status = "ANSWERED" => questions[q].status = "ANSWERED"
  PROVE  Stories' /\ Requests' /\ AnsweredOnce'
BY AnswersKept DEF LogInv, Stories, Requests

\* The run r moves on, with the event of it and with one more before it or without.
LEMMA StoriesMove ==
  ASSUME LogInv, NEW r \in RunIds, NEW target \in AgentRunStatus,
         runs[r].status \in ACTIVE, runs' = Moved(r, target),
         \/ AppendEvents(r[1], <<StatusChanged(r, target)>>)
         \/ \E q \in Questions : \E type \in {"QUESTION_ASKED", "QUESTION_ANSWERED"} :
              AppendEvents(r[1], <<NewEvent(type, r, q, "NONE", "NONE"),
                                   StatusChanged(r, target)>>)
  PROVE  Stories'
<1> DEFINE f == StatusChanged(r, target)
<1>1. TypeInv /\ r[1] \in Sessions /\ "NONE" \notin ACTIVE
  BY RunIdsAre DEF LogInv, BusyInv, ACTIVE
<1>2. /\ f \in AgentEvent /\ f.run = r /\ f.from = runs[r].status /\ f.to = target
      /\ f.type = "RUN_STATUS_CHANGED" /\ target # "NONE"
  BY <1>1, StatusChangedTyped, StatusesDisjoint DEF StatusChanged, NewEvent
<1> DEFINE log == events[r[1]]
<1>3. PICK mid \in Seq(AgentEvent) :
        /\ events'[r[1]] = Append(mid, f)
        /\ \A o \in RunIds : o[1] = r[1] => Story(mid, o, runs[o].status)
  <2>1. log \in Seq(AgentEvent) /\ \A o \in RunIds : o[1] = r[1] => Story(log, o, runs[o].status)
    BY <1>1 DEF LogInv, TypeInv, TypeOK
  <2>2. CASE AppendEvents(r[1], <<f>>)
    BY <1>1, <1>2, <2>1, <2>2, EventsOne
  <2>3. ASSUME NEW q \in Questions, NEW type \in {"QUESTION_ASKED", "QUESTION_ANSWERED"},
               AppendEvents(r[1], <<NewEvent(type, r, q, "NONE", "NONE"), f>>)
        PROVE  \E mid \in Seq(AgentEvent) :
                 /\ events'[r[1]] = Append(mid, f)
                 /\ \A o \in RunIds : o[1] = r[1] => Story(mid, o, runs[o].status)
    <3> DEFINE e == NewEvent(type, r, q, "NONE", "NONE")
    <3>1. /\ e \in AgentEvent /\ e.run = r /\ e.to = "NONE"
          /\ e.type # "RUN_CREATED"
      BY DEF NewEvent, AgentEvent
    <3>2. AppendEvents(r[1], <<e, f>>)
      BY <2>3
    <3> HIDE DEF e, f
    <3>3. events'[r[1]] = Append(Append(log, e), f)
      BY <1>1, <1>2, <3>1, <3>2, EventsTwo
    <3>4. Append(log, e) \in Seq(AgentEvent)
      BY <2>1, <3>1
    <3>5. ASSUME NEW o \in RunIds, o[1] = r[1]
          PROVE  Story(Append(log, e), o, runs[o].status)
      <4>1. CASE o = r
        BY <1>1, <2>1, <3>1, <4>1, StoryOther
      <4>2. CASE o # r
        BY <2>1, <3>1, <3>5, <4>2, StoryUnmentioned
      <4> QED BY <4>1, <4>2
    <3> QED BY <3>3, <3>4, <3>5
  <2> QED BY <2>2, <2>3
<1>4. \A s \in Sessions : s # r[1] => events'[s] = events[s]
  BY <1>1 DEF AppendEvents, TypeInv, TypeOK
<1> HIDE DEF f, log
<1>5. ASSUME NEW o \in RunIds
      PROVE  Story(events'[o[1]], o, runs'[o].status)
  <2>1. o[1] \in Sessions
    BY RunIdsAre
  <2>2. CASE o = r
    <3>1. runs'[r].status = target /\ runs[r].status # "NONE"
      BY <1>1, MovedTyped
    <3>2. Story(mid, r, runs[r].status)
      BY <1>3
    <3> QED BY <1>2, <1>3, <2>2, <3>1, <3>2, StoryMoves
  <2>3. CASE o # r /\ o[1] = r[1]
    <3>1. runs'[o].status = runs[o].status /\ f.run # o
      BY <1>1, <1>2, <2>3, MovedTyped
    <3>2. Story(mid, o, runs[o].status) /\ events'[o[1]] = Append(mid, f)
      BY <1>3, <2>3
    <3>3. Story(Append(mid, f), o, runs[o].status)
      BY <1>2, <3>1, <3>2, StoryUnmentioned
    <3> QED BY <3>1, <3>2, <3>3
  <2>4. CASE o # r /\ o[1] # r[1]
    BY <1>1, <1>4, <2>1, <2>4, MovedTyped DEF LogInv
  <2> QED BY <2>2, <2>3, <2>4
<1> QED BY <1>5 DEF Stories

LEMMA RequestsMove ==
  ASSUME LogInv, NEW r \in RunIds, NEW target \in AgentRunStatus,
         runs' = Moved(r, target), UNCHANGED inbox
  PROVE  Requests'
<1>1. \A o \in RunIds : runs'[o].status # "NONE" \/ runs'[o].status = runs[o].status
  BY MovedTyped, StatusesDisjoint DEF LogInv, BusyInv
<1> QED BY <1>1, RequestedMoves DEF LogInv, Requests

LEMMA LogInit == Init => LogInv
<1> SUFFICES ASSUME Init PROVE LogInv
  OBVIOUS
<1>1. ASSUME NEW r \in RunIds
      PROVE  Story(events[r[1]], r, runs[r].status) /\ Requested(inbox[r[1]], r, runs[r].status)
  <2>1. events[r[1]] = <<>> /\ inbox[r[1]] = <<>> /\ runs[r].status = "NONE"
    BY RunIdsAre DEF Init
  <2> QED BY <2>1 DEF Story, Requested, Chained, CreatedOnce
<1>2. AnsweredOnce
  BY DEF Init, AnsweredOnce
<1> QED BY <1>1, <1>2, BusyInit DEF LogInv

LEMMA LogStep == LogInv /\ [Next]_vars => LogInv'
<1> SUFFICES ASSUME LogInv, [Next]_vars PROVE Stories' /\ Requests' /\ AnsweredOnce'
  BY BusyStep DEF LogInv, Stories, Requests
<1>0. BusyInv /\ TypeInv /\ QuestionsEnd
  BY EndStep DEF LogInv, BusyInv
<1>1. CASE DefinitionStep
  BY <1>0, <1>1, LogFrame DEF DefinitionStep, CreateDefinition, PublishVersion
<1>2. CASE SessionStep
  <2> DEFINE e == NewEvent("SESSION_CREATED", NoRun, NoQuestion, "NONE", "NONE")
  <2>1. PICK s \in Sessions : AppendEvents(s, <<e>>) /\ UNCHANGED <<runs, questions, inbox>>
    BY <1>2 DEF SessionStep, CreateSession
  <2>2. e \in AgentEvent /\ e.run = NoRun
    BY DEF NewEvent, AgentEvent
  <2> HIDE DEF e
  <2>3. ASSUME NEW r \in RunIds PROVE Story(events'[r[1]], r, runs'[r].status)
    <3>1. r[1] \in Sessions /\ e.run # r /\ Story(events[r[1]], r, runs[r].status)
      BY <2>2, RowsAssumption, RunIdsAre DEF LogInv
    <3>2. CASE r[1] = s
      <4>1. events'[s] = Append(events[s], e) /\ events[s] \in Seq(AgentEvent)
        BY <1>0, <2>1, <2>2, EventsOne
      <4>2. Story(Append(events[s], e), r, runs[r].status)
        BY <2>2, <3>1, <3>2, <4>1, StoryUnmentioned
      <4> QED BY <2>1, <3>2, <4>1, <4>2
    <3>3. CASE r[1] # s
      BY <1>0, <2>1, <2>2, <3>1, <3>3, EventsOne
    <3> QED BY <3>2, <3>3
  <2>4. Requests' /\ AnsweredOnce'
    BY <1>0, <2>1, AnswersKept DEF LogInv, Requests
  <2> QED BY <2>3, <2>4 DEF Stories
<1>3. ASSUME NEW s \in Sessions, NEW k \in Keys, NEW i \in Inputs, CreateRun(s, k, i)
      PROVE  Stories' /\ Requests' /\ AnsweredOnce'
  <2> DEFINE new == <<s, k>>
             e == NewEvent("RUN_CREATED", new, NoQuestion, "NONE", "QUEUED")
             x == [kind |-> "RUN_REQUEST", run |-> new, question |-> NoQuestion,
                   actor |-> sessions[s].requester]
  <2>1. new \in RunIds /\ new[1] = s
    BY RunIdsAre
  <2>2. /\ sessions[s].version # 0 /\ runs[new].status = "NONE" /\ UNCHANGED questions
        /\ runs' = [runs EXCEPT ![new] =
                      [status |-> "QUEUED", active_slot |-> 1, input |-> i]]
        /\ AppendEvents(s, <<e>>) /\ AppendInbox(s, x)
    BY <1>3 DEF CreateRun, InsertRun
  <2>3. /\ e \in AgentEvent /\ e.run = new /\ e.to = "QUEUED" /\ e.type = "RUN_CREATED"
    BY <2>1 DEF NewEvent, AgentEvent, AgentRunStatus, ACTIVE
  <2>4. x \in AgentSessionInbox /\ x.run = new /\ x.question = NoQuestion
    BY <1>0, <2>1, <2>2 DEF TypeInv, AgentSessionInbox
  <2>5. runs'[new].status = "QUEUED" /\ \A o \in RunIds : o # new => runs'[o] = runs[o]
    BY <1>0, <2>1, <2>2 DEF TypeInv, TypeOK
  <2> HIDE DEF new, e, x
  <2>6. ASSUME NEW r \in RunIds
        PROVE  /\ Story(events'[r[1]], r, runs'[r].status)
               /\ Requested(inbox'[r[1]], r, runs'[r].status)
    <3>1. /\ r[1] \in Sessions /\ Story(events[r[1]], r, runs[r].status)
          /\ Requested(inbox[r[1]], r, runs[r].status)
      BY RunIdsAre DEF LogInv
    <3>a. /\ events'[s] = Append(events[s], e) /\ events[s] \in Seq(AgentEvent)
          /\ inbox'[s] = Append(inbox[s], x) /\ inbox[s] \in Seq(AgentSessionInbox)
      BY <1>0, <2>2, <2>3, <2>4, EventsOne, InboxOne
    <3>2. CASE r = new
      <4>1. Story(events[s], new, "NONE") /\ Requested(inbox[s], new, "NONE")
        BY <2>1, <2>2, <3>1, <3>2
      <4>2. Story(Append(events[s], e), new, "QUEUED")
        BY <2>3, <3>a, <4>1, StoryBegins
      <4>3. Requested(Append(inbox[s], x), new, "QUEUED")
        BY <2>4, <3>a, <4>1, RequestedBegins
      <4> QED BY <2>1, <2>5, <3>a, <3>2, <4>2, <4>3
    <3>3. CASE r # new /\ r[1] = s
      <4>1. Story(Append(events[s], e), r, runs[r].status)
        BY <2>3, <3>a, <3>1, <3>3, StoryUnmentioned
      <4>2. Requested(Append(inbox[s], x), r, runs[r].status)
        BY <2>4, <3>a, <3>1, <3>3, RequestedKept
      <4> QED BY <2>5, <3>a, <3>3, <4>1, <4>2
    <3>4. CASE r # new /\ r[1] # s
      BY <1>0, <2>1, <2>2, <2>3, <2>4, <2>5, <3>1, <3>4, EventsOne, InboxOne
    <3> QED BY <3>2, <3>3, <3>4
  <2>7. AnsweredOnce'
    BY <1>0, <2>2, <2>4, AnswersKept
  <2> QED BY <2>6, <2>7 DEF Stories, Requests
<1>4. ASSUME NEW r \in RunIds, NEW target \in AgentRunStatus, TransitionRun(r, target)
      PROVE  Stories' /\ Requests' /\ AnsweredOnce'
  <2>1. runs[r].status \in ACTIVE
    BY <1>0, <1>4, StatusesDisjoint DEF TransitionRun, TypeInv, TypeOK, AgentRun
  <2>2. /\ runs' = Moved(r, target) /\ questions' = CloseOpenQuestions(r, target)
        /\ AppendEvents(r[1], <<StatusChanged(r, target)>>) /\ UNCHANGED inbox
    BY <1>4 DEF TransitionRun
  <2>3. \A q \in Questions :
          questions'[q].status = "ANSWERED" => questions[q].status = "ANSWERED"
    BY <1>0, <2>2, CloseTyped
  <2> QED BY <1>0, <2>1, <2>2, <2>3, StoriesMove, RequestsMove, AnswersKept
<1>5. ASSUME NEW r \in RunIds, NEW q \in Questions, NEW p \in Principals,
             AskQuestion(r, q, p)
      PROVE  Stories' /\ Requests' /\ AnsweredOnce'
  <2>1. "WAITING_USER" \in AgentRunStatus /\ "RUNNING" \in ACTIVE
    BY DEF AgentRunStatus, ACTIVE
  <2>2. /\ runs[r].status = "RUNNING" /\ runs' = Moved(r, "WAITING_USER")
        /\ AppendEvents(r[1], <<NewEvent("QUESTION_ASKED", r, q, "NONE", "NONE"),
                                StatusChanged(r, "WAITING_USER")>>)
        /\ UNCHANGED inbox
    BY <1>5 DEF AskQuestion
  <2>3. \A y \in Questions :
          questions'[y].status = "ANSWERED" => questions[y].status = "ANSWERED"
    BY <1>0, <1>5 DEF AskQuestion, TypeInv, TypeOK
  <2> QED BY <1>0, <2>1, <2>2, <2>3, StoriesMove, RequestsMove, AnswersKept
<1>6. ASSUME NEW q \in Questions, QuestionFallsDue(q)
      PROVE  Stories' /\ Requests' /\ AnsweredOnce'
  <2>1. \A y \in Questions :
          questions'[y].status = "ANSWERED" => questions[y].status = "ANSWERED"
    BY <1>0, <1>6 DEF QuestionFallsDue, TypeInv, TypeOK, PendingQuestion
  <2> QED BY <1>0, <1>6, <2>1, LogFrame DEF QuestionFallsDue
<1>7. ASSUME NEW q \in Questions, NEW p \in Principals, Answerable(q),
             ConsumeQuestionAnswer(q, p)
      PROVE  Stories' /\ Requests' /\ AnsweredOnce'
  <2>1. PICK r \in RunIds : r = questions[q].run
    BY <1>0, <1>7 DEF Answerable, TypeInv, QuestionOK, Asked
  <2> DEFINE x == [kind |-> "QUESTION_ANSWER", run |-> r, question |-> q, actor |-> p]
             n == Len(inbox[r[1]]) + 1
  <2>2. /\ "QUEUED" \in AgentRunStatus /\ "WAITING_USER" \in ACTIVE /\ r[1] \in Sessions
        /\ runs[r].status = "WAITING_USER" /\ questions[q].status = "PENDING"
    BY <1>7, <2>1, RunIdsAre DEF AgentRunStatus, ACTIVE, Answerable
  <2>3. /\ runs' = Moved(r, "QUEUED") /\ AppendInbox(r[1], x)
        /\ AppendEvents(r[1], <<NewEvent("QUESTION_ANSWERED", r, q, "NONE", "NONE"),
                                StatusChanged(r, "QUEUED")>>)
        /\ questions' = [questions EXCEPT ![q] = Answered(questions[q], p, n)]
    BY <1>0, <1>7, <2>1 DEF ConsumeQuestionAnswer, TypeInv, TypeOK
  <2>4. Stories'
    BY <2>2, <2>3, StoriesMove
  <2>5. /\ x \in AgentSessionInbox /\ x.run = r /\ x.question = q
        /\ x.kind = "QUESTION_ANSWER"
    BY DEF AgentSessionInbox
  <2>6. inbox[r[1]] \in Seq(AgentSessionInbox) /\ n \in Nat
    BY <1>0, <2>2 DEF TypeInv, TypeOK
  <2>7. /\ inbox'[r[1]] = Append(inbox[r[1]], x)
        /\ \A o \in Sessions : o # r[1] => inbox'[o] = inbox[o]
    BY <1>0, <2>2, <2>3, <2>5, InboxOne
  <2>8. Requests'
    <3>1. ASSUME NEW o \in RunIds PROVE Requested(inbox'[o[1]], o, runs'[o].status)
      <4>1. /\ o[1] \in Sessions /\ Requested(inbox[o[1]], o, runs[o].status)
            /\ "NONE" \notin AgentRunStatus
        BY RunIdsAre, StatusesDisjoint DEF LogInv
      <4>2. CASE o = r
        <5>1. /\ Requested(inbox[r[1]], r, "WAITING_USER") /\ runs'[r].status = "QUEUED"
              /\ inbox'[o[1]] = Append(inbox[r[1]], x)
          BY <1>0, <2>2, <2>3, <2>7, <4>1, <4>2, MovedTyped
        <5>2. Requested(inbox[r[1]], r, "QUEUED")
          BY <5>1, RequestedMoves
        <5>3. Requested(Append(inbox[r[1]], x), r, "QUEUED")
          BY <2>5, <2>6, <5>2, RequestedKept
        <5> QED BY <4>2, <5>1, <5>3
      <4>3. CASE o # r /\ o[1] = r[1]
        <5>1. Requested(Append(inbox[r[1]], x), o, runs[o].status)
          BY <2>5, <2>6, <4>1, <4>3, RequestedKept
        <5>2. inbox'[o[1]] = Append(inbox[r[1]], x)
          BY <2>7, <4>3
        <5>3. runs'[o].status = runs[o].status
          BY <1>0, <2>2, <2>3, <4>3, MovedTyped
        <5> QED BY <5>1, <5>2, <5>3
      <4>4. CASE o # r /\ o[1] # r[1]
        BY <1>0, <2>2, <2>3, <2>7, <4>1, <4>4, MovedTyped
      <4> QED BY <4>2, <4>3, <4>4
    <3> QED BY <3>1 DEF Requests
  <2>9. AnsweredOnce'
    <3>1. /\ questions'[q].run = r /\ questions'[q].status = "ANSWERED"
          /\ questions'[q].answered_by = p /\ questions'[q].answer_inbox_seq = n
          /\ \A y \in Questions : y # q => questions'[y] = questions[y]
      <4>1. questions[q] \in PendingQuestion /\ questions \in [Questions -> PendingQuestion]
        BY <1>0 DEF TypeInv, TypeOK
      <4> HIDE DEF n
      <4> QED BY <2>1, <2>3, <2>6, <4>1, AnsweredRow
    <3>2. ASSUME NEW s \in Sessions
          PROVE  /\ Len(inbox[s]) \in Nat
                 /\ \A i \in 1..Len(inbox[s]) : /\ i \in 1..Len(inbox'[s])
                                              /\ inbox'[s][i] = inbox[s][i]
                 /\ \A i \in 1..Len(inbox'[s]) :
                      \/ i \in 1..Len(inbox[s])
                      \/ s = r[1] /\ i = n /\ inbox'[s][i] = x
      <4>1. inbox[s] \in Seq(AgentSessionInbox)
        BY <1>0 DEF TypeInv, TypeOK
      <4>2. CASE s = r[1]
        BY <2>5, <2>6, <2>7, <4>2, Received
      <4>3. CASE s # r[1]
        BY <2>7, <4>1, <4>3
      <4> QED BY <4>2, <4>3
    <3>3. n \in 1..Len(inbox'[r[1]]) /\ inbox'[r[1]][n] = x
      BY <2>5, <2>6, <2>7, Received
    <3>4. \A s \in Sessions : \A i \in 1..Len(inbox[s]) : inbox[s][i].question # q
      BY <2>2 DEF LogInv, AnsweredOnce
    <3> HIDE DEF n
    <3>5. ASSUME NEW y \in Questions
          PROVE  LET u == questions'[y].run
                     at == questions'[y].answer_inbox_seq
                 IN IF questions'[y].status = "ANSWERED"
                    THEN /\ at \in 1..Len(inbox'[u[1]])
                         /\ inbox'[u[1]][at] =
                              [kind |-> "QUESTION_ANSWER", run |-> u, question |-> y,
                               actor |-> questions'[y].answered_by]
                         /\ \A s \in Sessions : \A i \in 1..Len(inbox'[s]) :
                              inbox'[s][i].question = y => s = u[1] /\ i = at
                    ELSE \A s \in Sessions : \A i \in 1..Len(inbox'[s]) :
                           inbox'[s][i].question # y
      <4>1. CASE y = q
        <5>1. \A s \in Sessions : \A i \in 1..Len(inbox'[s]) :
                inbox'[s][i].question = q => s = r[1] /\ i = n
          BY <3>2, <3>4
        <5>2. /\ questions'[y].run = r /\ questions'[y].status = "ANSWERED"
              /\ questions'[y].answered_by = p /\ questions'[y].answer_inbox_seq = n
          BY <3>1, <4>1
        <5>3. x = [kind |-> "QUESTION_ANSWER", run |-> questions'[y].run, question |-> y,
                   actor |-> questions'[y].answered_by]
          BY <4>1, <5>2
        <5> HIDE DEF x
        <5> QED BY <3>3, <4>1, <5>1, <5>2, <5>3
      <4>2. CASE y # q /\ questions[y].status = "ANSWERED"
        <5>1. questions'[y] = questions[y] /\ questions[y].run[1] \in Sessions
          BY <1>0, <3>1, <4>2, RunIdsAre DEF TypeInv, QuestionOK, Asked
        <5>2. /\ questions[y].answer_inbox_seq \in 1..Len(inbox[questions[y].run[1]])
              /\ inbox[questions[y].run[1]][questions[y].answer_inbox_seq] =
                   [kind |-> "QUESTION_ANSWER", run |-> questions[y].run, question |-> y,
                    actor |-> questions[y].answered_by]
              /\ \A s \in Sessions : \A i \in 1..Len(inbox[s]) :
                   inbox[s][i].question = y =>
                     s = questions[y].run[1] /\ i = questions[y].answer_inbox_seq
          BY <4>2 DEF LogInv, AnsweredOnce
        <5> DEFINE u == questions[y].run
                   at == questions[y].answer_inbox_seq
        <5>3. at \in 1..Len(inbox'[u[1]]) /\ inbox'[u[1]][at] = inbox[u[1]][at]
          BY <3>2, <5>1, <5>2
        <5>4. x.question # y
          BY <2>5, <4>2
        <5> HIDE DEF x
        <5>5. \A s \in Sessions : \A i \in 1..Len(inbox'[s]) :
                inbox'[s][i].question = y => s = u[1] /\ i = at
          BY <3>2, <5>2, <5>4
        <5> QED BY <4>2, <5>1, <5>2, <5>3, <5>5
      <4>3. CASE y # q /\ questions[y].status # "ANSWERED"
        <5>1. \A s \in Sessions : \A i \in 1..Len(inbox[s]) : inbox[s][i].question # y
          BY <4>3 DEF LogInv, AnsweredOnce
        <5> QED BY <2>5, <3>1, <3>2, <4>3, <5>1
      <4> QED BY <4>1, <4>2, <4>3
    <3> QED BY <3>5 DEF AnsweredOnce
  <2> QED BY <2>4, <2>8, <2>9
<1>8. ASSUME NEW q \in Questions, AnswerQuestion(q)
      PROVE  Stories' /\ Requests' /\ AnsweredOnce'
  <2>1. questions[q].allowed \in Principals
    BY <1>0, <1>8 DEF AnswerQuestion, Answerable, TypeInv, QuestionOK, Asked
  <2> QED BY <1>7, <1>8, <2>1 DEF AnswerQuestion
<1>9. CASE ViewStep \/ UNCHANGED vars
  BY <1>0, <1>9, ViewsOnlyRead, LogFrame DEF vars
<1>10. CASE RunStep
  BY <1>3, <1>4, <1>5, <1>10 DEF RunStep
<1>11. CASE QuestionStep
  BY <1>6, <1>7, <1>8, <1>11 DEF QuestionStep, OverrideAnswerQuestion
<1> QED BY <1>1, <1>2, <1>9, <1>10, <1>11 DEF Next

LEMMA LogInvariant == Spec => []LogInv
  BY LogInit, LogStep, PTL DEF Spec

\* An answered question has exactly one answer in the inbox of its session, the one its
\* row points to: answers and overrides that race are refused but for the first.
THEOREM OneAnswer == Spec => []AnsweredOnce
<1>1. LogInv => AnsweredOnce
  BY DEF LogInv
<1> QED BY <1>1, LogInvariant, PTL

\* The event log of a session agrees with the rows of its runs, and tells each of their
\* changes of status in turn: no operation moves a run without its event.
THEOREM LogTellsAll == Spec => []LogAgrees
<1>1. LogInv => LogAgrees
  BY DEF LogInv, LogAgrees, Story, Tells, Chained
<1> QED BY <1>1, LogInvariant, PTL

\* A key of create_run names one request: it is entered in the inbox once and its run is
\* created once.
THEOREM OneRequest == Spec => []RequestedOnce
<1>1. LogInv => RequestedOnce
  BY DEF LogInv, RequestedOnce, Story, CreatedOnce, Requested
<1> QED BY <1>1, LogInvariant, PTL

-----------------------------------------------------------------------------
(* The view.  What one of its parts shows, a part that is read later can    *)
(* explain: the event of an inbox item, the question of an event.           *)

Explains(e, x) ==
  /\ e.run = x.run /\ e.question = x.question
  /\ e.type = IF x.kind = "RUN_REQUEST" THEN "RUN_CREATED" ELSE "QUESTION_ANSWERED"
Explained(log, box) ==
  \A j \in 1..Len(box) : \E i \in 1..Len(log) : Explains(log[i], box[j])

\* With the questions rows
Backs(rows, e, s) ==
  /\ e.type \in {"QUESTION_ASKED", "QUESTION_ANSWERED"} =>
       /\ e.question \in Questions /\ rows[e.question].status # "NONE"
       /\ rows[e.question].run[1] = s
  /\ e.type = "QUESTION_ANSWERED" => rows[e.question].status = "ANSWERED"
Backed(rows, log, s) == \A i \in 1..Len(log) : Backs(rows, log[i], s)

AllTold == \A s \in Sessions : Explained(events[s], inbox[s]) /\ Backed(questions, events[s], s)
ToldInv == LogInv /\ AllTold

\* No event is lost.
Longer ==
  \A s \in Sessions : \A i \in 1..Len(events[s]) :
    i \in 1..Len(events'[s]) /\ events'[s][i] = events[s][i]

\* A question that was asked stays asked by its run, and an answer stays.
Stays ==
  \A q \in Questions :
    /\ Asked(q) => Asked(q)' /\ questions'[q].run = questions[q].run
    /\ questions[q].status = "ANSWERED" => questions'[q].status = "ANSWERED"

LEMMA BacksStays ==
  ASSUME Stays, NEW e, NEW s, Backs(questions, e, s)
  PROVE  Backs(questions', e, s)
BY DEF Backs, Stays, Asked

LEMMA ConcatIs ==
  ASSUME NEW S, NEW log \in Seq(S), NEW es \in Seq(S)
  PROVE  /\ Len(log) \in Nat /\ Len(es) \in Nat /\ Len(log \o es) = Len(log) + Len(es)
         /\ \A i \in 1..Len(log) : i \in 1..Len(log \o es) /\ (log \o es)[i] = log[i]
         /\ \A i \in 1..Len(es) : /\ Len(log) + i \in 1..Len(log \o es)
                                  /\ (log \o es)[Len(log) + i] = es[i]
         /\ \A i \in 1..Len(log \o es) :
              i \in 1..Len(log) \/ \E j \in 1..Len(es) : i = Len(log) + j
<1>1. /\ Len(log) \in Nat /\ Len(es) \in Nat /\ Len(log \o es) = Len(log) + Len(es)
      /\ \A i \in 1..(Len(log) + Len(es)) :
           (log \o es)[i] = IF i <= Len(log) THEN log[i] ELSE es[i - Len(log)]
  BY ConcatProperties
<1>2. ASSUME NEW i \in 1..Len(log) PROVE i \in 1..Len(log \o es) /\ (log \o es)[i] = log[i]
  BY <1>1
<1>3. ASSUME NEW i \in 1..Len(es)
      PROVE  Len(log) + i \in 1..Len(log \o es) /\ (log \o es)[Len(log) + i] = es[i]
  <2>1. /\ Len(log) + i \in 1..(Len(log) + Len(es)) /\ ~(Len(log) + i <= Len(log))
        /\ (Len(log) + i) - Len(log) = i
    BY <1>1
  <2> QED BY <1>1, <2>1
<1>4. ASSUME NEW i \in 1..Len(log \o es), i \notin 1..Len(log)
      PROVE  \E j \in 1..Len(es) : i = Len(log) + j
  <2>1. i - Len(log) \in 1..Len(es) /\ i = Len(log) + (i - Len(log))
    BY <1>1, <1>4
  <2> QED BY <2>1
<1> QED BY <1>1, <1>2, <1>3, <1>4

\* The logs grow by what an operation appends.
LEMMA ToldAppends ==
  ASSUME ToldInv, Stays, NEW s \in Sessions, NEW es \in Seq(AgentEvent), AppendEvents(s, es),
         \A i \in 1..Len(es) : Backs(questions', es[i], s),
         \/ UNCHANGED inbox
         \/ \E x \in AgentSessionInbox :
              AppendInbox(s, x) /\ \E i \in 1..Len(es) : Explains(es[i], x)
  PROVE  AllTold' /\ Longer
<1>0. /\ TypeInv /\ events[s] \in Seq(AgentEvent) /\ inbox[s] \in Seq(AgentSessionInbox)
      /\ \A o \in Sessions : Explained(events[o], inbox[o]) /\ Backed(questions, events[o], o)
  BY DEF ToldInv, AllTold, LogInv, BusyInv, TypeInv, TypeOK
<1>1. /\ events'[s] = events[s] \o es
      /\ \A o \in Sessions : o # s => events'[o] = events[o]
  BY <1>0 DEF AppendEvents, TypeInv, TypeOK
<1>2. \A o \in Sessions : o # s => inbox'[o] = inbox[o]
  BY <1>0 DEF AppendInbox, TypeInv, TypeOK
<1> DEFINE log == events[s]
<1>3. Explained(log, inbox[s])
  BY <1>0
<1>4. /\ \A i \in 1..Len(log) : Backs(questions', log[i], s)
      /\ \A o \in Sessions : Backed(questions', events[o], o)
  BY <1>0, BacksStays DEF Backed
<1>5. log \in Seq(AgentEvent) /\ events'[s] = log \o es
  BY <1>0, <1>1
<1> HIDE DEF log
<1>6. /\ Len(log) \in Nat /\ Len(es) \in Nat
      /\ \A i \in 1..Len(log) : i \in 1..Len(events'[s]) /\ events'[s][i] = log[i]
      /\ \A i \in 1..Len(es) : /\ Len(log) + i \in 1..Len(events'[s])
                               /\ events'[s][Len(log) + i] = es[i]
      /\ \A i \in 1..Len(events'[s]) :
           i \in 1..Len(log) \/ \E j \in 1..Len(es) : i = Len(log) + j
  BY <1>5, ConcatIs
<1>7. ASSUME NEW i \in 1..Len(events'[s]) PROVE Backs(questions', events'[s][i], s)
  <2>1. CASE i \in 1..Len(log)
    BY <1>6, <1>4, <2>1
  <2>2. CASE \E j \in 1..Len(es) : i = Len(log) + j
    BY <1>6, <2>2
  <2> QED BY <1>6, <2>1, <2>2
<1>8. \A o \in Sessions : Backed(questions', events'[o], o)
  BY <1>1, <1>4, <1>7 DEF Backed
<1>9. ASSUME NEW j \in 1..Len(inbox[s])
      PROVE  \E i \in 1..Len(events'[s]) : Explains(events'[s][i], inbox[s][j])
  <2>1. PICK i \in 1..Len(log) : Explains(log[i], inbox[s][j])
    BY <1>3 DEF Explained
  <2> QED BY <1>6, <2>1
<1>10. ASSUME UNCHANGED inbox PROVE Explained(events'[s], inbox'[s])
  BY <1>9, <1>10 DEF Explained
<1>11. ASSUME NEW x \in AgentSessionInbox, AppendInbox(s, x),
              NEW k \in 1..Len(es), Explains(es[k], x)
       PROVE  Explained(events'[s], inbox'[s])
  <2>1. inbox'[s] = Append(inbox[s], x)
    BY <1>0, <1>11, InboxOne
  <2>2. \E i \in 1..Len(events'[s]) : Explains(events'[s][i], x)
    <3>1. Len(log) + k \in 1..Len(events'[s]) /\ Explains(events'[s][Len(log) + k], x)
      BY <1>6, <1>11
    <3> QED BY <3>1
  <2>3. \A j \in 1..Len(inbox'[s]) :
          \/ j \in 1..Len(inbox[s]) /\ inbox'[s][j] = inbox[s][j]
          \/ inbox'[s][j] = x
    BY <1>0, <2>1, Received
  <2>4. ASSUME NEW j \in 1..Len(inbox'[s])
        PROVE  \E i \in 1..Len(events'[s]) : Explains(events'[s][i], inbox'[s][j])
    <3>1. CASE inbox'[s][j] = x
      BY <2>2, <3>1
    <3>2. CASE j \in 1..Len(inbox[s]) /\ inbox'[s][j] = inbox[s][j]
      BY <1>9, <3>2
    <3> QED BY <2>3, <3>1, <3>2
  <2> QED BY <2>4 DEF Explained
<1>12. Explained(events'[s], inbox'[s])
  BY <1>10, <1>11
<1>13. \A o \in Sessions : o # s => Explained(events'[o], inbox'[o])
  BY <1>0, <1>1, <1>2
<1>14. Longer
  BY <1>1, <1>6 DEF Longer, log
<1> QED BY <1>8, <1>12, <1>13, <1>14 DEF AllTold

LEMMA ToldFrame ==
  ASSUME ToldInv, Stays, UNCHANGED <<events, inbox>>
  PROVE  AllTold' /\ Longer
BY BacksStays DEF ToldInv, AllTold, Backed, Longer

LEMMA ToldInit == Init => ToldInv
<1> SUFFICES ASSUME Init PROVE ToldInv
  OBVIOUS
<1>1. \A s \in Sessions : events[s] = <<>> /\ inbox[s] = <<>>
  BY DEF Init
<1> QED BY <1>1, LogInit DEF ToldInv, AllTold, Explained, Backed

\* The other events move a run and mention no question.
LEMMA BacksOther ==
  ASSUME NEW rows, NEW s, NEW e, e.type \notin {"QUESTION_ASKED", "QUESTION_ANSWERED"}
  PROVE  Backs(rows, e, s)
BY DEF Backs

LEMMA StaysStep == BusyInv /\ [Next]_vars => Stays
<1> SUFFICES ASSUME BusyInv, [Next]_vars PROVE Stays
  OBVIOUS
<1>0. /\ TypeInv /\ questions \in [Questions -> PendingQuestion] /\ QuestionsEnd
  BY EndStep DEF BusyInv, TypeInv, TypeOK
<1>1. CASE UNCHANGED questions
  BY <1>1 DEF Stays, Asked
<1>2. ASSUME NEW r \in RunIds, NEW target \in AgentRunStatus, TransitionRun(r, target)
      PROVE  Stays
  <2>1. questions' = CloseOpenQuestions(r, target)
    BY <1>2 DEF TransitionRun
  <2>2. ASSUME NEW q \in Questions
        PROVE  /\ Asked(q) => Asked(q)' /\ questions'[q].run = questions[q].run
               /\ questions[q].status = "ANSWERED" => questions'[q].status = "ANSWERED"
    <3>1. CASE target \in TERMINAL /\ q \in OpenQuestions(r)
      BY <1>0, <2>1, <3>1, CloseTyped DEF Asked, OpenQuestions, QuestionsEnd
    <3>2. CASE ~(target \in TERMINAL /\ q \in OpenQuestions(r))
      BY <1>0, <2>1, <3>2, CloseTyped DEF Asked
    <3> QED BY <3>1, <3>2
  <2> QED BY <2>2 DEF Stays
<1>3. ASSUME NEW r \in RunIds, NEW q \in Questions, NEW p \in Principals,
             AskQuestion(r, q, p)
      PROVE  Stays
  BY <1>0, <1>3 DEF AskQuestion, Stays, Asked
<1>4. ASSUME NEW q \in Questions, QuestionFallsDue(q) PROVE Stays
  BY <1>0, <1>4 DEF QuestionFallsDue, Stays, Asked, PendingQuestion
<1>5. ASSUME NEW q \in Questions, NEW p \in Principals, Answerable(q),
             ConsumeQuestionAnswer(q, p)
      PROVE  Stays
  <2>1. PICK n \in Nat : questions' = [questions EXCEPT ![q] = Answered(questions[q], p, n)]
    <3>1. questions[q].run[1] \in Sessions
      BY <1>0, <1>5, RunIdsAre DEF Answerable, TypeInv, QuestionOK, Asked
    <3>2. Len(inbox[questions[q].run[1]]) + 1 \in Nat
      BY <1>0, <3>1 DEF TypeInv, TypeOK
    <3> QED BY <1>0, <1>5, <3>2 DEF ConsumeQuestionAnswer
  <2>2. /\ questions'[q].status = "ANSWERED" /\ questions'[q].run = questions[q].run
        /\ \A y \in Questions : y # q => questions'[y] = questions[y]
    BY <1>0, <2>1, AnsweredRow
  <2> QED BY <2>2 DEF Stays, Asked
<1>6. ASSUME NEW q \in Questions, AnswerQuestion(q) PROVE Stays
  <2>1. questions[q].allowed \in Principals
    BY <1>0, <1>6 DEF AnswerQuestion, Answerable, TypeInv, QuestionOK, Asked
  <2> QED BY <1>5, <1>6, <2>1 DEF AnswerQuestion
<1>7. CASE RunStep
  <2>1. ASSUME NEW s \in Sessions, NEW k \in Keys, NEW i \in Inputs, CreateRun(s, k, i)
        PROVE  UNCHANGED questions
    BY <2>1 DEF CreateRun, InsertRun
  <2> QED BY <1>1, <1>2, <1>3, <1>7, <2>1 DEF RunStep
<1>8. CASE QuestionStep
  BY <1>4, <1>5, <1>6, <1>8 DEF QuestionStep, OverrideAnswerQuestion
<1>9. CASE DefinitionStep \/ SessionStep \/ ViewStep \/ UNCHANGED vars
  <2>1. UNCHANGED questions
    BY <1>0, <1>9, ViewsOnlyRead
       DEF DefinitionStep, CreateDefinition, PublishVersion, SessionStep, CreateSession, vars
  <2> QED BY <1>1, <2>1
<1> QED BY <1>7, <1>8, <1>9 DEF Next

\* An operation that appends one event, about no question, and nothing to the inbox.
LEMMA ToldOne ==
  ASSUME ToldInv, Stays, NEW s \in Sessions, NEW e \in AgentEvent, AppendEvents(s, <<e>>),
         e.type \notin {"QUESTION_ASKED", "QUESTION_ANSWERED"},
         \/ UNCHANGED inbox
         \/ \E x \in AgentSessionInbox : AppendInbox(s, x) /\ Explains(e, x)
  PROVE  AllTold' /\ Longer
<1> DEFINE es == <<e>>
<1>1. /\ es \in Seq(AgentEvent) /\ Len(es) = 1 /\ es[1] = e /\ 1 \in 1..Len(es)
  OBVIOUS
<1>2. AppendEvents(s, es)
  OBVIOUS
<1> HIDE DEF es
<1>3. \A i \in 1..Len(es) : Backs(questions', es[i], s)
  BY <1>1, BacksOther
<1>4. \/ UNCHANGED inbox
      \/ \E x \in AgentSessionInbox :
           AppendInbox(s, x) /\ \E i \in 1..Len(es) : Explains(es[i], x)
  BY <1>1
<1> QED BY <1>1, <1>2, <1>3, <1>4, ToldAppends

\* An operation that appends the event of a question and the move of its run.
LEMMA ToldTwo ==
  ASSUME ToldInv, Stays, NEW s \in Sessions, NEW e \in AgentEvent, NEW f \in AgentEvent,
         AppendEvents(s, <<e, f>>), Backs(questions', e, s),
         f.type \notin {"QUESTION_ASKED", "QUESTION_ANSWERED"},
         \/ UNCHANGED inbox
         \/ \E x \in AgentSessionInbox : AppendInbox(s, x) /\ Explains(e, x)
  PROVE  AllTold' /\ Longer
<1> DEFINE es == <<e, f>>
<1>1. /\ es \in Seq(AgentEvent) /\ Len(es) = 2 /\ es[1] = e /\ es[2] = f /\ 1 \in 1..Len(es)
      /\ \A i \in 1..Len(es) : i = 1 \/ i = 2
  OBVIOUS
<1>2. AppendEvents(s, es)
  OBVIOUS
<1> HIDE DEF es
<1>3. \A i \in 1..Len(es) : Backs(questions', es[i], s)
  BY <1>1, BacksOther
<1>4. \/ UNCHANGED inbox
      \/ \E x \in AgentSessionInbox :
           AppendInbox(s, x) /\ \E i \in 1..Len(es) : Explains(es[i], x)
  BY <1>1
<1> QED BY <1>1, <1>2, <1>3, <1>4, ToldAppends

LEMMA ToldStep == ToldInv /\ [Next]_vars => ToldInv' /\ Longer
<1> SUFFICES ASSUME ToldInv, [Next]_vars PROVE AllTold' /\ Longer
  BY LogStep DEF ToldInv
<1>0. BusyInv /\ TypeInv /\ Stays /\ questions \in [Questions -> PendingQuestion]
  BY StaysStep DEF ToldInv, LogInv, BusyInv, TypeInv, TypeOK
<1>1. CASE UNCHANGED <<events, inbox>>
  BY <1>0, <1>1, ToldFrame
<1>2. CASE SessionStep
  <2> DEFINE e == NewEvent("SESSION_CREATED", NoRun, NoQuestion, "NONE", "NONE")
  <2>1. PICK s \in Sessions : AppendEvents(s, <<e>>) /\ UNCHANGED inbox
    BY <1>2 DEF SessionStep, CreateSession
  <2>2. e \in AgentEvent /\ e.type = "SESSION_CREATED"
    BY DEF NewEvent, AgentEvent
  <2> HIDE DEF e
  <2> QED BY <1>0, <2>1, <2>2, ToldOne
<1>3. ASSUME NEW s \in Sessions, NEW k \in Keys, NEW i \in Inputs, CreateRun(s, k, i)
      PROVE  AllTold' /\ Longer
  <2> DEFINE new == <<s, k>>
             e == NewEvent("RUN_CREATED", new, NoQuestion, "NONE", "QUEUED")
             x == [kind |-> "RUN_REQUEST", run |-> new, question |-> NoQuestion,
                   actor |-> sessions[s].requester]
  <2>1. new \in RunIds /\ sessions[s].version # 0 /\ AppendEvents(s, <<e>>) /\ AppendInbox(s, x)
    BY <1>3, RunIdsAre DEF CreateRun, InsertRun
  <2>2. e \in AgentEvent /\ e.type = "RUN_CREATED"
    BY <2>1 DEF NewEvent, AgentEvent, AgentRunStatus, ACTIVE
  <2>3. x \in AgentSessionInbox
    BY <1>0, <2>1 DEF TypeInv, AgentSessionInbox
  <2>4. Explains(e, x)
    BY DEF Explains, NewEvent
  <2> HIDE DEF e, x
  <2> QED BY <1>0, <2>1, <2>2, <2>3, <2>4, ToldOne
<1>4. ASSUME NEW r \in RunIds, NEW target \in AgentRunStatus, TransitionRun(r, target)
      PROVE  AllTold' /\ Longer
  <2>1. AppendEvents(r[1], <<StatusChanged(r, target)>>) /\ UNCHANGED inbox
    BY <1>4 DEF TransitionRun
  <2>2. StatusChanged(r, target).type = "RUN_STATUS_CHANGED"
    BY DEF StatusChanged, NewEvent
  <2> QED BY <1>0, <2>1, <2>2, StatusChangedTyped, RunIdsAre, ToldOne
<1>5. ASSUME NEW r \in RunIds, NEW q \in Questions, NEW p \in Principals,
             AskQuestion(r, q, p)
      PROVE  AllTold' /\ Longer
  <2> DEFINE e == NewEvent("QUESTION_ASKED", r, q, "NONE", "NONE")
             f == StatusChanged(r, "WAITING_USER")
  <2>1. AppendEvents(r[1], <<e, f>>) /\ UNCHANGED inbox
    BY <1>5 DEF AskQuestion
  <2>2. /\ "WAITING_USER" \in AgentRunStatus /\ f.type = "RUN_STATUS_CHANGED"
        /\ e.type = "QUESTION_ASKED" /\ e.question = q
    BY DEF AgentRunStatus, ACTIVE, StatusChanged, NewEvent
  <2>3. e \in AgentEvent /\ f \in AgentEvent
    BY <1>0, <2>2, AppendedTyped
  <2>4. questions'[q].status = "PENDING" /\ questions'[q].run = r
    BY <1>0, <1>5 DEF AskQuestion
  <2>5. Backs(questions', e, r[1])
    BY <2>2, <2>4 DEF Backs
  <2> HIDE DEF e, f
  <2> QED BY <1>0, <2>1, <2>2, <2>3, <2>5, RunIdsAre, ToldTwo
<1>6. ASSUME NEW q \in Questions, NEW p \in Principals, Answerable(q),
             ConsumeQuestionAnswer(q, p)
      PROVE  AllTold' /\ Longer
  <2>1. PICK r \in RunIds : r = questions[q].run
    BY <1>0, <1>6 DEF Answerable, TypeInv, QuestionOK, Asked
  <2> DEFINE e == NewEvent("QUESTION_ANSWERED", r, q, "NONE", "NONE")
             f == StatusChanged(r, "QUEUED")
             x == [kind |-> "QUESTION_ANSWER", run |-> r, question |-> q, actor |-> p]
             n == Len(inbox[r[1]]) + 1
  <2>2. /\ AppendInbox(r[1], x) /\ AppendEvents(r[1], <<e, f>>)
        /\ questions' = [questions EXCEPT ![q] = Answered(questions[q], p, n)]
    BY <1>0, <1>6, <2>1 DEF ConsumeQuestionAnswer
  <2>3. /\ "QUEUED" \in AgentRunStatus /\ f.type = "RUN_STATUS_CHANGED"
        /\ e.type = "QUESTION_ANSWERED" /\ e.question = q
    BY DEF AgentRunStatus, ACTIVE, StatusChanged, NewEvent
  <2>4. e \in AgentEvent /\ f \in AgentEvent /\ x \in AgentSessionInbox
    BY <1>0, <2>3, AppendedTyped
  <2>5. n \in Nat
    BY <1>0, RunIdsAre DEF TypeInv, TypeOK
  <2>6. Explains(e, x)
    BY DEF Explains, NewEvent
  <2> HIDE DEF e, f, x, n
  <2>7. questions'[q].status = "ANSWERED" /\ questions'[q].run = r
    BY <1>0, <2>1, <2>2, <2>5, AnsweredRow
  <2>8. Backs(questions', e, r[1])
    BY <2>3, <2>7 DEF Backs
  <2> QED BY <1>0, <2>2, <2>3, <2>4, <2>6, <2>8, RunIdsAre, ToldTwo
<1>7. ASSUME NEW q \in Questions, AnswerQuestion(q) PROVE AllTold' /\ Longer
  <2>1. questions[q].allowed \in Principals
    BY <1>0, <1>7 DEF AnswerQuestion, Answerable, TypeInv, QuestionOK, Asked
  <2> QED BY <1>6, <1>7, <2>1 DEF AnswerQuestion
<1>8. CASE DefinitionStep \/ ViewStep \/ UNCHANGED vars
  <2>1. UNCHANGED <<events, inbox>>
    BY <1>0, <1>8, ViewsOnlyRead DEF DefinitionStep, CreateDefinition, PublishVersion, vars
  <2> QED BY <1>1, <2>1
<1>9. CASE RunStep
  BY <1>3, <1>4, <1>5, <1>9 DEF RunStep
<1>10. CASE QuestionStep
  BY <1>1, <1>6, <1>7, <1>10 DEF QuestionStep, OverrideAnswerQuestion, QuestionFallsDue
<1> QED BY <1>2, <1>8, <1>9, <1>10 DEF Next

-----------------------------------------------------------------------------
(* What a view that is being read has so far.                               *)

QuestionViews == UNION {[S -> PendingQuestionStatus \cup {"NONE"}] : S \in SUBSET Questions}
Views ==
  [session : Sessions \cup {NoSession}, limit : Nat,
   next : {"SESSION", "RUN", "INBOX", "EVENTS", "QUESTIONS", "DONE"},
   active_run : RunIds \cup {NoRun}, status : AgentRunStatus \cup {"NONE"},
   inbox : Seq(AgentSessionInbox), events : Seq(AgentEvent), questions : QuestionViews,
   inbox_has_more : BOOLEAN, events_has_more : BOOLEAN, questions_has_more : BOOLEAN]

Shown(log, r, st) == r # NoRun => \E i \in 1..Len(log) : log[i].run = r /\ log[i].to = st

\* The items of an inbox with the questions they answer
Heeded(rows, box, s) ==
  \A j \in 1..Len(box) : box[j].kind = "QUESTION_ANSWER" =>
    /\ box[j].question \in Questions /\ rows[box[j].question].status = "ANSWERED"
    /\ rows[box[j].question].run[1] = s

\* A question is answered, or one of those that are not among qs.
Answer(q, qs, more) == IF q \in DOMAIN qs THEN qs[q] = "ANSWERED" ELSE more

Accounted(log, box, qs, more) ==
  /\ \A i \in 1..Len(log) :
       /\ log[i].type = "QUESTION_ASKED" => log[i].question \in DOMAIN qs \/ more
       /\ log[i].type = "QUESTION_ANSWERED" => Answer(log[i].question, qs, more)
  /\ \A j \in 1..Len(box) :
       box[j].kind = "QUESTION_ANSWER" => Answer(box[j].question, qs, more)

ViewOK(v) ==
  /\ v \in Views
  /\ v.next # "SESSION" => v.session \in Sessions
  /\ v.next \in {"SESSION", "RUN"} => v.active_run = NoRun
  /\ v.next \in {"INBOX", "EVENTS"} => Shown(events[v.session], v.active_run, v.status)
  /\ v.next = "EVENTS" => Explained(events[v.session], v.inbox)
  /\ v.next \in {"QUESTIONS", "DONE"} /\ ~v.events_has_more =>
       Shown(v.events, v.active_run, v.status) /\ Explained(v.events, v.inbox)
  /\ v.next = "QUESTIONS" => /\ Backed(questions, v.events, v.session)
                             /\ Heeded(questions, v.inbox, v.session)
  /\ v.next = "DONE" => Accounted(v.events, v.inbox, v.questions, v.questions_has_more)

ViewInv == ToldInv /\ ViewOK(view)

LEMMA LatestIs ==
  ASSUME NEW S, NEW log \in Seq(S), view.limit \in Nat
  PROVE  /\ Latest(log) \in Seq(S)
         /\ ~(Len(log) > view.limit) => Latest(log) = log
         /\ \A i \in 1..Len(Latest(log)) : \E j \in 1..Len(log) : Latest(log)[i] = log[j]
<1> DEFINE n == Len(log)
           m == n - view.limit + 1
<1>1. n \in Nat /\ view.limit \in Nat
  OBVIOUS
<1>2. CASE n <= view.limit
  BY <1>1, <1>2 DEF Latest
<1>3. CASE n > view.limit
  <2>1. /\ m \in Int /\ m \in Nat \ {0} /\ m <= n + 1
        /\ \A i \in 1..(n - m + 1) : m + i - 1 \in 1..n
    BY <1>1, <1>3
  <2>2. Latest(log) = SubSeq(log, m, n)
    BY <1>1, <1>3 DEF Latest
  <2>3. \A i \in m..n : log[i] \in S
    BY <2>1
  <2> HIDE DEF m
  <2>4. /\ SubSeq(log, m, n) \in Seq(S)
        /\ Len(SubSeq(log, m, n)) = IF m <= n THEN n - m + 1 ELSE 0
        /\ \A i \in 1..(n - m + 1) : SubSeq(log, m, n)[i] = log[m + i - 1]
    BY <1>1, <2>1, <2>3, SubSeqProperties
  <2>5. ASSUME NEW i \in 1..Len(SubSeq(log, m, n))
        PROVE  \E j \in 1..n : SubSeq(log, m, n)[i] = log[j]
    <3>1. i \in 1..(n - m + 1)
      BY <1>1, <2>1, <2>4
    <3> QED BY <2>1, <2>4, <3>1
  <2> QED BY <1>1, <1>3, <2>2, <2>4, <2>5
<1> QED BY <1>1, <1>2, <1>3

\* Every other step leaves the view as it is, and what it explains.
LEMMA ViewKept ==
  ASSUME ViewInv, Longer, Stays, UNCHANGED view
  PROVE  ViewOK(view)'
<1>0. TypeInv /\ ViewOK(view)
  BY DEF ViewInv, ToldInv, LogInv, BusyInv
<1> DEFINE s == view.session
<1>1. view.next \in {"INBOX", "EVENTS"} => Shown(events'[s], view.active_run, view.status)
  BY <1>0 DEF ViewOK, Shown, Longer
<1>2. view.next = "EVENTS" => Explained(events'[s], view.inbox)
  BY <1>0 DEF ViewOK, Explained, Longer
<1>3. view.next = "QUESTIONS" => /\ Backed(questions', view.events, s)
                                 /\ Heeded(questions', view.inbox, s)
  BY <1>0, BacksStays DEF ViewOK, Backed, Heeded, Stays, Asked
<1> QED BY <1>0, <1>1, <1>2, <1>3 DEF ViewOK

LEMMA IdleViewIs ==
  IdleView \in Views /\ IdleView.next = "SESSION" /\ IdleView.active_run = NoRun
<1>1. IdleView.questions \in QuestionViews
  <2>1. [q \in {} |-> "NONE"] \in [{} -> PendingQuestionStatus \cup {"NONE"}]
    OBVIOUS
  <2> QED BY <2>1 DEF IdleView, QuestionViews
<1> QED BY <1>1 DEF IdleView, Views

LEMMA ViewInit == Init => ViewInv
<1> SUFFICES ASSUME Init PROVE ViewInv
  OBVIOUS
<1>1. view = IdleView
  BY DEF Init
<1> QED BY <1>1, IdleViewIs, ToldInit DEF ViewInv, ViewOK

LEMMA ViewReads ==
  ASSUME ViewInv, ViewStep
  PROVE  ViewOK(view)'
<1> DEFINE v == view
           s == view.session
<1>0. /\ TypeInv /\ v \in Views /\ UNCHANGED <<events, inbox, questions, runs>>
      /\ \A o \in Sessions : Explained(events[o], inbox[o]) /\ Backed(questions, events[o], o)
      /\ \A o \in Sessions : events[o] \in Seq(AgentEvent) /\ inbox[o] \in Seq(AgentSessionInbox)
  BY ViewsOnlyRead DEF ViewInv, ToldInv, AllTold, LogInv, BusyInv, ViewOK, TypeInv, TypeOK
<1>a. ViewOK(v)
  BY DEF ViewInv
<1>b. view.limit \in Nat
  BY <1>0 DEF Views
<1>1. ASSUME NEW o \in Sessions, ViewSession(o) PROVE ViewOK(view)'
  <2>1. PICK limit \in HistoryLimits :
          v.next = "SESSION" /\ view' = [v EXCEPT !.session = o, !.limit = limit, !.next = "RUN"]
    BY <1>1 DEF ViewSession
  <2>3. limit \in Nat
    BY LimitsAssumption
  <2> HIDE DEF v
  <2>2. view' \in Views /\ view'.next = "RUN" /\ view'.session = o /\ view'.active_run = v.active_run
    BY <1>0, <2>1, <2>3 DEF Views
  <2> QED BY <1>0, <1>a, <2>1, <2>2 DEF ViewOK
<1>2. CASE ViewActiveRun
  <2>0. s \in Sessions /\ v.next = "RUN" /\ v.active_run = NoRun
    BY <1>2, <1>a DEF ViewActiveRun, ViewOK
  <2>1. CASE view' = [v EXCEPT !.next = "INBOX"]
    <3> HIDE DEF v
    <3>1. /\ view' \in Views /\ view'.next = "INBOX" /\ view'.session = v.session
          /\ view'.active_run = v.active_run
      BY <1>0, <2>1 DEF Views
    <3> QED BY <2>0, <3>1 DEF ViewOK, Shown, v
  <2>2. ASSUME NEW r \in ActiveRuns(s),
               view' = [v EXCEPT !.active_run = r, !.status = runs[r].status, !.next = "INBOX"]
        PROVE  ViewOK(view)'
    <3>1. r \in RunIds /\ r[1] = s /\ runs[r].active_slot = 1 /\ runs[r] \in AgentRun
      BY <1>0 DEF ActiveRuns, TypeInv, TypeOK
    <3> DEFINE st == runs[r].status
    <3>2. st # "NONE" /\ st \in AgentRunStatus \cup {"NONE"} /\ Story(events[s], r, st)
      BY <3>1, StatusesDisjoint DEF ViewInv, ToldInv, LogInv, BusyInv, Slots, AgentRun, ACTIVE
    <3>3. Shown(events[s], r, st)
      BY <3>2 DEF Story, Tells, Moves, Shown
    <3>4. view' = [v EXCEPT !.active_run = r, !.status = st, !.next = "INBOX"]
      BY <2>2
    <3> HIDE DEF v, st
    <3>5. /\ view' \in Views /\ view'.next = "INBOX" /\ view'.session = v.session
          /\ view'.active_run = r /\ view'.status = st
      BY <1>0, <3>1, <3>2, <3>4 DEF Views
    <3> QED BY <1>0, <2>0, <3>3, <3>5 DEF ViewOK, v
  <2> QED BY <1>2, <2>1, <2>2 DEF ViewActiveRun
<1>3. CASE ViewInbox
  <2> DEFINE box == Latest(inbox[s])
             more == Len(inbox[s]) > view.limit
  <2>0. s \in Sessions /\ v.next = "INBOX" /\ Shown(events[s], v.active_run, v.status)
    BY <1>3, <1>a DEF ViewInbox, ViewOK
  <2>1. /\ box \in Seq(AgentSessionInbox)
        /\ \A i \in 1..Len(box) : \E j \in 1..Len(inbox[s]) : box[i] = inbox[s][j]
    BY <1>0, <1>b, <2>0, LatestIs
  <2>2. Explained(events[s], box)
    BY <1>0, <2>0, <2>1 DEF Explained
  <2>3. /\ view' = [v EXCEPT !.inbox = box, !.inbox_has_more = more, !.next = "EVENTS"]
        /\ more \in BOOLEAN
    BY <1>3 DEF ViewInbox
  <2> HIDE DEF v, box, more
  <2>4. /\ view' \in Views /\ view'.next = "EVENTS" /\ view'.session = v.session
        /\ view'.active_run = v.active_run /\ view'.status = v.status /\ view'.inbox = box
    BY <1>0, <2>1, <2>3 DEF Views
  <2> QED BY <1>0, <2>0, <2>2, <2>4 DEF ViewOK, v
<1>4. CASE ViewEvents
  <2> DEFINE log == Latest(events[s])
             more == Len(events[s]) > view.limit
  <2>0. /\ s \in Sessions /\ v.next = "EVENTS" /\ Shown(events[s], v.active_run, v.status)
        /\ Explained(events[s], v.inbox) /\ Backed(questions, events[s], s)
    BY <1>0, <1>4, <1>a DEF ViewEvents, ViewOK
  <2>1. /\ log \in Seq(AgentEvent)
        /\ \A i \in 1..Len(log) : \E j \in 1..Len(events[s]) : log[i] = events[s][j]
        /\ ~more => log = events[s]
    BY <1>0, <1>b, <2>0, LatestIs
  <2>2. Backed(questions, log, s)
    BY <2>0, <2>1 DEF Backed
  <2>6. Heeded(questions, v.inbox, s)
    BY <2>0 DEF Backed, Backs, Explained, Explains, Heeded
  <2>3. ~more => Shown(log, v.active_run, v.status) /\ Explained(log, v.inbox)
    BY <2>0, <2>1
  <2>4. /\ view' = [v EXCEPT !.events = log, !.events_has_more = more, !.next = "QUESTIONS"]
        /\ more \in BOOLEAN
    BY <1>4 DEF ViewEvents
  <2> HIDE DEF v, log, more
  <2>5. /\ view' \in Views /\ view'.next = "QUESTIONS" /\ view'.session = v.session
        /\ view'.active_run = v.active_run /\ view'.status = v.status
        /\ view'.inbox = v.inbox /\ view'.events = log /\ view'.events_has_more = more
    BY <1>0, <2>1, <2>4 DEF Views
  <2> QED BY <1>0, <2>0, <2>2, <2>3, <2>5, <2>6 DEF ViewOK, v
<1>5. CASE ViewQuestions
  <2> DEFINE S == LatestQuestions(s)
             qs == [q \in S |-> questions[q].status]
             more == S # QuestionsOf(s)
  <2>0. /\ s \in Sessions /\ v.next = "QUESTIONS" /\ Backed(questions, v.events, s)
        /\ Heeded(questions, v.inbox, s)
        /\ ~v.events_has_more => Shown(v.events, v.active_run, v.status)
                                 /\ Explained(v.events, v.inbox)
    BY <1>5, <1>a DEF ViewQuestions, ViewOK
  <2>1. qs \in QuestionViews
    <3>1. S \in SUBSET Questions /\ qs \in [S -> PendingQuestionStatus \cup {"NONE"}]
      BY <1>0 DEF TypeInv, TypeOK, PendingQuestion, LatestQuestions, QuestionsOf
    <3> HIDE DEF S, qs
    <3> QED BY <3>1 DEF QuestionViews
  <2>2. ASSUME NEW q \in Questions, Asked(q), questions[q].run[1] = s
        PROVE  IF q \in DOMAIN qs THEN qs[q] = questions[q].status ELSE more
    <3>1. q \in QuestionsOf(s)
      BY <1>0, <2>2, RowsAssumption DEF TypeInv, QuestionOK, QuestionsOf
    <3> QED BY <3>1
  <2>3. /\ view' = [v EXCEPT !.next = "DONE", !.questions = qs, !.questions_has_more = more]
        /\ more \in BOOLEAN
    BY <1>5 DEF ViewQuestions
  <2>4. Accounted(v.events, v.inbox, qs, more)
    <3> HIDE DEF qs, more
    <3> QED BY <2>0, <2>2 DEF Backed, Backs, Heeded, Asked, Accounted, Answer
  <2> HIDE DEF v, qs, more
  <2>5. /\ view' \in Views /\ view'.next = "DONE" /\ view'.session = v.session
        /\ view'.active_run = v.active_run /\ view'.status = v.status
        /\ view'.inbox = v.inbox /\ view'.events = v.events
        /\ view'.events_has_more = v.events_has_more /\ view'.questions = qs
        /\ view'.questions_has_more = more
    BY <1>0, <2>1, <2>3 DEF Views
  <2> QED BY <2>0, <2>4, <2>5 DEF ViewOK, v
<1>6. CASE ViewReturned
  <2>1. view' = IdleView /\ IdleView \in Views
    BY <1>6, IdleViewIs DEF ViewReturned
  <2> QED BY <2>1, IdleViewIs DEF ViewOK
<1> QED BY <1>1, <1>2, <1>3, <1>4, <1>5, <1>6 DEF ViewStep

LEMMA ViewNext == ViewInv /\ [Next]_vars => ViewInv'
<1> SUFFICES ASSUME ViewInv, [Next]_vars PROVE ViewOK(view)'
  BY ToldStep DEF ViewInv
<1>1. Longer /\ Stays
  BY ToldStep, StaysStep DEF ViewInv, ToldInv, LogInv
<1>2. CASE ViewStep
  BY <1>2, ViewReads
<1>3. CASE ~ViewStep
  <2>1. UNCHANGED view
    BY <1>3 DEF Next, vars, DefinitionStep, CreateDefinition, PublishVersion, SessionStep,
                CreateSession, RunStep, CreateRun, InsertRun, TransitionRun, AskQuestion,
                QuestionStep, QuestionFallsDue, AnswerQuestion, OverrideAnswerQuestion,
                ConsumeQuestionAnswer
  <2> QED BY <1>1, <2>1, ViewKept
<1> QED BY <1>2, <1>3

\* A view is put together by five statements under no lock, while runs begin, move and end
\* between them: the order in which they read makes every part explain the parts before, as
\* far as the limit asked for lets it, whatever that limit is.
THEOREM ViewsAddUp == Spec => []ViewExplained
<1>1. ViewInv => ViewExplained
  BY DEF ViewInv, ViewOK, ViewExplained, Shown, Explained, Explains, Accounted,
     Answer, ShownAnswered
<1> QED BY <1>1, ViewInit, ViewNext, PTL DEF Spec

-----------------------------------------------------------------------------
(* The session holds the dialogue of module Dialogue.                       *)

LEMMA StagesAre ==
  /\ Stages["NONE"] = "new" /\ Stages["PENDING"] = "open" /\ Stages["ANSWERED"] = "answered"
  /\ Stages["EXPIRED"] = "dropped" /\ Stages["CANCELLED"] = "dropped"
BY DEF Stages

\* An open question is one that is pending, and its run is being asked about.
LEMMA StageIs ==
  ASSUME BusyInv, NEW r \in RunIds
  PROVE  /\ OpenQuestions(r) =
              {q \in Questions : questions[q].run = r /\ questions[q].status = "PENDING"}
         /\ runs[r].status = "NONE" => Stage(r) = "new"
         /\ runs[r].status \in TERMINAL => Stage(r) = runs[r].status
         /\ runs[r].status \in ACTIVE /\ OpenQuestions(r) = {} => Stage(r) = "working"
         /\ OpenQuestions(r) # {} =>
              runs[r].status = "WAITING_USER" /\ Stage(r) = "asking"
         /\ Stage(r) \in {"working", "asking"} <=> runs[r].status \in ACTIVE
<1>1. runs[r].status \in AgentRunStatus \cup {"NONE"}
  BY DEF BusyInv, TypeInv, TypeOK, AgentRun
<1>2. "NONE" \notin TERMINAL /\ "WAITING_USER" \in ACTIVE
      /\ "working" \notin TERMINAL /\ "asking" \notin TERMINAL
  BY DEF ACTIVE, TERMINAL
<1>3. OpenQuestions(r) # {} => runs[r].status = "WAITING_USER"
  BY DEF OpenQuestions, BusyInv, Waits
<1>4. OpenQuestions(r) =
        {q \in Questions : questions[q].run = r /\ questions[q].status = "PENDING"}
  BY DEF OpenQuestions, BusyInv, Waits
<1> QED BY <1>1, <1>2, <1>3, <1>4, StatusesDisjoint DEF Stage

LEMMA StageKept ==
  ASSUME NEW r \in RunIds, runs'[r].status = runs[r].status,
         OpenQuestions(r)' = OpenQuestions(r)
  PROVE  Stage(r)' = Stage(r)
BY DEF Stage

LEMMA FunctionIsSeq ==
  ASSUME NEW S, NEW n \in Nat, NEW f \in [1..n -> S]
  PROVE  f \in Seq(S) /\ Len(f) = n
OBVIOUS

HeardIn(box) == [i \in 1..Len(box) |-> Heard(box[i])]

\* What enters an inbox is heard last.
LEMMA HeardAppended ==
  ASSUME TypeInv, NEW s \in Sessions, NEW x \in AgentSessionInbox, AppendInbox(s, x)
  PROVE  [o \in Sessions |-> HeardIn(inbox[o])]' =
           [[o \in Sessions |-> HeardIn(inbox[o])] EXCEPT ![s] = Append(@, Heard(x))]
<1> DEFINE box == inbox[s]
           Items == {Heard(y) : y \in AgentSessionInbox}
           said == HeardIn(box)
<1>1. /\ box \in Seq(AgentSessionInbox) /\ inbox'[s] = Append(box, x)
      /\ \A o \in Sessions : o # s => inbox'[o] = inbox[o]
  BY InboxOne
<1>2. /\ Len(box) \in Nat /\ Len(Append(box, x)) = Len(box) + 1
      /\ \A i \in 1..Len(box) : Append(box, x)[i] = box[i]
      /\ Append(box, x)[Len(box) + 1] = x
  BY <1>1, AppendProperties
<1>3. said \in Seq(Items) /\ Len(said) = Len(box) /\ Heard(x) \in Items
  <2>1. \A i \in 1..Len(box) : Heard(box[i]) \in Items
    BY <1>1, ElementOfSeq
  <2> HIDE DEF Items, box
  <2>2. said \in [1..Len(box) -> Items]
    BY <2>1 DEF HeardIn
  <2>3. Heard(x) \in Items
    BY DEF Items
  <2> HIDE DEF said
  <2>4. said \in Seq(Items) /\ Len(said) = Len(box)
    BY <1>2, <2>2, FunctionIsSeq
  <2> QED BY <2>3, <2>4
<1>4. /\ Append(said, Heard(x)) \in Seq(Items)
      /\ Len(Append(said, Heard(x))) = Len(box) + 1
      /\ \A i \in 1..Len(box) : Append(said, Heard(x))[i] = said[i]
      /\ Append(said, Heard(x))[Len(box) + 1] = Heard(x)
  BY <1>3, AppendProperties
<1>5. HeardIn(Append(box, x)) = Append(said, Heard(x))
  <2> DEFINE y == HeardIn(Append(box, x))
             z == Append(said, Heard(x))
  <2>1. DOMAIN y = 1..(Len(box) + 1) /\ DOMAIN z = 1..(Len(box) + 1)
    BY <1>2, <1>4, LenProperties DEF HeardIn
  <2>2. ASSUME NEW i \in 1..(Len(box) + 1) PROVE y[i] = z[i]
    <3>0. i \in 1..Len(box) \/ i = Len(box) + 1
      BY <1>2
    <3>1. CASE i \in 1..Len(box)
      BY <1>2, <1>4, <3>1 DEF HeardIn
    <3>2. CASE i = Len(box) + 1
      <4>1. y[i] = Heard(Append(box, x)[i])
        BY <1>2 DEF HeardIn
      <4>2. y[i] = Heard(x) /\ z[i] = Heard(x)
        BY <1>2, <1>4, <3>2, <4>1
      <4> QED BY <4>2
    <3> QED BY <3>0, <3>1, <3>2
  <2>3. y = [i \in 1..(Len(box) + 1) |-> y[i]] /\ z = [i \in 1..(Len(box) + 1) |-> z[i]]
    BY <1>2, <1>4, <2>1, LenProperties DEF HeardIn
  <2> HIDE DEF y, z, box
  <2> QED BY <2>2, <2>3 DEF y, z
<1> QED BY <1>1, <1>5

LEMMA TellIs ==
  ASSUME TypeInv, NEW s \in Sessions, NEW x \in AgentSessionInbox, AppendInbox(s, x)
  PROVE  Promise!Tell(s, Heard(x))
BY HeardAppended DEF Promise!Tell, HeardIn

LEMMA StageRow ==
  ASSUME NEW r \in RunIds, \A o \in RunIds : o # r => Stage(o)' = Stage(o)
  PROVE  [o \in RunIds |-> Stage(o)]' = [[o \in RunIds |-> Stage(o)] EXCEPT ![r] = Stage(r)']
OBVIOUS

\* A step that moves no run to another stage is none of the dialogue.
LEMMA DialogueStutters ==
  ASSUME \A r \in RunIds : Stage(r)' = Stage(r),
         \A q \in Questions : /\ questions'[q].status = questions[q].status
                              /\ questions'[q].run = questions[q].run,
         UNCHANGED inbox
  PROVE  UNCHANGED Promise!vars
BY DEF Promise!vars

LEMMA DialogueBegins ==
  ASSUME BusyInv, NEW s \in Sessions, NEW k \in Keys, NEW i \in Inputs, CreateRun(s, k, i)
  PROVE  Promise!Next
<1> DEFINE x == [kind |-> "RUN_REQUEST", run |-> <<s, k>>, question |-> NoQuestion,
                 actor |-> sessions[s].requester]
<1>0. TypeInv /\ runs \in [RunIds -> AgentRun]
  BY DEF BusyInv, TypeInv, TypeOK
<1>1. PICK r \in RunIds : r = <<s, k>> /\ r[1] = s
  BY RunIdsAre
<1>2. /\ runs[r].status = "NONE" /\ UNCHANGED questions /\ AppendInbox(s, x)
      /\ runs' = [runs EXCEPT ![r] = [status |-> "QUEUED", active_slot |-> 1, input |-> i]]
      /\ \A o \in RunIds : o[1] = s => runs[o].active_slot # 1
  BY <1>1 DEF CreateRun, InsertRun, ActiveRuns
<1>3. x \in AgentSessionInbox /\ Heard(x) = <<r>>
  BY <1>0, <1>1 DEF TypeInv, CreateRun, AgentSessionInbox, Heard
<1>4. Promise!Tell(s, <<r>>)
  BY <1>0, <1>2, <1>3, TellIs
<1>5. Stage(r) = "new" /\ Stage(r)' = "working"
  <2>1. runs'[r].status = "QUEUED" /\ "QUEUED" \notin TERMINAL
    BY <1>0, <1>2 DEF TERMINAL
  <2> QED BY <1>2, <2>1 DEF Stage
<1>6. \A o \in RunIds : o # r => Stage(o)' = Stage(o)
  BY <1>0, <1>2 DEF Stage, OpenQuestions
<1>7. \A o \in RunIds : o[1] = s => Stage(o) \notin {"working", "asking"}
  BY <1>2, StageIs DEF BusyInv, Slots
<1>8. Promise!Begin(r)
  BY <1>1, <1>2, <1>4, <1>5, <1>6, <1>7, StageRow DEF Promise!Begin, Promise!Busy
<1> QED BY <1>8 DEF Promise!Next

LEMMA DialogueAsks ==
  ASSUME BusyInv, NEW r \in RunIds, NEW q \in Questions, NEW p \in Principals,
         AskQuestion(r, q, p)
  PROVE  Promise!Next
<1>0. /\ TypeInv /\ runs \in [RunIds -> AgentRun]
      /\ questions \in [Questions -> PendingQuestion]
      /\ "RUNNING" \in ACTIVE /\ "WAITING_USER" \in AgentRunStatus
      /\ "WAITING_USER" \notin TERMINAL /\ "WAITING_USER" # "NONE"
  BY DEF BusyInv, TypeInv, TypeOK, AgentRunStatus, ACTIVE, TERMINAL
<1>1. /\ runs[r].status = "RUNNING" /\ questions[q].status = "NONE" /\ OpenQuestions(r) = {}
      /\ runs' = Moved(r, "WAITING_USER") /\ UNCHANGED inbox
      /\ questions'[q].run = r /\ questions'[q].status = "PENDING"
      /\ questions'[q].open_slot = 1
      /\ \A x \in Questions : x # q => questions'[x] = questions[x]
  BY <1>0 DEF AskQuestion
<1>2. /\ runs'[r].status = "WAITING_USER"
      /\ \A o \in RunIds : o # r => runs'[o] = runs[o]
  BY <1>0, <1>1, MovedTyped
<1>3. Stage(r) = "working" /\ Stage(r)' = "asking"
  <2>1. q \in OpenQuestions(r)'
    BY <1>1 DEF OpenQuestions
  <2> QED BY <1>0, <1>1, <1>2, <2>1, StageIs DEF Stage
<1>4. \A o \in RunIds : o # r => Stage(o)' = Stage(o)
  <2>1. ASSUME NEW o \in RunIds, o # r PROVE OpenQuestions(o)' = OpenQuestions(o)
    <3>1. questions[q].open_slot = 0
      BY <1>0, <1>1 DEF TypeInv, QuestionOK, Asked
    <3> QED BY <1>1, <2>1, <3>1 DEF OpenQuestions
  <2> QED BY <1>2, <2>1, StageKept
<1>5. [x \in Questions |-> Stages[questions[x].status]]' =
        [[x \in Questions |-> Stages[questions[x].status]] EXCEPT ![q] = "open"]
  BY <1>1, StagesAre
<1>6. [x \in Questions |-> questions[x].run]' =
        [[x \in Questions |-> questions[x].run] EXCEPT ![q] = r]
  BY <1>1
<1>7. Promise!Ask(r, q)
  BY <1>1, <1>3, <1>4, <1>5, <1>6, StagesAre, StageRow DEF Promise!Ask
<1> QED BY <1>7 DEF Promise!Next

LEMMA DialogueAnswers ==
  ASSUME BusyInv, NEW q \in Questions, NEW p \in Principals, Answerable(q),
         ConsumeQuestionAnswer(q, p)
  PROVE  Promise!Next
<1>0. /\ TypeInv /\ runs \in [RunIds -> AgentRun]
      /\ questions \in [Questions -> PendingQuestion]
      /\ "QUEUED" \in AgentRunStatus /\ "QUEUED" \notin TERMINAL
      /\ questions[q].status = "PENDING"
  BY DEF BusyInv, TypeInv, TypeOK, AgentRunStatus, ACTIVE, TERMINAL, Answerable
<1>1. PICK r \in RunIds : r = questions[q].run
  BY <1>0 DEF TypeInv, QuestionOK, Asked
<1> DEFINE x == [kind |-> "QUESTION_ANSWER", run |-> r, question |-> q, actor |-> p]
           n == Len(inbox[r[1]]) + 1
<1>2. /\ runs' = Moved(r, "QUEUED") /\ AppendInbox(r[1], x)
      /\ questions' = [questions EXCEPT ![q] = Answered(questions[q], p, n)]
  BY <1>0, <1>1 DEF ConsumeQuestionAnswer
<1>3. n \in Nat /\ r[1] \in Sessions
  BY <1>0, RunIdsAre DEF TypeInv, TypeOK
<1>4. /\ questions'[q].status = "ANSWERED" /\ questions'[q].run = r
      /\ questions'[q].open_slot = 0
      /\ \A y \in Questions : y # q => questions'[y] = questions[y]
  BY <1>0, <1>1, <1>2, <1>3, AnsweredRow
<1>5. Promise!Tell(r[1], <<q, p>>)
  <2>1. x \in AgentSessionInbox /\ Heard(x) = <<q, p>>
    BY DEF AgentSessionInbox, Heard
  <2> QED BY <1>0, <1>2, <1>3, <2>1, TellIs
<1>6. q \in OpenQuestions(r) /\ Stage(r) = "asking"
  BY <1>0, <1>1, StageIs
<1>7. /\ runs'[r].status = "QUEUED"
      /\ \A o \in RunIds : o # r => runs'[o] = runs[o]
  BY <1>0, <1>2, MovedTyped
<1>8. Stage(r)' = "working"
  BY <1>0, <1>7 DEF Stage
<1>9. \A o \in RunIds : o # r => Stage(o)' = Stage(o)
  <2>1. ASSUME NEW o \in RunIds, o # r PROVE OpenQuestions(o)' = OpenQuestions(o)
    BY <1>1, <1>4, <2>1 DEF OpenQuestions
  <2> QED BY <1>7, <2>1, StageKept
<1>10. [y \in Questions |-> Stages[questions[y].status]]' =
         [[y \in Questions |-> Stages[questions[y].status]] EXCEPT ![q] = "answered"]
  BY <1>4, StagesAre
<1>11. [y \in Questions |-> questions[y].run]' = [y \in Questions |-> questions[y].run]
  BY <1>1, <1>4
<1>12. Promise!Answer(r, q, p)
  BY <1>0, <1>1, <1>5, <1>6, <1>8, <1>9, <1>10, <1>11, StagesAre, StageRow DEF Promise!Answer
<1> QED BY <1>12 DEF Promise!Next

LEMMA DialogueMoves ==
  ASSUME BusyInv, NEW r \in RunIds, NEW target \in AgentRunStatus, TransitionRun(r, target)
  PROVE  Promise!Next \/ UNCHANGED Promise!vars
<1>0. /\ TypeInv /\ runs \in [RunIds -> AgentRun]
      /\ questions \in [Questions -> PendingQuestion]
  BY DEF BusyInv, TypeInv, TypeOK
<1>1. /\ runs[r].status \in ACTIVE
      /\ runs[r].status = "WAITING_USER" => \/ target \in TERMINAL
                                            \/ OpenQuestions(r) = {}
  BY <1>0, StatusesDisjoint DEF TransitionRun, AgentRun
<1>2. /\ runs' = Moved(r, target) /\ questions' = CloseOpenQuestions(r, target)
      /\ UNCHANGED inbox
  BY DEF TransitionRun
<1>3. /\ runs'[r].status = target
      /\ \A o \in RunIds : o # r => runs'[o] = runs[o]
  BY <1>0, <1>2, MovedTyped
<1>4. \A q \in Questions :
        IF target \in TERMINAL /\ q \in OpenQuestions(r)
        THEN /\ questions'[q].open_slot = 0
             /\ questions'[q].status \in {"EXPIRED", "CANCELLED"}
             /\ questions'[q].run = r
        ELSE questions'[q] = questions[q]
  BY <1>0, <1>2, CloseTyped
<1>5. \A o \in RunIds : o # r => Stage(o)' = Stage(o)
  <2>1. ASSUME NEW o \in RunIds, o # r PROVE OpenQuestions(o)' = OpenQuestions(o)
    BY <1>4, <2>1 DEF OpenQuestions
  <2> QED BY <1>3, <2>1, StageKept
<1>6. \A q \in Questions : questions'[q].run = questions[q].run
  BY <1>4 DEF OpenQuestions
<1>7. CASE target \in TERMINAL
  <2>1. Stage(r) \in {"working", "asking"} /\ Stage(r)' = target
    <3>1. "NONE" \notin TERMINAL
      BY DEF TERMINAL
    <3> QED BY <1>1, <1>3, <1>7, <3>1, StageIs DEF Stage
  <2>2. \A q \in Questions :
          Stages[questions'[q].status] =
            IF Stages[questions[q].status] = "open" /\ questions[q].run = r
            THEN "dropped" ELSE Stages[questions[q].status]
    <3>1. \A q \in Questions : questions[q].status \in PendingQuestionStatus \cup {"NONE"}
      BY <1>0 DEF PendingQuestion
    <3>2. \A q \in Questions :
            (Stages[questions[q].status] = "open") <=> (questions[q].status = "PENDING")
      BY <3>1, StagesAre DEF PendingQuestionStatus
    <3>3. \A q \in Questions :
            q \in OpenQuestions(r) <=> questions[q].status = "PENDING" /\ questions[q].run = r
      BY StageIs
    <3> QED BY <1>4, <1>7, <3>2, <3>3, StagesAre
  <2>3. Promise!End(r, target)
    BY <1>2, <1>5, <1>6, <2>1, <2>2, StageRow DEF Promise!End
  <2> QED BY <1>7, <2>3 DEF Promise!Next
<1>8. CASE target \notin TERMINAL
  <2>1. OpenQuestions(r) = {} /\ OpenQuestions(r)' = {}
    BY <1>1, <1>4, <1>8, StageIs DEF OpenQuestions
  <2>2. Stage(r) = "working" /\ Stage(r)' = "working"
    <3>1. target # "NONE"
      BY StatusesDisjoint
    <3> QED BY <1>1, <1>3, <1>8, <2>1, <3>1, StageIs DEF Stage
  <2> QED BY <1>2, <1>4, <1>5, <1>8, <2>2, DialogueStutters
<1> QED BY <1>7, <1>8

LEMMA DialogueStep ==
  ASSUME BusyInv, [Next]_vars
  PROVE  Promise!Next \/ UNCHANGED Promise!vars
<1>1. CASE DefinitionStep \/ SessionStep \/ ViewStep \/ UNCHANGED vars
  <2>1. UNCHANGED <<runs, questions, inbox>>
    BY <1>1, ViewsOnlyRead
       DEF BusyInv, DefinitionStep, SessionStep, CreateDefinition, PublishVersion,
           CreateSession, vars
  <2> QED BY <2>1, DialogueStutters DEF Stage, OpenQuestions
<1>2. CASE RunStep
  BY <1>2, DialogueBegins, DialogueMoves, DialogueAsks DEF RunStep
<1>3. ASSUME NEW q \in Questions, QuestionFallsDue(q) PROVE UNCHANGED Promise!vars
  <2>1. /\ UNCHANGED <<runs, inbox>>
        /\ \A x \in Questions : /\ questions'[x].run = questions[x].run
                                /\ questions'[x].status = questions[x].status
                                /\ questions'[x].open_slot = questions[x].open_slot
    BY <1>3 DEF QuestionFallsDue, BusyInv, TypeInv, TypeOK, PendingQuestion
  <2> QED BY <2>1, DialogueStutters DEF Stage, OpenQuestions
<1>4. ASSUME NEW q \in Questions, AnswerQuestion(q) PROVE Promise!Next
  <2>1. questions[q].allowed \in Principals
    BY <1>4 DEF AnswerQuestion, Answerable, BusyInv, TypeInv, QuestionOK, Asked
  <2> QED BY <1>4, <2>1, DialogueAnswers DEF AnswerQuestion
<1>5. CASE QuestionStep
  BY <1>3, <1>4, <1>5, DialogueAnswers DEF QuestionStep, OverrideAnswerQuestion
<1> QED BY <1>1, <1>2, <1>5 DEF Next

\* A session holds one dialogue: create_run begins a request alone and once,
\* ask_question stops it, _consume_question_answer takes it up again with an answer the
\* agent is told once, and _transition_locked drops its question with its end.
THEOREM SessionsHoldDialogues == Spec => ImplementsDialogue
<1>1. Init => Promise!Init
  BY StagesAre DEF Init, Promise!Init, Stage
<1>2. BusyInv /\ [Next]_vars => [Promise!Next]_Promise!vars
  BY DialogueStep
<1> QED BY <1>1, <1>2, BusyInvariant, PTL DEF Spec, ImplementsDialogue, Promise!Spec
=============================================================================
