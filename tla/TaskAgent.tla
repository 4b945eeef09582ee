------------------------------ MODULE TaskAgent ------------------------------
(***************************************************************************)
(* Agent sessions: their runs, the questions a run asks, the inbox and the *)
(* event log of each session, and the view of a session an operator reads. *)
(*                                                                         *)
(* Every operation that writes locks the workspace row first, re-reads the *)
(* rows it uses under that lock, and is committed by its endpoint as one   *)
(* transaction, so it is one action here; an operation that raises rolls   *)
(* back and changes no row of this model.  The view takes no lock: its     *)
(* five statements see five states, so each is an action.                  *)
(***************************************************************************)
EXTENDS Naturals, Sequences, FiniteSets

CONSTANTS
  Definitions,   \* agent definition keys
  Sessions,      \* agent sessions
  Keys,          \* idempotency keys a client uses in a session
  Inputs,        \* run inputs, as far as their digests tell them apart
  Principals,    \* those who request sessions and answer questions
  Questions,     \* question identities
  HistoryLimits, \* the values of history_limit that views are asked for
  MaxVersions,   \* bound: versions published of a definition
  MaxEvents      \* bound: events of a session

ASSUME LimitsAssumption ==
  HistoryLimits \subseteq Nat \ {0} /\ MaxVersions \in Nat /\ MaxEvents \in Nat

VARIABLES
  definitions, \* the definitions created
  versions,   \* versions[d]: how many versions of d are published
  sessions,   \* sessions[s]: the version and requester it is pinned to; version 0: no row
  runs,       \* runs[<<s, k>>]: the run of s with idempotency key k
  questions,  \* questions[q]: its row
  inbox,      \* inbox[s]: items in the order of their seq
  events,     \* events[s]: events in the order of their seq
  view        \* the view of a session that is being read

vars == <<definitions, versions, sessions, runs, questions, inbox, events, view>>

-----------------------------------------------------------------------------
(* Rows. *)

NoSession == <<"no session">>
NoDefinition == <<"no definition">>
NoInput == <<"no input">>
NoRun == <<>>
NoQuestion == <<"no question">>
Nobody == <<"nobody">>

RunIds == Sessions \X Keys

\* No row is one of the values that stand for its absence.
ASSUME RowsAssumption == NoQuestion \notin Questions /\ NoRun \notin RunIds

ACTIVE == {"QUEUED", "RUNNING", "WAITING_APPROVAL", "WAITING_USER", "PAUSED"}
TERMINAL == {"COMPLETED", "FAILED", "CANCELLED", "EXPIRED"}
AgentRunStatus == ACTIVE \cup TERMINAL
PendingQuestionStatus == {"PENDING", "ANSWERED", "EXPIRED", "CANCELLED"}

\* A status "NONE" stands for a row that does not exist.
AgentRun ==
  [status : AgentRunStatus \cup {"NONE"}, active_slot : 0..1,
   input : Inputs \cup {NoInput}]
PendingQuestion ==
  [run : RunIds \cup {NoRun}, allowed : Principals \cup {Nobody},
   status : PendingQuestionStatus \cup {"NONE"}, open_slot : 0..1,
   due : BOOLEAN, answer_inbox_seq : Nat, answered_by : Principals \cup {Nobody}]
AgentSessionInbox ==
  [kind : {"RUN_REQUEST", "QUESTION_ANSWER"}, run : RunIds,
   question : Questions \cup {NoQuestion}, actor : Principals]
AgentEvent ==
  [type : {"SESSION_CREATED", "RUN_CREATED", "RUN_STATUS_CHANGED",
           "QUESTION_ASKED", "QUESTION_ANSWERED"},
   run : RunIds \cup {NoRun}, question : Questions \cup {NoQuestion},
   from : AgentRunStatus \cup {"NONE"}, to : AgentRunStatus \cup {"NONE"}]

NewEvent(type, r, q, from, to) ==
  [type |-> type, run |-> r, question |-> q, from |-> from, to |-> to]

\* AgentSessionStateView, while it is put together: "next" is the statement to come.
IdleView ==
  [session |-> NoSession, limit |-> 0, next |-> "SESSION", active_run |-> NoRun, status |-> "NONE",
   inbox |-> <<>>, events |-> <<>>, questions |-> [q \in {} |-> "NONE"],
   inbox_has_more |-> FALSE, events_has_more |-> FALSE, questions_has_more |-> FALSE]

Init ==
  /\ definitions = {}
  /\ versions = [d \in Definitions |-> 0]
  /\ sessions = [s \in Sessions |->
       [definition |-> NoDefinition, version |-> 0, requester |-> Nobody]]
  /\ runs = [r \in RunIds |-> [status |-> "NONE", active_slot |-> 0, input |-> NoInput]]
  /\ questions = [q \in Questions |->
       [run |-> NoRun, allowed |-> Nobody, status |-> "NONE", open_slot |-> 0,
        due |-> FALSE, answer_inbox_seq |-> 0, answered_by |-> Nobody]]
  /\ inbox = [s \in Sessions |-> <<>>]
  /\ events = [s \in Sessions |-> <<>>]
  /\ view = IdleView

-----------------------------------------------------------------------------
(* The tables of the state machine and what one transition does. *)

ALLOWED_TRANSITIONS ==
  [s \in AgentRunStatus |->
    CASE s = "QUEUED" -> {"RUNNING", "PAUSED", "FAILED", "CANCELLED", "EXPIRED"}
      [] s = "RUNNING" -> AgentRunStatus \ {"RUNNING"}
      [] s = "WAITING_APPROVAL" -> {"QUEUED", "PAUSED", "FAILED", "CANCELLED", "EXPIRED"}
      [] s \in {"WAITING_USER", "PAUSED"} -> {"QUEUED", "FAILED", "CANCELLED", "EXPIRED"}
      [] s \in TERMINAL -> {}]

OpenQuestions(r) == {q \in Questions : questions[q].run = r /\ questions[q].open_slot = 1}

Moved_CountSlots(r, target) ==
  [runs EXCEPT ![r].status = target,
               ![r].active_slot = IF target \in TERMINAL THEN 0 ELSE @ + 1]

\* _transition_locked: the new run row ...
Moved(r, target) ==
  [runs EXCEPT ![r].status = target,
               ![r].active_slot = IF target \in TERMINAL THEN 0 ELSE 1]

\* A question that closes with its run, and one that is answered
Closed(question, target) ==
  [question EXCEPT !.open_slot = 0,
                   !.status = IF target = "EXPIRED" THEN "EXPIRED" ELSE "CANCELLED"]
Answered(question, p, at) ==
  [question EXCEPT !.status = "ANSWERED", !.open_slot = 0,
                   !.answered_by = p, !.answer_inbox_seq = at]

CloseOpenQuestions_All(r, target) ==
  [q \in Questions |->
    IF target \in TERMINAL /\ questions[q].run = r
    THEN Closed(questions[q], target)
    ELSE questions[q]]

\* ... the questions it closes when it ends ...
CloseOpenQuestions(r, target) ==
  [q \in Questions |->
    IF target \in TERMINAL /\ q \in OpenQuestions(r)
    THEN Closed(questions[q], target)
    ELSE questions[q]]

\* ... and the event it appends.
StatusChanged(r, target) ==
  NewEvent("RUN_STATUS_CHANGED", r, NoQuestion, runs[r].status, target)

\* _append_event_locked for each of the events es, within the bound.
AppendEvents(s, es) ==
  /\ Len(events[s]) + Len(es) <= MaxEvents
  /\ events' = [events EXCEPT ![s] = @ \o es]

\* _append_inbox_locked
AppendInbox(s, item) == inbox' = [inbox EXCEPT ![s] = Append(@, item)]

-----------------------------------------------------------------------------
(* Definitions and sessions. *)

\* create_definition: the key is unique.
CreateDefinition(d) ==
  /\ d \notin definitions
  /\ definitions' = definitions \cup {d}
  /\ UNCHANGED <<versions, sessions, runs, questions, inbox, events, view>>

\* publish_version: one more than the highest number so far.
PublishVersion(d) ==
  /\ d \in definitions
  /\ versions[d] < MaxVersions
  /\ versions' = [versions EXCEPT ![d] = @ + 1]
  /\ UNCHANGED <<definitions, sessions, runs, questions, inbox, events, view>>

\* create_session, pinned to one published version
CreateSession(s, d, n, p) ==
  /\ sessions[s].version = 0
  /\ n \in 1..versions[d]
  /\ sessions' = [sessions EXCEPT ![s] = [definition |-> d, version |-> n, requester |-> p]]
  /\ AppendEvents(s, <<NewEvent("SESSION_CREATED", NoRun, NoQuestion, "NONE", "NONE")>>)
  /\ UNCHANGED <<definitions, versions, runs, questions, inbox, view>>

-----------------------------------------------------------------------------
(* Runs and questions. *)

\* The run the session is busy with.
ActiveRuns(s) == {r \in RunIds : r[1] = s /\ runs[r].active_slot = 1}

\* The run, its request in the inbox and the event that it was created.
InsertRun(s, k, i) ==
  /\ runs' = [runs EXCEPT ![<<s, k>>] = [status |-> "QUEUED", active_slot |-> 1, input |-> i]]
  /\ AppendInbox(s, [kind |-> "RUN_REQUEST", run |-> <<s, k>>,
                     question |-> NoQuestion, actor |-> sessions[s].requester])
  /\ AppendEvents(s, <<NewEvent("RUN_CREATED", <<s, k>>, NoQuestion, "NONE", "QUEUED")>>)
  /\ UNCHANGED <<definitions, versions, sessions, questions, view>>

CreateRun_EvenIfKnown(s, k, i) ==
  sessions[s].version # 0 /\ ActiveRuns(s) = {} /\ InsertRun(s, k, i)

CreateRun_BesideActive(s, k, i) ==
  sessions[s].version # 0 /\ runs[<<s, k>>].status = "NONE" /\ InsertRun(s, k, i)

\* create_run.  A request whose key is known changes nothing: the same input is
\* given the run of the first request, another input is refused.
CreateRun(s, k, i) ==
  /\ sessions[s].version # 0
  /\ runs[<<s, k>>].status = "NONE"
  /\ ActiveRuns(s) = {}
  /\ InsertRun(s, k, i)

TransitionRun_QuestionIgnored(r, target) ==
  /\ runs[r].status # "NONE"
  /\ target \in ALLOWED_TRANSITIONS[runs[r].status]
  /\ runs' = Moved(r, target)
  /\ questions' = CloseOpenQuestions(r, target)
  /\ AppendEvents(r[1], <<StatusChanged(r, target)>>)
  /\ UNCHANGED <<definitions, versions, sessions, inbox, view>>

TransitionRun_EndsUnlogged(r, target) ==
  /\ runs[r].status # "NONE"
  /\ ~(runs[r].status = "WAITING_USER" /\ target = "QUEUED" /\ OpenQuestions(r) # {})
  /\ target \in ALLOWED_TRANSITIONS[runs[r].status]
  /\ runs' = Moved(r, target)
  /\ questions' = CloseOpenQuestions(r, target)
  /\ AppendEvents(r[1], IF target \in TERMINAL THEN <<>> ELSE <<StatusChanged(r, target)>>)
  /\ UNCHANGED <<definitions, versions, sessions, inbox, view>>

\* transition_run: an operator or a runtime moves the run.
TransitionRun(r, target) ==
  /\ runs[r].status # "NONE"
  /\ ~(runs[r].status = "WAITING_USER" /\ target = "QUEUED" /\ OpenQuestions(r) # {})
  /\ target \in ALLOWED_TRANSITIONS[runs[r].status]
  /\ runs' = Moved(r, target)
  /\ questions' = CloseOpenQuestions(r, target)
  /\ AppendEvents(r[1], <<StatusChanged(r, target)>>)
  /\ UNCHANGED <<definitions, versions, sessions, inbox, view>>

\* ask_question, with an expiry in the future: the run waits for the answer.
AskQuestion(r, q, p) ==
  /\ runs[r].status = "RUNNING"
  /\ questions[q].status = "NONE"
  /\ OpenQuestions(r) = {}
  /\ questions' = [questions EXCEPT ![q] =
       [run |-> r, allowed |-> p, status |-> "PENDING", open_slot |-> 1, due |-> FALSE,
        answer_inbox_seq |-> 0, answered_by |-> Nobody]]
  /\ runs' = Moved(r, "WAITING_USER")
  /\ AppendEvents(r[1], <<NewEvent("QUESTION_ASKED", r, q, "NONE", "NONE"),
                          StatusChanged(r, "WAITING_USER")>>)
  /\ UNCHANGED <<definitions, versions, sessions, inbox, view>>

\* The clock reaches expires_at; nothing acts on it.
QuestionFallsDue(q) ==
  /\ questions[q].status = "PENDING"
  /\ ~questions[q].due
  /\ questions' = [questions EXCEPT ![q].due = TRUE]
  /\ UNCHANGED <<definitions, versions, sessions, runs, inbox, events, view>>

Answerable_UntilDue(q) ==
  /\ questions[q].status # "NONE"
  /\ ~questions[q].due

\* _validate_answerable_question
Answerable(q) ==
  /\ questions[q].status = "PENDING"
  /\ ~questions[q].due
  /\ runs[questions[q].run].status = "WAITING_USER"
  /\ runs[questions[q].run].active_slot = 1

\* _consume_question_answer: the answer enters the inbox and the run is queued again.
ConsumeQuestionAnswer(q, p) ==
  LET r == questions[q].run
      s == r[1]
  IN /\ AppendInbox(s, [kind |-> "QUESTION_ANSWER", run |-> r, question |-> q, actor |-> p])
     /\ questions' = [questions EXCEPT ![q] = Answered(@, p, Len(inbox[s]) + 1)]
     /\ runs' = Moved(r, "QUEUED")
     /\ AppendEvents(s, <<NewEvent("QUESTION_ANSWERED", r, q, "NONE", "NONE"),
                          StatusChanged(r, "QUEUED")>>)
     /\ UNCHANGED <<definitions, versions, sessions, view>>

\* answer_question: by the principal the question is addressed to
AnswerQuestion(q) ==
  /\ Answerable(q)
  /\ ConsumeQuestionAnswer(q, questions[q].allowed)

\* override_answer_question: by any administrator, under the same conditions
OverrideAnswerQuestion(q, p) ==
  /\ Answerable(q)
  /\ ConsumeQuestionAnswer(q, p)

-----------------------------------------------------------------------------
(* get_session_state: five statements, no lock. *)

Latest(log) == IF Len(log) <= view.limit THEN log
               ELSE SubSeq(log, Len(log) - view.limit + 1, Len(log))

ViewSession(s) ==
  /\ view.next = "SESSION"
  /\ sessions[s].version # 0
  /\ \E limit \in HistoryLimits :
       view' = [view EXCEPT !.session = s, !.limit = limit, !.next = "RUN"]
  /\ UNCHANGED <<definitions, versions, sessions, runs, questions, inbox, events>>

ViewActiveRun ==
  /\ view.next = "RUN"
  /\ IF ActiveRuns(view.session) = {}
     THEN view' = [view EXCEPT !.next = "INBOX"]
     ELSE \E r \in ActiveRuns(view.session) :
            view' = [view EXCEPT !.active_run = r, !.status = runs[r].status,
                                 !.next = "INBOX"]
  /\ UNCHANGED <<definitions, versions, sessions, runs, questions, inbox, events>>

ViewInbox ==
  /\ view.next = "INBOX"
  /\ view' = [view EXCEPT !.inbox = Latest(inbox[view.session]),
                          !.inbox_has_more = Len(inbox[view.session]) > view.limit,
                          !.next = "EVENTS"]
  /\ UNCHANGED <<definitions, versions, sessions, runs, questions, inbox, events>>

ViewEvents ==
  /\ view.next = "EVENTS"
  /\ view' = [view EXCEPT !.events = Latest(events[view.session]),
                          !.events_has_more = Len(events[view.session]) > view.limit,
                          !.next = "QUESTIONS"]
  /\ UNCHANGED <<definitions, versions, sessions, runs, questions, inbox, events>>

QuestionsOf(s) == {q \in Questions : questions[q].run # NoRun /\ questions[q].run[1] = s}

\* created_at is read from the clock where the question is asked, under the lock.
AskedBefore(s, q, x) ==
  \E i, j \in 1..Len(events[s]) :
    /\ i < j
    /\ events[s][i].type = "QUESTION_ASKED" /\ events[s][i].question = q
    /\ events[s][j].type = "QUESTION_ASKED" /\ events[s][j].question = x

LatestQuestions(s) ==
  {q \in QuestionsOf(s) :
    Cardinality({x \in QuestionsOf(s) : AskedBefore(s, q, x)}) < view.limit}

ViewQuestions_RunLast ==
  /\ view.next = "QUESTIONS"
  /\ \E r \in ActiveRuns(view.session) :
       view' = [view EXCEPT !.next = "DONE", !.active_run = r, !.status = runs[r].status,
         !.questions = [q \in LatestQuestions(view.session) |-> questions[q].status],
         !.questions_has_more = LatestQuestions(view.session) # QuestionsOf(view.session)]
  /\ UNCHANGED <<definitions, versions, sessions, runs, questions, inbox, events>>

ViewQuestions ==
  /\ view.next = "QUESTIONS"
  /\ view' = [view EXCEPT !.next = "DONE",
       !.questions = [q \in LatestQuestions(view.session) |-> questions[q].status],
       !.questions_has_more = LatestQuestions(view.session) # QuestionsOf(view.session)]
  /\ UNCHANGED <<definitions, versions, sessions, runs, questions, inbox, events>>

\* The response is sent and another view may begin.
ViewReturned ==
  /\ view.next = "DONE"
  /\ view' = IdleView
  /\ UNCHANGED <<definitions, versions, sessions, runs, questions, inbox, events>>

-----------------------------------------------------------------------------
RunStep ==
  \/ \E s \in Sessions, k \in Keys, i \in Inputs : CreateRun(s, k, i)
  \/ \E r \in RunIds, target \in AgentRunStatus : TransitionRun(r, target)
  \/ \E r \in RunIds, q \in Questions, p \in Principals : AskQuestion(r, q, p)

QuestionStep ==
  \E q \in Questions :
    \/ QuestionFallsDue(q)
    \/ AnswerQuestion(q)
    \/ \E p \in Principals : OverrideAnswerQuestion(q, p)

ViewStep ==
  \/ \E s \in Sessions : ViewSession(s)
  \/ ViewActiveRun
  \/ ViewInbox
  \/ ViewEvents
  \/ ViewQuestions
  \/ ViewReturned

DefinitionStep == \E d \in Definitions : CreateDefinition(d) \/ PublishVersion(d)

SessionStep ==
  \E s \in Sessions, d \in Definitions, n \in 1..MaxVersions, p \in Principals :
    CreateSession(s, d, n, p)

\* Each step is one transaction under the locks of workspace, session and run.
Next ==
  \/ DefinitionStep
  \/ SessionStep
  \/ RunStep
  \/ QuestionStep
  \/ ViewStep

Spec == Init /\ [][Next]_vars
-----------------------------------------------------------------------------
(* Properties. *)

AgentSession ==
  [definition : Definitions \cup {NoDefinition}, version : 0..MaxVersions,
   requester : Principals \cup {Nobody}]

\* Rows, logs and the view are of their types (the tables of agent_models.py).
TypeOK ==
  /\ definitions \in SUBSET Definitions
  /\ versions \in [Definitions -> 0..MaxVersions]
  /\ sessions \in [Sessions -> AgentSession]
  /\ runs \in [RunIds -> AgentRun]
  /\ questions \in [Questions -> PendingQuestion]
  /\ inbox \in [Sessions -> Seq(AgentSessionInbox)]
  /\ events \in [Sessions -> Seq(AgentEvent)]
  /\ view.next \in {"SESSION", "RUN", "INBOX", "EVENTS", "QUESTIONS", "DONE"}

\* A session works on one run at a time, and the run that occupies the slot is
\* the one that has not ended: create_run refuses a second one, and only the end
\* of the first frees the slot.
OneActiveRun ==
  \A s \in Sessions :
    /\ \A a, b \in ActiveRuns(s) : a = b
    /\ \A k \in Keys : (runs[<<s, k>>].active_slot = 1) <=> (runs[<<s, k>>].status \in ACTIVE)

\* While a question is open its run waits for the user, and for that one question
\* only: no other operation moves the run on and leaves the question behind.
OpenQuestionWaits ==
  \A q \in Questions :
    /\ (questions[q].open_slot = 1) <=> (questions[q].status = "PENDING")
    /\ questions[q].status = "PENDING" =>
         /\ runs[questions[q].run].status = "WAITING_USER"
         /\ OpenQuestions(questions[q].run) = {q}

\* An answered question has one answer in the inbox of its session, where
\* answer_inbox_seq says, from the principal it records; any other question has
\* none, however often and by whom the answer was submitted.
AnsweredOnce ==
  \A q \in Questions :
    LET r == questions[q].run
        at == questions[q].answer_inbox_seq
    IN IF questions[q].status = "ANSWERED"
       THEN /\ at \in 1..Len(inbox[r[1]])
            /\ inbox[r[1]][at] = [kind |-> "QUESTION_ANSWER", run |-> r, question |-> q,
                                  actor |-> questions[q].answered_by]
            /\ \A s \in Sessions : \A i \in 1..Len(inbox[s]) :
                 inbox[s][i].question = q => s = r[1] /\ i = at
       ELSE \A s \in Sessions : \A i \in 1..Len(inbox[s]) : inbox[s][i].question # q

\* The event at i says what the status of r becomes.
Moves(e, r) == e.run = r /\ e.to # "NONE"

\* The event log of a session tells the whole story of its runs: the status the
\* log ends with is the status of the row, and each change starts from the status
\* the change before it led to.
LogAgrees ==
  \A r \in RunIds :
    LET log == events[r[1]]
    IN /\ runs[r].status # "NONE" =>
            \E i \in 1..Len(log) : /\ Moves(log[i], r)
                                   /\ log[i].to = runs[r].status
                                   /\ \A j \in (i + 1)..Len(log) : ~Moves(log[j], r)
       /\ \A j \in 1..Len(log) : Moves(log[j], r) /\ log[j].type # "RUN_CREATED" =>
            \E i \in 1..(j - 1) : /\ Moves(log[i], r)
                                  /\ log[i].to = log[j].from
                                  /\ \A m \in (i + 1)..(j - 1) : ~Moves(log[m], r)

\* A key names one request: however often create_run is repeated, its run was
\* created once and its request entered the inbox once.  (ImplementsDialogue covers the
\* inbox.)
RequestedOnce ==
  \A r \in RunIds :
    /\ \A i, j \in 1..Len(inbox[r[1]]) :
         (/\ inbox[r[1]][i].run = r /\ inbox[r[1]][i].kind = "RUN_REQUEST"
          /\ inbox[r[1]][j].run = r /\ inbox[r[1]][j].kind = "RUN_REQUEST") => i = j
    /\ \A i, j \in 1..Len(events[r[1]]) :
         (/\ events[r[1]][i].run = r /\ events[r[1]][i].type = "RUN_CREATED"
          /\ events[r[1]][j].run = r /\ events[r[1]][j].type = "RUN_CREATED") => i = j

ShownAnswered(q) == IF q \in DOMAIN view.questions THEN view.questions[q] = "ANSWERED"
                    ELSE view.questions_has_more

\* A view, though its parts are read at different times, explains itself: the
\* status it shows of the active run, every inbox item and every question event it
\* shows has its event or its question in the same view, unless the history it
\* would be in is cut off; a question that is shown is answered if an event or an item
\* says so.  get_session_state reads each part after those it must explain.
ViewExplained ==
  view.next = "DONE" =>
    /\ view.active_run # NoRun /\ ~view.events_has_more =>
         \E i \in 1..Len(view.events) : /\ view.events[i].run = view.active_run
                                        /\ view.events[i].to = view.status
    /\ ~view.events_has_more =>
         \A j \in 1..Len(view.inbox) :
           \E i \in 1..Len(view.events) :
             /\ view.events[i].run = view.inbox[j].run
             /\ view.events[i].question = view.inbox[j].question
             /\ view.events[i].type = IF view.inbox[j].kind = "RUN_REQUEST"
                                      THEN "RUN_CREATED" ELSE "QUESTION_ANSWERED"
    /\ \A i \in 1..Len(view.events) :
         LET q == view.events[i].question
         IN  /\ view.events[i].type = "QUESTION_ASKED" =>
                  q \in DOMAIN view.questions \/ view.questions_has_more
             /\ view.events[i].type = "QUESTION_ANSWERED" => ShownAnswered(q)
    /\ \A j \in 1..Len(view.inbox) :
         view.inbox[j].kind = "QUESTION_ANSWER" => ShownAnswered(view.inbox[j].question)

\* What has ended stays as it ended, and what a log holds is only added to: a run
\* that finished is not moved again and a question that closed is not opened or
\* answered again, whatever late answers, overrides and transitions arrive.
EndedStays ==
  [][/\ \A r \in RunIds : runs[r].status \in TERMINAL => runs'[r] = runs[r]
     /\ \A q \in Questions :
          questions[q].status \notin {"NONE", "PENDING"} => questions'[q] = questions[q]
     /\ \A s \in Sessions :
          /\ SubSeq(events'[s], 1, Len(events[s])) = events[s]
          /\ SubSeq(inbox'[s], 1, Len(inbox[s])) = inbox[s]]_vars

\* How far a request and a question have come for those who made and answer them, and
\* what an item of the inbox tells the agent
Stage(r) ==
  IF runs[r].status = "NONE" THEN "new"
  ELSE IF runs[r].status \in TERMINAL THEN runs[r].status
  ELSE IF runs[r].status = "WAITING_USER" /\ OpenQuestions(r) # {} THEN "asking"
  ELSE "working"

Stages == [NONE |-> "new", PENDING |-> "open", ANSWERED |-> "answered",
           EXPIRED |-> "dropped", CANCELLED |-> "dropped"]

Heard(item) == IF item.kind = "RUN_REQUEST" THEN <<item.run>>
               ELSE <<item.question, item.actor>>

Promise == INSTANCE Dialogue WITH
  Requests <- RunIds,
  SessionOf <- [r \in RunIds |-> r[1]],
  People <- Principals,
  Outcomes <- TERMINAL,
  NoRequest <- NoRun,
  request <- [r \in RunIds |-> Stage(r)],
  question <- [q \in Questions |-> Stages[questions[q].status]],
  about <- [q \in Questions |-> questions[q].run],
  told <- [s \in Sessions |-> [i \in 1..Len(inbox[s]) |-> Heard(inbox[s][i])]]

\* However requests, questions, answers, overrides, pauses and cancellations cross, a
\* session holds one dialogue: a request begins once and alone, a question stops it
\* until the one answer the agent is told or until the end of the request drops it.
ImplementsDialogue == Promise!Spec
=============================================================================
