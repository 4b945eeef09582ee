----------------------------- MODULE EventDispatch --------------------------
(***************************************************************************)
(* From a webhook to the plugins and to the outbox (wechat_bot/events and  *)
(* services/webhooks): workers claim events in batches under a lease and   *)
(* dispatch them one by one; a dispatch calls the plugins of its routes,   *)
(* submits the replies they return and records what became of each, all in *)
(* one database transaction.                                               *)
(*                                                                         *)
(* An action is a statement of that transaction that reads what another    *)
(* transaction may write, waits for one of its locks, or ends it.  What    *)
(* the transaction has loaded and not yet committed is session[w].         *)
(* SQLAlchemy writes a column only when its new value differs from the     *)
(* loaded one; where that shows, the definition says so.                   *)
(*                                                                         *)
(* due[e] is dispatch_available_at <= now: for a NORMALIZED row it may be  *)
(* claimed, for a DISPATCHING row its lease has expired.                   *)
(***************************************************************************)
EXTENDS Integers, FiniteSets, FiniteSetsExt, Sequences

CONSTANTS
  Events,        \* callbacks, numbered in the order of (created_at, id)
  Contents,      \* what each callback may contain: its kind, whether a command
  RoomOf,        \* the chat room of a "group" event
  ActorOf,       \* the wxid an event is from
  Synced,        \* actors a contact sync or an operator may enter as well
  Deployments,   \* plugin deployments, numbered in creation order
  RoutesOf,      \* deployments that subscribe to an event or own its command
  Fickle,        \* deployments an administrator may start and stop
  Results,       \* what handle_event may return: sequences of key and text
  Workers,       \* dispatcher worker processes
  BatchSize,     \* EventDispatcherWorker.batch_size
  MaxAttempts,   \* EventDispatcherWorker.max_attempts
  MaxFaults,     \* bound on crashes and failed transactions
  MaxOverruns    \* bound on leases that expire under a live worker

\* The conversation type.  A "self" message was sent by the bot itself, an
\* "orphan" belongs to no known account or conversation.
Kinds == {"group", "private", "system", "self", "orphan"}

ASSUME DispatchAssumption ==
  /\ Events \subseteq Nat \ {0}
  /\ Contents \in [Events -> SUBSET [kind : Kinds, command : BOOLEAN]]
  /\ Deployments \subseteq Nat \ {0} /\ IsFiniteSet(Deployments)
  /\ RoutesOf \in [Events -> SUBSET Deployments]
  /\ Fickle \subseteq Deployments
  /\ Synced \subseteq Kinds \X {ActorOf[e] : e \in Events}
  /\ BatchSize \in Nat \ {0}
  /\ MaxAttempts \in Nat \ {0}
  /\ MaxFaults \in Nat
  /\ MaxOverruns \in Nat

VARIABLES
  callback,  \* what the callback of an event contained
  inbox,     \* WebhookInbox.status, "ABSENT" before the callback
  due,       \* WebhookInbox.dispatch_available_at <= now
  tries,     \* WebhookInbox.dispatch_attempt_count
  record,    \* PluginEventDispatch.status of each event and deployment
  rows,      \* replies in the outbox, per event and deployment
  known,     \* actors whose contact and principal are there
  running,   \* deployments whose status is RUNNING
  locked,    \* deployments whose row a request to start or stop holds FOR UPDATE
  calls,     \* handle_event calls made so far, per event and deployment
  pc,        \* where each worker is in run_once
  queue,     \* the events of its batch not dispatched yet
  session,   \* its dispatch transaction
  faults,    \* crashes and failed transactions so far
  overruns   \* leases that have expired under a live worker so far

tableVars == <<callback, inbox, due, tries, record, rows, known>>
vars == <<callback, inbox, due, tries, record, rows, known, running, locked, calls,
          pc, queue, session, faults, overruns>>

-----------------------------------------------------------------------------
(* Events and statuses *)

Kind(e) == callback[e].kind

\* The unique key of a contact or principal: its type and external id.
Actor(e) == <<Kind(e), ActorOf[e]>>

InboxStatuses == {"NORMALIZED", "DISPATCHING", "DISPATCHED", "FAILED",
                  "IGNORED_SELF"}
Settled == {"DISPATCHED", "FAILED", "IGNORED_SELF"}
RecordStatuses == {"PENDING", "FAILED_RETRYABLE", "SUCCEEDED", "DENIED",
                   "REJECTED"}

TerminalRecords == {"SUCCEEDED", "DENIED", "REJECTED"}

-----------------------------------------------------------------------------
(* The dispatch transaction of a worker: its event, the inbox status and   *)
(* attempt count it loaded, the routes left, the record statuses loaded,   *)
(* and what it will commit: records, replies, an actor.                    *)

NoRecords == [d \in Deployments |-> "NONE"]
NoReplies == [d \in Deployments |-> {}]

Idle == [event |-> 0, seen |-> "ABSENT", count |-> 0, left |-> {},
         loaded |-> NoRecords, draft |-> NoRecords, replies |-> NoReplies,
         novel |-> FALSE, call |-> 0]

Opened(e) == [Idle EXCEPT !.event = e, !.seen = inbox[e], !.count = tries[e]]

Inside == {"discover", "route", "plugin", "insert", "judge", "call"}

\* The route under way: routes are taken in creation order.
Route(w) == Min(session[w].left)

\* An uncommitted insert or update of a record, which locks its row.
Touched(v, e, d) == session[v].event = e /\ session[v].draft[d] # "NONE"
RecordFree(w, e, d) == \A v \in Workers \ {w} : ~Touched(v, e, d)

\* An inserted record also holds its event row (FOR KEY SHARE, the foreign
\* key): a claim, which locks both tables of its join, skips the event.
EventLocked(e) ==
  \E v \in Workers, d \in Deployments :
    Touched(v, e, d) /\ session[v].loaded[d] = "NONE"

\* ... and the row of its deployment, by the other foreign key.
RefersTo(v, d) == session[v].draft[d] # "NONE" /\ session[v].loaded[d] = "NONE"

\* Mutant: the chat room is read without FOR UPDATE.
RoomFree_Unlocked(w, e) == TRUE
\* A dispatch of a group event holds its Chatroom row to the end.
RoomFree(w, e) ==
  Kind(e) = "group" =>
    \A v \in Workers \ {w} : pc[v] \in Inside =>
      LET f == session[v].event
      IN Kind(f) # "group" \/ RoomOf[f] # RoomOf[e]

Goto(w, step) == pc' = [pc EXCEPT ![w] = step]

\* The dispatch of its event is over; the worker takes the next of its batch.
Close(w, e) ==
  /\ queue' = [queue EXCEPT ![w] = @ \ {e}]
  /\ session' = [session EXCEPT ![w] = Idle]
  /\ Goto(w, IF queue[w] = {e} THEN "recover" ELSE "next")

-----------------------------------------------------------------------------
Init ==
  /\ callback = [e \in Events |-> [kind |-> "orphan", command |-> FALSE]]
  /\ inbox = [e \in Events |-> "ABSENT"]
  /\ due = [e \in Events |-> FALSE]
  /\ tries = [e \in Events |-> 0]
  /\ record = [e \in Events |-> NoRecords]
  /\ rows = [e \in Events |-> NoReplies]
  /\ known = {}
  /\ running = Deployments
  /\ locked = {}
  /\ calls = [e \in Events |-> [d \in Deployments |-> 0]]
  /\ pc = [w \in Workers |-> "recover"]
  /\ queue = [w \in Workers |-> {}]
  /\ session = [w \in Workers |-> Idle]
  /\ faults = 0
  /\ overruns = 0

-----------------------------------------------------------------------------
(* The outside *)

\* ingest_gewe_webhook for a new dedup key.  A key that is known returns
\* "duplicate", or a conflict when the payload differs, and changes nothing.
Ingest(e) ==
  /\ inbox[e] = "ABSENT"
  /\ \A f \in Events : f < e => inbox[f] # "ABSENT"
  /\ \E c \in Contents[e] :
       /\ callback' = [callback EXCEPT ![e] = c]
       /\ inbox' = [inbox EXCEPT ![e] =
                      IF c.kind = "self" THEN "IGNORED_SELF" ELSE "NORMALIZED"]
  /\ due' = [due EXCEPT ![e] = TRUE]
  /\ UNCHANGED <<tries, record, rows, known, running, locked, calls, pc, queue,
                 session, faults, overruns>>

\* A request to activate or to deactivate locks the row of the deployment, once no
\* transaction has a new record that refers to it ...
LockDeployment(d) ==
  /\ d \in Fickle \ locked
  /\ \A v \in Workers : ~RefersTo(v, d)
  /\ locked' = locked \cup {d}
  /\ UNCHANGED <<tableVars, running, calls, pc, queue, session, faults, overruns>>

\* ... and holds it while it waits for the authorization fence and for the plugin;
\* others see the status it had until it commits a new one or gives up.
Toggle(d) ==
  /\ d \in locked
  /\ locked' = locked \ {d}
  /\ running' \in {running, running \ {d}, running \cup {d}}
  /\ UNCHANGED <<tableVars, calls, pc, queue, session, faults, overruns>>

\* A retry delay or a lease ends.  A lease that ends while a live worker still
\* has the event in its batch is an overrun.
TimePasses(e) ==
  LET overrun == /\ inbox[e] = "DISPATCHING"
                 /\ \E w \in Workers : e \in queue[w]
  IN /\ inbox[e] \in {"NORMALIZED", "DISPATCHING"}
     /\ ~due[e]
     /\ overrun => overruns < MaxOverruns
     /\ due' = [due EXCEPT ![e] = TRUE]
     /\ overruns' = IF overrun THEN overruns + 1 ELSE overruns
     /\ UNCHANGED <<callback, inbox, tries, record, rows, known, running, locked, calls, pc,
                    queue, session, faults>>

-----------------------------------------------------------------------------
(* Leases *)

\* Mutant: rows are recovered whose lease has not expired.
Expired_AnyLease == {e \in Events : inbox[e] = "DISPATCHING"}
\* Mutant: the lease is compared the wrong way round.
Expired_Unexpired == {e \in Events : inbox[e] = "DISPATCHING" /\ ~due[e]}
Expired == {e \in Events : inbox[e] = "DISPATCHING" /\ due[e]}

\* _recover_expired_leases: up to a batch of rows, in no order.
RecoverExpiredLeases(w) ==
  /\ pc[w] = "recover"
  /\ \E S \in SUBSET Expired :
       /\ Cardinality(S) = Min({BatchSize, Cardinality(Expired)})
       /\ inbox' = [e \in Events |-> IF e \in S THEN "NORMALIZED" ELSE inbox[e]]
  /\ Goto(w, "claim")
  /\ UNCHANGED <<callback, due, tries, record, rows, known, running, locked, calls, queue,
                 session, faults, overruns>>

Claimable == {e \in Events : inbox[e] = "NORMALIZED" /\ due[e] /\ ~EventLocked(e)}
FirstOf(S, n) == {e \in S : Cardinality({f \in S : f <= e}) <= n}

\* _claim_due_events: the oldest batch; the count goes up with the claim.
ClaimDueEvents(w) ==
  LET batch == FirstOf(Claimable, BatchSize)
  IN /\ pc[w] = "claim"
     /\ inbox' = [e \in Events |-> IF e \in batch THEN "DISPATCHING" ELSE inbox[e]]
     /\ due' = [e \in Events |-> due[e] /\ e \notin batch]
     /\ tries' = [e \in Events |-> IF e \in batch THEN tries[e] + 1 ELSE tries[e]]
     /\ queue' = [queue EXCEPT ![w] = batch]
     /\ Goto(w, IF batch = {} THEN "recover" ELSE "next")
     /\ UNCHANGED <<callback, record, rows, known, running, locked, calls, session, faults,
                    overruns>>

-----------------------------------------------------------------------------
(* EventDispatcher.dispatch *)

\* Loads the event and its inbox row without a lock.  Nothing asks whether the
\* lease of this worker is still good.
Begin(w) ==
  LET e == Min(queue[w])
      End(status) ==
        /\ inbox' = [inbox EXCEPT ![e] = status]
        /\ Close(w, e)
  IN /\ pc[w] = "next"
     /\ \/ /\ inbox[e] \in {"DISPATCHED", "IGNORED_SELF"}
           /\ End(inbox[e])
        \/ /\ inbox[e] \notin {"DISPATCHED", "IGNORED_SELF"}
           /\ \/ Kind(e) = "system" /\ End("DISPATCHED")
              \/ Kind(e) = "orphan" /\ End("FAILED")
              \/ /\ Kind(e) \in {"group", "private"}
                 /\ session' = [session EXCEPT ![w] = Opened(e)]
                 /\ Goto(w, "enter")
                 /\ UNCHANGED <<inbox, queue>>
     /\ UNCHANGED <<callback, due, tries, record, rows, known, running, locked, calls, faults,
                    overruns>>

\* The first half of _resolve_context: waits for the chat room of a group
\* event, then looks for the actor.  (A room seen for the first time is also
\* serialised, by the account row.)
Enter(w) ==
  LET e == session[w].event
  IN /\ pc[w] = "enter"
     /\ RoomFree(w, e)
     /\ Goto(w, IF Actor(e) \in known THEN "route" ELSE "discover")
     /\ UNCHANGED <<tableVars, running, locked, calls, queue, session, faults, overruns>>

\* An exception other than a plugin's: the transaction is rolled back and the
\* event goes to _mark_failed.
Raise(w) ==
  /\ session' = [session EXCEPT ![w] = [Idle EXCEPT !.event = session[w].event]]
  /\ Goto(w, "mark")

\* The second half: the insert of an unknown actor waits for a rival's, and
\* violates the unique key when the rival has committed.  A contact sync, or a
\* request that creates a principal, may have entered one of the two rows as well.
Discover(w) ==
  LET actor == Actor(session[w].event)
  IN /\ pc[w] = "discover"
     /\ \A v \in Workers \ {w} :
          session[v].novel => Actor(session[v].event) # actor
     /\ \/ actor \in known \cup Synced /\ Raise(w)
        \/ /\ actor \notin known
           /\ session' = [session EXCEPT ![w].novel = TRUE]
           /\ Goto(w, "route")
     /\ UNCHANGED <<tableVars, running, locked, calls, queue, faults, overruns>>

\* What every end of the transaction commits: the actor, the records, the
\* replies.  A record whose new status equals the loaded one is not written.
CommitRecords(w, e) ==
  /\ known' = IF session[w].novel THEN known \cup {Actor(e)} ELSE known
  /\ record' = [record EXCEPT ![e] = [d \in Deployments |->
                  LET new == session[w].draft[d]
                  IN IF new \in {"NONE", session[w].loaded[d]}
                       THEN record[e][d] ELSE new]]
  /\ rows' = [rows EXCEPT ![e] = [d \in Deployments |->
                                    rows[e][d] \cup session[w].replies[d]]]

\* _plugin_routes and _command_routes: two deployments that claim one command
\* fail the event.
SelectRoutes(w) ==
  LET e == session[w].event
      routes == RoutesOf[e] \cap running
      conflict == callback[e].command /\ Cardinality(routes) > 1
  IN /\ pc[w] = "route"
     /\ \/ /\ conflict
           /\ inbox' = [inbox EXCEPT ![e] = "FAILED"]
           /\ CommitRecords(w, e)
           /\ Close(w, e)
        \/ /\ ~conflict
           /\ session' = [session EXCEPT ![w].left = routes]
           /\ Goto(w, "plugin")
           /\ UNCHANGED <<inbox, record, rows, known, queue>>
     /\ UNCHANGED <<callback, due, tries, running, locked, calls, faults, overruns>>

\* Mutant: a route whose result was rejected is dispatched again.
Passed_ButRejected(e, d) == record[e][d] \in {"SUCCEEDED", "DENIED"}
\* What an earlier dispatch has finished with is passed over.
Passed(e, d) == record[e][d] \in TerminalRecords

\* The select of _dispatch_record.
LoadRecord(w) ==
  LET e == session[w].event
      d == Route(w)
  IN /\ pc[w] = "plugin"
     /\ session[w].left # {}
     /\ \/ /\ Passed(e, d)
           /\ session' = [session EXCEPT ![w].left = @ \ {d}]
           /\ UNCHANGED pc
        \/ /\ ~Passed(e, d)
           /\ session' = [session EXCEPT ![w].loaded[d] = record[e][d]]
           /\ Goto(w, IF record[e][d] = "NONE" THEN "insert" ELSE "judge")
     /\ UNCHANGED <<tableVars, running, locked, calls, queue, faults, overruns>>

\* The insert of _dispatch_record waits for a rival's uncommitted record and
\* violates the unique key once that is committed; then it waits for the row of
\* the deployment it refers to.
InsertRecord(w) ==
  LET e == session[w].event
      d == Route(w)
  IN /\ pc[w] = "insert"
     /\ RecordFree(w, e, d)
     /\ \/ record[e][d] # "NONE" /\ Raise(w)
        \/ /\ record[e][d] = "NONE" /\ d \notin locked
           /\ session' = [session EXCEPT ![w].draft[d] = "PENDING"]
           /\ Goto(w, "judge")
     /\ UNCHANGED <<tableVars, running, locked, calls, queue, faults, overruns>>

\* The route ends with this record status and these replies.  The statement
\* after it flushes the record: it waits for the lock of a rival's update.
EndRoute(w, status, replies) ==
  LET d == Route(w)
  IN /\ RecordFree(w, session[w].event, d)
     /\ session' = [session EXCEPT ![w].draft[d] = status,
                                   ![w].replies[d] = replies,
                                   ![w].left = @ \ {d},
                                   ![w].call = 0]
     /\ Goto(w, "plugin")

\* The policy denies the route, or handle_event is called.
Judge(w) ==
  LET e == session[w].event
      d == Route(w)
  IN /\ pc[w] = "judge"
     /\ \/ EndRoute(w, "DENIED", {}) /\ UNCHANGED calls
        \/ /\ calls' = [calls EXCEPT ![e][d] = @ + 1]
           /\ session' = [session EXCEPT ![w].call = calls[e][d] + 1]
           /\ Goto(w, "call")
     /\ UNCHANGED <<tableVars, running, locked, queue, faults, overruns>>

\* Action i of a result clashes: a reply of its key exists with another text.
Clashes(have, acts, i) ==
  \/ \E r \in have : r.key = acts[i].key /\ r.text # acts[i].text
  \/ \E j \in 1..(i - 1) :
       acts[j].key = acts[i].key /\ acts[j].text # acts[i].text

\* enqueue_text for each action up to the first clash: a key that exists with
\* the same text is not inserted again.
NewReplies(have, acts, call) ==
  {[key |-> acts[i].key, text |-> acts[i].text, call |-> call] :
     i \in {k \in DOMAIN acts :
              /\ \A j \in 1..k : ~Clashes(have, acts, j)
              /\ \A r \in have : r.key # acts[k].key}}

\* handle_event fails or times out, returns what is not a list of permitted
\* replies, or returns actions that are submitted one by one.  A clash rejects
\* the route but keeps the replies submitted before it.
Answer(w) ==
  LET have == rows[session[w].event][Route(w)]
  IN /\ pc[w] = "call"
     /\ \/ EndRoute(w, "FAILED_RETRYABLE", {})
        \/ EndRoute(w, "REJECTED", {})
        \/ \E acts \in Results :
             EndRoute(w,
                      IF \E i \in DOMAIN acts : Clashes(have, acts, i)
                        THEN "REJECTED" ELSE "SUCCEEDED",
                      NewReplies(have, acts, session[w].call))
     /\ UNCHANGED <<tableVars, running, locked, calls, queue, faults, overruns>>

-----------------------------------------------------------------------------
(* The end of a dispatch *)

\* Mutant: a later route that ends well clears the failure of an earlier one.
Retryable_LastRoute(w) == session[w].draft[Max(Deployments)] = "FAILED_RETRYABLE"
Retryable(w) == \E d \in Deployments : session[w].draft[d] = "FAILED_RETRYABLE"

\* Mutants: an attempt more, and an attempt less.
Exhausted_OneMore(w) == session[w].count > MaxAttempts
Exhausted_OneLess(w) == session[w].count + 1 >= MaxAttempts
Exhausted(w) == session[w].count >= MaxAttempts

\* No route is left: the event is handled, or (the handler of
\* PluginInvocationRetryableError in _dispatch_one) waits for a retry or has
\* used its attempts up.  NORMALIZED over a loaded NORMALIZED is not written.
Settle(w) ==
  LET e == session[w].event
      retry == Retryable(w) /\ ~Exhausted(w)
  IN /\ pc[w] = "plugin"
     /\ session[w].left = {}
     /\ inbox' = [inbox EXCEPT ![e] =
          IF ~Retryable(w) THEN "DISPATCHED"
          ELSE IF Exhausted(w) THEN "FAILED"
          ELSE IF session[w].seen = "NORMALIZED" THEN @ ELSE "NORMALIZED"]
     /\ due' = [due EXCEPT ![e] = IF retry THEN FALSE ELSE @]
     /\ CommitRecords(w, e)
     /\ Close(w, e)
     /\ UNCHANGED <<callback, tries, running, locked, calls, faults, overruns>>

\* _mark_failed, in a transaction of its own.
MarkFailed(w) ==
  LET e == session[w].event
  IN /\ pc[w] = "mark"
     /\ inbox' = [inbox EXCEPT ![e] = "FAILED"]
     /\ Close(w, e)
     /\ UNCHANGED <<callback, due, tries, record, rows, known, running, locked, calls, faults,
                    overruns>>

\* A statement fails (a dropped connection, a deadlock, a bad manifest).
StatementFails(w) ==
  /\ pc[w] \in Inside \cup {"enter"}
  /\ faults < MaxFaults
  /\ faults' = faults + 1
  /\ Raise(w)
  /\ UNCHANGED <<tableVars, running, locked, calls, queue, overruns>>

\* The process dies and is started again, or a commit or _mark_failed raises
\* out of run_once: the transaction is rolled back and the batch forgotten.
Abort(w) ==
  /\ faults < MaxFaults
  /\ faults' = faults + 1
  /\ queue' = [queue EXCEPT ![w] = {}]
  /\ session' = [session EXCEPT ![w] = Idle]
  /\ Goto(w, "recover")
  /\ UNCHANGED <<tableVars, running, locked, calls, overruns>>

-----------------------------------------------------------------------------
RunOnce(w) ==
  \/ RecoverExpiredLeases(w)
  \/ ClaimDueEvents(w)
  \/ Begin(w)
  \/ Enter(w)
  \/ Discover(w)
  \/ SelectRoutes(w)
  \/ LoadRecord(w)
  \/ InsertRecord(w)
  \/ Judge(w)
  \/ Answer(w)
  \/ Settle(w)
  \/ MarkFailed(w)

Next ==
  \/ \E e \in Events : Ingest(e) \/ TimePasses(e)
  \/ \E d \in Deployments : LockDeployment(d) \/ Toggle(d)
  \/ \E w \in Workers : RunOnce(w) \/ StatementFails(w) \/ Abort(w)

Spec == Init /\ [][Next]_vars

\* A started worker keeps running its loop, a plugin call ends by its deadline, and
\* time passes.  The row of a deployment is granted in the order it was asked for, so
\* an insert gets its turn if the row is free again and again; but a request that has
\* the row may keep it for ever, as the fence it waits for may never be free.
\* Callbacks, administrators and faults owe nothing.
Fairness ==
  /\ \A w \in Workers : WF_vars(RunOnce(w)) /\ SF_vars(InsertRecord(w))
  /\ \A e \in Events : WF_vars(TimePasses(e))
FairSpec == Spec /\ Fairness

-----------------------------------------------------------------------------
(* Properties *)

Submitted == UNION {{acts[i] : i \in DOMAIN acts} : acts \in Results}
Replies == [key : {a.key : a \in Submitted}, text : {a.text : a \in Submitted},
            call : Nat]
Sessions ==
  [event : Events \cup {0}, seen : InboxStatuses \cup {"ABSENT"}, count : Nat,
   left : SUBSET Deployments,
   loaded : [Deployments -> RecordStatuses \cup {"NONE"}],
   draft : [Deployments -> RecordStatuses \cup {"NONE"}],
   replies : [Deployments -> SUBSET Replies], novel : BOOLEAN, call : Nat]

TypeOK ==
  /\ inbox \in [Events -> InboxStatuses \cup {"ABSENT"}]
  /\ due \in [Events -> BOOLEAN]
  /\ tries \in [Events -> Nat]
  /\ record \in [Events -> [Deployments -> RecordStatuses \cup {"NONE"}]]
  /\ rows \in [Events -> [Deployments -> SUBSET Replies]]
  /\ callback \in [Events -> [kind : Kinds, command : BOOLEAN]]
  /\ known \subseteq Kinds \X {ActorOf[e] : e \in Events}
  /\ running \subseteq Deployments /\ locked \subseteq Fickle
  /\ calls \in [Events -> [Deployments -> Nat]]
  /\ pc \in [Workers -> Inside \cup {"recover", "claim", "next", "enter", "mark"}]
  /\ queue \in [Workers -> SUBSET Events]
  /\ session \in [Workers -> Sessions]
  /\ faults \in 0..MaxFaults
  /\ overruns \in 0..MaxOverruns

\* An event of a chat room, whose row serialises its dispatches, or any event
\* while no lease has been overrun.
Guarded(e) == Kind(e) = "group" \/ overruns = 0

\* The replies of an event and a deployment come from one call of the plugin,
\* whatever retries, crashes and rivals there are: the terminal record that
\* commits with the replies is what the next dispatch reads.  Without an
\* overrun, or inside a chat room, whose row lock serialises the dispatches.
OneResult ==
  \A e \in Events, d \in Deployments :
    Guarded(e) => \A r, s \in rows[e][d] : r.call = s.call

\* A terminal record is never written again, and replies reach the outbox only
\* in the step that makes their record terminal.
RecordsStand ==
  [][\A e \in Events, d \in Deployments :
       Guarded(e) =>
         /\ record[e][d] \in TerminalRecords => record'[e][d] = record[e][d]
         /\ rows'[e][d] # rows[e][d] =>
              /\ record[e][d] \notin TerminalRecords
              /\ record'[e][d] \in {"SUCCEEDED", "REJECTED"}]_<<record, rows>>

\* What is settled stands while no lease is overrun: the event, failed ones included,
\* is not claimed or dispatched again, no plugin is called for it, and its records and
\* replies stay.  The unconditional writes of _mark_failed and of the retry handler
\* meet no rival, and a crash leaves nothing behind that would reopen it.
SettledStands ==
  [][\A e \in Events :
       inbox[e] \in Settled /\ overruns = 0 =>
         /\ inbox'[e] = inbox[e] /\ tries'[e] = tries[e] /\ calls'[e] = calls[e]
         /\ record'[e] = record[e] /\ rows'[e] = rows[e]]_<<inbox, tries, calls, record, rows>>

\* An event that is DISPATCHED is finished with every deployment that was there
\* throughout: a late worker's failure does not reopen a rival's success.
HandledByAll ==
  \A e \in Events : inbox[e] = "DISPATCHED" /\ Kind(e) \in {"group", "private"} =>
    \A d \in RoutesOf[e] \ Fickle : record[e][d] \in TerminalRecords

\* No plugin is called for an event more often than max_attempts, but for the
\* attempts that a crash or an overrun adds: lease recovery counts against
\* nothing.
AttemptLimit ==
  \A e \in Events, d \in Deployments :
    calls[e][d] <= MaxAttempts + faults + overruns

\* Another event of the same actor whose dispatch no chat room serialises.
Rivals(e, f) ==
  /\ e # f
  /\ Actor(e) = Actor(f)
  /\ Kind(e) = "group" => RoomOf[e] # RoomOf[f]

\* Where nothing crashes and no lease is overrun, an event fails only because
\* its attempts are used up, it has no context, its command is claimed twice,
\* or it lost the race to insert its actor, to another event, to a contact sync or to
\* an operator.
FailedForCause ==
  faults = 0 /\ overruns = 0 =>
    \A e \in Events : inbox[e] = "FAILED" =>
      \/ Kind(e) = "orphan"
      \/ callback[e].command /\ Cardinality(RoutesOf[e]) > 1
      \/ Actor(e) \in Synced
      \/ \E f \in Events : Rivals(e, f)
      \/ /\ tries[e] = MaxAttempts
         /\ \E d \in Deployments : record[e][d] = "FAILED_RETRYABLE"

\* Every event received is some day settled for good, unless a request keeps the row
\* of a deployment for ever: nothing else can hold an event up.
EveryEventSettled ==
  (\A d \in Fickle : []<>(d \notin locked)) =>
    \A e \in Events : <>[](inbox[e] # "ABSENT" => inbox[e] \in Settled)
=============================================================================
