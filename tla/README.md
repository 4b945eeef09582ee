# TLA+ models of the WeChat bot platform

The modules here model the backend of the platform (`src/backend/src/wechat_bot`,
called `wechat_bot` below), check it with TLC on small instances and prove the
central invariants with TLAPS for every instance. File and line references are
to that directory unless they start with `src/`.

## 1. The system

A message travels through the parts in this order:

```
GeWe callback -> webhook ingestion -> WebhookInbox / NormalizedEvent
  -> event dispatcher -> policy (ACL) -> plugin supervisor -> plugin process
  -> reply action -> outbox -> sender worker (rechecks the policy) -> GeWe API
```

All state that survives a restart is in PostgreSQL (READ COMMITTED, row locks by
`FOR UPDATE`, `FOR SHARE` and `SKIP LOCKED`). The workers are asyncio loops; any
number of processes may run them. Interaction between parts is through rows and
row locks, except that the dispatcher calls the supervisor, which holds the
plugin processes of its own process.

### Inventory

| Part | State it keeps | Operations | What is hard | What makes it correct |
| --- | --- | --- | --- | --- |
| outbox (`outbox/service.py`, `outbox/state.py`) | one row per message: status, available_at (availability or lease), attempt_count | enqueue by idempotency key, cancel, reconcile an UNKNOWN | operators race with workers | legal transitions only; a cancelled message is never sent |
| sender (`outbox/sender.py`) | claims in the rows; per process a lock per account | recover leases, pick accounts, claim, rate limit, recheck, send, record | several workers, expired leases, crashes, ambiguous answers, failing gathers | one message of an account at a time, no duplicate delivery, truthful statuses, nothing stranded |
| authorization fence (`policy/fence.py`) | one row per workspace, locked | shared by senders, exclusive for administrative changes | locks in two transactions of one sender, lock order, no timeouts | no request under a withdrawn grant; everybody gets the lock |
| policy (`policy/service.py`) | ACL rules, version | create, revoke, evaluate | precedence, membership epochs, validity in time | the decision is the one of the most specific rules; locked denials win |
| plugin catalog (`plugins/catalog.py`, `api/plugins.py`) | deployments, revisions, activations with epochs | activate, deactivate, restore at start | the database and the supervisor commit separately; stale reads | a RUNNING deployment has a process of its active revision |
| plugin supervisor (`plugins/supervisor.py`) | active process per deployment, pending transitions | prepare, commit and abort a swap, call | calls in flight during a swap, crashed processes | a result is never attributed to another activation |
| event dispatch (`events/`) | inbox status and lease, one dispatch record per event and deployment | claim a batch, dispatch, retry, give up | leases, two workers on one event, partial failure | each action of an event enters the outbox once; no event is lost |
| webhook ingestion (`services/webhooks.py`, `webhooks/`) | inbox rows with a deduplication key | ingest | duplicate and concurrent callbacks | ten deliveries make one event |
| bot accounts (`accounts/service.py`) | account status, login | QR login, checks, reconnect, disable | provider calls are awaited between read and write | a disabled account stays disabled |
| connections (`connections/service.py`) | connection status, token | create, rotate, change mode and status | fence | as for accounts |
| directory (`directory/service.py`) | contacts, chatrooms, memberships with epochs | sync, mark left, create on arrival | sync, departure and arrival at once | at most one active membership; a new epoch per return |
| task agent (`task_agent/service.py`) | definitions, sessions, runs, questions, counters | run transitions, ask, answer, override | one active run and one open question at a time | legal transitions; no open question on an ended run |
| administrators (`auth/`) | users, roles, sessions, throttle | bootstrap, login, roles | two administrators at once | an active owner remains; old sessions die |
| observability, HTTP layer, web console | none of their own | queries, routing | - | - |

## 2. Plan

Done: the outbox with its senders, the authorization fence, the dispatch of events
to the plugins, the plugin catalog with its supervisor, the runs and questions of
the task agent, access rules with chat-room memberships and the policy's decision,
and the administrators with their sessions. All of it is checked, and every safety
property of the passing runs is proved (section 5); the liveness properties are
model-checked.

What would come next, in this order:

1. A composition of `EventDispatch` and `Outbox`. They meet in the rows of the
   outbox: a reply of the one is an `EnqueueText` of the other, under an idempotency
   key made of deployment, event and action key. Every reply of a handled event is
   then sent at most once.
2. The login states of a bot account (QR code, scanned, confirmed, expired), which
   `Access` has as one, ENABLED.
3. The synchronisation of contacts and chat rooms, placeholders included.
4. Arrivals of senders without end at the fence (section 4, `fence`).

## 3. Modules

| Module | Contents |
| --- | --- |
| `Outbox` | rows, operators and sender workers, faults, the provider; all properties |
| `Courier` | what the outbox promises, without claims, leases and workers |
| `SendFence` | locks of senders and of administrative transactions, one action per lock |
| `EventDispatch` | callbacks, dispatcher workers, their transactions and locks |
| `PluginLifecycle` | deployments, activations, the supervisor's swap, calls of dispatcher workers, restarts |
| `Hotswap` | what a deployment promises its callers: versions that follow on one another, without requests, locks and processes |
| `Policy` | the evaluation of access rules, as operators |
| `Access` (extends `Policy`) | memberships, rules, the account's status, and the transactions that change them or decide from them |
| `TaskAgent` | sessions, runs, questions, inbox, event log and the view of a session |
| `Dialogue` | what a session promises: requests worked on one at a time, questions and their answers, without slots, transitions, logs and deadlines |
| `Administrators` | users, roles, sessions, and the requests that change them |
| `OutboxProofs`, `OutboxDelivery`, `SendFenceProofs`, `EventDispatchProofs`, `PluginLifecycleProofs`, `AccessProofs` (also about `Policy`), `TaskAgentProofs`, `AdministratorsProofs` | the theorems (section 5) |
| `MC...` | values of the constants for TLC |

### Outbox

One row of `outbox_messages` is `status[m]`, `due[m]`, `attempts[m]`. Time is one
bit per row: `due[m]` is `available_at <= now`. For a waiting row that means it
may be claimed, for a row in flight that its lease has expired; `TimePasses` sets
it and whatever writes a future `available_at` clears it. So a lease may expire
at any moment; `overrun` remembers whether one has expired while a live pipeline held the row.

| Code | Model |
| --- | --- |
| `OutboxService.enqueue_text`, `cancel_message`, `reconcile_unknown` | `EnqueueText`, `CancelMessage`, `ReconcileUnknown` |
| `_recover_expired_leases`, with `SKIP LOCKED` | `RecoverExpiredLeases`, `Lockable` |
| `_due_account_ids`, `run_once`, `_run_loop` | `Batches`, `ScanDueAccounts`, `EndBatch`; `phase`, `batch`, `todo` |
| `_process_account` of one worker and account | a lane `<<w, a>>` with `pc`, `msg`, `answer` |
| `_claim_next` | `ClaimNext` |
| `_respect_rate_limit`, `_extend_claim_lease` | `RespectRateLimit` |
| `_authorization_still_valid` at the deployment's row; the rest of `_prepare_send` | `WaitForDeployment`; `PrepareSend`, `Verdicts` |
| `deactivate`, from the lock of the row to its end | `BeginDeactivation`, `EndDeactivation`, `DeactivationFails` |
| `client.post_text`, `_classify_gewe_error` | `PostText` |
| `_finish_sent`, `_finish_failure`, `_finish_unknown` | `FinishSend`, `FinishStatus` |
| an exception that leaves the gather | `PipelineError` |
| death of a process and its restart | `Crash` |

`delivered[m]` counts what the provider has really sent and `orphans[m]` the
requests it may still act on although nobody waits for the answer (read timeout,
crash of the worker). They are what statuses are compared with; no action of the
code reads them.

`Authorized` are the messages of the plugin, whose authorization is checked once more before
they are sent: the check locks the plugin's deployment. `deactivating` says that a
deactivation has that row and waits for the fence, which the sender already shares
(`InsideFence`). A sender that finds the row locked is "waiting", with the message, account
and connection locked (`MessageLocked`, `AccountLocked`): recovery skips that message, and
claims, cancellations and changes of the account wait. The model has one plugin and one
connection per account.

Choices left open: what the authorization check, the payload and the token say
(each outcome is possible), the length of delays, and which expiring message has
expired. Left out: audit rows, priorities (the only caller uses one), the limit
of 200 rows of one recovery, and a waiting row that an operator's uncommitted
change makes `_claim_next` skip.

### SendFence

The state has one lock owner set for each of: the fence row of the workspace, the
account and connection rows, the deployment row. A sender holds the fence shared
in the transaction of `_authorization_guard`, which does nothing else, while
`_prepare_send` and `_authorization_still_valid` lock the other rows in a second
transaction. Administrative transactions take the locks that `Plan` lists, in
the order of the code. A lock is taken in a step of its own; PostgreSQL's
deadlock detection (`AbortVictim`) breaks cycles it can see: those among
transactions that wait. The guard of a sender waits for nothing in the database,
so a cycle through it is invisible. The policy state row exists as soon as a
workspace has had a rule, and a workspace without rules sends nothing (denied by
default), so the model always has a fence.

### EventDispatch

A worker claims a batch of events in one short transaction and dispatches them one
by one, each in one long transaction, `session[w]`: the inbox status and attempt
count it loaded, the routes it has left, the status of each record as loaded and
as it will be, the replies and the actor it will commit. Nothing of it is visible
to others before the commit except its locks:

* the `Chatroom` row of a group event, from `_resolve_context` to the end
  (`RoomFree`); a private event has nothing of the kind;
* a record inserted or updated (`RecordFree`): a rival's insert waits and then
  violates the unique key, a rival's update waits and then overwrites;
* the event row, by the foreign key of an inserted record (`EventLocked`): the
  claim locks both tables of its join with `SKIP LOCKED`, so it passes the event;
* an inserted contact or principal (`Discover`); those in `Synced` may be entered at the same
  time by a contact synchronisation or an operator, who lock no chat room.

An operator's request to start or stop a plugin has the deployment's row FOR UPDATE until it
commits, also while it waits for the fence (`LockDeployment`, `Toggle`; `locked`). The status
others see is the old one, so a dispatcher still routes to the plugin, and the insert of its
record waits for the row by the foreign key (`InsertRecord`); a record that was inserted keeps
the request waiting (`RefersTo`).

| Code | Model |
| --- | --- |
| `ingest_gewe_webhook` | `Ingest`; what the callback contains is an input, `callback[e]` |
| `_recover_expired_leases`, `_claim_due_events` | `RecoverExpiredLeases`, `ClaimDueEvents` |
| `dispatch`, up to the context | `Begin` |
| `_resolve_context`, `_ensure_membership`, `create_principal` | `Enter`, `Discover` |
| `_plugin_routes`, `_command_routes` | `SelectRoutes` |
| `_dispatch_record` | `LoadRecord`, `InsertRecord` |
| `policy.evaluate`, `invoker.call` | `Judge`, `Answer` |
| `_plugin_actions`, `_text_submission`, `submit_text`, `enqueue_text` | `Answer`, `NewReplies`, `Clashes` |
| the end of `dispatch`, the retry handler and the commit of `_dispatch_one` | `Settle`, `CommitRecords` |
| `_mark_failed` | `MarkFailed` |
| an exception inside a dispatch; one that leaves `run_once`, or a crash | `StatementFails`; `Abort` |

The ORM writes a column only if it differs from the value loaded, and the models
keep that where it shows: a late worker that fails on a record it loaded as
FAILED_RETRYABLE leaves a rival's SUCCEEDED alone (`CommitRecords`), and a retry of
an event loaded as NORMALIZED leaves the status alone (`Settle`).

Choices left open: the content of callbacks, the decision of the policy, what a
plugin returns (`Results`: sequences of an action key and a text, two of which
clash when they have one key and different texts), which deployments run. Left out:
membership rows, the first appearance of a chat room (serialised by the account's
row, so that fewer interleavings are possible than in the model), events of unknown
conversation type that are routed all the same, and the length of delays. A repeated
callback finds its key and changes nothing; callbacks of one connection are
serialised by the update of its row.

Worth knowing, and visible in `Answer`: actions of one result are submitted one by
one, and one that clashes rejects the route but leaves the replies before it in
the outbox. So a REJECTED record may have replies, and `accepted_action_count` is
then 0.

### PluginLifecycle

One deployment. The catalog's rows are `status`, `active`, `revisions` and `rows[e]`,
the activation with epoch `e`; the supervisor's memory is `registered` (the epoch of
`_active`), `last_epoch`, `pending`, `accepting[e]`, and `process[e]` is the child
process started for epoch `e`. `req[o]` is an operator's request under way, `call[w]`
a dispatcher worker's call. An activation starts a candidate, commits, and only then
swaps the runner, so that between `CommitActivation` and `SwapRunner` the database is
ahead of the supervisor.

| Code | Model |
| --- | --- |
| `install_builtin`, `create_deployment`, `_create_revision` | `InstallBuiltin`, `CreateDeployment`, `CreateRevision` |
| `activate_revision` up to the fence; refused, or with its epoch | `LoadDeployment`, `TakeFence`, `RefuseActivation`, `NextEpoch` |
| a changed package, a configuration that cannot be decrypted: a FAILED row | `RejectLaunch` |
| `PluginSupervisor.prepare_activation`, `PluginProcess.start` | `PrepareActivation`, `CandidateReady`, `CandidateFails` |
| the rows it writes, and the commit of `api/plugins.py` | `CommitActivation`, `CommitFailure`, `RollBack` |
| `commit_activation` and its wait for `drained` | `SwapRunner`, `StopDrained` |
| `deactivate`: the row, then the fence | `BeginDeactivation`, `LockDeployment` |
| `prepare_` and `commit_deactivation` | `PrepareDeactivation`, `RefuseDeactivation`, `CommitDeactivation`, `RemoveRunner` |
| the database's deadlock detection | `AbortVictim` |
| senders and dispatchers that share the locks | `Share`, `SharersEnd`; `shared` |
| `_plugin_routes`, `_acquire`, `PluginProcess.call`, the check after it | `Route`, `Acquire`, `CallAnswered`, `CallFails`, `Current`, `TakeResult` |
| `restore_active_deployments`, shutdown, death of the process | `RestoreActive`, `RestoreFails`, `NothingToRestore`, `Shutdown`, `Crash` |

An activation takes the fence and then the row, a deactivation the row and then the fence:
two requests that wait for each other are a cycle the database sees and breaks. `shared`
stands for all who share the fence or the row, senders that wait for the row included;
nothing says that they ever end.

`activate_revision` reads the deployment before it waits for the fence and the ORM
writes a column only if it differs from what was read; `seen` keeps that, and it shows
in `WrittenActive` and in `CommitFailure`, which reports RUNNING or FAILED by the active
revision the request read at its beginning.

`Hotswap` leaves all of this out. Its versions are the activations: one is `chosen` when
its row is committed, `serving` while it is registered, `retiring` until its calls have
ended, then gone. The refinement mapping (`Life`, `Named`, `With`) reads that from
`rows`, `registered`, `last_epoch` and `process`; a candidate that starts, fails to
start or is rolled back is unborn and nobody sees it.

### Policy and Access

`Evaluate` is `PolicyService.evaluate` for given rules, request and epoch: candidates,
scores, locked denials, the strictest effect of the most specific rules. `Access` puts
it between the transactions that change what it reads. A transaction `txn[t]` has `op`
(what it is), `at` (how far it is) and what it has read. READ COMMITTED is modelled by
one action per statement: `evaluate` takes the version (`BeginEvaluate`,
`BeginRecheck`, `BeginDispatch`), then account and epoch (`ReadSubject`), then the rules
(`ReadRules`), and others commit in between.

| Code | Model |
| --- | --- |
| `sync_chatroom_members` | `FetchMembers`, `LockMemberships`, `UpsertMemberships` |
| `_ensure_membership` in a dispatch | `MessageFrom`, `LockMemberships`, `EnsureMembership`, `EndDecision` |
| `mark_membership_left` | `MarkLeft`, `LockMemberships`, `LeaveChatroom` |
| `create_rule`, `revoke_rule`, `_increment_version` | `ValidateRule`, `CreateRule`, `RevokeRule`, `IncrementVersion` |
| a rule's `valid_until` passes | `RuleExpires` |
| `evaluate` for an operator, a sender's recheck, a dispatch | the actions above |
| calls to the provider about an account; `set_disabled` | `BeginAccountCall`, `EndAccountCall`, `SetDisabled` |

`history[v]` is the set of rules that were live at version `v`, kept as long as a
decision may be of it; no action reads it. A fence held by a sender (`FenceFree`)
excludes the changes of rules and of the account, not the memberships.

`EndAccountCall` writes the provider's late answer over a DISABLED set meanwhile
(`accounts/service.py:193`): the operator's decision is lost. `DecisionOfItsVersion`
shows that a sender's recheck is not misled, as it holds the account's row.

### TaskAgent

Every operation that writes locks the workspace row first and re-reads under it, so
one operation is one action: `CreateDefinition`, `PublishVersion`, `CreateSession`,
`CreateRun`, `TransitionRun` (`transition_run` with `ALLOWED_TRANSITIONS`),
`AskQuestion`, `AnswerQuestion`, `OverrideAnswerQuestion`. A repeated request under a
known key changes no row. `QuestionFallsDue` is the clock; nothing in the code acts on
it, and after it only the end of the run releases a run that waits for its user.
`get_session_state` takes no lock and reads by five statements: `ViewSession`,
`ViewActiveRun`, `ViewInbox`, `ViewEvents`, `ViewQuestions`, with changes in between. The
`history_limit` is chosen from `HistoryLimits` with each view; items, events and questions are
cut to the newest so many, and `inbox_has_more`, `events_has_more` and `questions_has_more`
say so. The events of a question that is cut off need not be explained by the view.

`Dialogue` is what those who make requests and answer questions see. A run is a request:
`new`, `working`, `asking` while a question of it is open, or ended with its outcome
(`Stage`); a run that is queued, running, paused or waits without a question is working.
A question is `new`, `open`, `answered` or `dropped`, and `Heard` keeps of an inbox item
the request or the answer it tells the agent.

### Administrators

A request first authenticates (`Authenticate`) and goes on with its principal, whose roles
may have changed since. The principal is plain data: `authenticate_session` keeps no
`AdminUser`, and the ORM's identity map is weak, so `_load_user_for_update` reads the row
afresh under its lock (`Lock`), also where the actor changes its own row, and `auth_version`
grows with each change. A login is different: it reads the user's row without a lock and
writes the version it read into its session. The ghost `fate` says whether the user was
invalidated since then ("outdated").

| Code | Model |
| --- | --- |
| `bootstrap_owner` | `BeginBootstrap`, `EndBootstrap` |
| `login` | `BeginLogin`, `EndLogin` |
| `authenticate_session`, its revocation, `logout` | `Authenticate`, `Accepted`, `RejectSession`, `Logout` |
| `create_user`, `create_role` | `CreateUser`, `CreateRole` |
| `set_user_status`, `replace_user_roles` | `SetUserStatus`, `ReplaceUserRoles`, `FindOtherOwner`, `CommitChange` |
| `replace_role_permissions` | `ReplaceRolePermissions` |
| `_load_user_for_update`; `_invalidate_users` | `Lock`; `Invalidate` |

## 4. What is checked

| Run | Instance | Question |
| --- | --- | --- |
| `outbox_safety` | 2 workers, 1 account, 2 messages (one expiring), 2 attempts, 1 fault | `TypeOK`, `OneInFlight`, `NoDuplicateDelivery`, `TruthfulStatus`, `TransitionsFollowTable`, `ImplementsCourier` with leases that expire at any moment, when a retryable status means nothing was sent; `SerialSends`, `AnswerRecorded` until a lease is overrun |
| `outbox_fleet` | 1 worker, 2 accounts, batches of 1, 2 attempts, 1 fault; the plugin of message 1 may be deactivated | `EventuallySettled` |
| `outbox_ambiguous` | as `outbox_safety`, a retryable status says nothing certain | `NoDuplicateDelivery` is violated |
| `fence` | 3 senders; an activation, a deactivation, a rule change and a disabling | `FencedAuthorization`, `SomebodyMoves`, `OnlyDeactivationBlocks` |
| `fence_stuck` | 3 senders and a deactivation | `EverythingEnds` is violated |
| `dispatch` | 2 workers in batches of 2; a group or private message and a callback of any kind from one wxid, which may be a contact that is being synchronised; 1 plugin, 2 attempts, 1 fault, 1 overrun lease | `OneResult`, `RecordsStand`, `SettledStands`, `FailedForCause` |
| `dispatch_retries` | 2 workers, 1 private message, command or not, 2 plugins of which one may start and stop, 2 attempts, 1 fault, 1 overrun | `HandledByAll`, `AttemptLimit`, `EveryEventSettled` |
| `plugins` | 2 requests, 1 dispatcher worker, 2 revisions, 3 activations, 1 restart | `TypeOK`, `RunnerIsActivated`, `NoOrphanProcess`, `ImplementsHotswap`, `RequestsEnd` |
| `plugins_stale` | as `plugins` | `ResultNotStale` is violated |
| `access` | 1 member with 2 memberships one after the other, 2 transactions at a time, 2 rules, a lasting ALLOW and a passing locked DENY, 1 command | `TypeOK`, `OneMembership`, `RightsEndWithMembership`, `DecisionOfItsVersion` |
| `task_agent` | 1 session, 2 keys, 2 questions, 2 principals, logs of up to 9 events, views of the last 9 or of the last 1 | `TypeOK`, `OneActiveRun`, `OpenQuestionWaits`, `AnsweredOnce`, `LogAgrees`, `ViewExplained`, `EndedStays`, `ImplementsDialogue` |
| `administrators` | 2 users, 1 role besides the Owner's, 2 sessions, 2 requests at a time, versions up to 3 | `TypeOK`, `OwnerRemains`, `SessionsHonourInvalidation` |

Bounds. Two messages of one account are the least for which serial sending, order
and in-flight counts mean anything, and two workers the least for which claims
race; with two attempts a message is retried once and exhausted once. One fault
(a crash or a failed transaction) at any point is enough for each recovery path;
with two workers the other one sees the leftovers. `outbox_safety` has no deactivation,
which `outbox_fleet` and the proofs have (section 5; they are for all values). `outbox_fleet`
needs two accounts, because batches are about several; a second worker would only help. In the fence runs three senders
are enough for the fence to be shared, waited for, and handed on.

An overrun, a lease that expires while a live worker has the event, may happen at
any moment but only once in the dispatch runs: without a bound the attempts grow
without end (that `AttemptLimit` names `overruns` says so). One overrun and one
fault already give two workers on one event with every mixture of finished, failed
and forgotten halves. Two plugins matter to an event only through each other's
failure, two events only through batches, rooms and actors, so each pair has a run
of its own.

In `plugins` two requests are what the fence and the pending table order, and three
activations let one be registered, one replace it and one fail or come after a restart.
In `access` two transactions are enough for a decision to be overtaken by any single
change, twice if the change is short, and two memberships for a member to leave and
return under it. Nine events of a session are a run that asks, is answered and asks again, or
a second run; a view of nine is never cut off, and of a view of one all three histories are. Two administrators
are the least that can remove each other; version 3 is two invalidations of a user.
Symmetry is only used for sets whose members nothing tells apart, and never in a run
with a liveness property.

Fairness. A worker's loop runs for ever, delays are finite and HTTP requests have timeouts,
so `RunOnce` and `ProcessAccount` are weakly fair and leases and backoffs pass
(`TimePasses`). A statement has no timeout (`db/session.py:18-22`), so it returns only if
nobody holds what it needs: the guards name the locks, and weak fairness says nothing of a
pipeline whose rows or deployment are locked. A deactivation ends if it finds the fence
free (weak fairness of `EndDeactivation`), and nothing says that it ever does. Nothing is assumed
of operators, of readiness, of the provider's late actions, or of faults.
`EventuallySettled` therefore ends in one of two ways: all messages are settled, or a sender
and a deactivation wait for one another for ever (`Stuck`, which `fence_stuck` shows to be
possible); without that alternative TLC finds it violated. Its premise is that accounts stay
ready from some time on: the message of an account that is offline is retried as long as it
is offline, and in a model without a clock an older message of such an account could be first
in every batch of one. In `SendFence` every statement that does not wait for a
lock returns; a lock that is free when asked for again and again is obtained only
if it stays free (weak fairness), which is enough as every sender sends once.

In `EventDispatch` the loop of each worker and the passing of delays and leases are
weakly fair, as a plugin call ends by its deadline. The locks that dispatchers take from each
other are given back, since whoever has them waits for nobody but the holder of a deployment.
An insert that waits for a deployment whose row is given back again and again gets it
some time: row locks queue (strong fairness of `InsertRecord`). Whether the row is ever
given back is another matter, as a deactivation may hold it for ever; so the premise of
`EveryEventSettled` is that no request keeps the row of a deployment for ever.
Nothing is assumed of callbacks, of faults, or of how often operators start and stop a plugin.

In `PluginLifecycle` a request that has begun goes on by itself where it waits for no lock,
and a call ends by its deadline: `RequestStep` and `CallStep` are weakly fair. Requests that
want the fence or the row exclusively queue behind one another, but who shares a lock
does not stand in that queue and may keep an exclusive waiter out: strong fairness
of `LockGranted` holds only where nobody shares any more (`<>[]~shared`), and this
is the premise of `RequestsEnd`, too. `Access`, `TaskAgent` and
`Administrators` state no fairness: their operations are requests of users.

Deadlock is checked in the outbox and dispatch runs. The fence instances are finite
(each transaction is one), and the instances of `PluginLifecycle`, `Access`, `TaskAgent`
and `Administrators` end where their bounds are used up, so they stop.

Gathers. `run_once` waits for its pipelines with `asyncio.gather`
(`outbox/sender.py:217`): if one raises, the others run on detached while the loop
starts again. `PipelineError` models it, and it can happen in each passing outbox run;
`OneInFlight` is proved with it.

### What the violated properties show

* `outbox_ambiguous`: a 408 or 5xx answer is treated as "not sent" and retried
  (`outbox/sender.py:748-751`, `gewe/client.py:75-76`). If the provider had sent
  the message, it goes out twice.
* `fence_stuck`: `deactivate` locks the deployment and then waits for the fence;
  a sender between `_authorization_guard` and `_authorization_still_valid` has the
  fence and waits for the deployment. No timeout is set (`db/session.py:18-22`),
  and lease recovery skips the locked row. `OnlyDeactivationBlocks` shows that
  this is the only such pair among the modelled transactions. The harm does not end with the
  message: `Outbox` shows that the batch of that sender never ends, so that other accounts of
  the worker wait as well, and `EventDispatch` that dispatchers cannot insert a record for the
  plugin, whose deployment still reads RUNNING.
* `plugins_stale`: the check after a call compares the process with the registered one
  (`plugins/supervisor.py:433`), which is exchanged only after the transaction that makes the
  new revision active was committed. Who reads its routes in between records the old
  process's answer under the new revision. The documents say that an old instance's result
  cannot pass as the new revision's (`src/docs/当前实现状态与验收边界.md:98`, and
  `src/docs/微信机器人管理与Agent平台-项目需求与总体设计说明书.md:117`). `StaleOnlyBeforeSwap`,
  which is proved, says that it happens at no other time.

### What else the models show

These behaviours are in the models; the properties are stated so that they hold around
them, and say where the code's protection ends.

* A request that outlives its lease (a stalled process, or HTTP timeouts per phase that
  add up) lets the account's next message be sent beside it (`outbox/sender.py:331`),
  while the design (`src/docs/微信机器人管理与Agent平台-项目需求与总体设计说明书.md:226`)
  asks for strictly serial sending. `SenderOptions` demands a lease of 60 s plus the
  request timeout, which is meant to rule this out; `SerialSends` holds until it happens
  (`overrun`).
* A batch of up to 50 events shares one lease of 120 s (`events/worker.py`) although the
  events are dispatched one after the other, and `dispatch` does not look at the lease. A
  private event whose first attempt failed can be handed to its plugin by two workers at
  once. What then protects the user is the outbox key (the same action key is enqueued
  once); `OneResult` shows that in chat rooms the row lock rules the case out, hence its
  premise `Guarded`.
* Of two overlapping activations the second writes `active_revision_id` only if it differs
  from what it read before the fence, so the row may name the revision of the first
  while the second runs (`plugins/catalog.py:304`). `RunnerIsActivated` is therefore about
  the activation rows, which are always right.
* The late answer of the provider enables an account that was disabled meanwhile.

## 5. What is proved

For every value of the constants:

| Module | Theorem | Statement |
| --- | --- | --- |
| `OutboxProofs` | `TypeCorrect` | `Spec => []TypeOK` |
| | `SerialClaims` | `Spec => []OneInFlight` |
| | `TransitionsLegal` | `Spec => TransitionsFollowTable` |
| `OutboxDelivery` | `AtMostOnce` | `Spec => []NoDuplicateDelivery`, assuming `DefiniteStatus` |
| | `StatusesAreTrue` | `Spec => []TruthfulStatus`, assuming `DefiniteStatus` |
| | `OutboxRefinesCourier` | `Spec => ImplementsCourier` |
| | `SerialWhenTimely` | `Spec => []SerialSends` |
| | `AnswersKept` | `Spec => []AnswerRecorded` |
| `SendFenceProofs` | `TypeCorrect`, `AuthorizationIsFenced` | `Spec => []TypeOK`, `Spec => []FencedAuthorization` |
| | `OthersNeverBlock` | `Spec => []SomebodyMoves` |
| `EventDispatchProofs` | `TypeCorrect` | `Spec => []TypeOK` |
| | `HandledByEveryone` | `Spec => []HandledByAll` |
| | `SettledIsFinal` | `Spec => SettledStands` |
| | `RepliesOfOneResult` | `Spec => []OneResult` |
| | `RecordsAreFinal` | `Spec => RecordsStand` |
| | `AttemptsAreLimited` | `Spec => []AttemptLimit` |
| | `FailuresHaveCauses` | `Spec => []FailedForCause` |
| `PluginLifecycleProofs` | `TypeCorrect` | `Spec => []TypeOK` |
| | `RunnerMatches` | `Spec => []RunnerIsActivated` |
| | `NoProcessLost` | `Spec => []NoOrphanProcess` |
| | `SwapWaits` | `Spec => []CallsOutliveSwap` |
| | `ResultsAreFresh` | `Spec => []StaleOnlyBeforeSwap` |
| | `LifecycleRefinesHotswap` | `Spec => ImplementsHotswap` |
| `AccessProofs` | `DenyOnlyTakesAway`, `RevokingAllowOnlyTakesAway` | one more DENY, or one ALLOW less, never makes `Evaluate` more permissive |
| `AccessProofs` | `MoreSpecificOverrides` | an unlocked rule that another candidate outranks changes no decision, whatever its effect |
| | `NothingWithoutRule`, `DeadRulesDoNotCount` | what passes is passed by a most specific rule that applies; rules of another epoch change nothing |
| | `TypeCorrect`, `OneMembershipAtATime` | `Spec => []TypeOK`, `Spec => []OneMembership` |
| | `RightsEnd` | `Spec => []RightsEndWithMembership` |
| | `OneVersionDecides` | `Spec => []DecisionOfItsVersion` |
| `TaskAgentProofs` | `TypeCorrect`, `OneRunAtATime` | `Spec => []TypeOK`, `Spec => []OneActiveRun` |
| | `NoQuestionLeftBehind`, `OneAnswer` | `Spec => []OpenQuestionWaits`, `Spec => []AnsweredOnce` |
| | `LogTellsAll`, `OneRequest` | `Spec => []LogAgrees`, `Spec => []RequestedOnce` |
| | `ViewsAddUp` | `Spec => []ViewExplained` |
| | `EndedForGood` | `Spec => EndedStays` |
| | `SessionsHoldDialogues` | `Spec => ImplementsDialogue` |
| `AdministratorsProofs` | `TypeCorrect`, `AnOwnerRemains` | `Spec => []TypeOK`, `Spec => []OwnerRemains` |
| | `OldSessionsAreRefused` | `Spec => SessionsHonourInvalidation` |

Assumptions: the named ones of the modules, which give the types of the constants and
say that the values standing for "none" are no identities (`OutboxAssumption`,
`FenceAssumption`, `BoundsAssumption`, `AccessAssumption`, `LimitsAssumption`,
`RowsAssumption`, `VersionAssumption`, `DispatchAssumption`, by which the deployments are
also finitely many, being rows of a table) and, where the table says so, `DefiniteStatus`. `outbox_ambiguous` shows that `DefiniteStatus` cannot
be dropped.

The arguments:

* `OneInFlight` is inductive with the types alone: a row enters flight only in
  `ClaimNext`, under the account's row lock and an empty in-flight set.
* `NoDuplicateDelivery` and `TruthfulStatus` are not. `DeliveryInv` says that from
  the commit of SENDING to the end of `_finish_*` at most one pipeline has a
  message (`OneLauncher`), that its row is SENDING, UNKNOWN or reconciled
  meanwhile (`LaunchedStatus`), and that what was delivered and what may still be
  never exceed one (`Effects`, `StatusEffects`). It holds because SENDING is
  entered only from CLAIMED, by a pipeline that commits it, and left backwards
  only by the pipeline whose request certainly did nothing: expired SENDING rows
  become UNKNOWN and never return to the queue. A pipeline that works on a row
  another worker has claimed again is harmless for the same reason, although a
  claim names no owner.
* The refinement needs `OneInFlight` (a try happens alone) and `AttemptsInv` (a
  row that may be claimed has an attempt left).
* `TimelyInv`, which holds until `overrun`, says that a pipeline's row is as it left it, unless an operator
  cancelled it before SENDING, and that no other pipeline has it.
* `FenceInv`: whoever passed a check still holds the fence shared; an open
  administrative transaction that has the fence has it alone.
* `HoldInv` adds that a lock is with those whose place in their transaction says so.
  Where all wait, nobody has the fence (`NobodyAtTheFence`): a sender that has it waits
  only for rows that an open transaction without the fence would have to hold, and that
  is a deactivation before its second lock, the one case `SomebodyMoves` excepts. What is
  left are deactivations, of which the one with the deployment can take the fence.

* Dispatch, in six layers. `TypeInv` has besides the types where a worker is in its
  transaction (`PlaceOK`). `RecordInv` says that no two workers have drafted one record
  (`Exclusive`, from the unique key and the row lock), that no PENDING is ever committed,
  and that each route of a dispatch is still to be taken or has ended (`CoverOK`): so who
  commits DISPATCHED has finished with every deployment. `Leased` says that the events of
  a batch are its worker's alone, and DISPATCHING, until a lease is overrun, so that
  nobody holds a settled event (`SettledIsFinal`), and `ReplyInv` that under the
  row lock of a room (`Rooms`), or under such a lease, what a worker loaded of a record is
  what the record still is (`Fresh`): so the replies of two calls never meet. On these
  rest two more. `CountInv` counts chances: the workers that may still give the event back
  for a retry, and the row itself while it may be claimed. Chances and the claims from the
  last permitted one on are together at most `Limit`, one more than faults and overruns;
  and the calls of a plugin, with the workers that have yet to call it, are at most the
  tries. `CauseInv` says who can raise where nothing crashes or overruns: `Fresh` leaves
  no lost insert of a record, so it is one who lost the race to insert its actor,
  to another dispatch or to someone in `Synced` (`Blamed`).
* `LifeInv`, of the plugins. The fence is with the request that has an uncommitted
  transaction, the pending entry with the one whose transition is under way (`Ordered`).
  A request to activate has the next epoch, above all that were registered (`Candidate`).
  A committed request is the only one that may separate rows and runner (`Committed`,
  `Runner`), and what is drained is not registered (`Leaving`). `StaleOnlyBeforeSwap` needs
  that epochs are numbered without gaps and only grow (`Numbered`): a swap registers a
  newer one than any call was routed to. The refinement adds (`HotInv`) that a process
  whose calls killed it is no candidate and that an active revision has an ACTIVE row:
  so a version is chosen exactly while its request has committed and not swapped
  (`ChosenIs`), and what a restart brings back was announced.
* `AccessInv`. Who holds the chat room's row has read what is still there (`ViewOK`),
  what had ended when a decision began has ended for good (`GoneOK`), versions count the
  rules written and revoked (`Counted`), and `history` has the rules of the present version
  (`Remembered`). A decision reads the rules at one moment, so it is that of the version of
  this moment (`Judged`); the fence makes it the present one for a sender (`Fenced`).
* Task agent. `BusyInv`: the slot of a session is with its one active run (`Slots`), and a
  question is open exactly while its run waits for it (`Waits`). On it rests `LogInv`: the
  log of a session ends with the status of each run and its changes follow on one another
  (`Story`), a run has one request in the inbox (`Requested`), an answered question one
  answer. A view is five reads without a lock, each of a history that only grows
  (`Stays`, `Longer`): what a part shows has its cause in the rows (`ToldInv`: an inbox
  item has its event, the event of a question its question), and the part that must
  account for it is read afterwards (`ViewOK`), so it still finds it, unless the limit has cut it
  off and the view says so. The refinement of
  `Dialogue` rests on `BusyInv`: a free slot means that no request is worked on, and a run
  that is not waiting has no open question, so that a pause or a resumption is no step of
  the dialogue and the end of a run drops at most the one question it waits for.
* Administrators. `OwnerInv`: who is about to take the role or the status from an active
  Owner holds the lock of the Owner role, and another active Owner is there (`Safe`), as no
  two requests hold the role, or one user, at once (`Locks`). `VersionInv`: a login under
  way that was outdated, and a session that came of it, are behind the version of the row
  (`Behind`, `Refused`), because who holds the row has read what it still is, so that its
  version only grows.

The inductive invariants were checked with TLC before they were proved. Three theorems are
about properties no run lists. The refinement a run checks covers two of them: `SwapWaits`
(`ImplementsHotswap`) and `OneRequest` (`ImplementsDialogue`, as far as the inbox goes).
`ResultsAreFresh` says what remains true of the property that `plugins_stale` refutes.

Only model-checked: the liveness properties `EventuallySettled`,
`OnlyDeactivationBlocks`, `EveryEventSettled` and `RequestsEnd` (fairness is outside the
proof system's reach).

## 6. Not modelled

See the components in `PROJECT.json`. Without state of their own: observability, the web
console, the HTTP layer. Left out on purpose: request formats, encryption, logging, audit
rows, the contents of plugin packages, configurations, messages and payloads.

State that no module has:

* principal rows (never removed; created under a unique key), contacts (in `EventDispatch` a
  synchronisation is a rival for the first insert, `Synced`, and no more), chat rooms and
  their placeholders, which a synchronisation merges by unique keys;
* the identifier and the expiry of a login QR code, and the login states among themselves;
* callback tokens and modes of connections;
* the login throttle, CSRF tokens, cookies and the lengths of session expiries;
* `invalidate_user_sessions` of `auth/service.py`, which only tests call.

Not modelled of faults: a commit of a plugin transaction whose outcome the request does not
learn, and child processes that outlive the application (`Crash` of `PluginLifecycle` ends
them with it). Of those who share a lock `PluginLifecycle` knows only whether there are any.

The transactions that change grants without taking the fence (a membership that ends, a
rule's `valid_until`) are outside `FencedAuthorization`: nothing in the code orders them
against a request on its way. `RightsEndWithMembership` says what does hold.
