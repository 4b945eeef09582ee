--------------------------- MODULE PluginLifecycle ---------------------------
(***************************************************************************)
(* A plugin deployment and its runner: the catalog's rows, the supervisor  *)
(* that swaps processes, and the dispatcher workers that call them.        *)
(*                                                                         *)
(* One application process serves the operators' requests and holds the    *)
(* supervisor in memory.  An activation is a two-phase swap: a candidate   *)
(* process is started, the database transaction is committed, and only     *)
(* then is the runner exchanged.  The exclusive authorization fence and    *)
(* the lock of the deployment's row order the transactions up to their     *)
(* commit, the supervisor's pending table the swaps from there on.  An     *)
(* activation takes the fence first, a deactivation the row: two of them   *)
(* may wait for each other, and the database ends one.  Senders share the  *)
(* fence and dispatchers the row, for as long as their transactions last.  *)
(*                                                                         *)
(* The rows a transaction writes are seen by others when it commits, so    *)
(* they change in Commit; what it has read before is kept with it.  An ORM *)
(* object read before the fence keeps its attributes, and a column is only *)
(* written if its new value differs from the value that was read.          *)
(***************************************************************************)
EXTENDS Naturals, FiniteSets

CONSTANTS
  Requests,      \* concurrent operator requests to activate or to deactivate
  Workers,       \* dispatcher workers
  MaxRevisions,  \* bound: revisions of the deployment
  MaxEpochs,     \* bound: activation attempts
  MaxRestarts    \* bound: crashes and shutdowns of the application

Nobody == "nobody"

ASSUME BoundsAssumption ==
  /\ MaxRevisions \in Nat /\ MaxEpochs \in Nat /\ MaxRestarts \in Nat
  /\ Nobody \notin Requests

VARIABLES
  installed,    \* the plugin's package is in the catalog
  status,       \* PluginDeployment.status, "NONE" before it is created
  active,       \* PluginDeployment.active_revision_id, 0 for NULL
  revisions,    \* number of its revisions
  rows,         \* rows[e]: the status of the PluginRevisionActivation with epoch e
  app,          \* the application: "up" or "down"
  restarts,     \* crashes and shutdowns so far
  fence,        \* the request whose transaction holds the exclusive fence
  shared,       \* other transactions hold the fence, or share the row
  req,          \* req[o]: how far request o is
  registered,   \* epoch of PluginSupervisor._active, 0 for none
  last_epoch,   \* PluginSupervisor._last_epoch
  pending,      \* the request that owns the pending transition
  process,      \* process[e]: the PluginProcess started for epoch e
  accepting,    \* _ActivePlugin.accepting of the process of epoch e
  call          \* call[w]: what dispatcher worker w is doing

catalogVars == <<installed, status, active, revisions, rows>>
supervisorVars == <<registered, last_epoch, pending, process, accepting>>
vars == <<installed, status, active, revisions, rows, app, restarts, fence, shared, req,
          registered, last_epoch, pending, process, accepting, call>>

-----------------------------------------------------------------------------
Epochs == 1..MaxEpochs
Revisions == 1..MaxRevisions

PluginDeploymentStatus == {"NONE", "STOPPED", "RUNNING", "FAILED"}
PluginActivationStatus == {"NONE", "ACTIVE", "FAILED", "STOPPED"}

\* A request: its kind and revision, the active revision it read before the fence,
\* the epoch it asked for and the process it takes out of service.
IdleRequest == [at |-> "idle", revision |-> 0, seen |-> 0, epoch |-> 0, old |-> 0]
IdleCall == [at |-> "idle", routed |-> 0, process |-> 0]

Init ==
  /\ installed = FALSE
  /\ status = "NONE"
  /\ active = 0
  /\ revisions = 0
  /\ rows = [e \in Epochs |-> "NONE"]
  /\ app = "up"
  /\ restarts = 0
  /\ fence = Nobody
  /\ shared = FALSE
  /\ req = [o \in Requests |-> IdleRequest]
  /\ registered = 0
  /\ last_epoch = 0
  /\ pending = Nobody
  /\ process = [e \in Epochs |-> "none"]
  /\ accepting = [e \in Epochs |-> FALSE]
  /\ call = [w \in Workers |-> IdleCall]

Deactivates(o) == req[o].revision = 0
UsedEpochs == {e \in Epochs : rows[e] # "NONE"}
ActiveRows == {e \in Epochs : rows[e] = "ACTIVE"}

\* max(activation_epoch) + 1
NextEpoch == CHOOSE n \in 1..(MaxEpochs + 1) :
               /\ \A e \in UsedEpochs : e < n
               /\ n = 1 \/ (n - 1) \in UsedEpochs

\* The calls _acquire has counted and _release has not: a process is drained
\* when there are none.
InFlight(e) == {w \in Workers : call[w].at = "calling" /\ call[w].process = e}

Goto(o, at) == req' = [req EXCEPT ![o].at = at]
EndRequest(o) == req' = [req EXCEPT ![o] = IdleRequest]

\* The row of the deployment is locked by a deactivation that waits for the fence, and by
\* whoever holds the fence and has got further than to wait for the row.
HoldsRow(o) == req[o].at = "locked" \/ (fence = o /\ req[o].at # "fenced")
RowFree == ~shared /\ \A o \in Requests : ~HoldsRow(o)
FenceFree == ~shared /\ fence = Nobody

-----------------------------------------------------------------------------
(* The catalog. *)

\* install_builtin: a second installation of the same package returns the first.
InstallBuiltin ==
  /\ app = "up" /\ ~installed
  /\ installed' = TRUE
  /\ UNCHANGED <<status, active, revisions, rows, app, restarts, fence, shared, req, call>>
  /\ UNCHANGED supervisorVars

\* create_deployment, with its first revision
CreateDeployment ==
  /\ app = "up" /\ installed /\ status = "NONE" /\ MaxRevisions > 0
  /\ status' = "STOPPED"
  /\ revisions' = 1
  /\ UNCHANGED <<installed, active, rows, app, restarts, fence, shared, req, call>>
  /\ UNCHANGED supervisorVars

\* create_revision: the next number; of two at once the second fails on the unique key
CreateRevision ==
  /\ app = "up" /\ status # "NONE" /\ revisions < MaxRevisions
  /\ revisions' = revisions + 1
  /\ UNCHANGED <<installed, status, active, rows, app, restarts, fence, shared, req, call>>
  /\ UNCHANGED supervisorVars

-----------------------------------------------------------------------------
(* A request to activate a revision. *)

\* activate_revision, up to the fence: the deployment is read without a lock.
LoadDeployment(o, r) ==
  /\ app = "up" /\ req[o].at = "idle"
  /\ status # "NONE"
  /\ r \in 1..revisions
  /\ req' = [req EXCEPT ![o] = [IdleRequest EXCEPT !.at = "loaded", !.revision = r,
                                                  !.seen = active]]
  /\ UNCHANGED <<app, restarts, fence, shared, call>>
  /\ UNCHANGED catalogVars /\ UNCHANGED supervisorVars

\* lock_authorization_fence
TakeFence(o) ==
  /\ req[o].at = "loaded" /\ FenceFree
  /\ fence' = o
  /\ Goto(o, "fenced")
  /\ UNCHANGED <<app, restarts, shared, call>>
  /\ UNCHANGED catalogVars /\ UNCHANGED supervisorVars

\* The row is locked as well, and the activation row gets its epoch.
Locks(o) == req[o].at = "fenced" /\ RowFree /\ NextEpoch \in Epochs

\* A command of the revision is taken by another deployment: the request ends with
\* nothing written (as it does at the bound).
RefuseActivation(o) ==
  /\ req[o].at = "fenced" /\ RowFree
  /\ fence' = Nobody
  /\ EndRequest(o)
  /\ UNCHANGED <<app, restarts, shared, call>>
  /\ UNCHANGED catalogVars /\ UNCHANGED supervisorVars

\* prepare_activation: the package is the one that was installed and the configuration can
\* be decrypted, there is one transition at a time, and epochs only grow.
PrepareActivation(o) ==
  /\ Locks(o)
  /\ IF pending = Nobody /\ NextEpoch > last_epoch
     THEN /\ pending' = o
          /\ process' = [process EXCEPT ![NextEpoch] = "starting"]
          /\ req' = [req EXCEPT ![o].at = "starting", ![o].epoch = NextEpoch]
     ELSE /\ req' = [req EXCEPT ![o].at = "failed", ![o].epoch = NextEpoch]
          /\ UNCHANGED <<pending, process>>
  /\ UNCHANGED <<app, restarts, fence, shared, call, registered, last_epoch, accepting>>
  /\ UNCHANGED catalogVars

\* _launch_spec finds that the package was changed, or cannot decrypt: the activation is
\* recorded as FAILED.
RejectLaunch(o) ==
  /\ Locks(o)
  /\ req' = [req EXCEPT ![o].at = "failed", ![o].epoch = NextEpoch]
  /\ UNCHANGED <<app, restarts, fence, shared, call>>
  /\ UNCHANGED catalogVars /\ UNCHANGED supervisorVars

\* PluginProcess.start: the candidate answers initialize and health ...
CandidateReady(o) ==
  /\ req[o].at = "starting"
  /\ process' = [process EXCEPT ![req[o].epoch] = "running"]
  /\ Goto(o, "ready")
  /\ UNCHANGED <<app, restarts, fence, shared, call, registered, last_epoch, pending, accepting>>
  /\ UNCHANGED catalogVars

\* ... or does not, and abort_activation withdraws the transition.
CandidateFails(o) ==
  /\ req[o].at = "starting"
  /\ process' = [process EXCEPT ![req[o].epoch] = "none"]
  /\ pending' = Nobody
  /\ Goto(o, "failed")
  /\ UNCHANGED <<app, restarts, fence, shared, call, registered, last_epoch, accepting>>
  /\ UNCHANGED catalogVars

StopActive_Keep(rs) == rs

\* The activations that were ACTIVE are STOPPED.
StopActive(rs) ==
  [e \in Epochs |-> IF rs[e] = "ACTIVE" THEN "STOPPED" ELSE rs[e]]

\* The columns of the deployment row that a successful activation writes.
WrittenActive(o) == IF req[o].seen = req[o].revision THEN active ELSE req[o].revision

\* The session commits: what activate_revision flushed is there for everybody.
CommitActivation(o) ==
  /\ req[o].at = "ready" /\ ~Deactivates(o)
  /\ rows' = [StopActive(rows) EXCEPT ![req[o].epoch] = "ACTIVE"]
  /\ active' = WrittenActive(o)
  /\ status' = "RUNNING"
  /\ fence' = Nobody
  /\ req' = [req EXCEPT ![o].at = "committed", ![o].seen = 0]
  /\ UNCHANGED <<installed, revisions, app, restarts, shared, call>>
  /\ UNCHANGED supervisorVars

CommitFailure_LeavesStarting(o) ==
  /\ req[o].at = "failed"
  /\ rows' = [rows EXCEPT ![req[o].epoch] = "FAILED"]
  /\ status' = "STARTING"
  /\ fence' = Nobody
  /\ EndRequest(o)
  /\ UNCHANGED <<installed, active, revisions, app, restarts, shared, call>>
  /\ UNCHANGED supervisorVars

\* The candidate failed: a FAILED activation is committed, and the deployment is
\* RUNNING or FAILED by what the request read at its beginning.
CommitFailure(o) ==
  /\ req[o].at = "failed"
  /\ rows' = [rows EXCEPT ![req[o].epoch] = "FAILED"]
  /\ status' = IF req[o].seen = 0 THEN "FAILED" ELSE "RUNNING"
  /\ fence' = Nobody
  /\ EndRequest(o)
  /\ UNCHANGED <<installed, active, revisions, app, restarts, shared, call>>
  /\ UNCHANGED supervisorVars

RollBack_KeepCandidate(o) ==
  /\ req[o].at \in {"ready", "failed"}
  /\ IF req[o].at = "ready"
     THEN /\ pending' = Nobody
          /\ accepting' = IF Deactivates(o) /\ req[o].old # 0
                          THEN [accepting EXCEPT ![req[o].old] = TRUE] ELSE accepting
     ELSE UNCHANGED <<pending, accepting>>
  /\ fence' = Nobody
  /\ EndRequest(o)
  /\ UNCHANGED <<app, restarts, shared, call, registered, last_epoch, process>>
  /\ UNCHANGED catalogVars

\* The commit fails: abort_activation stops the candidate, abort_deactivation lets
\* the runner accept calls again.
RollBack(o) ==
  /\ req[o].at \in {"ready", "failed"}
  /\ IF req[o].at = "ready"
     THEN /\ pending' = Nobody
          /\ IF Deactivates(o)
             THEN /\ accepting' = IF req[o].old # 0
                                  THEN [accepting EXCEPT ![req[o].old] = TRUE] ELSE accepting
                  /\ UNCHANGED process
             ELSE /\ process' = [process EXCEPT ![req[o].epoch] = "none"]
                  /\ UNCHANGED accepting
     ELSE UNCHANGED <<pending, process, accepting>>
  /\ fence' = Nobody
  /\ EndRequest(o)
  /\ UNCHANGED <<app, restarts, shared, call, registered, last_epoch>>
  /\ UNCHANGED catalogVars

\* commit_activation: the runner is exchanged; the old one accepts no more calls.
SwapRunner(o) ==
  /\ req[o].at = "committed" /\ ~Deactivates(o)
  /\ pending' = Nobody
  /\ last_epoch' = req[o].epoch
  /\ registered' = req[o].epoch
  /\ accepting' = [e \in Epochs |-> CASE e = req[o].epoch -> TRUE
                                      [] e = registered -> FALSE
                                      [] OTHER -> accepting[e]]
  /\ req' = [req EXCEPT ![o] = [IdleRequest EXCEPT !.at = "draining", !.old = registered]]
  /\ UNCHANGED <<app, restarts, fence, shared, call, process>>
  /\ UNCHANGED catalogVars

\* When its calls have ended the process taken out of service is stopped.
StopDrained(o) ==
  /\ req[o].at = "draining"
  /\ InFlight(req[o].old) = {}
  /\ process' = [e \in Epochs |-> IF e = req[o].old THEN "none" ELSE process[e]]
  /\ EndRequest(o)
  /\ UNCHANGED <<app, restarts, fence, shared, call, registered, last_epoch, pending, accepting>>
  /\ UNCHANGED catalogVars

-----------------------------------------------------------------------------
(* A request to deactivate. *)

BeginDeactivation(o) ==
  /\ app = "up" /\ req[o].at = "idle"
  /\ status # "NONE"
  /\ Goto(o, "asked")
  /\ UNCHANGED <<app, restarts, fence, shared, call>>
  /\ UNCHANGED catalogVars /\ UNCHANGED supervisorVars

\* deactivate: the row is locked and read ...
LockDeployment(o) ==
  /\ req[o].at = "asked" /\ RowFree
  /\ Goto(o, "locked")
  /\ UNCHANGED <<app, restarts, fence, shared, call>>
  /\ UNCHANGED catalogVars /\ UNCHANGED supervisorVars

\* ... and held while the fence is waited for; then prepare_deactivation closes the
\* runner ...
PrepareDeactivation(o) ==
  /\ req[o].at = "locked" /\ FenceFree
  /\ pending = Nobody
  /\ fence' = o
  /\ pending' = o
  /\ accepting' = IF registered # 0 THEN [accepting EXCEPT ![registered] = FALSE] ELSE accepting
  /\ req' = [req EXCEPT ![o] = [IdleRequest EXCEPT !.at = "ready", !.old = registered]]
  /\ UNCHANGED <<app, restarts, shared, call, registered, last_epoch, process>>
  /\ UNCHANGED catalogVars

\* ... unless a transition is pending.
RefuseDeactivation(o) ==
  /\ req[o].at = "locked" /\ FenceFree
  /\ pending # Nobody
  /\ EndRequest(o)
  /\ UNCHANGED <<app, restarts, fence, shared, call>>
  /\ UNCHANGED catalogVars /\ UNCHANGED supervisorVars

CommitDeactivation(o) ==
  /\ req[o].at = "ready" /\ Deactivates(o)
  /\ rows' = StopActive(rows)
  /\ active' = 0
  /\ status' = "STOPPED"
  /\ fence' = Nobody
  /\ Goto(o, "committed")
  /\ UNCHANGED <<installed, revisions, app, restarts, shared, call>>
  /\ UNCHANGED supervisorVars

\* commit_deactivation: the runner leaves the table.
RemoveRunner(o) ==
  /\ req[o].at = "committed" /\ Deactivates(o)
  /\ pending' = Nobody
  /\ registered' = IF registered = req[o].old THEN 0 ELSE registered
  /\ Goto(o, "draining")
  /\ UNCHANGED <<app, restarts, fence, shared, call, last_epoch, process, accepting>>
  /\ UNCHANGED catalogVars

\* One request has the fence and waits for the row, another has the row and waits for the
\* fence: the database ends one of their transactions.
AbortVictim(o) ==
  /\ \E p \in Requests : {req[o].at, req[p].at} = {"fenced", "locked"}
  /\ fence' = IF fence = o THEN Nobody ELSE fence
  /\ EndRequest(o)
  /\ UNCHANGED <<app, restarts, shared, call>>
  /\ UNCHANGED catalogVars /\ UNCHANGED supervisorVars

\* Senders share the fence from their checks to the provider's answer, which may include a
\* wait for the row; a dispatcher's record of a route shares the row; a change of the
\* workspace's policy has the fence to itself.
Share ==
  /\ ~shared /\ app = "up"
  /\ fence = Nobody \/ RowFree
  /\ shared' = TRUE
  /\ UNCHANGED <<app, restarts, fence, req, call>>
  /\ UNCHANGED catalogVars /\ UNCHANGED supervisorVars

SharersEnd ==
  /\ shared
  /\ shared' = FALSE
  /\ UNCHANGED <<app, restarts, fence, req, call>>
  /\ UNCHANGED catalogVars /\ UNCHANGED supervisorVars

-----------------------------------------------------------------------------
(* A dispatcher worker calls the plugin. *)

\* _plugin_routes: the active revision of a deployment that is RUNNING
Route(w) ==
  /\ app = "up" /\ call[w].at = "idle"
  /\ status = "RUNNING" /\ active # 0
  /\ \E e \in ActiveRows \cup {0} :
       /\ e = 0 <=> ActiveRows = {}
       /\ call' = [call EXCEPT ![w] = [at |-> "routed", routed |-> e, process |-> 0]]
  /\ UNCHANGED <<app, restarts, fence, shared, req>>
  /\ UNCHANGED catalogVars /\ UNCHANGED supervisorVars

\* PluginSupervisor.call, _acquire: a runner that is not accepting is not active.
Acquire(w) ==
  /\ call[w].at = "routed"
  /\ IF registered # 0 /\ accepting[registered]
     THEN call' = [call EXCEPT ![w].at = "calling", ![w].process = registered]
     ELSE call' = [call EXCEPT ![w] = IdleCall]
  /\ UNCHANGED <<app, restarts, fence, shared, req>>
  /\ UNCHANGED catalogVars /\ UNCHANGED supervisorVars

\* The process answers within the deadline and the call is released.
CallAnswered(w) ==
  /\ call[w].at = "calling"
  /\ process[call[w].process] = "running"
  /\ call' = [call EXCEPT ![w].at = "answered"]
  /\ UNCHANGED <<app, restarts, fence, shared, req>>
  /\ UNCHANGED catalogVars /\ UNCHANGED supervisorVars

CallFails_NotReleased(w) ==
  /\ call[w].at = "calling"
  /\ process[call[w].process] # "dead"
  /\ process' = [process EXCEPT ![call[w].process] = "dead"]
  /\ UNCHANGED <<app, restarts, fence, shared, req, call, registered, last_epoch, pending, accepting>>
  /\ UNCHANGED catalogVars

\* It times out or breaks the protocol, and the process is terminated though it
\* stays registered; or an earlier call has left it that way.
CallFails(w) ==
  /\ call[w].at = "calling"
  /\ process' = [process EXCEPT ![call[w].process] = "dead"]
  /\ call' = [call EXCEPT ![w] = IdleCall]
  /\ UNCHANGED <<app, restarts, fence, shared, req, registered, last_epoch, pending, accepting>>
  /\ UNCHANGED catalogVars

\* The runner the worker called is still the registered one.
Current(w) == call[w].at = "answered" /\ registered = call[w].process

\* The check after the call: a result of a runner that was exchanged is refused as
\* stale, any other is recorded under the revision the worker routed to.
TakeResult(w) ==
  /\ call[w].at = "answered"
  /\ call' = [call EXCEPT ![w] = IdleCall]
  /\ UNCHANGED <<app, restarts, fence, shared, req>>
  /\ UNCHANGED catalogVars /\ UNCHANGED supervisorVars

-----------------------------------------------------------------------------
(* The application stops and starts. *)

NothingRuns ==
  /\ registered' = 0 /\ last_epoch' = 0 /\ pending' = Nobody
  /\ process' = [e \in Epochs |-> "none"]
  /\ accepting' = [e \in Epochs |-> FALSE]
  /\ req' = [o \in Requests |-> IdleRequest]
  /\ call' = [w \in Workers |-> IdleCall]
  /\ fence' = Nobody /\ shared' = FALSE

\* A crash: memory, child processes and open transactions are gone.
Crash ==
  /\ app = "up" /\ restarts < MaxRestarts
  /\ app' = "down" /\ restarts' = restarts + 1
  /\ NothingRuns
  /\ UNCHANGED catalogVars

\* The end of the lifespan, when the requests have been served: the workers are
\* stopped, then the supervisor drains and stops every runner; no row is written.
Shutdown ==
  /\ \A o \in Requests : req[o].at = "idle"
  /\ \A w \in Workers : call[w].at = "idle"
  /\ Crash

\* Mutant: the restart serves under the activation there was.
RestoreActive_SameEpoch ==
  /\ app = "down" /\ status = "RUNNING" /\ active # 0
  /\ app' = "up"
  /\ \E e \in ActiveRows :
       /\ registered' = e /\ last_epoch' = e
       /\ process' = [process EXCEPT ![e] = "running"]
       /\ accepting' = [accepting EXCEPT ![e] = TRUE]
  /\ UNCHANGED <<restarts, fence, shared, req, pending, call>> /\ UNCHANGED catalogVars

\* restore_active_deployments, alone at start-up: the active revision of a RUNNING
\* deployment is activated again ...
RestoreActive ==
  /\ app = "down" /\ status = "RUNNING" /\ active # 0
  /\ NextEpoch \in Epochs
  /\ app' = "up"
  /\ rows' = [StopActive(rows) EXCEPT ![NextEpoch] = "ACTIVE"]
  /\ registered' = NextEpoch /\ last_epoch' = NextEpoch
  /\ process' = [process EXCEPT ![NextEpoch] = "running"]
  /\ accepting' = [accepting EXCEPT ![NextEpoch] = TRUE]
  /\ UNCHANGED <<installed, status, active, revisions, restarts, fence, shared, req, pending, call>>

\* ... or fails: the deployment is FAILED and keeps its active revision.
RestoreFails ==
  /\ app = "down" /\ status = "RUNNING" /\ active # 0
  /\ NextEpoch \in Epochs
  /\ app' = "up"
  /\ rows' = [rows EXCEPT ![NextEpoch] = "FAILED"]
  /\ status' = "FAILED"
  /\ UNCHANGED <<installed, active, revisions, restarts, fence, shared, req, call>>
  /\ UNCHANGED supervisorVars

NothingToRestore ==
  /\ app = "down" /\ ~(status = "RUNNING" /\ active # 0)
  /\ app' = "up"
  /\ UNCHANGED <<restarts, fence, shared, req, call>>
  /\ UNCHANGED catalogVars /\ UNCHANGED supervisorVars

-----------------------------------------------------------------------------
\* What the code and the database do by themselves once a request has begun ...
RequestStep(o) ==
  \/ CandidateReady(o) \/ CandidateFails(o)
  \/ CommitActivation(o) \/ CommitFailure(o) \/ CommitDeactivation(o) \/ RollBack(o)
  \/ SwapRunner(o) \/ RemoveRunner(o) \/ StopDrained(o)
  \/ AbortVictim(o)

\* ... and when a lock it waits for is granted.
LockGranted(o) ==
  \/ TakeFence(o) \/ PrepareActivation(o) \/ RejectLaunch(o) \/ RefuseActivation(o)
  \/ LockDeployment(o) \/ PrepareDeactivation(o) \/ RefuseDeactivation(o)

CallStep(w) ==
  Acquire(w) \/ CallAnswered(w) \/ CallFails(w) \/ TakeResult(w)

Restore == RestoreActive \/ RestoreFails \/ NothingToRestore

CatalogStep == InstallBuiltin \/ CreateDeployment \/ CreateRevision

Next ==
  \/ CatalogStep
  \/ \E o \in Requests :
       \/ \E r \in Revisions : LoadDeployment(o, r)
       \/ BeginDeactivation(o)
       \/ LockGranted(o)
       \/ RequestStep(o)
  \/ Share \/ SharersEnd
  \/ \E w \in Workers : Route(w) \/ CallStep(w)
  \/ Crash \/ Shutdown \/ Restore

\* Requests and calls go on by themselves and a call ends by its deadline.  Requests that
\* wait for a lock queue for it, but whoever shares it does not stand in that queue: only
\* if nobody shares any more is everyone's turn sure to come.  Nothing says that those who
\* share a lock ever give it back.
Fairness ==
  /\ \A o \in Requests : /\ WF_vars(RequestStep(o))
                         /\ <>[]~shared => SF_vars(LockGranted(o))
  /\ \A w \in Workers : WF_vars(CallStep(w))

Spec == Init /\ [][Next]_vars /\ Fairness

-----------------------------------------------------------------------------
(* Properties. *)

\* The rows, the supervisor's tables and the requests are of their types; no
\* transaction leaves a deployment STARTING or DRAINING behind.
TypeOK ==
  /\ installed \in BOOLEAN
  /\ status \in PluginDeploymentStatus
  /\ active \in 0..revisions /\ revisions \in 0..MaxRevisions
  /\ rows \in [Epochs -> PluginActivationStatus]
  /\ app \in {"up", "down"} /\ restarts \in 0..MaxRestarts
  /\ shared \in BOOLEAN
  /\ fence \in Requests \cup {Nobody} /\ pending \in Requests \cup {Nobody}
  /\ req \in [Requests ->
       [at : {"idle", "loaded", "fenced", "asked", "locked", "starting", "ready", "failed", "committed",
              "draining"},
        revision : 0..MaxRevisions, seen : 0..MaxRevisions, epoch : 0..MaxEpochs,
        old : 0..MaxEpochs]]
  /\ registered \in 0..MaxEpochs /\ last_epoch \in 0..MaxEpochs
  /\ process \in [Epochs -> {"none", "starting", "running", "dead"}]
  /\ accepting \in [Epochs -> BOOLEAN]
  /\ call \in [Workers ->
       [at : {"idle", "routed", "calling", "answered"},
        routed : 0..MaxEpochs, process : 0..MaxEpochs]]

\* The database never shows two activations of a deployment as ACTIVE, and unless
\* a committed swap is still to be carried out, the runner the supervisor has is the
\* one the ACTIVE row names: the fence orders the transactions and the pending
\* transition the swaps, and together they keep the two in step.
RunnerIsActivated ==
  /\ \A a, b \in ActiveRows : a = b
  /\ registered # 0 /\ (\A o \in Requests : req[o].at # "committed") =>
       ActiveRows = {registered}

\* Every process that runs is the registered one or belongs to a request that will
\* register or stop it: no failed start, failed commit or swap leaves one behind.
NoOrphanProcess ==
  \A e \in Epochs : process[e] \in {"starting", "running"} =>
    \/ e = registered
    \/ \E o \in Requests :
         \/ req[o].epoch = e /\ req[o].at \in {"starting", "ready", "committed"}
         \/ req[o].old = e /\ req[o].at \in {"committed", "draining"}

\* A process is not stopped under a call it accepted: a swap or a deactivation waits
\* for the calls, and only a call of its own terminates it.  (ImplementsHotswap covers it.)
CallsOutliveSwap ==
  \A w \in Workers : call[w].at = "calling" => process[call[w].process] \in {"running", "dead"}

Accepted(w) == rows[call[w].process] \in {"ACTIVE", "STOPPED"}

\* The result of an old instance cannot pass as that of the new revision: what is accepted
\* after a call comes from a process at least as new as the activation that was routed to.
ResultNotStale ==
  \A w \in Workers : Current(w) => Accepted(w) /\ call[w].process >= call[w].routed

\* What the check after the call does achieve: the process had been committed, and it is at
\* least as new as the activation routed to unless a commit still waits for its swap.
StaleOnlyBeforeSwap ==
  \A w \in Workers : Current(w) =>
    /\ Accepted(w)
    /\ \/ call[w].process >= call[w].routed
       \/ \E o \in Requests : req[o].at = "committed"

\* A version of the plugin is an activation.  It is chosen with the commit of its row
\* and serves from the swap on; it is gone with its process.
Life(e) ==
  IF rows[e] = "NONE" THEN "unborn"
  ELSE IF rows[e] = "FAILED" THEN "rejected"
  ELSE IF e = registered THEN "serving"
  ELSE IF process[e] = "none" THEN "gone"
  ELSE IF e > last_epoch THEN "chosen"
  ELSE "retiring"

Named == IF ActiveRows = {} THEN 0 ELSE CHOOSE e \in ActiveRows : TRUE
With(w) == IF call[w].at = "calling" THEN call[w].process ELSE 0

Promise == INSTANCE Hotswap WITH
  Versions <- Epochs,
  Callers <- Workers,
  life <- [e \in Epochs |-> Life(e)],
  named <- Named,
  user <- [w \in Workers |-> With(w)]

\* However requests, commits, failed starts, swaps, calls and restarts interleave, the
\* callers see versions that follow on one another: each serves after it was committed,
\* for as long as a call is with it, one at a time and never again.
ImplementsHotswap == Promise!Spec

\* Every request to activate or to deactivate comes to its end, if senders and dispatchers
\* do not share its locks for ever: no two requests wait for each other, and no swap waits
\* for ever for the calls of the old process.
RequestsEnd ==
  <>[]~shared => \A o \in Requests : []<>(req[o].at = "idle")
=============================================================================
