------------------------ MODULE PluginLifecycleProofs ------------------------
(***************************************************************************)
(* Proofs about PluginLifecycle, for any number of concurrent requests,    *)
(* dispatcher workers, revisions, activations and restarts.                *)
(***************************************************************************)
EXTENDS PluginLifecycle, TLAPS

-----------------------------------------------------------------------------
(* The inductive invariant.                                                *)

Early == {"idle", "loaded", "fenced", "asked", "locked"}
Places == Early \cup {"starting", "ready", "failed", "committed", "draining"}
RequestType == [at : Places, revision : 0..MaxRevisions, seen : 0..MaxRevisions,
                epoch : 0..MaxEpochs, old : 0..MaxEpochs]
CallType == [at : {"idle", "routed", "calling", "answered"}, routed : 0..MaxEpochs,
             process : 0..MaxEpochs]

Typed ==
  /\ TypeOK
  /\ status = "NONE" => revisions = 0
  /\ \A o \in Requests : req[o].revision \in 0..revisions

\* The activations that were committed as a success
Activated == {e \in Epochs : rows[e] \in {"ACTIVE", "STOPPED"}}
Alive(e) == process[e] \in {"running", "dead"}

\* Activations are numbered in the order of their rows.
Numbered == \E k \in 0..MaxEpochs : UsedEpochs = 1..k

\* The fence orders the requests up to their commit, the pending transition from the
\* start of the candidate to the swap.
Ordered(o) ==
  /\ req[o].at \in {"fenced", "starting", "ready", "failed"} => fence = o
  /\ req[o].at \in {"starting", "ready", "committed"} => pending = o

\* A request to activate has the next epoch, and its process is no runner yet.
Candidate(o) ==
  /\ req[o].at \in {"loaded", "fenced", "starting", "failed"} => ~Deactivates(o)
  /\ req[o].at \in {"starting", "ready", "failed"} /\ ~Deactivates(o) =>
       /\ req[o].epoch \in Epochs /\ UsedEpochs = 1..(req[o].epoch - 1)
       /\ req[o].old = 0
  /\ req[o].at \in {"starting", "ready"} /\ ~Deactivates(o) => last_epoch < req[o].epoch
  /\ req[o].at = "starting" => process[req[o].epoch] = "starting"
  /\ req[o].at = "ready" /\ ~Deactivates(o) => Alive(req[o].epoch)

\* The database is ahead of the supervisor by the one transition that is committed.
Committed(o) == req[o].at = "committed" =>
  IF Deactivates(o)
  THEN ActiveRows = {}
  ELSE /\ req[o].epoch \in Epochs /\ req[o].old = 0 /\ last_epoch < req[o].epoch
       /\ ActiveRows = {req[o].epoch} /\ Alive(req[o].epoch)
       /\ \A e \in Activated : e <= req[o].epoch

\* A deactivation closes the runner that is registered until it removes it; what is
\* drained is not registered.
Leaving(o) ==
  /\ req[o].at \in {"ready", "committed"} /\ Deactivates(o) =>
       req[o].old = registered /\ req[o].epoch = 0
  /\ req[o].at = "draining" => req[o].old <= last_epoch /\ (req[o].old # 0 => req[o].old # registered)
  /\ req[o].at \in {"loaded", "fenced"} => req[o].old = 0 /\ req[o].epoch = 0

RequestOK(o) == Ordered(o) /\ Candidate(o) /\ Committed(o) /\ Leaving(o)

Committing == \E o \in Requests : req[o].at = "committed"
Activating == \E o \in Requests : req[o].at = "committed" /\ ~Deactivates(o)

\* The registered runner is the ACTIVE row's, but for a transition that is committed
\* and not carried out.
Runner ==
  /\ registered <= last_epoch
  /\ registered # 0 =>
       /\ registered \in Activated /\ Alive(registered)
       /\ ~Committing => ActiveRows = {registered}
       /\ ~Activating => \A e \in Activated : e <= registered

OneActive == \A a, b \in ActiveRows : a = b

CallOK(w) ==
  /\ call[w].at # "idle" /\ call[w].routed # 0 => call[w].routed \in Activated
  /\ call[w].at \in {"calling", "answered"} => call[w].process \in 1..last_epoch
  /\ call[w].at = "calling" => Alive(call[w].process)

\* Nothing of memory is left while the application is down.
Down == app = "down" =>
  /\ \A o \in Requests : req[o].at = "idle"
  /\ \A w \in Workers : call[w].at = "idle"
  /\ registered = 0 /\ last_epoch = 0 /\ pending = Nobody /\ fence = Nobody
  /\ \A e \in Epochs : process[e] = "none"

LifeInv ==
  /\ Typed /\ Numbered /\ Runner /\ OneActive /\ NoOrphanProcess /\ Down
  /\ \A o \in Requests : RequestOK(o)
  /\ \A w \in Workers : CallOK(w)

-----------------------------------------------------------------------------
(* How requests move.                                                      *)

OthersStay(o) == \A u \in Requests : u # o => req'[u] = req[u]

LEMMA TypedIs ==
  ASSUME Typed
  PROVE  /\ req \in [Requests -> RequestType] /\ call \in [Workers -> CallType]
         /\ registered \in 0..MaxEpochs /\ last_epoch \in 0..MaxEpochs
         /\ rows \in [Epochs -> PluginActivationStatus]
         /\ process \in [Epochs -> {"none", "starting", "running", "dead"}]
         /\ accepting \in [Epochs -> BOOLEAN] /\ MaxEpochs \in Nat
BY BoundsAssumption DEF Typed, TypeOK, RequestType, CallType, Places, Early

LEMMA Moved ==
  ASSUME Typed, NEW o \in Requests, NEW x \in RequestType, req' = [req EXCEPT ![o] = x]
  PROVE  req' \in [Requests -> RequestType] /\ req'[o] = x /\ OthersStay(o)
BY TypedIs DEF OthersStay

LEMMA GotoIs ==
  ASSUME Typed, NEW o \in Requests, NEW at \in Places, Goto(o, at)
  PROVE  /\ req' \in [Requests -> RequestType] /\ OthersStay(o)
         /\ req'[o].at = at /\ req'[o].epoch = req[o].epoch /\ req'[o].old = req[o].old
         /\ req'[o].revision = req[o].revision /\ req'[o].seen = req[o].seen
<1> DEFINE y == req[o]
           x == [y EXCEPT !.at = at]
<1>1. y \in RequestType /\ req' = [req EXCEPT ![o] = x]
  BY TypedIs DEF Goto
<1> HIDE DEF y
<1>2. /\ x \in RequestType /\ x.at = at /\ x.epoch = y.epoch /\ x.old = y.old
      /\ x.revision = y.revision /\ x.seen = y.seen
  BY <1>1 DEF RequestType
<1> HIDE DEF x
<1> QED BY <1>1, <1>2, Moved DEF y

LEMMA IdleIs ==
  /\ IdleRequest \in RequestType /\ IdleRequest.at = "idle" /\ IdleRequest.revision = 0
  /\ IdleRequest.seen = 0 /\ IdleRequest.epoch = 0 /\ IdleRequest.old = 0
BY BoundsAssumption DEF IdleRequest, RequestType, Places, Early

LEMMA EndIs ==
  ASSUME Typed, NEW o \in Requests, EndRequest(o)
  PROVE  /\ req' \in [Requests -> RequestType] /\ OthersStay(o)
         /\ req'[o].at = "idle" /\ req'[o].revision = 0
<1> DEFINE x == IdleRequest
<1>1. req' = [req EXCEPT ![o] = x]
  BY DEF EndRequest
<1>2. x \in RequestType /\ x.at = "idle" /\ x.revision = 0
  BY IdleIs
<1> HIDE DEF x
<1> QED BY <1>1, <1>2, Moved

LEMMA IdleOK ==
  ASSUME NEW o \in Requests, req'[o].at = "idle" PROVE RequestOK(o)'
BY DEF RequestOK, Ordered, Candidate, Committed, Leaving

\* A request that does not move, while what it relies on stays
LEMMA StayOK ==
  ASSUME LifeInv, NEW u \in Requests, req'[u] = req[u],
         req[u].at \in {"fenced", "starting", "ready", "failed"} => UNCHANGED <<fence, rows>>,
         req[u].at \in {"starting", "ready", "committed"} =>
           UNCHANGED <<pending, registered, last_epoch>>,
         req[u].at = "committed" => ActiveRows' = ActiveRows /\ Activated' = Activated,
         req[u].at \in {"starting", "ready", "committed"} /\ ~Deactivates(u) =>
           \/ process'[req[u].epoch] = process[req[u].epoch]
           \/ Alive(req[u].epoch) /\ process'[req[u].epoch] \in {"running", "dead"},
         last_epoch <= last_epoch',
         registered' \in {registered, 0} \/ last_epoch < registered',
         last_epoch' \in 0..MaxEpochs, registered' \in 0..MaxEpochs
  PROVE  RequestOK(u)'
<1>0. /\ RequestOK(u) /\ Typed /\ req[u] \in RequestType /\ MaxEpochs \in Nat
      /\ (Deactivates(u)' <=> Deactivates(u)) /\ last_epoch \in 0..MaxEpochs
  BY TypedIs DEF LifeInv, Deactivates
<1>1. Ordered(u)'
  BY <1>0 DEF RequestOK, Ordered
<1>2. Candidate(u)'
  <2>1. req[u].at \in {"starting", "ready", "failed"} => UsedEpochs' = UsedEpochs
    BY DEF UsedEpochs
  <2>2. req[u].at = "starting" => process'[req[u].epoch] = "starting"
    BY <1>0 DEF RequestOK, Candidate, Alive
  <2>3. req[u].at = "ready" /\ ~Deactivates(u) => Alive(req[u].epoch)'
    BY <1>0 DEF RequestOK, Candidate, Alive
  <2> QED BY <1>0, <2>1, <2>2, <2>3 DEF RequestOK, Candidate
<1>3. Committed(u)'
  <2>1. req[u].at = "committed" /\ ~Deactivates(u) => Alive(req[u].epoch)'
    BY <1>0 DEF RequestOK, Committed, Alive
  <2> QED BY <1>0, <2>1 DEF RequestOK, Committed
<1>4. Leaving(u)'
  BY <1>0 DEF RequestOK, Leaving, RequestType
<1> QED BY <1>1, <1>2, <1>3, <1>4 DEF RequestOK

LEMMA CallStays ==
  ASSUME LifeInv, NEW w \in Workers, call'[w] = call[w], Activated \subseteq Activated',
         last_epoch <= last_epoch', last_epoch' \in 0..MaxEpochs,
         call[w].at = "calling" => Alive(call[w].process)'
  PROVE  CallOK(w)'
BY TypedIs DEF LifeInv, CallOK, Alive

\* One request moves; nobody else relies on what it changes.
LEMMA StepOK ==
  ASSUME LifeInv, NEW o \in Requests, OthersStay(o), UNCHANGED <<app, call>>, app = "up",
         Typed', Numbered', Runner', OneActive', NoOrphanProcess', RequestOK(o)',
         UNCHANGED rows \/ fence \in {o, Nobody}, UNCHANGED fence \/ fence \in {o, Nobody},
         UNCHANGED <<pending, registered, last_epoch>> \/ pending \in {o, Nobody},
         (ActiveRows' = ActiveRows /\ Activated' = Activated) \/ pending \in {o, Nobody},
         Activated \subseteq Activated', last_epoch <= last_epoch',
         registered' \in {registered, 0} \/ last_epoch < registered',
         \A u \in Requests : u # o /\ req[u].at \in {"starting", "ready", "committed"} /\ ~Deactivates(u) =>
           process'[req[u].epoch] = process[req[u].epoch],
         \A w \in Workers : call[w].at = "calling" => Alive(call[w].process)'
  PROVE  LifeInv'
<1>1. last_epoch' \in 0..MaxEpochs /\ registered' \in 0..MaxEpochs
  BY DEF Typed, TypeOK
<1>2. ASSUME NEW u \in Requests PROVE RequestOK(u)'
  <2>1. CASE u = o
    BY <2>1
  <2>2. CASE u # o
    <3>1. Ordered(u) /\ u # Nobody /\ req'[u] = req[u]
      BY <2>2, BoundsAssumption DEF LifeInv, RequestOK, OthersStay
    <3>2. req[u].at \in {"fenced", "starting", "ready", "failed"} => UNCHANGED <<fence, rows>>
      BY <2>2, <3>1 DEF Ordered
    <3>3. req[u].at \in {"starting", "ready", "committed"} =>
            UNCHANGED <<pending, registered, last_epoch>>
      BY <2>2, <3>1 DEF Ordered
    <3>4. req[u].at = "committed" => ActiveRows' = ActiveRows /\ Activated' = Activated
      BY <2>2, <3>1 DEF Ordered
    <3> QED BY <1>1, <2>2, <3>1, <3>2, <3>3, <3>4, StayOK
  <2> QED BY <2>1, <2>2
<1>3. ASSUME NEW w \in Workers PROVE CallOK(w)'
  BY <1>1, CallStays
<1>4. Down'
  BY DEF Down
<1> QED BY <1>2, <1>3, <1>4 DEF LifeInv

-----------------------------------------------------------------------------
(* The catalog, and requests that have no transaction yet.                 *)

LEMMA SameRows ==
  ASSUME UNCHANGED rows
  PROVE  /\ Activated' = Activated /\ ActiveRows' = ActiveRows /\ UsedEpochs' = UsedEpochs
         /\ Numbered' <=> Numbered
         /\ OneActive' <=> OneActive
BY DEF Activated, ActiveRows, UsedEpochs, Numbered, OneActive

LEMMA LifeCatalog == ASSUME LifeInv, CatalogStep PROVE LifeInv'
<1>1. /\ UNCHANGED <<active, rows, app, restarts, fence, shared, req, call>> /\ UNCHANGED supervisorVars
      /\ installed' \in BOOLEAN /\ status' \in PluginDeploymentStatus
      /\ revisions' \in 0..MaxRevisions /\ revisions <= revisions'
      /\ active \in 0..revisions /\ revisions \in 0..MaxRevisions
      /\ status' = "NONE" => revisions' = 0
  <2>1. /\ installed \in BOOLEAN /\ status \in PluginDeploymentStatus
        /\ active \in 0..revisions /\ revisions \in 0..MaxRevisions /\ MaxRevisions \in Nat
        /\ status = "NONE" => revisions = 0
    BY BoundsAssumption DEF LifeInv, Typed, TypeOK
  <2>2. CASE InstallBuiltin
    BY <2>1, <2>2 DEF InstallBuiltin
  <2>3. CASE CreateDeployment
    <3>1. revisions' = 1 /\ 1 \in 0..MaxRevisions
      BY <2>1, <2>3 DEF CreateDeployment
    <3>2. revisions <= 1
      BY <2>1, <2>3 DEF LifeInv, Typed, CreateDeployment
    <3> QED BY <2>1, <2>3, <3>1, <3>2 DEF CreateDeployment, PluginDeploymentStatus
  <2>4. CASE CreateRevision
    BY <2>1, <2>4 DEF CreateRevision
  <2> QED BY <2>2, <2>3, <2>4 DEF CatalogStep
<1>2. Typed'
  <2>1. active' \in 0..revisions' /\ \A o \in Requests : req'[o].revision \in 0..revisions'
    BY <1>1, BoundsAssumption DEF LifeInv, Typed, TypeOK
  <2> QED BY <1>1, <2>1 DEF LifeInv, Typed, TypeOK, supervisorVars
<1>3. \A o \in Requests : RequestOK(o)'
  BY <1>1, SameRows
     DEF LifeInv, RequestOK, Ordered, Candidate, Committed, Leaving, Alive, Deactivates, supervisorVars
<1>4. Runner' /\ NoOrphanProcess' /\ Down'
  BY <1>1, SameRows
     DEF LifeInv, Runner, Committing, Activating, Deactivates, NoOrphanProcess, Down, Alive,
         supervisorVars
<1>5. \A w \in Workers : CallOK(w)'
  BY <1>1, SameRows DEF LifeInv, CallOK, Alive, supervisorVars
<1> QED BY <1>1, <1>2, <1>3, <1>4, <1>5, SameRows DEF LifeInv

LEMMA LifeShared == ASSUME LifeInv, Share \/ SharersEnd PROVE LifeInv'
<1>1. /\ UNCHANGED <<app, restarts, fence, req, call>> /\ UNCHANGED catalogVars
      /\ UNCHANGED supervisorVars /\ shared' \in BOOLEAN
  BY DEF Share, SharersEnd
<1>2. Typed'
  BY <1>1 DEF LifeInv, Typed, TypeOK, catalogVars, supervisorVars
<1>3. \A o \in Requests : RequestOK(o)'
  BY <1>1, SameRows
     DEF LifeInv, RequestOK, Ordered, Candidate, Committed, Leaving, Alive, Deactivates,
         catalogVars, supervisorVars
<1>4. Runner' /\ NoOrphanProcess' /\ Down'
  BY <1>1, SameRows
     DEF LifeInv, Runner, Committing, Activating, Deactivates, NoOrphanProcess, Down, Alive,
         catalogVars, supervisorVars
<1>5. \A w \in Workers : CallOK(w)'
  BY <1>1, SameRows DEF LifeInv, CallOK, Alive, catalogVars, supervisorVars
<1> QED BY <1>1, <1>2, <1>3, <1>4, <1>5, SameRows DEF LifeInv, catalogVars

\* Who has not been granted all its locks owns no process.
LEMMA BeforeLocks ==
  ASSUME LifeInv, NEW o \in Requests, OthersStay(o), req[o].at \in Early,
         req' \in [Requests -> RequestType], req'[o].at \in Early,
         req'[o].revision \in 0..revisions,
         req'[o].at \in {"loaded", "fenced"} =>
           req'[o].old = 0 /\ req'[o].epoch = 0 /\ req'[o].revision # 0,
         fence' = fence \/ fence \in {o, Nobody}, fence' \in {fence, o, Nobody},
         req'[o].at = "fenced" => fence' = o,
         app = "up", UNCHANGED <<app, restarts, shared, call>>, UNCHANGED catalogVars,
         UNCHANGED supervisorVars
  PROVE  LifeInv'
<1>0. /\ UNCHANGED <<rows, registered, last_epoch, pending, process>>
      /\ \A w \in Workers : call[w].at = "calling" => Alive(call[w].process)'
      /\ Activated' = Activated /\ ActiveRows' = ActiveRows
      /\ Typed /\ last_epoch \in 0..MaxEpochs /\ MaxEpochs \in Nat
  BY SameRows, TypedIs DEF LifeInv, CallOK, Alive, catalogVars, supervisorVars
<1>1. Typed'
  <2>1. \A u \in Requests : req'[u].revision \in 0..revisions
    BY DEF OthersStay, LifeInv, Typed
  <2>2. fence' \in Requests \cup {Nobody}
    BY <1>0 DEF Typed, TypeOK
  <2> QED BY <2>1, <2>2 DEF LifeInv, Typed, TypeOK, catalogVars, supervisorVars, RequestType, Places, Early
<1>2. RequestOK(o)'
  BY DEF RequestOK, Ordered, Candidate, Committed, Leaving, Deactivates, Early
<1>3. (Committing' <=> Committing) /\ (Activating' <=> Activating)
  BY DEF Committing, Activating, Deactivates, OthersStay, Early
<1>4. Runner'
  BY <1>0, <1>3 DEF LifeInv, Runner, Alive
<1>5. NoOrphanProcess'
  BY <1>0 DEF LifeInv, NoOrphanProcess, OthersStay, Early
<1> QED BY <1>0, <1>1, <1>2, <1>4, <1>5, SameRows, StepOK DEF LifeInv

LEMMA LifeLoad ==
  ASSUME LifeInv, NEW o \in Requests, NEW r \in Revisions, LoadDeployment(o, r) PROVE LifeInv'
<1> DEFINE i == IdleRequest
           x == [i EXCEPT !.at = "loaded", !.revision = r, !.seen = active]
<1>1. /\ Typed /\ active \in 0..MaxRevisions /\ r \in 0..MaxRevisions /\ r \in 0..revisions
      /\ r # 0
      /\ i \in RequestType /\ i.old = 0 /\ i.epoch = 0 /\ req' = [req EXCEPT ![o] = x]
  BY IdleIs, BoundsAssumption DEF LifeInv, Typed, TypeOK, LoadDeployment, Revisions
<1> HIDE DEF i
<1>2. /\ x \in RequestType /\ x.at = "loaded" /\ x.revision = r /\ x.old = 0 /\ x.epoch = 0
  BY <1>1 DEF RequestType, Places, Early
<1> HIDE DEF x
<1>3. req' \in [Requests -> RequestType] /\ req'[o] = x /\ OthersStay(o)
  BY <1>1, <1>2, Moved
<1> QED BY <1>1, <1>2, <1>3, BeforeLocks DEF LoadDeployment, Early

LEMMA LifeEarly ==
  ASSUME LifeInv, NEW o \in Requests,
         TakeFence(o) \/ BeginDeactivation(o) \/ LockDeployment(o)
  PROVE  LifeInv'
<1>1. PICK at \in {"fenced", "asked", "locked"} :
        /\ Goto(o, at)
        /\ at = "fenced" => req[o].at = "loaded" /\ fence' = o /\ fence = Nobody
        /\ at # "fenced" => fence' = fence
  BY DEF TakeFence, BeginDeactivation, LockDeployment, FenceFree
<1>2. /\ req[o].at \in {"idle", "loaded", "asked"} /\ UNCHANGED <<app, restarts, shared, call>>
      /\ UNCHANGED catalogVars /\ UNCHANGED supervisorVars
      /\ req[o].at = "idle" => app = "up"
  BY DEF TakeFence, BeginDeactivation, LockDeployment
<1>3. app = "up" /\ Typed /\ at \in Places /\ RequestOK(o)
  BY <1>2 DEF LifeInv, Down, Typed, TypeOK, Places, Early
<1>4. /\ req' \in [Requests -> RequestType] /\ OthersStay(o)
      /\ req'[o].at = at /\ req'[o].epoch = req[o].epoch /\ req'[o].old = req[o].old
      /\ req'[o].revision = req[o].revision
  BY <1>1, <1>3, GotoIs
<1>5. req[o].revision \in 0..revisions
  BY <1>3 DEF Typed
<1>6. req[o].at = "loaded" => req[o].old = 0 /\ req[o].epoch = 0 /\ req[o].revision # 0
  BY <1>3 DEF RequestOK, Leaving, Candidate, Deactivates
<1> QED BY <1>1, <1>2, <1>3, <1>4, <1>5, <1>6, BeforeLocks DEF Early

LEMMA LifeRefuse ==
  ASSUME LifeInv, NEW o \in Requests,
         RefuseActivation(o) \/ RefuseDeactivation(o) \/ AbortVictim(o)
  PROVE  LifeInv'
<1>1. /\ req[o].at \in {"fenced", "locked"} /\ EndRequest(o)
      /\ UNCHANGED <<app, restarts, shared, call>>
      /\ UNCHANGED catalogVars /\ UNCHANGED supervisorVars
      /\ fence' \in {fence, Nobody}
      /\ fence' # fence => req[o].at = "fenced" \/ fence = o
  BY DEF RefuseActivation, RefuseDeactivation, AbortVictim
<1>2. /\ req' \in [Requests -> RequestType] /\ OthersStay(o)
      /\ req'[o].at = "idle" /\ req'[o].revision = 0
  BY <1>1, EndIs DEF LifeInv
<1>3. app = "up" /\ 0 \in 0..revisions /\ (req[o].at = "fenced" => fence = o)
  BY <1>1, BoundsAssumption DEF LifeInv, Down, Typed, TypeOK, RequestOK, Ordered
<1> QED BY <1>1, <1>2, <1>3, BeforeLocks DEF Early

-----------------------------------------------------------------------------
(* The start of a candidate.                                               *)

LEMMA NextIs ==
  ASSUME Numbered, NextEpoch \in Epochs, MaxEpochs \in Nat
  PROVE  UsedEpochs = 1..(NextEpoch - 1)
<1>1. PICK k \in 0..MaxEpochs : UsedEpochs = 1..k
  BY DEF Numbered
<1> DEFINE P(n) == /\ \A e \in UsedEpochs : e < n
                   /\ n = 1 \/ (n - 1) \in UsedEpochs
<1>2. P(k + 1) /\ k + 1 \in 1..(MaxEpochs + 1)
  BY <1>1
<1>3. NextEpoch = CHOOSE n \in 1..(MaxEpochs + 1) : P(n)
  BY DEF NextEpoch
<1>4. P(NextEpoch)
  <2> HIDE DEF P
  <2> QED BY <1>2, <1>3
<1>5. NextEpoch = k + 1
  BY <1>1, <1>4 DEF Epochs
<1> QED BY <1>1, <1>5

\* A candidate starts, or the attempt has failed already.
LEMMA LifeAttempt ==
  ASSUME LifeInv, NEW o \in Requests, NEW at \in {"starting", "failed"}, Locks(o),
         UNCHANGED <<app, restarts, fence, shared, call, registered, last_epoch, accepting>>,
         UNCHANGED catalogVars,
         req' = [req EXCEPT ![o].at = at, ![o].epoch = NextEpoch],
         IF at = "starting"
         THEN /\ pending = Nobody /\ NextEpoch > last_epoch
              /\ pending' = o /\ process' = [process EXCEPT ![NextEpoch] = "starting"]
         ELSE UNCHANGED <<pending, process>>
  PROVE  LifeInv'
<1> DEFINE n == NextEpoch
           y == req[o]
           x == [y EXCEPT !.at = at, !.epoch = n]
<1>0. /\ Typed /\ RequestOK(o) /\ y \in RequestType /\ y.at = "fenced" /\ fence = o
      /\ fence' = o /\ UNCHANGED rows /\ n \in Epochs /\ UsedEpochs = 1..(n - 1)
      /\ y.old = 0 /\ y.epoch = 0
      /\ UNCHANGED <<app, restarts, shared, call, registered, last_epoch, accepting>>
      /\ UNCHANGED catalogVars /\ app = "up" /\ MaxEpochs \in Nat
      /\ last_epoch \in 0..MaxEpochs /\ registered \in 0..MaxEpochs
  <2>1. Typed /\ RequestOK(o) /\ Numbered /\ (app = "down" => y.at = "idle") /\ app \in {"up", "down"}
    BY DEF LifeInv, Down, Typed, TypeOK
  <2>2. y.at = "fenced" /\ n \in Epochs
    BY DEF Locks
  <2>3. UsedEpochs = 1..(n - 1)
    BY <2>1, <2>2, NextIs, BoundsAssumption
  <2>4. y.old = 0 /\ y.epoch = 0 /\ fence = o
    BY <2>1, <2>2 DEF RequestOK, Leaving, Ordered
  <2> HIDE DEF n
  <2> QED BY <2>1, <2>2, <2>3, <2>4, TypedIs DEF catalogVars
<1>1. req' = [req EXCEPT ![o] = x]
  BY <1>0, TypedIs
<1>2. /\ IF at = "starting"
         THEN pending' = o /\ process' = [process EXCEPT ![n] = "starting"]
         ELSE UNCHANGED <<pending, process>>
  OBVIOUS
<1>4. at \in {"starting", "failed"} /\ (at = "starting" => pending = Nobody /\ n > last_epoch)
  OBVIOUS
<1> HIDE DEF n, y
<1>3. /\ x \in RequestType /\ x.at = at /\ x.epoch = n /\ x.old = y.old
      /\ x.revision = y.revision
  <2>1. at \in Places /\ n \in 0..MaxEpochs
    BY <1>0, <1>4 DEF Places, Early, Epochs
  <2> QED BY <1>0, <2>1 DEF RequestType
<1> HIDE DEF x
<1>5. req' \in [Requests -> RequestType] /\ req'[o] = x /\ OthersStay(o)
  BY <1>0, <1>1, <1>3, Moved
<1>6. \A e \in Epochs : e # n => process'[e] = process[e]
  BY <1>0, <1>2, TypedIs
<1>7. at = "starting" => process'[n] = "starting" /\ pending' = o
  BY <1>0, <1>2, <1>4, TypedIs
<1>8. at = "failed" => UNCHANGED <<pending, process>>
  BY <1>2, <1>4
<1>9. \A w \in Workers : call[w].at = "calling" => Alive(call[w].process)'
  <2> SUFFICES ASSUME NEW w \in Workers, call[w].at = "calling" PROVE Alive(call[w].process)'
    OBVIOUS
  <2>1. Alive(call[w].process) /\ call[w].process \in 1..last_epoch
    BY DEF LifeInv, CallOK
  <2>2. call[w].process \in Epochs /\ (at = "starting" => call[w].process # n)
    BY <1>0, <1>4, <2>1 DEF Epochs
  <2>3. process'[call[w].process] = process[call[w].process]
    BY <1>4, <1>6, <1>8, <2>2
  <2> QED BY <1>0, <2>1, <2>3 DEF Alive
<1>10. registered # 0 => registered \in Epochs /\ process'[registered] = process[registered]
  <2>1. registered <= last_epoch
    BY DEF LifeInv, Runner
  <2> QED BY <1>0, <1>4, <1>6, <1>8, <2>1 DEF Epochs
<1>11. RequestOK(o)'
  <2>1. Ordered(o)' /\ Committed(o)' /\ Leaving(o)'
    BY <1>0, <1>3, <1>4, <1>5, <1>7 DEF Ordered, Committed, Leaving
  <2>2. UsedEpochs' = UsedEpochs
    BY <1>0, SameRows
  <2>3. Deactivates(o)' <=> Deactivates(o)
    BY <1>3, <1>5 DEF Deactivates, y
  <2>4. ~Deactivates(o)
    BY <1>0 DEF RequestOK, Candidate, y
  <2>5. Candidate(o)'
    BY <1>0, <1>3, <1>4, <1>5, <1>7, <2>2, <2>3, <2>4 DEF Candidate
  <2> QED BY <2>1, <2>5 DEF RequestOK
<1>12. Typed'
  <2>1. \A u \in Requests : req'[u].revision \in 0..revisions
    BY <1>0, <1>3, <1>5 DEF OthersStay, Typed, y
  <2>2. pending' \in Requests \cup {Nobody}
        /\ process' \in [Epochs -> {"none", "starting", "running", "dead"}]
    BY <1>0, <1>2, TypedIs DEF Typed, TypeOK
  <2> QED BY <1>0, <1>5, <2>1, <2>2 DEF Typed, TypeOK, catalogVars, RequestType, Places, Early
<1>13. (Committing' <=> Committing) /\ (Activating' <=> Activating)
  BY <1>0, <1>3, <1>4, <1>5 DEF Committing, Activating, Deactivates, OthersStay, y
<1>14. Runner'
  BY <1>0, <1>10, <1>13, SameRows DEF LifeInv, Runner, Alive
<1>15. NoOrphanProcess'
  <2> SUFFICES ASSUME NEW e \in Epochs, process'[e] \in {"starting", "running"}
               PROVE  \/ e = registered'
                      \/ \E u \in Requests :
                           \/ req'[u].epoch = e /\ req'[u].at \in {"starting", "ready", "committed"}
                           \/ req'[u].old = e /\ req'[u].at \in {"committed", "draining"}
    BY DEF NoOrphanProcess
  <2>1. CASE at = "starting" /\ e = n
    BY <1>3, <1>5, <2>1
  <2>2. CASE process'[e] = process[e]
    <3>1. \/ e = registered
          \/ \E u \in Requests :
               \/ req[u].epoch = e /\ req[u].at \in {"starting", "ready", "committed"}
               \/ req[u].old = e /\ req[u].at \in {"committed", "draining"}
      BY <2>2 DEF LifeInv, NoOrphanProcess
    <3> QED BY <1>0, <1>5, <3>1 DEF OthersStay, y
  <2> QED BY <1>4, <1>6, <1>8, <2>1, <2>2
<1>16. \A u \in Requests : u # o /\ req[u].at \in {"starting", "ready", "committed"} =>
         process'[req[u].epoch] = process[req[u].epoch]
  <2> SUFFICES ASSUME NEW u \in Requests, u # o, req[u].at \in {"starting", "ready", "committed"}
               PROVE  process'[req[u].epoch] = process[req[u].epoch]
    OBVIOUS
  <2>1. pending = u /\ u # Nobody
    BY BoundsAssumption DEF LifeInv, RequestOK, Ordered
  <2> QED BY <1>4, <1>8, <2>1
<1>17. UNCHANGED <<pending, registered, last_epoch>> \/ pending \in {o, Nobody}
  BY <1>0, <1>4, <1>8
<1> HIDE DEF x
<1> QED BY <1>0, <1>5, <1>9, <1>11, <1>12, <1>14, <1>15, <1>16, <1>17, SameRows, StepOK DEF LifeInv

LEMMA LifePrepare ==
  ASSUME LifeInv, NEW o \in Requests, PrepareActivation(o) \/ RejectLaunch(o) PROVE LifeInv'
<1> DEFINE at == IF PrepareActivation(o) /\ pending = Nobody /\ NextEpoch > last_epoch
                 THEN "starting" ELSE "failed"
<1> QED BY LifeAttempt
         DEF PrepareActivation, RejectLaunch, supervisorVars

-----------------------------------------------------------------------------
(* Requests between their start and their end.                             *)

Owns(o, e) ==
  \/ req[o].epoch = e /\ req[o].at \in {"starting", "ready", "committed"}
  \/ req[o].old = e /\ req[o].at \in {"committed", "draining"}

LEMMA OrphansOwned ==
  ASSUME LifeInv, NEW o \in Requests, OthersStay(o),
         \A e \in Epochs : process'[e] \in {"starting", "running"} =>
           /\ process[e] \in {"starting", "running"}
           /\ e = registered \/ Owns(o, e) => e = registered' \/ Owns(o, e)'
  PROVE  NoOrphanProcess'
<1> SUFFICES ASSUME NEW e \in Epochs, process'[e] \in {"starting", "running"}
             PROVE  e = registered' \/ \E u \in Requests : Owns(u, e)'
  BY DEF NoOrphanProcess, Owns
<1>1. e = registered \/ \E u \in Requests : Owns(u, e)
  BY DEF LifeInv, NoOrphanProcess, Owns
<1>2. \A u \in Requests : u # o /\ Owns(u, e) => Owns(u, e)'
  BY DEF Owns, OthersStay
<1> QED BY <1>1, <1>2

\* One transition at a time
LEMMA Alone ==
  ASSUME LifeInv, NEW o \in Requests, pending = o
  PROVE  \A u \in Requests : u # o => req[u].at \notin {"starting", "ready", "committed"}
BY BoundsAssumption DEF LifeInv, RequestOK, Ordered

LEMMA IsUp ==
  ASSUME LifeInv, NEW o \in Requests, req[o].at # "idle"
  PROVE  /\ app = "up" /\ Typed /\ RequestOK(o) /\ req[o] \in RequestType
         /\ MaxEpochs \in Nat /\ last_epoch \in 0..MaxEpochs /\ registered \in 0..MaxEpochs
         /\ \A w \in Workers : call[w].at = "calling" =>
              Alive(call[w].process) /\ call[w].process \in Epochs /\ call[w].process <= last_epoch
         /\ registered # 0 => registered \in Epochs /\ Alive(registered) /\ registered <= last_epoch
<1>1. app = "up" /\ Typed /\ RequestOK(o)
  BY DEF LifeInv, Down, Typed, TypeOK
<1>2. /\ req[o] \in RequestType /\ MaxEpochs \in Nat /\ last_epoch \in 0..MaxEpochs
      /\ registered \in 0..MaxEpochs
  BY <1>1, TypedIs
<1>3. \A w \in Workers : call[w].at = "calling" =>
        Alive(call[w].process) /\ call[w].process \in 1..last_epoch
  BY DEF LifeInv, CallOK
<1>4. \A p \in 1..last_epoch : p \in Epochs /\ p <= last_epoch
  BY <1>2 DEF Epochs
<1> QED BY <1>1, <1>2, <1>3, <1>4 DEF LifeInv, Runner, Activated

LEMMA SameRevisions ==
  ASSUME Typed, NEW o \in Requests, OthersStay(o), UNCHANGED revisions,
         req'[o].revision \in {0, req[o].revision}
  PROVE  \A u \in Requests : req'[u].revision \in 0..revisions'
<1>1. revisions \in Nat
  BY BoundsAssumption DEF Typed, TypeOK
<1> QED BY <1>1 DEF Typed, OthersStay

LEMMA LifeReady == ASSUME LifeInv, NEW o \in Requests, CandidateReady(o) PROVE LifeInv'
<1> DEFINE n == req[o].epoch
<1>0. /\ req[o].at = "starting" /\ app = "up" /\ Typed /\ RequestOK(o) /\ MaxEpochs \in Nat
      /\ ~Deactivates(o) /\ n \in Epochs /\ last_epoch < n /\ last_epoch \in 0..MaxEpochs
      /\ pending = o /\ fence = o
      /\ process' = [process EXCEPT ![n] = "running"]
      /\ UNCHANGED <<app, restarts, fence, shared, call, registered, last_epoch, pending, accepting>>
      /\ UNCHANGED catalogVars
  BY IsUp DEF CandidateReady, RequestOK, Ordered, Candidate
<1>1. /\ req' \in [Requests -> RequestType] /\ OthersStay(o)
      /\ req'[o].at = "ready" /\ req'[o].epoch = n /\ req'[o].old = req[o].old
      /\ req'[o].revision = req[o].revision
  BY <1>0, GotoIs DEF CandidateReady, Places
<1> HIDE DEF n
<1>2. /\ process' \in [Epochs -> {"none", "starting", "running", "dead"}]
      /\ process'[n] = "running" /\ \A e \in Epochs : e # n => process'[e] = process[e]
  BY <1>0, TypedIs
<1>3. UNCHANGED rows /\ Activated' = Activated /\ UsedEpochs' = UsedEpochs /\ ActiveRows' = ActiveRows
      /\ (Numbered' <=> Numbered) /\ (OneActive' <=> OneActive)
  BY <1>0, SameRows DEF catalogVars
<1>4. Typed'
  BY <1>0, <1>1, <1>2, SameRevisions
     DEF Typed, TypeOK, catalogVars, RequestType, Places, Early
<1>5. RequestOK(o)'
  BY <1>0, <1>1, <1>2, <1>3
     DEF RequestOK, Ordered, Candidate, Committed, Leaving, Alive, Deactivates, n
<1>6. (Committing' <=> Committing) /\ (Activating' <=> Activating)
  BY <1>0, <1>1 DEF Committing, Activating, Deactivates, OthersStay
<1>7. registered # 0 => registered \in Epochs /\ registered # n
  BY <1>0, IsUp
<1>8. Runner'
  BY <1>0, <1>2, <1>3, <1>6, <1>7 DEF LifeInv, Runner, Alive
<1>9. NoOrphanProcess'
  <2>1. process[n] = "starting"
    BY <1>0 DEF RequestOK, Candidate, n
  <2>2. \A e \in Epochs : Owns(o, e) => Owns(o, e)'
    BY <1>0, <1>1 DEF Owns, n
  <2> QED BY <1>0, <1>1, <1>2, <2>1, <2>2, OrphansOwned
<1>10. \A w \in Workers : call[w].at = "calling" => Alive(call[w].process)'
  BY <1>0, <1>2, IsUp DEF Alive
<1>11. \A u \in Requests : u # o /\ req[u].at \in {"starting", "ready", "committed"} =>
         process'[req[u].epoch] = process[req[u].epoch]
  BY <1>0, Alone
<1> QED BY <1>0, <1>1, <1>3, <1>4, <1>5, <1>8, <1>9, <1>10, <1>11, StepOK DEF LifeInv

LEMMA LifeFails == ASSUME LifeInv, NEW o \in Requests, CandidateFails(o) PROVE LifeInv'
<1> DEFINE n == req[o].epoch
<1>0. /\ req[o].at = "starting" /\ app = "up" /\ Typed /\ RequestOK(o) /\ MaxEpochs \in Nat
      /\ ~Deactivates(o) /\ n \in Epochs /\ last_epoch < n /\ last_epoch \in 0..MaxEpochs
      /\ pending = o /\ fence = o
      /\ process' = [process EXCEPT ![n] = "none"] /\ pending' = Nobody
      /\ UNCHANGED <<app, restarts, fence, shared, call, registered, last_epoch, accepting>>
      /\ UNCHANGED catalogVars
  BY IsUp DEF CandidateFails, RequestOK, Ordered, Candidate
<1>1. /\ req' \in [Requests -> RequestType] /\ OthersStay(o)
      /\ req'[o].at = "failed" /\ req'[o].epoch = n /\ req'[o].old = req[o].old
      /\ req'[o].revision = req[o].revision
  BY <1>0, GotoIs DEF CandidateFails, Places
<1> HIDE DEF n
<1>2. /\ process' \in [Epochs -> {"none", "starting", "running", "dead"}]
      /\ process'[n] = "none" /\ \A e \in Epochs : e # n => process'[e] = process[e]
  BY <1>0, TypedIs
<1>3. UNCHANGED rows /\ Activated' = Activated /\ UsedEpochs' = UsedEpochs /\ ActiveRows' = ActiveRows
      /\ (Numbered' <=> Numbered) /\ (OneActive' <=> OneActive)
  BY <1>0, SameRows DEF catalogVars
<1>4. Typed'
  BY <1>0, <1>1, <1>2, SameRevisions
     DEF Typed, TypeOK, catalogVars, RequestType, Places, Early
<1>5. RequestOK(o)'
  BY <1>0, <1>1, <1>2, <1>3
     DEF RequestOK, Ordered, Candidate, Committed, Leaving, Alive, Deactivates, n
<1>6. (Committing' <=> Committing) /\ (Activating' <=> Activating)
  BY <1>0, <1>1 DEF Committing, Activating, Deactivates, OthersStay
<1>7. registered # 0 => registered \in Epochs /\ registered # n
  BY <1>0, IsUp
<1>8. Runner'
  BY <1>0, <1>2, <1>3, <1>6, <1>7 DEF LifeInv, Runner, Alive
<1>9. NoOrphanProcess'
  <2>1. \A e \in Epochs : Owns(o, e) => e = n
    BY <1>0 DEF Owns, n
  <2> QED BY <1>0, <1>1, <1>2, <2>1, OrphansOwned
<1>10. \A w \in Workers : call[w].at = "calling" => Alive(call[w].process)'
  <2> SUFFICES ASSUME NEW w \in Workers, call[w].at = "calling" PROVE Alive(call[w].process)'
    OBVIOUS
  <2>1. /\ Alive(call[w].process) /\ call[w].process \in Epochs /\ call[w].process <= last_epoch
    BY <1>0, IsUp
  <2>2. call[w].process # n
    BY <1>0, <2>1 DEF Epochs
  <2> QED BY <1>0, <1>2, <2>1, <2>2 DEF Alive
<1>11. \A u \in Requests : u # o /\ req[u].at \in {"starting", "ready", "committed"} =>
         process'[req[u].epoch] = process[req[u].epoch]
  BY <1>0, Alone
<1> QED BY <1>0, <1>1, <1>3, <1>4, <1>5, <1>8, <1>9, <1>10, <1>11, StepOK DEF LifeInv

\* The activation that was ACTIVE, if any, is STOPPED.
LEMMA StopActiveIs ==
  ASSUME rows \in [Epochs -> PluginActivationStatus]
  PROVE  /\ StopActive(rows) \in [Epochs -> PluginActivationStatus]
         /\ \A e \in Epochs : /\ StopActive(rows)[e] # "ACTIVE"
                              /\ StopActive(rows)[e] = "STOPPED" <=> rows[e] \in {"ACTIVE", "STOPPED"}
                              /\ StopActive(rows)[e] = "NONE" <=> rows[e] = "NONE"
BY DEF StopActive, PluginActivationStatus

LEMMA LifeCommit == ASSUME LifeInv, NEW o \in Requests, CommitActivation(o) PROVE LifeInv'
<1> DEFINE y == req[o]
           n == y.epoch
           x == [y EXCEPT !.at = "committed", !.seen = 0]
           rs == StopActive(rows)
<1>0. /\ y.at = "ready" /\ app = "up" /\ Typed /\ RequestOK(o) /\ MaxEpochs \in Nat
      /\ y \in RequestType /\ ~Deactivates(o) /\ n \in Epochs /\ last_epoch < n
      /\ UsedEpochs = 1..(n - 1) /\ y.old = 0 /\ Alive(n) /\ pending = o /\ fence = o
      /\ last_epoch \in 0..MaxEpochs
      /\ rs \in [Epochs -> PluginActivationStatus]
  BY IsUp, TypedIs, StopActiveIs DEF CommitActivation, RequestOK, Ordered, Candidate
<1>1. /\ rows' = [rs EXCEPT ![n] = "ACTIVE"] /\ active' = WrittenActive(o) /\ status' = "RUNNING"
      /\ fence' = Nobody /\ UNCHANGED <<installed, revisions, app, restarts, shared, call>>
      /\ UNCHANGED supervisorVars /\ req' = [req EXCEPT ![o] = x]
  BY <1>0, TypedIs DEF CommitActivation
<1> HIDE DEF y
<1>2. /\ x \in RequestType /\ x.at = "committed" /\ x.epoch = n /\ x.old = y.old
      /\ x.revision = y.revision
  <2>1. 0 \in 0..MaxRevisions /\ "committed" \in Places /\ y \in RequestType
    BY <1>0, BoundsAssumption DEF Places
  <2> HIDE DEF rs
  <2> QED BY <2>1 DEF RequestType
<1> HIDE DEF x
<1>3. req' \in [Requests -> RequestType] /\ req'[o] = x /\ OthersStay(o)
  BY <1>0, <1>1, <1>2, Moved
<1> HIDE DEF rs, n
<1>4. /\ rows' \in [Epochs -> PluginActivationStatus] /\ rows'[n] = "ACTIVE"
      /\ \A e \in Epochs : e # n => rows'[e] = rs[e]
  BY <1>0, <1>1 DEF PluginActivationStatus
<1>5. \A e \in Epochs : /\ rs[e] # "ACTIVE"
                        /\ rs[e] = "STOPPED" <=> rows[e] \in {"ACTIVE", "STOPPED"}
                        /\ rs[e] = "NONE" <=> rows[e] = "NONE"
  BY <1>0, TypedIs, StopActiveIs DEF rs
<1>6. ActiveRows' = {n} /\ Activated' = Activated \cup {n}
  BY <1>0, <1>4, <1>5 DEF ActiveRows, Activated
<1>7. UsedEpochs' = UsedEpochs \cup {n}
  BY <1>0, <1>4, <1>5 DEF UsedEpochs
<1>8. Numbered' /\ OneActive'
  <2>1. 1..(n - 1) \cup {n} = 1..n /\ n \in 0..MaxEpochs
    BY <1>0 DEF Epochs
  <2> QED BY <1>0, <1>6, <1>7, <2>1 DEF Numbered, OneActive
<1>9. Typed'
  <2>1. active' \in 0..revisions /\ y.revision \in 0..revisions
    BY <1>0, <1>1 DEF WrittenActive, Typed, TypeOK, y
  <2>2. \A u \in Requests : req'[u].revision \in 0..revisions'
    BY <1>0, <1>1, <1>2, <1>3, SameRevisions DEF y
  <2> QED BY <1>0, <1>1, <1>3, <1>4, <2>1, <2>2
          DEF Typed, TypeOK, supervisorVars, RequestType, Places, Early, PluginDeploymentStatus
<1>10. \A e \in Activated' : e <= n
  <2>1. Activated \subseteq UsedEpochs
    BY DEF Activated, UsedEpochs
  <2> QED BY <1>0, <1>6, <2>1 DEF Epochs
<1>11. RequestOK(o)'
  <2>1. (Deactivates(o)' <=> Deactivates(o)) /\ process'[n] \in {"running", "dead"}
    BY <1>0, <1>1, <1>2, <1>3 DEF Deactivates, Alive, supervisorVars, y
  <2> QED BY <1>0, <1>1, <1>2, <1>3, <1>6, <1>10, <2>1
          DEF RequestOK, Ordered, Candidate, Committed, Leaving, Alive, supervisorVars
<1>12. Runner'
  <2>1. Committing' /\ Activating'
    BY <1>0, <1>2, <1>3 DEF Committing, Activating, Deactivates, y
  <2> QED BY <1>1, <1>6, <2>1 DEF LifeInv, Runner, Alive, supervisorVars
<1>13. NoOrphanProcess'
  <2>1. \A e \in Epochs : Owns(o, e) => Owns(o, e)'
    BY <1>0, <1>2, <1>3 DEF Owns, n, y
  <2> QED BY <1>1, <1>3, <2>1, OrphansOwned DEF supervisorVars
<1>14. \A w \in Workers : call[w].at = "calling" => Alive(call[w].process)'
  BY <1>0, <1>1, IsUp DEF Alive, supervisorVars, y
<1> QED BY <1>0, <1>1, <1>3, <1>6, <1>8, <1>9, <1>11, <1>12, <1>13, <1>14, StepOK
        DEF supervisorVars

\* A transaction ends, and the deployment keeps the activations it has: the new one
\* FAILED, or there is none.
LEMMA LifeCommitFailure ==
  ASSUME LifeInv, NEW o \in Requests, CommitFailure(o) PROVE LifeInv'
<1> DEFINE n == req[o].epoch
<1>0. /\ req[o].at = "failed" /\ app = "up" /\ Typed /\ RequestOK(o) /\ MaxEpochs \in Nat
      /\ ~Deactivates(o) /\ n \in Epochs /\ UsedEpochs = 1..(n - 1) /\ fence = o
      /\ last_epoch \in 0..MaxEpochs /\ rows \in [Epochs -> PluginActivationStatus]
  BY IsUp, TypedIs DEF CommitFailure, RequestOK, Ordered, Candidate
<1>1. /\ rows' = [rows EXCEPT ![n] = "FAILED"] /\ status' \in {"FAILED", "RUNNING"}
      /\ fence' = Nobody /\ UNCHANGED <<installed, active, revisions, app, restarts, shared, call>>
      /\ UNCHANGED supervisorVars
  BY DEF CommitFailure
<1>2. /\ req' \in [Requests -> RequestType] /\ OthersStay(o)
      /\ req'[o].at = "idle" /\ req'[o].revision = 0
  BY <1>0, EndIs DEF CommitFailure
<1> HIDE DEF n
<1>3. /\ rows' \in [Epochs -> PluginActivationStatus] /\ rows'[n] = "FAILED" /\ rows[n] = "NONE"
      /\ \A e \in Epochs : e # n => rows'[e] = rows[e]
  <2>1. n \notin UsedEpochs
    BY <1>0 DEF Epochs
  <2> QED BY <1>0, <1>1, <2>1 DEF PluginActivationStatus, UsedEpochs
<1>4. ActiveRows' = ActiveRows /\ Activated' = Activated /\ UsedEpochs' = UsedEpochs \cup {n}
  BY <1>0, <1>3 DEF ActiveRows, Activated, UsedEpochs
<1>5. Numbered' /\ OneActive'
  <2>1. 1..(n - 1) \cup {n} = 1..n /\ n \in 0..MaxEpochs
    BY <1>0 DEF Epochs
  <2> QED BY <1>0, <1>4, <2>1 DEF LifeInv, Numbered, OneActive
<1>6. Typed'
  <2>1. \A u \in Requests : req'[u].revision \in 0..revisions'
    BY <1>0, <1>1, <1>2, SameRevisions
  <2> QED BY <1>0, <1>1, <1>2, <1>3, <2>1
          DEF Typed, TypeOK, supervisorVars, RequestType, Places, Early, PluginDeploymentStatus
<1>7. (Committing' <=> Committing) /\ (Activating' <=> Activating)
  BY <1>0, <1>2 DEF Committing, Activating, Deactivates, OthersStay
<1>8. Runner'
  BY <1>1, <1>4, <1>7 DEF LifeInv, Runner, Alive, supervisorVars
<1>9. NoOrphanProcess'
  <2>1. \A e \in Epochs : ~Owns(o, e)
    BY <1>0 DEF Owns
  <2> QED BY <1>1, <1>2, <2>1, OrphansOwned DEF supervisorVars
<1>10. \A w \in Workers : call[w].at = "calling" => Alive(call[w].process)'
  BY <1>0, <1>1, IsUp DEF Alive, supervisorVars
<1> QED BY <1>0, <1>1, <1>2, <1>4, <1>5, <1>6, <1>8, <1>9, <1>10, IdleOK, StepOK
        DEF supervisorVars

LEMMA LifeRollBack == ASSUME LifeInv, NEW o \in Requests, RollBack(o) PROVE LifeInv'
<1> DEFINE n == req[o].epoch
           mine == req[o].at = "ready" /\ ~Deactivates(o)
<1>0. /\ req[o].at \in {"ready", "failed"} /\ app = "up" /\ Typed /\ RequestOK(o)
      /\ MaxEpochs \in Nat /\ fence = o /\ (req[o].at = "ready" => pending = o)
      /\ last_epoch \in 0..MaxEpochs
      /\ mine => n \in Epochs /\ last_epoch < n /\ req[o].old = 0
      /\ UNCHANGED <<app, restarts, shared, call, registered, last_epoch>> /\ UNCHANGED catalogVars
      /\ fence' = Nobody
  BY IsUp DEF RollBack, RequestOK, Ordered, Candidate
<1>1. /\ req' \in [Requests -> RequestType] /\ OthersStay(o)
      /\ req'[o].at = "idle" /\ req'[o].revision = 0
  BY <1>0, EndIs DEF RollBack
<1>2. /\ process' = IF mine THEN [process EXCEPT ![n] = "none"] ELSE process
      /\ pending' = IF req[o].at = "ready" THEN Nobody ELSE pending
      /\ \/ UNCHANGED accepting
         \/ Deactivates(o) /\ req[o].at = "ready" /\ accepting' = [accepting EXCEPT ![req[o].old] = TRUE]
  BY <1>0 DEF RollBack
<1>3. UNCHANGED rows /\ Activated' = Activated /\ ActiveRows' = ActiveRows
      /\ (Numbered' <=> Numbered) /\ (OneActive' <=> OneActive)
  BY <1>0, SameRows DEF catalogVars
<1> HIDE DEF n, mine
<1>4. /\ process' \in [Epochs -> {"none", "starting", "running", "dead"}]
      /\ mine => process'[n] = "none"
      /\ \A e \in Epochs : (mine /\ e = n) \/ process'[e] = process[e]
  BY <1>0, <1>2, TypedIs
<1>5. Typed'
  <2>1. accepting' \in [Epochs -> BOOLEAN]
    BY <1>0, <1>2, TypedIs
  <2>2. \A u \in Requests : req'[u].revision \in 0..revisions'
    BY <1>0, <1>1, SameRevisions DEF catalogVars
  <2> QED BY <1>0, <1>1, <1>2, <1>4, <2>1, <2>2
          DEF Typed, TypeOK, catalogVars, RequestType, Places, Early
<1>6. (Committing' <=> Committing) /\ (Activating' <=> Activating)
  BY <1>0, <1>1 DEF Committing, Activating, Deactivates, OthersStay
<1>7. registered # 0 => registered \in Epochs /\ (mine => registered # n)
  <2>1. registered # 0 => registered \in Epochs /\ registered <= last_epoch
    BY <1>0, IsUp
  <2> QED BY <1>0, <2>1 DEF Epochs
<1>8. Runner'
  BY <1>0, <1>3, <1>4, <1>6, <1>7 DEF LifeInv, Runner, Alive
<1>9. NoOrphanProcess'
  <2>1. \A e \in Epochs : Owns(o, e) => mine /\ e = n
    <3>1. SUFFICES ASSUME NEW e \in Epochs, Owns(o, e) PROVE mine /\ e = n
      OBVIOUS
    <3>2. req[o].at = "ready" /\ req[o].epoch = e
      BY <1>0, <3>1 DEF Owns
    <3>3. ~Deactivates(o)
      BY <1>0, <3>2 DEF RequestOK, Leaving, Epochs
    <3> QED BY <3>2, <3>3 DEF mine, n
  <2> QED BY <1>0, <1>1, <1>4, <2>1, OrphansOwned
<1>10. \A w \in Workers : call[w].at = "calling" => Alive(call[w].process)'
  <2> SUFFICES ASSUME NEW w \in Workers, call[w].at = "calling" PROVE Alive(call[w].process)'
    OBVIOUS
  <2>1. /\ Alive(call[w].process) /\ call[w].process \in Epochs /\ call[w].process <= last_epoch
    BY <1>0, IsUp
  <2>2. mine => call[w].process # n
    BY <1>0, <2>1 DEF Epochs
  <2> QED BY <1>0, <1>4, <2>1, <2>2 DEF Alive
<1>11. \A u \in Requests : u # o /\ req[u].at \in {"starting", "ready", "committed"} =>
         process'[req[u].epoch] = process[req[u].epoch]
  <2>1. CASE mine
    BY <1>0, <2>1, Alone DEF mine
  <2>2. CASE ~mine
    BY <1>2, <2>2
  <2> QED BY <2>1, <2>2
<1>12. UNCHANGED pending \/ pending = o
  BY <1>0, <1>2
<1> QED BY <1>0, <1>1, <1>3, <1>5, <1>8, <1>9, <1>10, <1>11, <1>12, IdleOK, StepOK DEF LifeInv

LEMMA LifeSwap == ASSUME LifeInv, NEW o \in Requests, SwapRunner(o) PROVE LifeInv'
<1> DEFINE n == req[o].epoch
           i == IdleRequest
           x == [i EXCEPT !.at = "draining", !.old = registered]
<1>0. /\ req[o].at = "committed" /\ app = "up" /\ Typed /\ RequestOK(o) /\ MaxEpochs \in Nat
      /\ ~Deactivates(o) /\ pending = o /\ n \in Epochs /\ last_epoch < n /\ req[o].old = 0
      /\ ActiveRows = {n} /\ Alive(n) /\ (\A e \in Activated : e <= n)
      /\ last_epoch \in 0..MaxEpochs /\ registered \in 0..MaxEpochs
      /\ i \in RequestType /\ i.revision = 0 /\ i.epoch = 0
      /\ req' = [req EXCEPT ![o] = x] /\ last_epoch' = n /\ registered' = n /\ pending' = Nobody
      /\ UNCHANGED <<app, restarts, fence, shared, call, process>> /\ UNCHANGED catalogVars
  BY IsUp, IdleIs DEF SwapRunner, RequestOK, Ordered, Committed
<1>1. registered <= last_epoch
  BY DEF LifeInv, Runner
<1> HIDE DEF i
<1>2. x \in RequestType /\ x.at = "draining" /\ x.old = registered /\ x.revision = 0 /\ x.epoch = 0
  BY <1>0 DEF RequestType, Places, Early
<1> HIDE DEF x, n
<1>3. req' \in [Requests -> RequestType] /\ req'[o] = x /\ OthersStay(o)
  BY <1>0, <1>2, Moved
<1>4. UNCHANGED rows /\ Activated' = Activated /\ ActiveRows' = ActiveRows
      /\ (Numbered' <=> Numbered) /\ (OneActive' <=> OneActive)
  BY <1>0, SameRows DEF catalogVars
<1>5. accepting' \in [Epochs -> BOOLEAN]
  BY <1>0, TypedIs DEF SwapRunner
<1>6. Typed'
  <2>1. \A u \in Requests : req'[u].revision \in 0..revisions'
    BY <1>0, <1>2, <1>3, SameRevisions DEF catalogVars
  <2>2. n \in 0..MaxEpochs
    BY <1>0 DEF Epochs
  <2> QED BY <1>0, <1>3, <1>5, <2>1, <2>2
          DEF Typed, TypeOK, catalogVars, RequestType, Places, Early
<1>7. RequestOK(o)'
  <2>1. n # registered /\ registered <= n
    BY <1>0, <1>1 DEF Epochs
  <2> QED BY <1>0, <1>2, <1>3, <2>1 DEF RequestOK, Ordered, Candidate, Committed, Leaving
<1>8. Runner'
  <2>1. n \in Activated
    BY <1>0 DEF Activated, ActiveRows
  <2>2. n # 0 /\ process'[n] \in {"running", "dead"}
    BY <1>0 DEF Epochs, Alive
  <2>3. n <= n
    BY <1>0 DEF Epochs
  <2> QED BY <1>0, <1>4, <2>1, <2>2, <2>3 DEF Runner, Alive
<1>9. NoOrphanProcess'
  <2>1. \A e \in Epochs : Owns(o, e) => e = n
    BY <1>0 DEF Owns, n, Epochs
  <2>2. \A e \in Epochs : e = registered => Owns(o, e)'
    BY <1>2, <1>3 DEF Owns
  <2> QED BY <1>0, <1>3, <2>1, <2>2, OrphansOwned
<1>10. \A w \in Workers : call[w].at = "calling" => Alive(call[w].process)'
  BY <1>0, IsUp DEF Alive
<1>11. last_epoch <= last_epoch' /\ last_epoch < registered'
  BY <1>0 DEF Epochs
<1> QED BY <1>0, <1>3, <1>4, <1>6, <1>7, <1>8, <1>9, <1>10, <1>11, StepOK DEF LifeInv

\* The process taken out of service is not the runner, and nobody calls it any more.
LEMMA LifeDrained == ASSUME LifeInv, NEW o \in Requests, StopDrained(o) PROVE LifeInv'
<1> DEFINE old == req[o].old
<1>0. /\ req[o].at = "draining" /\ app = "up" /\ Typed /\ RequestOK(o) /\ MaxEpochs \in Nat
      /\ InFlight(old) = {} /\ old <= last_epoch /\ (old # 0 => old # registered)
      /\ process' = [e \in Epochs |-> IF e = old THEN "none" ELSE process[e]]
      /\ last_epoch \in 0..MaxEpochs
      /\ UNCHANGED <<app, restarts, fence, shared, call, registered, last_epoch, pending, accepting>>
      /\ UNCHANGED catalogVars
  BY IsUp DEF StopDrained, RequestOK, Leaving
<1>1. /\ req' \in [Requests -> RequestType] /\ OthersStay(o)
      /\ req'[o].at = "idle" /\ req'[o].revision = 0
  BY <1>0, EndIs DEF StopDrained
<1> HIDE DEF old
<1>2. /\ process' \in [Epochs -> {"none", "starting", "running", "dead"}]
      /\ \A e \in Epochs : IF e = old THEN process'[e] = "none" ELSE process'[e] = process[e]
  BY <1>0, TypedIs
<1>3. UNCHANGED rows /\ Activated' = Activated /\ ActiveRows' = ActiveRows
      /\ (Numbered' <=> Numbered) /\ (OneActive' <=> OneActive)
  BY <1>0, SameRows DEF catalogVars
<1>4. Typed'
  <2>1. \A u \in Requests : req'[u].revision \in 0..revisions'
    BY <1>0, <1>1, SameRevisions DEF catalogVars
  <2> QED BY <1>0, <1>1, <1>2, <2>1 DEF Typed, TypeOK, catalogVars, RequestType, Places, Early
<1>5. (Committing' <=> Committing) /\ (Activating' <=> Activating)
  BY <1>0, <1>1 DEF Committing, Activating, Deactivates, OthersStay
<1>6. registered # 0 => registered \in Epochs /\ process'[registered] = process[registered]
  <2>1. registered # 0 => registered \in Epochs
    BY <1>0, IsUp
  <2>2. registered # 0 => registered # old
    BY <1>0
  <2> QED BY <1>2, <2>1, <2>2
<1>7. Runner'
  BY <1>0, <1>3, <1>5, <1>6 DEF LifeInv, Runner, Alive
<1>8. NoOrphanProcess'
  <2>1. \A e \in Epochs : Owns(o, e) => e = old
    BY <1>0 DEF Owns, old
  <2> QED BY <1>0, <1>1, <1>2, <2>1, OrphansOwned
<1>9. \A w \in Workers : call[w].at = "calling" => Alive(call[w].process)'
  <2> SUFFICES ASSUME NEW w \in Workers, call[w].at = "calling" PROVE Alive(call[w].process)'
    OBVIOUS
  <2>1. Alive(call[w].process) /\ call[w].process \in Epochs
    BY <1>0, IsUp
  <2>2. call[w].process # old
    BY <1>0 DEF InFlight
  <2> QED BY <1>0, <1>2, <2>1, <2>2 DEF Alive
<1>10. \A u \in Requests : u # o /\ req[u].at \in {"starting", "ready", "committed"} /\ ~Deactivates(u) =>
         process'[req[u].epoch] = process[req[u].epoch]
  <2> SUFFICES ASSUME NEW u \in Requests, u # o, req[u].at \in {"starting", "ready", "committed"},
                      ~Deactivates(u)
               PROVE  process'[req[u].epoch] = process[req[u].epoch]
    OBVIOUS
  <2>1. RequestOK(u)
    BY DEF LifeInv
  <2>2. req[u].epoch \in Epochs /\ last_epoch < req[u].epoch
    BY <2>1 DEF RequestOK, Candidate, Committed
  <2>3. req[u].epoch # old
    BY <1>0, <2>2 DEF Epochs
  <2> QED BY <1>2, <2>2, <2>3
<1> QED BY <1>0, <1>1, <1>3, <1>4, <1>7, <1>8, <1>9, <1>10, IdleOK, StepOK DEF LifeInv

-----------------------------------------------------------------------------
(* A deactivation.                                                         *)

LEMMA LifeClose == ASSUME LifeInv, NEW o \in Requests, PrepareDeactivation(o) PROVE LifeInv'
<1> DEFINE i == IdleRequest
           x == [i EXCEPT !.at = "ready", !.old = registered]
<1>0. /\ Typed /\ app = "up" /\ req[o].at = "locked" /\ fence = Nobody /\ pending = Nobody
      /\ fence' = o /\ pending' = o /\ req' = [req EXCEPT ![o] = x]
      /\ registered \in 0..MaxEpochs /\ last_epoch \in 0..MaxEpochs /\ MaxEpochs \in Nat
      /\ i \in RequestType /\ i.revision = 0 /\ i.epoch = 0
      /\ UNCHANGED <<app, restarts, shared, call, registered, last_epoch, process>>
      /\ UNCHANGED catalogVars
  BY IdleIs, TypedIs DEF PrepareDeactivation, FenceFree, LifeInv, Down, Typed, TypeOK
<1> HIDE DEF i
<1>1. x \in RequestType /\ x.at = "ready" /\ x.old = registered /\ x.revision = 0 /\ x.epoch = 0
  BY <1>0 DEF RequestType, Places, Early
<1> HIDE DEF x
<1>2. req' \in [Requests -> RequestType] /\ req'[o] = x /\ OthersStay(o)
  BY <1>0, <1>1, Moved
<1>3. UNCHANGED rows /\ Activated' = Activated /\ ActiveRows' = ActiveRows
      /\ (Numbered' <=> Numbered) /\ (OneActive' <=> OneActive)
  BY <1>0, SameRows DEF catalogVars
<1>4. accepting' \in [Epochs -> BOOLEAN]
  BY <1>0, TypedIs DEF PrepareDeactivation
<1>5. Typed'
  <2>1. \A u \in Requests : req'[u].revision \in 0..revisions'
    BY <1>0, <1>1, <1>2, SameRevisions DEF catalogVars
  <2> QED BY <1>0, <1>2, <1>4, <2>1 DEF Typed, TypeOK, catalogVars, RequestType, Places, Early
<1>6. RequestOK(o)'
  BY <1>0, <1>1, <1>2 DEF RequestOK, Ordered, Candidate, Committed, Leaving, Deactivates
<1>7. (Committing' <=> Committing) /\ (Activating' <=> Activating)
  BY <1>0, <1>1, <1>2 DEF Committing, Activating, Deactivates, OthersStay
<1>8. Runner'
  BY <1>0, <1>3, <1>7 DEF LifeInv, Runner, Alive
<1>9. NoOrphanProcess'
  <2>1. \A e \in Epochs : ~Owns(o, e)
    BY <1>0 DEF Owns
  <2> QED BY <1>0, <1>2, <2>1, OrphansOwned
<1>10. \A w \in Workers : call[w].at = "calling" => Alive(call[w].process)'
  BY <1>0 DEF LifeInv, CallOK, Alive
<1>11. last_epoch <= last_epoch'
  BY <1>0
<1> QED BY <1>0, <1>2, <1>3, <1>5, <1>6, <1>8, <1>9, <1>10, <1>11, StepOK DEF LifeInv

LEMMA LifeStopped == ASSUME LifeInv, NEW o \in Requests, CommitDeactivation(o) PROVE LifeInv'
<1> DEFINE rs == StopActive(rows)
<1>0. /\ req[o].at = "ready" /\ app = "up" /\ Typed /\ RequestOK(o) /\ Deactivates(o)
      /\ MaxEpochs \in Nat /\ last_epoch \in 0..MaxEpochs /\ pending = o /\ fence = o
      /\ req[o].old = registered /\ req[o].epoch = 0
      /\ rs \in [Epochs -> PluginActivationStatus]
      /\ rows' = rs /\ active' = 0 /\ status' = "STOPPED" /\ fence' = Nobody
      /\ UNCHANGED <<installed, revisions, app, restarts, shared, call>> /\ UNCHANGED supervisorVars
  BY IsUp, TypedIs, StopActiveIs DEF CommitDeactivation, RequestOK, Ordered, Leaving
<1>1. /\ req' \in [Requests -> RequestType] /\ OthersStay(o)
      /\ req'[o].at = "committed" /\ req'[o].epoch = req[o].epoch /\ req'[o].old = req[o].old
      /\ req'[o].revision = req[o].revision
  BY <1>0, GotoIs DEF CommitDeactivation, Places
<1> HIDE DEF rs
<1>2. \A e \in Epochs : /\ rs[e] # "ACTIVE"
                        /\ rs[e] = "STOPPED" <=> rows[e] \in {"ACTIVE", "STOPPED"}
                        /\ rs[e] = "NONE" <=> rows[e] = "NONE"
  BY <1>0, TypedIs, StopActiveIs DEF rs
<1>3. ActiveRows' = {} /\ Activated' = Activated /\ UsedEpochs' = UsedEpochs
  BY <1>0, <1>2 DEF ActiveRows, Activated, UsedEpochs
<1>4. Numbered' /\ OneActive'
  BY <1>3 DEF LifeInv, Numbered, OneActive
<1>5. Typed'
  <2>1. \A u \in Requests : req'[u].revision \in 0..revisions'
    BY <1>0, <1>1, SameRevisions
  <2>2. revisions \in Nat /\ active' \in 0..revisions
    BY <1>0, BoundsAssumption DEF Typed, TypeOK
  <2> QED BY <1>0, <1>1, <2>1, <2>2
          DEF Typed, TypeOK, supervisorVars, RequestType, Places, Early, PluginDeploymentStatus
<1>6. RequestOK(o)'
  BY <1>0, <1>1, <1>3
     DEF RequestOK, Ordered, Candidate, Committed, Leaving, Deactivates, supervisorVars
<1>7. Runner'
  <2>1. Committing'
    BY <1>1 DEF Committing
  <2>2. ~Activating
    BY <1>0, Alone DEF Activating, Deactivates
  <2> QED BY <1>0, <1>3, <2>1, <2>2 DEF LifeInv, Runner, Alive, supervisorVars
<1>8. NoOrphanProcess'
  <2>1. \A e \in Epochs : Owns(o, e) => Owns(o, e)'
    BY <1>0, <1>1 DEF Owns
  <2> QED BY <1>0, <1>1, <2>1, OrphansOwned DEF supervisorVars
<1>9. \A w \in Workers : call[w].at = "calling" => Alive(call[w].process)'
  BY <1>0, IsUp DEF Alive, supervisorVars
<1> QED BY <1>0, <1>1, <1>3, <1>4, <1>5, <1>6, <1>7, <1>8, <1>9, StepOK DEF supervisorVars

LEMMA LifeRemove == ASSUME LifeInv, NEW o \in Requests, RemoveRunner(o) PROVE LifeInv'
<1>0. /\ req[o].at = "committed" /\ app = "up" /\ Typed /\ RequestOK(o) /\ Deactivates(o)
      /\ MaxEpochs \in Nat /\ last_epoch \in 0..MaxEpochs /\ pending = o
      /\ req[o].old = registered /\ registered \in 0..MaxEpochs /\ ActiveRows = {}
      /\ pending' = Nobody /\ registered' = 0
      /\ UNCHANGED <<app, restarts, fence, shared, call, last_epoch, process, accepting>>
      /\ UNCHANGED catalogVars
  BY IsUp DEF RemoveRunner, RequestOK, Ordered, Committed, Leaving
<1>1. /\ req' \in [Requests -> RequestType] /\ OthersStay(o)
      /\ req'[o].at = "draining" /\ req'[o].epoch = req[o].epoch /\ req'[o].old = req[o].old
      /\ req'[o].revision = req[o].revision
  BY <1>0, GotoIs DEF RemoveRunner, Places
<1>2. UNCHANGED rows /\ Activated' = Activated /\ ActiveRows' = ActiveRows
      /\ (Numbered' <=> Numbered) /\ (OneActive' <=> OneActive)
  BY <1>0, SameRows DEF catalogVars
<1>3. Typed'
  <2>1. \A u \in Requests : req'[u].revision \in 0..revisions'
    BY <1>0, <1>1, SameRevisions DEF catalogVars
  <2> QED BY <1>0, <1>1, <2>1 DEF Typed, TypeOK, catalogVars, RequestType, Places, Early
<1>4. registered <= last_epoch
  BY DEF LifeInv, Runner
<1>5. RequestOK(o)'
  BY <1>0, <1>1, <1>4 DEF RequestOK, Ordered, Candidate, Committed, Leaving, Deactivates
<1>6. Runner'
  BY <1>0 DEF Runner
<1>7. NoOrphanProcess'
  <2>1. \A e \in Epochs : e = registered \/ Owns(o, e) => Owns(o, e)'
    <3>1. \A e \in Epochs : Owns(o, e) => e = registered
      BY <1>0 DEF Owns, RequestOK, Leaving, Epochs
    <3> QED BY <1>0, <1>1, <3>1 DEF Owns
  <2> QED BY <1>0, <1>1, <2>1, OrphansOwned
<1>8. \A w \in Workers : call[w].at = "calling" => Alive(call[w].process)'
  BY <1>0, IsUp DEF Alive
<1>9. last_epoch <= last_epoch'
  BY <1>0
<1> QED BY <1>0, <1>1, <1>2, <1>3, <1>5, <1>6, <1>7, <1>8, <1>9, StepOK DEF LifeInv

-----------------------------------------------------------------------------
(* The dispatcher workers.                                                 *)

\* A call moves, and at most its process dies.
LEMMA CallMoves ==
  ASSUME LifeInv, NEW w \in Workers, app = "up",
         UNCHANGED <<app, restarts, fence, shared, req, registered, last_epoch, pending, accepting>>,
         UNCHANGED catalogVars,
         process' \in [Epochs -> {"none", "starting", "running", "dead"}],
         \A e \in Epochs : process'[e] = process[e] \/ (Alive(e) /\ process'[e] = "dead"),
         call' \in [Workers -> CallType],
         \A v \in Workers : v # w => call'[v] = call[v],
         CallOK(w)'
  PROVE  LifeInv'
<1>1. UNCHANGED rows /\ Activated' = Activated /\ ActiveRows' = ActiveRows
      /\ (Numbered' <=> Numbered) /\ (OneActive' <=> OneActive)
  BY SameRows DEF catalogVars
<1>2. Typed /\ MaxEpochs \in Nat /\ last_epoch \in 0..MaxEpochs /\ registered \in 0..MaxEpochs
  BY TypedIs DEF LifeInv
<1>3. Typed'
  BY <1>2 DEF Typed, TypeOK, catalogVars, CallType
<1>4. ASSUME NEW e \in Epochs, Alive(e) PROVE Alive(e)'
  BY <1>4 DEF Alive
<1>5. ASSUME NEW u \in Requests PROVE RequestOK(u)'
  <2>0. RequestOK(u)
    BY DEF LifeInv
  <2>1. req[u].at \in {"starting", "ready", "committed"} /\ ~Deactivates(u) =>
          \/ process'[req[u].epoch] = process[req[u].epoch]
          \/ Alive(req[u].epoch) /\ process'[req[u].epoch] \in {"running", "dead"}
    <3>1. req[u].at \in {"starting", "ready", "committed"} /\ ~Deactivates(u) =>
            req[u].epoch \in Epochs
      BY <2>0 DEF RequestOK, Candidate, Committed
    <3> QED BY <3>1
  <2>2. last_epoch <= last_epoch'
    BY <1>2
  <2> QED BY <1>1, <1>2, <2>1, <2>2, StayOK
<1>6. ASSUME NEW v \in Workers PROVE CallOK(v)'
  <2>1. CASE v = w
    BY <2>1
  <2>2. CASE v # w
    <3>1. call[v].at = "calling" => Alive(call[v].process) /\ call[v].process \in 1..last_epoch
      BY DEF LifeInv, CallOK
    <3>2. call[v].at = "calling" => Alive(call[v].process)'
      <4>1. call[v].at = "calling" => call[v].process \in Epochs
        BY <1>2, <3>1 DEF Epochs
      <4>2. call[v].at = "calling" => process'[call[v].process] \in {"running", "dead"}
        BY <3>1, <4>1 DEF Alive
      <4> QED BY <2>2, <4>2 DEF Alive
    <3> QED BY <1>1, <1>2, <2>2, <3>2, CallStays
  <2> QED BY <2>1, <2>2
<1>7. Runner'
  <2>1. registered # 0 => registered \in Epochs /\ Alive(registered)
    BY DEF LifeInv, Runner, Activated
  <2>2. registered # 0 => Alive(registered)'
    BY <1>4, <2>1
  <2>3. (Committing' <=> Committing) /\ (Activating' <=> Activating)
    BY DEF Committing, Activating, Deactivates
  <2>4. registered' = registered /\ last_epoch' = last_epoch
    OBVIOUS
  <2>5. Runner
    BY DEF LifeInv
  <2>6. registered # 0 => process'[registered] \in {"running", "dead"}
    BY <1>4, <2>1 DEF Alive
  <2> QED BY <1>1, <2>3, <2>4, <2>5, <2>6 DEF Runner, Alive
<1>8. NoOrphanProcess'
  <2>1. \A e \in Epochs : process'[e] \in {"starting", "running"} =>
          process[e] \in {"starting", "running"}
    OBVIOUS
  <2> QED BY <2>1 DEF LifeInv, NoOrphanProcess
<1>9. Down'
  BY DEF Down
<1> QED BY <1>1, <1>3, <1>5, <1>6, <1>7, <1>8, <1>9 DEF LifeInv

LEMMA CallUp ==
  ASSUME LifeInv, NEW w \in Workers, call[w].at # "idle"
  PROVE  app = "up"
BY DEF LifeInv, Down, Typed, TypeOK

LEMMA IdleCallIs == IdleCall \in CallType /\ IdleCall.at = "idle"
BY BoundsAssumption DEF IdleCall, CallType

LEMMA CallEnds ==
  ASSUME LifeInv, NEW w \in Workers, call' = [call EXCEPT ![w] = IdleCall]
  PROVE  /\ call' \in [Workers -> CallType] /\ CallOK(w)'
         /\ \A v \in Workers : v # w => call'[v] = call[v]
<1> DEFINE i == IdleCall
<1>1. i \in CallType /\ i.at = "idle" /\ call' = [call EXCEPT ![w] = i]
  BY IdleCallIs
<1> HIDE DEF i
<1>2. /\ call' \in [Workers -> CallType] /\ call'[w] = i
      /\ \A v \in Workers : v # w => call'[v] = call[v]
  BY <1>1, TypedIs DEF LifeInv
<1> QED BY <1>1, <1>2 DEF CallOK

LEMMA LifeRoute == ASSUME LifeInv, NEW w \in Workers, Route(w) PROVE LifeInv'
<1>1. PICK e \in ActiveRows \cup {0} :
        call' = [call EXCEPT ![w] = [at |-> "routed", routed |-> e, process |-> 0]]
  BY DEF Route
<1> DEFINE x == [at |-> "routed", routed |-> e, process |-> 0]
<1>2. e \in 0..MaxEpochs /\ (e # 0 => e \in Activated) /\ Typed
  BY BoundsAssumption DEF ActiveRows, Activated, Epochs, LifeInv
<1>3. x \in CallType /\ x.at = "routed" /\ x.routed = e
  BY <1>2, BoundsAssumption DEF CallType
<1>4. call' = [call EXCEPT ![w] = x]
  BY <1>1
<1> HIDE DEF x
<1>5. /\ call' \in [Workers -> CallType] /\ call'[w] = x
      /\ \A v \in Workers : v # w => call'[v] = call[v]
  BY <1>2, <1>3, <1>4, TypedIs
<1>6. /\ app = "up" /\ UNCHANGED <<app, restarts, fence, shared, req>> /\ UNCHANGED catalogVars
      /\ UNCHANGED supervisorVars
  BY DEF Route
<1>7. CallOK(w)'
  BY <1>2, <1>3, <1>5, <1>6, SameRows DEF CallOK, catalogVars
<1>8. process' \in [Epochs -> {"none", "starting", "running", "dead"}]
  BY <1>2, <1>6, TypedIs DEF supervisorVars
<1> QED BY <1>5, <1>6, <1>7, <1>8, CallMoves DEF supervisorVars

LEMMA LifeAcquire == ASSUME LifeInv, NEW w \in Workers, Acquire(w) PROVE LifeInv'
<1>1. /\ app = "up" /\ UNCHANGED <<app, restarts, fence, shared, req>> /\ UNCHANGED catalogVars
      /\ UNCHANGED supervisorVars /\ call[w].at = "routed" /\ Typed
  BY CallUp DEF Acquire, LifeInv
<1>2. process' \in [Epochs -> {"none", "starting", "running", "dead"}]
  BY <1>1, TypedIs DEF supervisorVars
<1>3. CASE call' = [call EXCEPT ![w] = IdleCall]
  BY <1>1, <1>2, <1>3, CallEnds, CallMoves DEF supervisorVars
<1>4. CASE /\ registered # 0
           /\ call' = [call EXCEPT ![w].at = "calling", ![w].process = registered]
  <2> DEFINE y == call[w]
             x == [y EXCEPT !.at = "calling", !.process = registered]
  <2>1. y \in CallType /\ registered \in 0..MaxEpochs /\ call' = [call EXCEPT ![w] = x]
    BY <1>1, <1>4, TypedIs
  <2>2. y.at = "routed"
    BY <1>1
  <2> HIDE DEF y
  <2>3. x \in CallType /\ x.at = "calling" /\ x.routed = y.routed /\ x.process = registered
    BY <2>1 DEF CallType
  <2> HIDE DEF x
  <2>4. /\ call' \in [Workers -> CallType] /\ call'[w] = x
        /\ \A v \in Workers : v # w => call'[v] = call[v]
    BY <1>1, <2>1, <2>3, TypedIs
  <2>5. CallOK(w)'
    <3>1. y.routed # 0 => y.routed \in Activated
      BY <2>2 DEF LifeInv, CallOK, y
    <3>2. /\ registered \in 1..last_epoch /\ process'[registered] \in {"running", "dead"}
          /\ last_epoch' = last_epoch
      <4>1. registered <= last_epoch /\ Alive(registered) /\ last_epoch \in 0..MaxEpochs
        BY <1>1, <1>4, TypedIs DEF LifeInv, Runner
      <4> QED BY <1>1, <1>4, <2>1, <4>1 DEF Alive, supervisorVars
    <3>3. Activated' = Activated
      BY <1>1, SameRows DEF catalogVars
    <3> QED BY <2>3, <2>4, <3>1, <3>2, <3>3 DEF CallOK, Alive
  <2> QED BY <1>1, <1>2, <2>4, <2>5, CallMoves DEF supervisorVars
<1> QED BY <1>3, <1>4 DEF Acquire

LEMMA LifeAnswered == ASSUME LifeInv, NEW w \in Workers, CallAnswered(w) PROVE LifeInv'
<1> DEFINE y == call[w]
           x == [y EXCEPT !.at = "answered"]
<1>1. /\ app = "up" /\ UNCHANGED <<app, restarts, fence, shared, req>> /\ UNCHANGED catalogVars
      /\ UNCHANGED supervisorVars /\ y.at = "calling" /\ Typed
      /\ y \in CallType /\ call' = [call EXCEPT ![w] = x]
  BY CallUp, TypedIs DEF CallAnswered, LifeInv
<1> HIDE DEF y
<1>2. x \in CallType /\ x.at = "answered" /\ x.routed = y.routed /\ x.process = y.process
  BY <1>1 DEF CallType
<1> HIDE DEF x
<1>3. /\ call' \in [Workers -> CallType] /\ call'[w] = x
      /\ \A v \in Workers : v # w => call'[v] = call[v]
  BY <1>1, <1>2, TypedIs
<1>4. process' \in [Epochs -> {"none", "starting", "running", "dead"}]
  BY <1>1, TypedIs DEF supervisorVars
<1>5. CallOK(w)'
  <2>1. (y.routed # 0 => y.routed \in Activated) /\ y.process \in 1..last_epoch
    BY <1>1 DEF LifeInv, CallOK, y
  <2>2. Activated' = Activated /\ last_epoch' = last_epoch
    BY <1>1, SameRows DEF catalogVars, supervisorVars
  <2> QED BY <1>2, <1>3, <2>1, <2>2 DEF CallOK
<1> QED BY <1>1, <1>3, <1>4, <1>5, CallMoves DEF supervisorVars

LEMMA LifeCallFails == ASSUME LifeInv, NEW w \in Workers, CallFails(w) PROVE LifeInv'
<1> DEFINE p == call[w].process
<1>1. /\ app = "up" /\ UNCHANGED <<app, restarts, fence, shared, req>> /\ UNCHANGED catalogVars
      /\ UNCHANGED <<registered, last_epoch, pending, accepting>> /\ Typed
      /\ call[w].at = "calling" /\ process' = [process EXCEPT ![p] = "dead"]
      /\ call' = [call EXCEPT ![w] = IdleCall]
  BY CallUp DEF CallFails, LifeInv
<1>2. Alive(p)
  BY <1>1 DEF LifeInv, CallOK
<1> HIDE DEF p
<1>3. /\ process' \in [Epochs -> {"none", "starting", "running", "dead"}]
      /\ \A e \in Epochs : process'[e] = process[e] \/ (Alive(e) /\ process'[e] = "dead")
  BY <1>1, <1>2, TypedIs
<1> QED BY <1>1, <1>3, CallEnds, CallMoves

LEMMA LifeTake == ASSUME LifeInv, NEW w \in Workers, TakeResult(w) PROVE LifeInv'
<1>1. /\ app = "up" /\ UNCHANGED <<app, restarts, fence, shared, req>> /\ UNCHANGED catalogVars
      /\ UNCHANGED supervisorVars /\ call' = [call EXCEPT ![w] = IdleCall] /\ Typed
  BY CallUp DEF TakeResult, LifeInv
<1>2. process' \in [Epochs -> {"none", "starting", "running", "dead"}]
  BY <1>1, TypedIs DEF supervisorVars
<1> QED BY <1>1, <1>2, CallEnds, CallMoves DEF supervisorVars

-----------------------------------------------------------------------------
(* The application stops and starts.                                       *)

LEMMA LifeCrash == ASSUME LifeInv, Crash PROVE LifeInv'
<1>1. /\ Typed /\ MaxEpochs \in Nat /\ app' = "down" /\ restarts' \in 0..MaxRestarts
      /\ registered' = 0 /\ last_epoch' = 0 /\ pending' = Nobody /\ fence' = Nobody
      /\ UNCHANGED catalogVars
  BY BoundsAssumption DEF LifeInv, Typed, TypeOK, Crash, NothingRuns
<1>2. /\ req' \in [Requests -> RequestType] /\ \A o \in Requests : req'[o] = IdleRequest
      /\ call' \in [Workers -> CallType] /\ \A w \in Workers : call'[w] = IdleCall
      /\ process' \in [Epochs -> {"none", "starting", "running", "dead"}]
      /\ \A e \in Epochs : process'[e] = "none"
      /\ accepting' \in [Epochs -> BOOLEAN]
  BY IdleIs, IdleCallIs DEF Crash, NothingRuns
<1>3. /\ \A o \in Requests : req'[o].at = "idle" /\ req'[o].revision = 0
      /\ \A w \in Workers : call'[w].at = "idle"
  BY <1>2, IdleIs, IdleCallIs
<1>4. Typed'
  <2>1. \A o \in Requests : req'[o].revision \in 0..revisions'
    BY <1>1, <1>3, BoundsAssumption DEF Typed, TypeOK, catalogVars
  <2>2. /\ UNCHANGED <<installed, status, active, revisions, rows>>
        /\ app' \in {"up", "down"}
        /\ registered' \in 0..MaxEpochs /\ last_epoch' \in 0..MaxEpochs
        /\ pending' \in Requests \cup {Nobody} /\ fence' \in Requests \cup {Nobody}
    BY <1>1 DEF catalogVars
  <2>3. shared' \in BOOLEAN
    BY Zenon DEF Crash, NothingRuns
  <2> QED BY <1>1, <1>2, <2>1, <2>2, <2>3 DEF Typed, TypeOK, RequestType, CallType, Places, Early
<1>5. (Numbered' <=> Numbered) /\ (OneActive' <=> OneActive)
  BY <1>1, SameRows DEF catalogVars
<1>6. Runner' /\ NoOrphanProcess' /\ Down'
  BY <1>1, <1>2, <1>3 DEF Runner, NoOrphanProcess, Down
<1>7. \A w \in Workers : CallOK(w)'
  BY <1>3 DEF CallOK
<1> QED BY <1>3, <1>4, <1>5, <1>6, <1>7, IdleOK DEF LifeInv

LEMMA LifeRestore == ASSUME LifeInv, Restore PROVE LifeInv'
<1> DEFINE n == NextEpoch
<1>0. /\ Typed /\ MaxEpochs \in Nat /\ rows \in [Epochs -> PluginActivationStatus]
      /\ process \in [Epochs -> {"none", "starting", "running", "dead"}]
      /\ accepting \in [Epochs -> BOOLEAN]
      /\ app = "down" /\ app' = "up" /\ UNCHANGED <<restarts, fence, shared, req, pending, call>>
      /\ UNCHANGED <<installed, active, revisions>>
      /\ status' \in PluginDeploymentStatus /\ (status' = "NONE" => status = "NONE")
  BY TypedIs DEF LifeInv, Typed, TypeOK, Restore, RestoreActive, RestoreFails, NothingToRestore,
                 catalogVars, supervisorVars, PluginDeploymentStatus
<1>1. /\ \A o \in Requests : req[o].at = "idle"
      /\ \A w \in Workers : call[w].at = "idle"
      /\ registered = 0 /\ last_epoch = 0 /\ pending = Nobody /\ fence = Nobody
      /\ \A e \in Epochs : process[e] = "none"
  BY <1>0 DEF LifeInv, Down
<1>2. /\ \A o \in Requests : RequestOK(o)'
      /\ \A w \in Workers : CallOK(w)'
      /\ Down' /\ ~Committing'
  BY <1>0, <1>1, IdleOK DEF CallOK, Down, Committing
<1>3. CASE RestoreActive
  <2> DEFINE rs == StopActive(rows)
  <2>1. /\ n \in Epochs /\ UsedEpochs = 1..(n - 1) /\ rs \in [Epochs -> PluginActivationStatus]
        /\ rows' = [rs EXCEPT ![n] = "ACTIVE"] /\ registered' = n /\ last_epoch' = n
        /\ process' = [process EXCEPT ![n] = "running"]
        /\ accepting' = [accepting EXCEPT ![n] = TRUE]
    BY <1>0, <1>3, NextIs, StopActiveIs DEF RestoreActive, LifeInv
  <2> HIDE DEF rs, n
  <2>2. /\ rows' \in [Epochs -> PluginActivationStatus] /\ rows'[n] = "ACTIVE"
        /\ \A e \in Epochs : e # n => rows'[e] = rs[e]
    BY <2>1 DEF PluginActivationStatus
  <2>3. \A e \in Epochs : /\ rs[e] # "ACTIVE"
                          /\ rs[e] = "STOPPED" <=> rows[e] \in {"ACTIVE", "STOPPED"}
                          /\ rs[e] = "NONE" <=> rows[e] = "NONE"
    BY <1>0, StopActiveIs DEF rs
  <2>4. ActiveRows' = {n} /\ Activated' = Activated \cup {n} /\ UsedEpochs' = UsedEpochs \cup {n}
    BY <2>1, <2>2, <2>3 DEF ActiveRows, Activated, UsedEpochs
  <2>5. Numbered' /\ OneActive'
    <3>1. 1..(n - 1) \cup {n} = 1..n /\ n \in 0..MaxEpochs
      BY <1>0, <2>1 DEF Epochs
    <3> QED BY <2>1, <2>4, <3>1 DEF Numbered, OneActive
  <2>6. Typed'
    <3>1. /\ n \in 0..MaxEpochs /\ accepting' \in [Epochs -> BOOLEAN]
          /\ process' \in [Epochs -> {"none", "starting", "running", "dead"}]
      BY <1>0, <2>1 DEF Epochs
    <3> QED BY <1>0, <2>1, <2>2, <3>1 DEF Typed, TypeOK
  <2>7. process'[n] = "running" /\ \A e \in Epochs : e # n => process'[e] = "none"
    BY <1>0, <1>1, <2>1
  <2>8. Runner'
    <3>1. \A e \in Activated' : e <= n
      <4>1. Activated \subseteq UsedEpochs
        BY DEF Activated, UsedEpochs
      <4> QED BY <1>0, <2>1, <2>4, <4>1 DEF Epochs
    <3>2. n \in Activated' /\ n <= n
      BY <2>1, <2>4 DEF Epochs
    <3> QED BY <1>2, <2>1, <2>4, <2>7, <3>1, <3>2 DEF Runner, Alive
  <2>9. NoOrphanProcess'
    BY <2>1, <2>7 DEF NoOrphanProcess
  <2> QED BY <1>2, <2>5, <2>6, <2>8, <2>9 DEF LifeInv
<1>4. CASE RestoreFails
  <2>1. /\ n \in Epochs /\ UsedEpochs = 1..(n - 1) /\ rows' = [rows EXCEPT ![n] = "FAILED"]
        /\ UNCHANGED supervisorVars
    BY <1>0, <1>4, NextIs DEF RestoreFails, LifeInv
  <2> HIDE DEF n
  <2>2. n \notin UsedEpochs
    BY <2>1 DEF Epochs
  <2>3. /\ rows' \in [Epochs -> PluginActivationStatus] /\ rows'[n] = "FAILED" /\ rows[n] = "NONE"
        /\ \A e \in Epochs : e # n => rows'[e] = rows[e]
    BY <1>0, <2>1, <2>2 DEF PluginActivationStatus, UsedEpochs
  <2>4. ActiveRows' = ActiveRows /\ UsedEpochs' = UsedEpochs \cup {n}
    BY <2>1, <2>3 DEF ActiveRows, UsedEpochs
  <2>5. Numbered' /\ OneActive'
    <3>1. 1..(n - 1) \cup {n} = 1..n /\ n \in 0..MaxEpochs
      BY <1>0, <2>1 DEF Epochs
    <3> QED BY <2>1, <2>4, <3>1 DEF LifeInv, Numbered, OneActive
  <2>6. Typed'
    BY <1>0, <2>1, <2>3 DEF Typed, TypeOK, supervisorVars
  <2>7. Runner' /\ NoOrphanProcess'
    BY <1>1, <2>1 DEF LifeInv, Runner, NoOrphanProcess, supervisorVars
  <2> QED BY <1>2, <2>5, <2>6, <2>7 DEF LifeInv
<1>5. CASE NothingToRestore
  <2>1. UNCHANGED catalogVars /\ UNCHANGED supervisorVars
    BY <1>5 DEF NothingToRestore
  <2>2. Typed' /\ (Numbered' <=> Numbered) /\ (OneActive' <=> OneActive)
    BY <1>0, <2>1, SameRows DEF Typed, TypeOK, catalogVars, supervisorVars
  <2>3. Runner' /\ NoOrphanProcess'
    BY <1>1, <2>1 DEF LifeInv, Runner, NoOrphanProcess, supervisorVars
  <2> QED BY <1>2, <2>2, <2>3 DEF LifeInv
<1> QED BY <1>3, <1>4, <1>5 DEF Restore

-----------------------------------------------------------------------------
(* The theorems.                                                           *)

LEMMA LifeInit == ASSUME Init PROVE LifeInv
<1>1. /\ \A o \in Requests : req[o] = IdleRequest
      /\ \A w \in Workers : call[w] = IdleCall
      /\ \A e \in Epochs : rows[e] = "NONE" /\ process[e] = "none"
      /\ registered = 0 /\ last_epoch = 0 /\ app = "up" /\ revisions = 0
  BY DEF Init
<1>2. /\ \A o \in Requests : req[o].at = "idle" /\ req[o].revision = 0
      /\ \A w \in Workers : call[w].at = "idle"
  BY <1>1, IdleIs, IdleCallIs
<1>3. ActiveRows = {} /\ UsedEpochs = {} /\ Activated = {}
  BY <1>1 DEF ActiveRows, UsedEpochs, Activated
<1>4. Typed
  <2>1. req \in [Requests -> RequestType] /\ call \in [Workers -> CallType]
    BY IdleIs, IdleCallIs DEF Init
  <2>2. /\ rows \in [Epochs -> PluginActivationStatus]
        /\ process \in [Epochs -> {"none", "starting", "running", "dead"}]
        /\ accepting \in [Epochs -> BOOLEAN]
    BY DEF Init, PluginActivationStatus
  <2>3. /\ 0 \in 0..MaxRevisions /\ 0 \in 0..MaxEpochs /\ 0 \in 0..MaxRestarts /\ 0 \in 0..0
        /\ "NONE" \in PluginDeploymentStatus
    BY BoundsAssumption DEF PluginDeploymentStatus
  <2>4. TypeOK
    BY <2>1, <2>2, <2>3 DEF Init, TypeOK, RequestType, CallType, Places, Early
  <2> QED BY <1>1, <1>2, <2>3, <2>4 DEF Typed
<1>5. Numbered
  <2>1. 1..0 = {} /\ 0 \in 0..MaxEpochs
    BY BoundsAssumption
  <2> QED BY <1>3, <2>1 DEF Numbered
<1>6. Runner /\ OneActive /\ NoOrphanProcess /\ Down
  BY <1>1, <1>3 DEF Runner, OneActive, NoOrphanProcess, Down
<1>7. \A o \in Requests : RequestOK(o)
  BY <1>2 DEF RequestOK, Ordered, Candidate, Committed, Leaving
<1>8. \A w \in Workers : CallOK(w)
  BY <1>2 DEF CallOK
<1> QED BY <1>4, <1>5, <1>6, <1>7, <1>8 DEF LifeInv

LEMMA LifeStays == ASSUME LifeInv, UNCHANGED vars PROVE LifeInv'
BY DEF vars, LifeInv, Typed, TypeOK, Numbered, UsedEpochs, Runner, Activated, ActiveRows, Alive,
       Committing, Activating, Deactivates, OneActive, NoOrphanProcess, Down, RequestOK, Ordered,
       Candidate, Committed, Leaving, CallOK

LEMMA LifeStep == ASSUME LifeInv, [Next]_vars PROVE LifeInv'
<1>1. CASE UNCHANGED vars
  BY <1>1, LifeStays
<1>2. CASE CatalogStep
  BY <1>2, LifeCatalog
<1>3. ASSUME NEW o \in Requests, RequestStep(o) PROVE LifeInv'
  BY <1>3, LifeReady, LifeFails, LifeCommit, LifeCommitFailure, LifeStopped, LifeRollBack,
     LifeSwap, LifeRemove, LifeDrained, LifeRefuse DEF RequestStep
<1>4. ASSUME NEW o \in Requests,
             (\E r \in Revisions : LoadDeployment(o, r)) \/ BeginDeactivation(o) \/ LockGranted(o)
      PROVE  LifeInv'
  BY <1>4, LifeLoad, LifeEarly, LifePrepare, LifeRefuse, LifeClose DEF LockGranted
<1>5. ASSUME NEW w \in Workers, Route(w) \/ CallStep(w) PROVE LifeInv'
  BY <1>5, LifeRoute, LifeAcquire, LifeAnswered, LifeCallFails, LifeTake DEF CallStep
<1>6. CASE Crash \/ Shutdown \/ Restore \/ Share \/ SharersEnd
  BY <1>6, LifeCrash, LifeRestore, LifeShared DEF Shutdown
<1> QED BY <1>1, <1>2, <1>3, <1>4, <1>5, <1>6 DEF Next

LEMMA LifeInvariant == Spec => []LifeInv
<1>1. Init => LifeInv
  BY LifeInit
<1>2. LifeInv /\ [Next]_vars => LifeInv'
  BY LifeStep
<1> QED BY <1>1, <1>2, PTL DEF Spec

\* The catalog's rows, the supervisor's tables and the requests keep their types: no
\* transaction leaves a deployment STARTING or DRAINING behind (CommitFailure,
\* CommitDeactivation).
THEOREM TypeCorrect == Spec => []TypeOK
<1>1. LifeInv => TypeOK
  BY DEF LifeInv, Typed
<1> QED BY <1>1, LifeInvariant, PTL

\* At most one activation of a deployment is ACTIVE, and unless a committed swap is
\* still to be carried out the registered runner is the one that row names.
THEOREM RunnerMatches == Spec => []RunnerIsActivated
<1>1. LifeInv => RunnerIsActivated
  BY DEF LifeInv, OneActive, Runner, Committing, RunnerIsActivated
<1> QED BY <1>1, LifeInvariant, PTL

\* No failed start, failed commit, swap or restart leaves a plugin process behind that
\* nobody will stop.
THEOREM NoProcessLost == Spec => []NoOrphanProcess
<1>1. LifeInv => NoOrphanProcess
  BY DEF LifeInv
<1> QED BY <1>1, LifeInvariant, PTL

\* A swap or a deactivation never stops a process under a call it has accepted
\* (StopDrained waits for the calls _acquire counted).
THEOREM SwapWaits == Spec => []CallsOutliveSwap
<1>1. LifeInv => CallsOutliveSwap
  BY DEF LifeInv, CallOK, CallsOutliveSwap, Alive
<1> QED BY <1>1, LifeInvariant, PTL

\* What the check after the call achieves: a result that is accepted comes from a
\* committed activation, and one that is older than the activation the worker routed to
\* only while a commit is still to be carried out.
THEOREM ResultsAreFresh == Spec => []StaleOnlyBeforeSwap
<1>1. LifeInv => StaleOnlyBeforeSwap
  <2> SUFFICES ASSUME LifeInv, NEW w \in Workers, Current(w)
               PROVE  /\ Accepted(w)
                      /\ \/ call[w].process >= call[w].routed
                         \/ \E o \in Requests : req[o].at = "committed"
    BY DEF StaleOnlyBeforeSwap
  <2>0. /\ call[w].at = "answered" /\ registered = call[w].process /\ Typed
        /\ call[w].process \in 1..last_epoch
        /\ call[w].routed # 0 => call[w].routed \in Activated
    BY DEF Current, LifeInv, CallOK
  <2>1. /\ call[w] \in CallType /\ last_epoch \in 0..MaxEpochs /\ MaxEpochs \in Nat
    BY <2>0, TypedIs
  <2>2. registered # 0 /\ call[w].routed \in Nat /\ registered \in Nat
    BY <2>0, <2>1 DEF CallType
  <2>3. registered \in Activated /\ (~Activating => \A e \in Activated : e <= registered)
    BY <2>2 DEF LifeInv, Runner
  <2>4. CASE Activating
    BY <2>0, <2>3, <2>4 DEF Activating, Activated, Accepted
  <2>5. CASE ~Activating
    BY <2>0, <2>2, <2>3, <2>5 DEF Activated, Accepted
  <2> QED BY <2>4, <2>5
<1> QED BY <1>1, LifeInvariant, PTL
-----------------------------------------------------------------------------
(* The deployment serves as Hotswap promises.                              *)

\* Steps of a request that only wait for locks, take them or give up
Waits(o) ==
  \/ TakeFence(o) \/ RejectLaunch(o) \/ RefuseActivation(o)
  \/ BeginDeactivation(o) \/ LockDeployment(o) \/ RefuseDeactivation(o) \/ AbortVictim(o)

LEMMA WaitsIs ==
  ASSUME NEW o \in Requests, Waits(o)
  PROVE  UNCHANGED catalogVars /\ UNCHANGED supervisorVars /\ UNCHANGED call
BY DEF Waits, TakeFence, RejectLaunch, RefuseActivation, BeginDeactivation, LockDeployment,
       RefuseDeactivation, AbortVictim

\* Only a process that was a runner dies under a call, and a deployment with an
\* active revision has an activation to show for it.
HotInv ==
  /\ LifeInv
  /\ \A e \in Epochs : process[e] = "dead" => e <= last_epoch
  /\ active # 0 => ActiveRows # {}

LEMMA HotStays ==
  ASSUME HotInv, LifeInv', UNCHANGED last_epoch,
         \A e \in Epochs : process'[e] = "dead" => process[e] = "dead",
         active' # 0 => ActiveRows' # {}
  PROVE  HotInv'
BY DEF HotInv

LEMMA HotStep == ASSUME HotInv, [Next]_vars PROVE HotInv'
<1> USE DEF supervisorVars, catalogVars
<1>1. LifeInv /\ LifeInv' /\ Typed
  BY LifeStep DEF HotInv, LifeInv
<1>2. CASE UNCHANGED vars \/ CatalogStep \/ Share \/ SharersEnd
  BY <1>1, <1>2, HotStays
     DEF vars, HotInv, ActiveRows, Share, SharersEnd, CatalogStep, InstallBuiltin, CreateDeployment, CreateRevision
<1>3. ASSUME NEW o \in Requests, RequestStep(o) PROVE HotInv'
  <2>7. CASE AbortVictim(o)
    BY <1>1, <2>7, WaitsIs, HotStays DEF Waits, HotInv, ActiveRows
  <2>1. CASE CandidateReady(o) \/ CandidateFails(o) \/ RollBack(o) \/ StopDrained(o)
    <3>1. \A e \in Epochs : process'[e] = "dead" => process[e] = "dead"
      BY <1>1, <2>1, TypedIs DEF CandidateReady, CandidateFails, RollBack, StopDrained
    <3> QED BY <1>1, <2>1, <3>1, HotStays
            DEF CandidateReady, CandidateFails, RollBack, StopDrained, HotInv, ActiveRows
  <2>2. CASE CommitActivation(o)
    <3>1. req[o].epoch \in Epochs /\ rows' = [StopActive(rows) EXCEPT ![req[o].epoch] = "ACTIVE"]
      BY <1>1, <2>2, TypedIs DEF CommitActivation, LifeInv, RequestOK, Candidate
    <3>2. ActiveRows' # {}
      BY <1>1, <3>1, TypedIs, StopActiveIs DEF ActiveRows
    <3> QED BY <1>1, <2>2, <3>2, HotStays DEF CommitActivation
  <2>3. CASE CommitFailure(o)
    <3>1. /\ req[o].epoch \in Epochs /\ req[o].epoch \notin UsedEpochs
          /\ rows' = [rows EXCEPT ![req[o].epoch] = "FAILED"]
      BY <1>1, <2>3, TypedIs DEF CommitFailure, LifeInv, RequestOK, Candidate, Epochs
    <3>2. ActiveRows' = ActiveRows
      BY <1>1, <3>1, TypedIs DEF ActiveRows, UsedEpochs
    <3> QED BY <1>1, <2>3, <3>2, HotStays DEF CommitFailure, HotInv
  <2>4. CASE CommitDeactivation(o)
    BY <1>1, <2>4, HotStays DEF CommitDeactivation
  <2>5. CASE RemoveRunner(o)
    BY <1>1, <2>5, HotStays DEF RemoveRunner, HotInv, ActiveRows
  <2>6. CASE SwapRunner(o)
    <3>1. last_epoch < last_epoch' /\ last_epoch' \in Nat /\ last_epoch \in Nat
      BY <1>1, <2>6, TypedIs DEF SwapRunner, LifeInv, RequestOK, Committed, Epochs
    <3>2. \A e \in Epochs : process[e] = "dead" => e <= last_epoch'
      BY <3>1 DEF HotInv, Epochs
    <3> QED BY <1>1, <2>6, <3>2 DEF SwapRunner, HotInv, ActiveRows
  <2> QED BY <1>3, <2>1, <2>2, <2>3, <2>4, <2>5, <2>6, <2>7 DEF RequestStep
<1>4. ASSUME NEW o \in Requests,
             (\E r \in Revisions : LoadDeployment(o, r)) \/ BeginDeactivation(o) \/ LockGranted(o)
      PROVE  HotInv'
  <2>1. CASE Waits(o)
    BY <1>1, <2>1, WaitsIs, HotStays DEF HotInv, ActiveRows
  <2>2. CASE (\E r \in Revisions : LoadDeployment(o, r)) \/ PrepareActivation(o) \/ PrepareDeactivation(o)
    <3>1. \A e \in Epochs : process'[e] = "dead" => process[e] = "dead"
      BY <1>1, <2>2, TypedIs DEF LoadDeployment, PrepareActivation, PrepareDeactivation
    <3> QED BY <1>1, <2>2, <3>1, HotStays
            DEF LoadDeployment, PrepareActivation, PrepareDeactivation, HotInv, ActiveRows
  <2> QED BY <1>4, <2>1, <2>2 DEF Waits, LockGranted
<1>5. ASSUME NEW w \in Workers, Route(w) \/ CallStep(w) PROVE HotInv'
  <2>1. CASE CallFails(w)
    <3>1. call[w].process <= last_epoch
      BY <1>1, <2>1, TypedIs DEF CallFails, LifeInv, CallOK
    <3> QED BY <1>1, <2>1, <3>1, TypedIs DEF CallFails, HotInv, ActiveRows
  <2>2. CASE Route(w) \/ Acquire(w) \/ CallAnswered(w) \/ TakeResult(w)
    BY <1>1, <2>2, HotStays DEF Route, Acquire, CallAnswered, TakeResult, HotInv, ActiveRows
  <2> QED BY <1>5, <2>1, <2>2 DEF CallStep
<1>6. CASE Crash \/ Shutdown
  BY <1>1, <1>6 DEF Crash, Shutdown, NothingRuns, HotInv, ActiveRows
<1>7. CASE Restore
  <2>0. app = "down" /\ last_epoch = 0 /\ \A e \in Epochs : process[e] = "none"
    BY <1>1, <1>7 DEF Restore, RestoreActive, RestoreFails, NothingToRestore, LifeInv, Down
  <2>1. CASE RestoreActive
    <3>1. ActiveRows' # {}
      BY <1>1, <2>1, TypedIs, StopActiveIs DEF RestoreActive, ActiveRows
    <3>2. \A e \in Epochs : process'[e] # "dead"
      BY <1>1, <2>0, <2>1, TypedIs DEF RestoreActive
    <3> QED BY <1>1, <3>1, <3>2 DEF HotInv
  <2>2. CASE RestoreFails
    <3>1. NextEpoch \in Epochs /\ NextEpoch \notin UsedEpochs
      BY <1>1, <2>2, NextIs, TypedIs DEF RestoreFails, LifeInv, Epochs
    <3>2. ActiveRows' = ActiveRows
      BY <1>1, <2>2, <3>1, TypedIs DEF RestoreFails, ActiveRows, UsedEpochs
    <3> QED BY <1>1, <2>2, <3>2, HotStays DEF RestoreFails, HotInv
  <2>3. CASE NothingToRestore
    BY <1>1, <2>3, HotStays DEF NothingToRestore, HotInv, ActiveRows
  <2> QED BY <1>7, <2>1, <2>2, <2>3 DEF Restore
<1> QED BY <1>2, <1>3, <1>4, <1>5, <1>6, <1>7 DEF Next

LEMMA HotInvariant == Spec => []HotInv
<1>1. Init => HotInv
  BY LifeInit DEF Init, HotInv
<1>2. HotInv /\ [Next]_vars => HotInv'
  BY HotStep
<1> QED BY <1>1, <1>2, PTL DEF Spec

LEMMA LifeIs ==
  ASSUME NEW e \in Epochs, rows[e] \in PluginActivationStatus
  PROVE  /\ Life(e) = "unborn" <=> rows[e] = "NONE"
         /\ Life(e) = "rejected" <=> rows[e] = "FAILED"
         /\ e \in Activated /\ e = registered => Life(e) = "serving"
         /\ e \in Activated /\ e # registered /\ process[e] = "none" => Life(e) = "gone"
         /\ e \in Activated /\ e # registered /\ process[e] # "none" =>
              Life(e) = IF e > last_epoch THEN "chosen" ELSE "retiring"
         /\ e \in Activated \/ Life(e) \in {"unborn", "rejected"}
BY DEF Life, Activated, PluginActivationStatus

\* What is chosen is the activation of a request that has committed and not swapped.
LEMMA ChosenIs ==
  ASSUME HotInv, NEW e \in Epochs, Life(e) = "chosen"
  PROVE  \E o \in Requests : req[o].at = "committed" /\ ~Deactivates(o) /\ req[o].epoch = e
<1>1. /\ Typed /\ rows[e] \in PluginActivationStatus /\ last_epoch \in Nat
      /\ process[e] \in {"none", "starting", "running", "dead"}
  BY TypedIs DEF HotInv, LifeInv
<1>2. e \in Activated /\ e # registered /\ e > last_epoch /\ process[e] # "none"
  BY <1>1 DEF Life, Activated, PluginActivationStatus
<1>3. process[e] \in {"starting", "running"}
  BY <1>1, <1>2 DEF HotInv, Epochs
<1>4. PICK o \in Requests : Owns(o, e)
  BY <1>2, <1>3 DEF HotInv, LifeInv, NoOrphanProcess, Owns
<1>5. RequestOK(o) /\ req[o] \in RequestType
  BY <1>1, TypedIs DEF HotInv, LifeInv
<1>6. e \in UsedEpochs /\ e # 0
  BY <1>2 DEF Activated, UsedEpochs, Epochs
<1>7. ~(req[o].old = e /\ req[o].at \in {"committed", "draining"})
  BY <1>1, <1>2, <1>5, <1>6 DEF RequestOK, Leaving, Committed, Epochs
<1>8. req[o].epoch = e /\ req[o].at \in {"starting", "ready", "committed"}
  BY <1>4, <1>7 DEF Owns
<1>9. ~Deactivates(o)
  BY <1>5, <1>6, <1>8 DEF RequestOK, Leaving, Candidate
<1>10. req[o].at \notin {"starting", "ready"}
  <2>1. e \in 1..(e - 1) => FALSE
    BY <1>6 DEF Epochs
  <2> QED BY <1>5, <1>6, <1>8, <1>9, <2>1 DEF RequestOK, Candidate
<1> QED BY <1>8, <1>9, <1>10

LEMMA NoneChosen ==
  ASSUME HotInv, ~Activating
  PROVE  \A e \in Epochs : Life(e) # "chosen"
BY ChosenIs DEF Activating

LEMMA NewestIs ==
  ASSUME LifeInv, NEW n \in Epochs, UsedEpochs = 1..(n - 1)
  PROVE  Promise!Newest(n) /\ rows[n] = "NONE"
<1>1. rows \in [Epochs -> PluginActivationStatus]
  BY TypedIs DEF LifeInv
<1>2. \A e \in Epochs : rows[e] = "NONE" <=> e >= n
  BY DEF UsedEpochs, Epochs
<1> QED BY <1>1, <1>2, LifeIs DEF Promise!Newest, Epochs

\* What the callers see of a step that leaves the runners as they are
LEMMA Unseen ==
  ASSUME Typed, UNCHANGED <<rows, registered, last_epoch>>,
         \A e \in Activated : process'[e] = "none" <=> process[e] = "none"
  PROVE  /\ \A e \in Epochs : Life(e)' = Life(e)
         /\ Named' = Named
<1>1. ASSUME NEW e \in Epochs PROVE Life(e)' = Life(e)
  <2>1. CASE rows[e] = "NONE" \/ rows[e] = "FAILED"
    BY <2>1 DEF Life
  <2>2. CASE rows[e] # "NONE" /\ rows[e] # "FAILED"
    <3>1. e \in Activated
      BY <2>2, TypedIs DEF Activated, PluginActivationStatus
    <3> QED BY <3>1 DEF Life
  <2> QED BY <2>1, <2>2
<1> QED BY <1>1 DEF Named, ActiveRows

LEMMA UnseenStep ==
  ASSUME \A e \in Epochs : Life(e)' = Life(e), Named' = Named,
         \A w \in Workers : With(w)' = With(w)
  PROVE  UNCHANGED Promise!vars
BY DEF Promise!vars

\* A step of a request before it commits, and the end of one that does not
LEMMA HotUnseen ==
  ASSUME HotInv, UNCHANGED <<rows, registered, last_epoch, call>>,
         \A e \in Activated : process'[e] = "none" <=> process[e] = "none"
  PROVE  UNCHANGED Promise!vars
<1>1. Typed
  BY DEF HotInv, LifeInv
<1> QED BY <1>1, Unseen, UnseenStep DEF With

LEMMA HotQuiet ==
  ASSUME HotInv, NEW o \in Requests,
         \/ \E r \in Revisions : LoadDeployment(o, r)
         \/ Waits(o) \/ PrepareActivation(o) \/ PrepareDeactivation(o)
         \/ CandidateReady(o) \/ CandidateFails(o) \/ RollBack(o)
  PROVE  UNCHANGED Promise!vars
<1> USE DEF supervisorVars, catalogVars
<1>1. Typed /\ LifeInv /\ RequestOK(o)
  BY DEF HotInv, LifeInv
<1>2. UNCHANGED <<rows, registered, last_epoch, call>>
  BY WaitsIs DEF LoadDeployment, PrepareActivation, PrepareDeactivation,
                 CandidateReady, CandidateFails, RollBack
<1>3. ASSUME NEW n \in Epochs, UsedEpochs = 1..(n - 1) PROVE n \notin Activated
  BY <1>3 DEF Activated, UsedEpochs, Epochs
<1>4. process' = process \/ \E n \in Epochs \ Activated : \E x : process' = [process EXCEPT ![n] = x]
  <2>1. CASE PrepareActivation(o)
    <3>1. NextEpoch \in Epochs /\ UsedEpochs = 1..(NextEpoch - 1)
      BY <1>1, <2>1, NextIs, TypedIs DEF PrepareActivation, Locks, LifeInv
    <3> QED BY <1>3, <2>1, <3>1 DEF PrepareActivation
  <2>2. CASE CandidateReady(o) \/ CandidateFails(o) \/ RollBack(o)
    <3>1. CASE process' = process
      BY <3>1
    <3>2. CASE process' # process
      <4>1. req[o].at \in {"starting", "ready"} /\ ~Deactivates(o)
        BY <1>1, <2>2, <3>2 DEF CandidateReady, CandidateFails, RollBack, RequestOK, Candidate
      <4>2. req[o].epoch \in Epochs /\ UsedEpochs = 1..(req[o].epoch - 1)
        BY <1>1, <4>1 DEF RequestOK, Candidate
      <4> QED BY <1>3, <2>2, <3>2, <4>2 DEF CandidateReady, CandidateFails, RollBack
    <3> QED BY <3>1, <3>2
  <2>3. CASE ~PrepareActivation(o) /\ ~CandidateReady(o) /\ ~CandidateFails(o) /\ ~RollBack(o)
    BY <2>3, WaitsIs DEF LoadDeployment, PrepareDeactivation
  <2> QED BY <2>1, <2>2, <2>3
<1>5. \A e \in Activated : process'[e] = process[e]
  BY <1>1, <1>4, TypedIs DEF Activated
<1> QED BY <1>2, <1>5, HotUnseen

\* A row is committed, of an activation or of a failed attempt.
LEMMA HotRow ==
  ASSUME HotInv, LifeInv', NEW n \in Epochs, UsedEpochs = 1..(n - 1), n # registered,
         UNCHANGED <<registered, last_epoch, process, call>>,
         \A e \in Epochs : e # n =>
           /\ rows'[e] = "NONE" <=> rows[e] = "NONE"
           /\ rows'[e] = "FAILED" <=> rows[e] = "FAILED"
  PROVE  /\ Promise!Newest(n) /\ n \notin Activated
         /\ [e \in Epochs |-> Life(e)]' = [[e \in Epochs |-> Life(e)] EXCEPT ![n] = Life(n)']
         /\ [w \in Workers |-> With(w)]' = [w \in Workers |-> With(w)]
<1>1. Promise!Newest(n) /\ n \notin Activated
  BY NewestIs DEF HotInv, Activated
<1>2. \A e \in Epochs : e # n => Life(e)' = Life(e)
  BY DEF Life
<1> QED BY <1>1, <1>2 DEF With

LEMMA HotChoose ==
  ASSUME HotInv, LifeInv', NEW o \in Requests, CommitActivation(o) PROVE Promise!Next
<1>1. Typed /\ LifeInv /\ RequestOK(o) /\ req[o].at = "ready" /\ ~Deactivates(o)
  BY DEF HotInv, LifeInv, CommitActivation
<1>0. PICK n \in Epochs : n = req[o].epoch
  BY <1>1 DEF RequestOK, Candidate
<1>2. /\ n \in Epochs /\ UsedEpochs = 1..(n - 1) /\ last_epoch < n /\ pending = o /\ Alive(n)
  BY <1>0, <1>1 DEF RequestOK, Candidate, Ordered
<1>3. rows' = [StopActive(rows) EXCEPT ![n] = "ACTIVE"] /\ UNCHANGED supervisorVars /\ UNCHANGED call
  BY <1>0 DEF CommitActivation
<1>4. /\ rows'[n] = "ACTIVE"
      /\ \A e \in Epochs : e # n =>
           /\ rows'[e] = "NONE" <=> rows[e] = "NONE"
           /\ rows'[e] = "FAILED" <=> rows[e] = "FAILED"
           /\ rows'[e] # "ACTIVE"
  BY <1>1, <1>2, <1>3, TypedIs, StopActiveIs DEF StopActive
<1>5. registered < n /\ last_epoch \in Nat
  BY <1>1, <1>2, TypedIs DEF LifeInv, Runner, Epochs
<1>6. Life(n)' = "chosen"
  BY <1>2, <1>3, <1>4, <1>5 DEF Life, supervisorVars, Alive, Epochs
<1>7. Named' = n
  <2>1. ActiveRows' = {n}
    BY <1>2, <1>4 DEF ActiveRows
  <2> QED BY <2>1 DEF Named
<1>8. \A e \in Epochs : Life(e) # "chosen"
  BY <1>1, <1>2, Alone, NoneChosen DEF Activating
<1>9. Promise!Choose(n)
  BY <1>2, <1>3, <1>4, <1>5, <1>6, <1>7, <1>8, HotRow DEF Promise!Choose, supervisorVars, Epochs
<1> QED BY <1>2, <1>9 DEF Promise!Next

LEMMA HotReject ==
  ASSUME HotInv, LifeInv', NEW n \in Epochs, UsedEpochs = 1..(n - 1),
         rows' = [rows EXCEPT ![n] = "FAILED"], UNCHANGED supervisorVars, UNCHANGED call
  PROVE  Promise!Next
<1>1. Typed /\ LifeInv /\ rows \in [Epochs -> PluginActivationStatus]
  BY TypedIs DEF HotInv, LifeInv
<1>2. n \notin UsedEpochs /\ n # registered
  <2>1. n \notin UsedEpochs
    BY DEF Epochs
  <2> QED BY <1>1, <2>1 DEF LifeInv, Runner, Activated, UsedEpochs, Epochs
<1>3. ActiveRows' = ActiveRows
  BY <1>1, <1>2 DEF ActiveRows, UsedEpochs
<1>4. Life(n)' = "rejected" /\ Named' = Named
  BY <1>1, <1>3 DEF Life, Named
<1>5. Promise!Reject(n)
  BY <1>1, <1>2, <1>4, HotRow DEF Promise!Reject, supervisorVars
<1> QED BY <1>5 DEF Promise!Next

LEMMA HotWithdraw ==
  ASSUME HotInv, NEW o \in Requests, CommitDeactivation(o) PROVE Promise!Next
<1>1. Typed /\ LifeInv /\ RequestOK(o) /\ req[o].at = "ready" /\ pending = o
  BY DEF HotInv, LifeInv, CommitDeactivation, RequestOK, Ordered
<1>2. rows' = StopActive(rows) /\ UNCHANGED supervisorVars /\ UNCHANGED call
  BY DEF CommitDeactivation
<1>3. \A e \in Epochs : /\ rows'[e] # "ACTIVE"
                        /\ rows'[e] = "NONE" <=> rows[e] = "NONE"
                        /\ rows'[e] = "FAILED" <=> rows[e] = "FAILED"
  BY <1>1, <1>2, TypedIs DEF StopActive
<1>4. /\ \A e \in Epochs : Life(e)' = Life(e) /\ Life(e) # "chosen"
      /\ Named' = 0
  <2>1. \A e \in Epochs : Life(e) # "chosen"
    BY <1>1, Alone, NoneChosen DEF Activating
  <2>2. ActiveRows' = {}
    BY <1>3 DEF ActiveRows
  <2> QED BY <1>2, <1>3, <2>1, <2>2 DEF Life, Named, supervisorVars
<1>5. Promise!Withdraw
  BY <1>2, <1>4 DEF Promise!Withdraw, With
<1> QED BY <1>5 DEF Promise!Next

LEMMA HotSwap == ASSUME HotInv, NEW o \in Requests, SwapRunner(o) PROVE Promise!Next
<1>1. Typed /\ LifeInv /\ RequestOK(o) /\ req[o].at = "committed" /\ ~Deactivates(o) /\ pending = o
  BY DEF HotInv, LifeInv, SwapRunner, RequestOK, Ordered
<1>2. PICK n \in Epochs : n = req[o].epoch
  BY <1>1 DEF RequestOK, Committed
<1>3. /\ last_epoch < n /\ ActiveRows = {n} /\ Alive(n) /\ \A e \in Activated : e <= n
      /\ n \in Activated
  BY <1>1, <1>2 DEF RequestOK, Committed, ActiveRows, Activated
<1>4. last_epoch' = n /\ registered' = n /\ UNCHANGED <<rows, process, call>>
  BY <1>2 DEF SwapRunner, catalogVars
<1>5. rows \in [Epochs -> PluginActivationStatus] /\ registered \in Nat /\ last_epoch \in Nat
  BY <1>1, TypedIs
<1>6. registered <= last_epoch /\ (registered # 0 => registered \in Epochs /\ Alive(registered))
  BY <1>1 DEF LifeInv, Runner, Activated
<1>7. Life(n) = "chosen" /\ Life(n)' = "serving" /\ Named = n
  BY <1>3, <1>4, <1>5, <1>6 DEF Life, Alive, ActiveRows, Named, Epochs
<1>8. ASSUME NEW e \in Epochs, e # n
      PROVE  Life(e)' = IF Life(e) = "serving" THEN "retiring" ELSE Life(e)
  <2>1. CASE e \notin Activated
    BY <1>4, <1>5, <2>1 DEF Life, Activated, PluginActivationStatus
  <2>2. CASE e \in Activated /\ e = registered
    BY <1>3, <1>4, <1>5, <1>6, <1>8, <2>2, LifeIs DEF Life, Alive, Activated, Epochs
  <2>3. CASE e \in Activated /\ e # registered /\ process[e] = "none"
    BY <1>4, <1>5, <1>8, <2>3 DEF Life, Activated
  <2>4. CASE e \in Activated /\ e # registered /\ process[e] # "none"
    <3>1. Life(e) # "chosen"
      <4> SUFFICES ASSUME Life(e) = "chosen" PROVE FALSE
        OBVIOUS
      <4>1. PICK u \in Requests : req[u].at = "committed" /\ req[u].epoch = e
        BY ChosenIs
      <4> QED BY <1>1, <1>2, <1>8, <4>1, Alone
    <3>2. e <= last_epoch /\ e <= n
      BY <1>3, <1>5, <2>4, <3>1, LifeIs DEF Epochs
    <3> QED BY <1>3, <1>4, <1>5, <1>8, <2>4, <3>2 DEF Life, Activated, Epochs
  <2> QED BY <2>1, <2>2, <2>3, <2>4
<1>9. Named' = Named /\ \A w \in Workers : With(w)' = With(w)
  BY <1>4 DEF Named, ActiveRows, With
<1>10. Promise!Swap(n)
  BY <1>7, <1>8, <1>9 DEF Promise!Swap
<1> QED BY <1>10 DEF Promise!Next

LEMMA HotClose ==
  ASSUME HotInv, NEW o \in Requests, RemoveRunner(o)
  PROVE  Promise!Next \/ UNCHANGED Promise!vars
<1>1. Typed /\ LifeInv /\ RequestOK(o) /\ req[o].at = "committed" /\ Deactivates(o)
  BY DEF HotInv, LifeInv, RemoveRunner
<1>2. ActiveRows = {} /\ registered' = 0 /\ UNCHANGED <<rows, process, last_epoch, call>>
  BY <1>1 DEF RequestOK, Committed, Leaving, RemoveRunner, catalogVars
<1>3. Named = 0 /\ Named' = 0 /\ \A w \in Workers : With(w)' = With(w)
  BY <1>2 DEF Named, ActiveRows, With
<1>4. CASE registered = 0
  BY <1>1, <1>2, <1>4, HotUnseen
<1>5. CASE registered # 0
  <2>1. PICK v \in Epochs : v = registered
    BY <1>1, <1>5 DEF LifeInv, Runner, Activated
  <2>2. v \in Activated /\ Alive(v) /\ v <= last_epoch /\ last_epoch \in Nat
    BY <1>1, <1>5, <2>1, TypedIs DEF LifeInv, Runner
  <2>3. Life(v) = "serving" /\ Life(v)' = "retiring"
    BY <1>2, <2>1, <2>2 DEF Life, Activated, Alive, Epochs
  <2>4. \A e \in Epochs : e # v => Life(e)' = Life(e)
    BY <1>2, <2>1 DEF Life, Epochs
  <2>5. Promise!Close(v)
    BY <1>3, <2>3, <2>4 DEF Promise!Close
  <2> QED BY <2>5 DEF Promise!Next
<1> QED BY <1>4, <1>5

LEMMA HotStop ==
  ASSUME HotInv, NEW o \in Requests, StopDrained(o)
  PROVE  Promise!Next \/ UNCHANGED Promise!vars
<1> DEFINE v == req[o].old
<1>1. Typed /\ LifeInv /\ RequestOK(o) /\ req[o].at = "draining" /\ last_epoch \in Nat
  BY TypedIs DEF HotInv, LifeInv, StopDrained
<1>2. /\ process' = [e \in Epochs |-> IF e = v THEN "none" ELSE process[e]]
      /\ UNCHANGED <<rows, registered, last_epoch, call>> /\ InFlight(v) = {}
  BY DEF StopDrained, catalogVars
<1>3. CASE v \in Activated /\ process[v] # "none"
  <2>1. PICK u \in Epochs : u = v
    BY <1>3 DEF Activated
  <2>2. u # registered /\ u <= last_epoch
    BY <1>1, <2>1 DEF RequestOK, Leaving, Epochs
  <2>3. Life(u) = "retiring" /\ Life(u)' = "gone"
    BY <1>1, <1>2, <1>3, <2>1, <2>2 DEF Life, Activated, Epochs
  <2>4. \A e \in Epochs : e # u => Life(e)' = Life(e)
    BY <1>2, <2>1 DEF Life
  <2>5. /\ Named' = Named /\ \A w \in Workers : With(w)' = With(w) /\ With(w) # u
    BY <1>2, <2>1 DEF Named, ActiveRows, With, InFlight, Epochs
  <2>6. Promise!Stop(u)
    BY <2>3, <2>4, <2>5 DEF Promise!Stop
  <2> QED BY <2>6 DEF Promise!Next
<1>4. CASE ~(v \in Activated /\ process[v] # "none")
  <2>1. \A e \in Activated : process'[e] = "none" <=> process[e] = "none"
    BY <1>2, <1>4 DEF Activated
  <2> QED BY <1>2, <2>1, HotUnseen
<1> QED BY <1>3, <1>4

LEMMA HotCall ==
  ASSUME HotInv, NEW w \in Workers, Route(w) \/ CallStep(w)
  PROVE  Promise!Next \/ UNCHANGED Promise!vars
<1> USE DEF catalogVars, supervisorVars
<1>1. Typed /\ LifeInv /\ call \in [Workers -> CallType]
  BY TypedIs DEF HotInv, LifeInv
<1>2. /\ UNCHANGED <<rows, registered, last_epoch>>
      /\ \A u \in Workers : u # w => With(u)' = With(u)
  BY <1>1 DEF Route, CallStep, Acquire, CallAnswered, CallFails, TakeResult, With
<1>3. \A e \in Activated : process'[e] = "none" <=> process[e] = "none"
  <2>1. CASE CallFails(w)
    <3>1. call[w].process \in Epochs /\ Alive(call[w].process)
      BY <1>1, <2>1, TypedIs DEF CallFails, LifeInv, CallOK, Epochs
    <3> QED BY <1>1, <2>1, <3>1, TypedIs DEF CallFails, Alive, Activated
  <2>2. CASE ~CallFails(w)
    BY <2>2 DEF Route, CallStep, Acquire, CallAnswered, TakeResult
  <2> QED BY <2>1, <2>2
<1>4. /\ \A e \in Epochs : Life(e)' = Life(e)
      /\ Named' = Named
  BY <1>1, <1>2, <1>3, Unseen
<1>5. CASE Acquire(w)
  <2>1. CASE With(w)' = With(w)
    BY <1>2, <1>4, <2>1, UnseenStep
  <2>2. CASE With(w)' # With(w)
    <3>1. call[w].at = "routed" /\ registered # 0 /\ With(w) = 0 /\ With(w)' = registered
      BY <1>1, <1>5, <2>2 DEF Acquire, With, IdleCall, CallType
    <3>2. PICK v \in Epochs : v = registered
      BY <1>1, <3>1 DEF LifeInv, Runner, Activated
    <3>3. Life(v) = "serving"
      BY <1>1, <3>1, <3>2 DEF LifeInv, Runner, Activated, Life
    <3>4. Promise!Begin(w, v)
      BY <1>2, <1>4, <3>1, <3>2, <3>3 DEF Promise!Begin
    <3> QED BY <3>4 DEF Promise!Next
  <2> QED BY <2>1, <2>2
<1>6. CASE ~Acquire(w)
  <2>1. With(w)' \in {0, With(w)}
    BY <1>1, <1>6 DEF Route, CallStep, CallAnswered, CallFails, TakeResult, With, IdleCall, CallType
  <2>2. CASE With(w)' = With(w)
    BY <1>2, <1>4, <2>2, UnseenStep
  <2>3. CASE With(w)' = 0
    <3>1. Promise!End(w)
      BY <1>2, <1>4, <2>3 DEF Promise!End
    <3> QED BY <3>1 DEF Promise!Next
  <2> QED BY <2>1, <2>2, <2>3
<1> QED BY <1>5, <1>6

LEMMA HotPerish == ASSUME HotInv, Crash PROVE Promise!Next
<1>1. Typed /\ LifeInv /\ rows \in [Epochs -> PluginActivationStatus]
  BY TypedIs DEF HotInv, LifeInv
<1>2. /\ UNCHANGED rows /\ registered' = 0 /\ \A e \in Epochs : process'[e] = "none"
      /\ \A w \in Workers : With(w)' = 0
  BY DEF Crash, NothingRuns, catalogVars, With, IdleCall
<1>3. ASSUME NEW e \in Epochs
      PROVE  Life(e)' = IF Life(e) \in {"chosen", "serving", "retiring"} THEN "gone" ELSE Life(e)
  BY <1>1, <1>2 DEF Life, PluginActivationStatus, Epochs
<1>4. Named' = Named
  BY <1>2 DEF Named, ActiveRows
<1>5. Promise!Perish
  BY <1>2, <1>3, <1>4 DEF Promise!Perish, Promise!Alive
<1> QED BY <1>5 DEF Promise!Next

LEMMA HotRestore == ASSUME HotInv, LifeInv', RestoreActive PROVE Promise!Next
<1>1. Typed /\ LifeInv /\ rows \in [Epochs -> PluginActivationStatus]
  BY TypedIs DEF HotInv, LifeInv
<1>2. PICK n \in Epochs : n = NextEpoch
  BY DEF RestoreActive
<1>3. UsedEpochs = 1..(n - 1)
  BY <1>1, <1>2, NextIs, TypedIs DEF LifeInv
<1>4. registered = 0 /\ \A e \in Epochs : process[e] = "none"
  BY <1>1 DEF LifeInv, Down, RestoreActive
<1>5. /\ rows' = [StopActive(rows) EXCEPT ![n] = "ACTIVE"]
      /\ registered' = n /\ process' = [process EXCEPT ![n] = "running"] /\ UNCHANGED call
  BY <1>2 DEF RestoreActive
<1>6. /\ rows'[n] = "ACTIVE"
      /\ \A e \in Epochs : e # n =>
           /\ rows'[e] = "NONE" <=> rows[e] = "NONE"
           /\ rows'[e] = "FAILED" <=> rows[e] = "FAILED"
           /\ rows'[e] # "ACTIVE" /\ process'[e] = "none"
  BY <1>1, <1>4, <1>5, TypedIs, StopActiveIs DEF StopActive
<1>7. Life(n)' = "serving" /\ \A e \in Epochs : e # n => Life(e)' = Life(e)
  BY <1>4, <1>5, <1>6 DEF Life, Epochs
<1>8. Promise!Newest(n)
  BY <1>1, <1>3, NewestIs
<1>9. \A e \in Epochs : Life(e) \notin {"chosen", "serving", "retiring"}
  BY <1>4 DEF Life, Epochs
<1>10. Named # 0 /\ Named' = n /\ \A w \in Workers : With(w)' = With(w)
  <2>1. ActiveRows # {} /\ ActiveRows \subseteq Epochs
    BY DEF RestoreActive, HotInv, ActiveRows
  <2>2. Named \in ActiveRows
    BY <2>1 DEF Named
  <2>3. ActiveRows' = {n}
    BY <1>6 DEF ActiveRows
  <2>4. Named' = n
    BY <2>3 DEF Named
  <2> QED BY <1>5, <2>1, <2>2, <2>4 DEF Epochs, With
<1>11. Promise!Restore(n)
  BY <1>7, <1>8, <1>9, <1>10 DEF Promise!Restore, Promise!Alive
<1> QED BY <1>11 DEF Promise!Next

LEMMA HotswapStep ==
  ASSUME HotInv, LifeInv', [Next]_vars
  PROVE  Promise!Next \/ UNCHANGED Promise!vars
<1> USE DEF supervisorVars, catalogVars
<1>1. CASE UNCHANGED vars \/ CatalogStep \/ NothingToRestore \/ Share \/ SharersEnd
  BY <1>1, HotUnseen
     DEF vars, Share, SharersEnd, CatalogStep, InstallBuiltin, CreateDeployment, CreateRevision, NothingToRestore
<1>2. ASSUME NEW o \in Requests, CommitFailure(o) PROVE Promise!Next
  <2>1. RequestOK(o) /\ req[o].at = "failed"
    BY <1>2 DEF HotInv, LifeInv, CommitFailure
  <2>2. PICK n \in Epochs : n = req[o].epoch /\ UsedEpochs = 1..(n - 1)
    BY <2>1 DEF RequestOK, Candidate
  <2> QED BY <1>2, <2>2, HotReject DEF CommitFailure
<1>3. CASE RestoreFails
  <2>1. PICK n \in Epochs : n = NextEpoch /\ UsedEpochs = 1..(n - 1)
    BY <1>3, NextIs, TypedIs DEF RestoreFails, HotInv, LifeInv
  <2> QED BY <1>3, <2>1, HotReject DEF RestoreFails
<1>4. ASSUME NEW o \in Requests, RequestStep(o) PROVE Promise!Next \/ UNCHANGED Promise!vars
  BY <1>2, <1>4, HotQuiet, HotChoose, HotWithdraw, HotSwap, HotClose, HotStop DEF RequestStep, Waits
<1>5. ASSUME NEW o \in Requests,
             (\E r \in Revisions : LoadDeployment(o, r)) \/ BeginDeactivation(o) \/ LockGranted(o)
      PROVE  UNCHANGED Promise!vars
  BY <1>5, HotQuiet DEF LockGranted, Waits
<1> QED BY <1>1, <1>3, <1>4, <1>5, HotCall, HotPerish, HotRestore DEF Next, Restore, Shutdown

\* The deployment serves its callers as Hotswap promises, however activations,
\* deactivations, failed starts and commits, calls and restarts interleave: a version
\* serves after its row was committed (CommitActivation, SwapRunner), one at a time, as
\* long as a call is with it (StopDrained), and never again.
THEOREM LifecycleRefinesHotswap == Spec => ImplementsHotswap
<1>1. Init => Promise!Init
  BY DEF Init, Promise!Init, Life, Named, ActiveRows, With, IdleCall
<1>2. HotInv /\ LifeInv' /\ [Next]_vars => [Promise!Next]_Promise!vars
  BY HotswapStep
<1> QED BY <1>1, <1>2, HotInvariant, LifeInvariant, PTL DEF Spec, ImplementsHotswap, Promise!Spec
=============================================================================
