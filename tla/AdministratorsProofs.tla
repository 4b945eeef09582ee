------------------------ MODULE AdministratorsProofs ------------------------
(***************************************************************************)
(* Proofs about Administrators, for any number of users, roles, sessions   *)
(* and concurrent requests.                                                *)
(***************************************************************************)
EXTENDS Administrators, TLAPS

-----------------------------------------------------------------------------
(* The types of rows and requests.                                         *)

Fates == {"current", "outdated"}
Statuses == AdminUserStatus \cup {"absent"}
Copies == [status : Statuses, version : 0..MaxVersion]
Steps == {"idle", "bootstrapping", "verified", "authorized", "locked", "changing"}
Operations == {"none", "status", "roles"}

SessionRows ==
  [open : BOOLEAN, user : Users \cup {Nobody}, version : 0..MaxVersion, fate : Fates]
Requests ==
  [at : Steps, op : Operations, actor : Users \cup {Nobody}, owner : BOOLEAN,
   session : Sessions \cup {Nobody}, user : Users \cup {Nobody},
   seen : Copies, to : Statuses, codes : SUBSET RoleCodes, holds : SUBSET RoleCodes,
   fate : Fates]

Typed ==
  /\ bootstraps \in Nat
  /\ status \in [Users -> Statuses]
  /\ version \in [Users -> 0..MaxVersion]
  /\ roles \in [Users -> SUBSET RoleCodes]
  /\ created \in SUBSET OtherRoles
  /\ session \in [Sessions -> SessionRows]
  /\ txn \in [Txns -> Requests]

LEMMA IdleTyped == Idle \in Requests
BY VersionAssumption
   DEF Idle, Requests, Steps, Operations, Copies, Statuses, Fates

LEMMA ClosedTyped == Closed \in SessionRows
BY VersionAssumption DEF Closed, SessionRows, Fates

LEMMA RowTyped == ASSUME Typed, NEW u \in Users PROVE Row(u) \in Copies
BY DEF Typed, Row, Copies

\* The request as BeginBootstrap, BeginLogin and Authenticate start it
LEMMA Started ==
  ASSUME NEW at \in Steps, NEW u \in Users, NEW c \in Copies, NEW s \in Sessions,
         NEW owner \in BOOLEAN
  PROVE  /\ [Idle EXCEPT !.at = at, !.user = u] \in Requests
         /\ [Idle EXCEPT !.at = at, !.user = u, !.seen = c] \in Requests
         /\ [Idle EXCEPT !.at = at, !.actor = u, !.session = s, !.owner = owner] \in Requests
<1> DEFINE i == Idle
<1>1. i \in Requests
  BY IdleTyped
<1> HIDE DEF i
<1>2. [i EXCEPT !.at = at, !.user = u] \in Requests
  BY <1>1 DEF Requests
<1>3. [i EXCEPT !.at = at, !.user = u, !.seen = c] \in Requests
  BY <1>1 DEF Requests
<1>4. [i EXCEPT !.at = at, !.actor = u, !.session = s, !.owner = owner] \in Requests
  BY <1>1 DEF Requests
<1> QED BY <1>2, <1>3, <1>4 DEF i

\* A request keeps everything but what it knows of a login's fate.
Kept(t) ==
  /\ txn'[t].at = txn[t].at /\ txn'[t].op = txn[t].op /\ txn'[t].actor = txn[t].actor
  /\ txn'[t].session = txn[t].session
  /\ txn'[t].user = txn[t].user /\ txn'[t].seen = txn[t].seen /\ txn'[t].to = txn[t].to
  /\ txn'[t].codes = txn[t].codes /\ txn'[t].holds = txn[t].holds

LEMMA EndIs ==
  ASSUME Typed, NEW t \in Txns, End(t)
  PROVE  /\ txn' \in [Txns -> Requests] /\ txn'[t] = Idle
         /\ \A o \in Txns : o # t => txn'[o] = txn[o]
BY IdleTyped DEF Typed, End

LEMMA LockIs ==
  ASSUME Typed, NEW t \in Txns, NEW u \in Users, NEW op \in Operations,
         NEW to \in Statuses, NEW codes \in SUBSET RoleCodes, NEW holds \in SUBSET RoleCodes,
         NEW at \in Steps, Row(u) \in Copies, Lock(t, u, op, to, codes, holds, at)
  PROVE  /\ txn' \in [Txns -> Requests]
         /\ txn'[t].op = op /\ txn'[t].user = u /\ txn'[t].seen = Row(u)
         /\ txn'[t].to = to /\ txn'[t].codes = codes /\ txn'[t].holds = holds
         /\ txn'[t].at = at
         /\ \A o \in Txns : o # t => txn'[o] = txn[o]
<1> DEFINE x == txn[t]
           c == Row(u)
           y == [x EXCEPT !.op = op, !.user = u, !.seen = c, !.to = to,
                          !.codes = codes, !.holds = holds, !.at = at]
<1>1. txn \in [Txns -> Requests] /\ x \in Requests /\ c \in Copies
  BY DEF Typed
<1>2. txn' = [txn EXCEPT ![t] = y]
  BY <1>1 DEF Lock
<1> HIDE DEF x, c
<1>3. /\ y \in Requests
      /\ y.op = op /\ y.user = u /\ y.seen = c /\ y.to = to /\ y.codes = codes
      /\ y.holds = holds /\ y.at = at
  BY <1>1 DEF Requests
<1> HIDE DEF y
<1> QED BY <1>1, <1>2, <1>3 DEF c

-----------------------------------------------------------------------------
(* What each request and each session is about.                            *)

InLocks(t) == txn[t].at \in {"locked", "changing"}

RequestOK(t) ==
  /\ InLocks(t) => /\ txn[t].user \in Users /\ status[txn[t].user] # "absent"
                   /\ txn[t].op \in {"status", "roles"}
                   /\ txn[t].op = "status" => txn[t].to \in AdminUserStatus
                   /\ txn[t].codes \subseteq created \cup {Owner}
  /\ txn[t].at = "authorized" => /\ txn[t].actor \in Users /\ txn[t].session \in Sessions
  /\ txn[t].at = "bootstrapping" => txn[t].user \in Users
  /\ txn[t].at = "verified" => txn[t].user \in Users /\ status[txn[t].user] # "absent"
  /\ txn[t].holds # {} => InLocks(t)

UserOK(u) ==
  /\ version[u] \in (IF status[u] = "absent" THEN {0} ELSE 1..MaxVersion)
  /\ roles[u] \subseteq (IF status[u] = "absent" THEN {} ELSE created \cup {Owner})

SessionOK(s) ==
  session[s].open => session[s].user \in Users /\ status[session[s].user] # "absent"

TypeInv ==
  /\ Typed
  /\ \A t \in Txns : RequestOK(t)
  /\ \A u \in Users : UserOK(u)
  /\ \A s \in Sessions : SessionOK(s)

\* Nobody's row is deleted and no role is either.
Grows == created \subseteq created' /\ \A u \in Users : status[u] # "absent" => status'[u] # "absent"

LEMMA RequestKept ==
  ASSUME TypeInv, NEW t \in Txns, Kept(t), Grows
  PROVE  RequestOK(t)'
BY DEF TypeInv, RequestOK, InLocks, Kept, Grows

LEMMA IdleOK == ASSUME NEW t \in Txns, txn'[t] = Idle PROVE RequestOK(t)'
BY DEF RequestOK, InLocks, Idle

LEMMA SameIsKept == \A t \in Txns : txn'[t] = txn[t] => Kept(t)
BY DEF Kept

\* The requests after one of them ended and the others did not change
LEMMA EndedOK ==
  ASSUME TypeInv, NEW t \in Txns, End(t), Grows
  PROVE  txn' \in [Txns -> Requests] /\ \A o \in Txns : RequestOK(o)'
BY EndIs, RequestKept, IdleOK, SameIsKept DEF TypeInv

\* ... or began something
LEMMA BegunOK ==
  ASSUME TypeInv, NEW t \in Txns, NEW x \in Requests, txn' = [txn EXCEPT ![t] = x],
         Grows, RequestOK(t)'
  PROVE  txn' \in [Txns -> Requests] /\ \A o \in Txns : RequestOK(o)'
<1>1. txn' \in [Txns -> Requests] /\ \A o \in Txns : o # t => txn'[o] = txn[o]
  BY DEF TypeInv, Typed
<1> QED BY <1>1, RequestKept, SameIsKept

\* What _invalidate_users leaves
LEMMA InvalidateIs ==
  ASSUME TypeInv, NEW t \in Txns, NEW users \in SUBSET Users,
         NEW seen \in [users -> Copies],
         \A u \in users : seen[u].version < MaxVersion /\ status[u] # "absent",
         Invalidate(t, users, seen)
  PROVE  /\ version' \in [Users -> 0..MaxVersion]
         /\ \A u \in Users : version'[u] = IF u \in users THEN seen[u].version + 1
                                           ELSE version[u]
         /\ \A u \in users : version'[u] \in 1..MaxVersion
         /\ session' \in [Sessions -> SessionRows]
         /\ \A s \in Sessions : session'[s] = Closed
                              \/ (session'[s] = session[s] /\ session[s].user \notin users)
                              \/ (session'[s] = session[s] /\ ~session[s].open)
         /\ txn' \in [Txns -> Requests] /\ txn'[t] = Idle
         /\ \A o \in Txns \ {t} : Kept(o)
         /\ \A o \in Txns \ {t} :
              txn'[o].fate = IF txn[o].at = "verified" /\ txn[o].user \in users
                             THEN "outdated" ELSE txn[o].fate
<1>1. \A u \in users : seen[u].version + 1 \in 1..MaxVersion
  BY VersionAssumption DEF Copies
<1>2. \A u \in Users : version'[u] = IF u \in users THEN seen[u].version + 1 ELSE version[u]
  BY DEF Invalidate, NextVersion
<1>3. version' \in [Users -> 0..MaxVersion] /\ \A u \in users : version'[u] \in 1..MaxVersion
  <2>1. version' = [u \in Users |-> version'[u]]
    BY DEF Invalidate
  <2>2. version \in [Users -> 0..MaxVersion]
    BY DEF TypeInv, Typed
  <2> QED BY <1>1, <1>2, <2>1, <2>2
<1>4. /\ session' \in [Sessions -> SessionRows]
      /\ \A s \in Sessions : session'[s] = Closed
                             \/ (session'[s] = session[s] /\ session[s].user \notin users)
                             \/ (session'[s] = session[s] /\ ~session[s].open)
  BY ClosedTyped DEF Invalidate, TypeInv, Typed
<1>5. ASSUME NEW o \in Txns \ {t}
      PROVE  /\ txn'[o] \in Requests /\ Kept(o)
             /\ txn'[o].fate = IF txn[o].at = "verified" /\ txn[o].user \in users
                               THEN "outdated" ELSE txn[o].fate
  <2>1. txn[o] \in Requests /\ txn[o].fate \in Fates
    BY DEF TypeInv, Typed, Requests
  <2>2. CASE txn[o].at = "verified" /\ txn[o].user \in users
    <3> DEFINE x == txn[o]
               f == "outdated"
    <3>1. txn'[o] = [x EXCEPT !.fate = f]
      BY <2>2 DEF Invalidate
    <3>2. f \in Fates
      BY DEF Fates
    <3>3. x \in Requests
      BY <2>1
    <3>4. Kept(o) <=> 
            /\ txn'[o].at = x.at /\ txn'[o].op = x.op /\ txn'[o].actor = x.actor
            /\ txn'[o].session = x.session
            /\ txn'[o].user = x.user /\ txn'[o].seen = x.seen /\ txn'[o].to = x.to
            /\ txn'[o].codes = x.codes /\ txn'[o].holds = x.holds
      BY DEF Kept
    <3> HIDE DEF x, f
    <3>5. LET y == [x EXCEPT !.fate = f]
          IN  /\ y \in Requests /\ y.fate = f /\ y.at = x.at /\ y.op = x.op
              /\ y.actor = x.actor /\ y.session = x.session
              /\ y.user = x.user /\ y.seen = x.seen /\ y.to = x.to
              /\ y.codes = x.codes /\ y.holds = x.holds
      BY <3>2, <3>3 DEF Requests
    <3>6. txn'[o] \in Requests /\ txn'[o].fate = f /\ Kept(o)
      BY <3>1, <3>4, <3>5
    <3> QED BY <2>2, <3>6 DEF f, x
  <2>3. CASE ~(txn[o].at = "verified" /\ txn[o].user \in users)
    <3>1. txn'[o] = txn[o]
      BY <2>3 DEF Invalidate
    <3> QED BY <2>1, <2>3, <3>1, SameIsKept
  <2> QED BY <2>2, <2>3
<1>6. txn' \in [Txns -> Requests] /\ txn'[t] = Idle
  <2>1. txn' = [o \in Txns |-> txn'[o]] /\ txn'[t] = Idle
    BY DEF Invalidate
  <2> QED BY <1>5, <2>1, IdleTyped
<1> QED BY <1>2, <1>3, <1>4, <1>5, <1>6

\* ... and what of the requests
LEMMA OthersKept ==
  ASSUME TypeInv, NEW t \in Txns, NEW users, NEW seen, Invalidate(t, users, seen)
  PROVE  txn'[t] = Idle /\ \A o \in Txns : o # t => Kept(o)
<1>1. txn'[t] = Idle
  BY DEF Invalidate
<1>2. ASSUME NEW o \in Txns, o # t PROVE Kept(o)
  <2> DEFINE x == txn[o]
             f == "outdated"
  <2>1. x \in Requests /\ txn'[o] \in {x, [x EXCEPT !.fate = f]}
    BY <1>2 DEF Invalidate, TypeInv, Typed
  <2> HIDE DEF f
  <2>2. CASE txn'[o] = x
    BY <2>2, SameIsKept
  <2>3. CASE txn'[o] = [x EXCEPT !.fate = f]
    BY <2>1, <2>3 DEF Kept, Requests
  <2> QED BY <2>1, <2>2, <2>3
<1> QED BY <1>1, <1>2

LEMMA TypeInit == Init => TypeInv
<1> SUFFICES ASSUME Init PROVE TypeInv
  OBVIOUS
<1>1. Typed
  BY IdleTyped, ClosedTyped, VersionAssumption DEF Init, Typed, Statuses
<1>2. \A t \in Txns : RequestOK(t)
  BY DEF Init, RequestOK, InLocks, Idle
<1>3. (\A u \in Users : UserOK(u)) /\ \A s \in Sessions : SessionOK(s)
  BY DEF Init, UserOK, SessionOK, Closed
<1> QED BY <1>1, <1>2, <1>3 DEF TypeInv

\* The rows of users and sessions where they are not touched
LEMMA RowsKept ==
  ASSUME TypeInv, UNCHANGED <<version, roles>>, UNCHANGED status, Grows
  PROVE  \A u \in Users : UserOK(u)'
BY DEF TypeInv, UserOK, Grows

LEMMA SessionsKept ==
  ASSUME TypeInv, Grows, \A s \in Sessions : session'[s] \in {session[s], Closed}
  PROVE  \A s \in Sessions : SessionOK(s)'
BY DEF TypeInv, SessionOK, Grows, Closed

LEMMA GrowsIfKept == UNCHANGED <<created, status>> => Grows
BY DEF Grows

LEMMA TypeStep == TypeInv /\ [Next]_vars => TypeInv'
<1> SUFFICES ASSUME TypeInv, [Next]_vars PROVE TypeInv'
  OBVIOUS
<1>0. /\ Typed /\ \A t \in Txns : RequestOK(t)
      /\ \A u \in Users : UserOK(u)
  BY DEF TypeInv
<1>1. ASSUME NEW t \in Txns, NEW u \in Users, BeginBootstrap(t, u) PROVE TypeInv'
  <2> DEFINE x == [Idle EXCEPT !.at = "bootstrapping", !.user = u]
  <2>1. /\ txn' = [txn EXCEPT ![t] = x] /\ Grows
        /\ UNCHANGED <<bootstraps, status, version, roles, created, session>>
    BY <1>1, GrowsIfKept DEF BeginBootstrap
  <2>2. x \in Requests
    <3>1. "bootstrapping" \in Steps
      BY DEF Steps
    <3> QED BY <3>1, IdleTyped DEF Requests
  <2>3. x.at = "bootstrapping" /\ x.user = u /\ x.holds = {}
    BY DEF Idle
  <2> HIDE DEF x
  <2>4. RequestOK(t)'
    BY <1>0, <2>1, <2>3 DEF RequestOK, InLocks, Typed
  <2> QED BY <1>0, <2>1, <2>2, <2>4, BegunOK, RowsKept, SessionsKept DEF TypeInv, Typed
<1>2. ASSUME NEW t \in Txns, EndBootstrap(t) PROVE TypeInv'
  <2>1. /\ End(t) /\ UNCHANGED <<created, session>> /\ txn[t].user \in Users
    BY <1>0, <1>2 DEF EndBootstrap, RequestOK
  <2>2. CASE UNCHANGED <<bootstraps, status, version, roles>>
    <3>1. Grows
      BY <2>1, <2>2, GrowsIfKept
    <3> QED BY <1>0, <2>1, <2>2, <3>1, EndedOK, RowsKept, SessionsKept DEF TypeInv, Typed
  <2>3. CASE /\ bootstraps' = bootstraps + 1 /\ status[txn[t].user] = "absent"
             /\ status' = [status EXCEPT ![txn[t].user] = "ACTIVE"]
             /\ version' = [version EXCEPT ![txn[t].user] = 1]
             /\ roles' = [roles EXCEPT ![txn[t].user] = {Owner}]
    <3>1. Grows
      BY <1>0, <2>1, <2>3 DEF Grows, Typed
    <3>2. \A u \in Users : UserOK(u)'
      BY <1>0, <2>1, <2>3, VersionAssumption DEF UserOK, Typed
    <3>3. /\ bootstraps' \in Nat /\ status' \in [Users -> Statuses]
          /\ version' \in [Users -> 0..MaxVersion] /\ roles' \in [Users -> SUBSET RoleCodes]
      BY <1>0, <2>1, <2>3, VersionAssumption DEF Typed, Statuses, AdminUserStatus, RoleCodes
    <3> QED BY <1>0, <2>1, <3>1, <3>2, <3>3, EndedOK, SessionsKept DEF TypeInv, Typed
  <2> QED BY <1>2, <2>2, <2>3 DEF EndBootstrap
<1>3. ASSUME NEW t \in Txns, NEW u \in Users, BeginLogin(t, u) PROVE TypeInv'
  <2> DEFINE c == Row(u)
             x == [Idle EXCEPT !.at = "verified", !.user = u, !.seen = c]
  <2>1. /\ txn' = [txn EXCEPT ![t] = x] /\ Grows /\ status[u] = "ACTIVE"
        /\ UNCHANGED <<bootstraps, status, version, roles, created, session>>
    BY <1>3, GrowsIfKept DEF BeginLogin
  <2>2. c \in Copies /\ "verified" \in Steps
    BY <1>0, RowTyped DEF Steps
  <2> HIDE DEF c
  <2>3. x \in Requests
    BY <2>2, IdleTyped DEF Requests
  <2>4. x.at = "verified" /\ x.user = u /\ x.holds = {}
    BY DEF Idle
  <2> HIDE DEF x
  <2>5. RequestOK(t)'
    BY <1>0, <2>1, <2>4 DEF RequestOK, InLocks, Typed
  <2> QED BY <1>0, <2>1, <2>3, <2>5, BegunOK, RowsKept, SessionsKept DEF TypeInv, Typed
<1>4. ASSUME NEW t \in Txns, EndLogin(t) PROVE TypeInv'
  <2>1. PICK s \in Sessions : session' = [session EXCEPT ![s] = NewSession(t)]
    BY <1>4 DEF EndLogin
  <2>2. /\ End(t) /\ UNCHANGED <<bootstraps, status, version, roles, created>>
        /\ txn[t].at = "verified" /\ Grows
    BY <1>4, GrowsIfKept DEF EndLogin
  <2>3. /\ NewSession(t) \in SessionRows
        /\ NewSession(t).user \in Users /\ status[NewSession(t).user] # "absent"
    <3>1. /\ txn[t].user \in Users /\ status[txn[t].user] # "absent"
          /\ txn[t].seen \in Copies /\ txn[t].fate \in Fates
      BY <1>0, <2>2 DEF RequestOK, Typed, Requests
    <3> QED BY <3>1 DEF NewSession, SessionRows, Copies
  <2>4. session' \in [Sessions -> SessionRows] /\ \A o \in Sessions : SessionOK(o)'
    BY <1>0, <2>1, <2>2, <2>3 DEF TypeInv, Typed, SessionOK
  <2> QED BY <1>0, <2>2, <2>4, EndedOK, RowsKept DEF TypeInv, Typed
<1>5. ASSUME NEW t \in Txns, NEW s \in Sessions, Authenticate(t, s) PROVE TypeInv'
  <2> DEFINE u == session[s].user
             owner == (Owner \in roles[u])
             x == [Idle EXCEPT !.at = "authorized", !.actor = u, !.session = s,
                               !.owner = owner]
  <2>1. /\ txn' = [txn EXCEPT ![t] = x] /\ Grows /\ status[u] = "ACTIVE" /\ session[s].open
        /\ UNCHANGED <<bootstraps, status, version, roles, created, session>>
    BY <1>5, GrowsIfKept DEF Authenticate, Accepted, Principal
  <2>2. u \in Users /\ owner \in BOOLEAN /\ "authorized" \in Steps
    BY <1>0, <2>1 DEF TypeInv, SessionOK, Steps
  <2> HIDE DEF u, owner
  <2>3. x \in Requests
    BY <2>2, IdleTyped DEF Requests
  <2>4. x.at = "authorized" /\ x.actor = u /\ x.session = s /\ x.holds = {}
    BY DEF Idle
  <2> HIDE DEF x
  <2>5. RequestOK(t)'
    BY <1>0, <2>1, <2>2, <2>4 DEF RequestOK, InLocks, Typed
  <2> QED BY <1>0, <2>1, <2>3, <2>5, BegunOK, RowsKept, SessionsKept DEF TypeInv, Typed
<1>6. ASSUME NEW s \in Sessions, RejectSession(s) PROVE TypeInv'
  <2>1. /\ session' = [session EXCEPT ![s] = Closed] /\ Grows
        /\ UNCHANGED <<bootstraps, status, version, roles, created, txn>>
    BY <1>6, GrowsIfKept DEF RejectSession
  <2>2. /\ session' \in [Sessions -> SessionRows]
        /\ \A o \in Sessions : session'[o] \in {session[o], Closed}
    BY <1>0, <2>1, ClosedTyped DEF Typed
  <2> QED BY <1>0, <2>1, <2>2, RowsKept, SessionsKept, RequestKept, SameIsKept
          DEF TypeInv, Typed
<1>7. ASSUME NEW t \in Txns, Logout(t) PROVE TypeInv'
  <2>1. /\ End(t) /\ Grows /\ UNCHANGED <<bootstraps, status, version, roles, created>>
    BY <1>7, GrowsIfKept DEF Logout
  <2>2. /\ session' \in [Sessions -> SessionRows]
        /\ \A o \in Sessions : session'[o] \in {session[o], Closed}
    BY <1>0, <1>7, ClosedTyped DEF Typed, Logout
  <2> QED BY <1>0, <2>1, <2>2, EndedOK, RowsKept, SessionsKept DEF TypeInv, Typed
<1>8. ASSUME NEW t \in Txns, NEW u \in Users, CreateUser(t, u) PROVE TypeInv'
  <2>1. /\ End(t) /\ UNCHANGED <<bootstraps, roles, created, session>>
        /\ status[u] = "absent" /\ status' = [status EXCEPT ![u] = "ACTIVE"]
        /\ version' = [version EXCEPT ![u] = 1]
    BY <1>8 DEF CreateUser
  <2>2. Grows
    BY <1>0, <2>1 DEF Grows, Typed
  <2>3. \A o \in Users : UserOK(o)'
    BY <1>0, <2>1, VersionAssumption DEF UserOK, Typed
  <2>4. /\ status' \in [Users -> Statuses] /\ version' \in [Users -> 0..MaxVersion]
    BY <1>0, <2>1, VersionAssumption DEF Typed, Statuses, AdminUserStatus
  <2> QED BY <1>0, <2>1, <2>2, <2>3, <2>4, EndedOK, SessionsKept DEF TypeInv, Typed
<1>9. ASSUME NEW t \in Txns, NEW r \in OtherRoles, CreateRole(t, r) PROVE TypeInv'
  <2>1. /\ End(t) /\ UNCHANGED <<bootstraps, status, version, roles, session>>
        /\ created' = created \cup {r} /\ Grows
    BY <1>9 DEF CreateRole, Grows
  <2> QED BY <1>0, <2>1, EndedOK, RowsKept, SessionsKept DEF TypeInv, Typed
<1>10. ASSUME NEW t \in Txns, NEW u \in Users, NEW op \in {"status", "roles"},
              NEW to \in Statuses, NEW codes \in SUBSET (created \cup {Owner}),
              NEW holds \in SUBSET codes, NEW at \in {"locked", "changing"},
              op = "status" => to \in AdminUserStatus,
              Lock(t, u, op, to, codes, holds, at), status[u] # "absent",
              UNCHANGED <<bootstraps, status, version, roles, created, session>>
       PROVE  TypeInv'
  <2>1. /\ op \in Operations /\ at \in Steps /\ codes \in SUBSET RoleCodes
        /\ holds \in SUBSET RoleCodes /\ Row(u) \in Copies
    BY <1>0, RowTyped DEF Operations, Steps, RoleCodes, Typed
  <2>2. /\ txn' \in [Txns -> Requests]
        /\ txn'[t].op = op /\ txn'[t].user = u /\ txn'[t].to = to /\ txn'[t].codes = codes
        /\ txn'[t].at = at /\ \A o \in Txns : o # t => txn'[o] = txn[o]
    BY <1>0, <1>10, <2>1, LockIs
  <2>3. RequestOK(t)'
    BY <1>10, <2>2 DEF RequestOK, InLocks
  <2>4. Grows
    BY <1>10, GrowsIfKept
  <2>5. \A o \in Txns : RequestOK(o)'
    BY <2>2, <2>3, <2>4, RequestKept, SameIsKept
  <2> QED BY <1>0, <1>10, <2>2, <2>4, <2>5, RowsKept, SessionsKept DEF TypeInv, Typed
<1>11. ASSUME NEW t \in Txns, End(t),
              UNCHANGED <<bootstraps, status, version, roles, created, session>>
       PROVE  TypeInv'
  <2>1. Grows
    BY <1>11, GrowsIfKept
  <2> QED BY <1>0, <1>11, <2>1, EndedOK, RowsKept, SessionsKept DEF TypeInv, Typed
<1>12. ASSUME NEW t \in Txns, NEW u \in Users, NEW to \in AdminUserStatus,
              SetUserStatus(t, u, to)
       PROVE  TypeInv'
  <2>1. CASE End(t)
    BY <1>11, <1>12, <2>1 DEF SetUserStatus
  <2>2. ASSUME NEW at \in {"locked", "changing"}, Lock(t, u, "status", to, {}, {}, at)
        PROVE  TypeInv'
    BY <1>10, <1>12, <2>2 DEF SetUserStatus, Statuses
  <2> QED BY <1>12, <2>1, <2>2 DEF SetUserStatus
<1>13. ASSUME NEW t \in Txns, NEW u \in Users, NEW codes \in SUBSET RoleCodes,
              ReplaceUserRoles(t, u, codes)
       PROVE  TypeInv'
  <2>1. CASE End(t)
    BY <1>11, <1>13, <2>1 DEF ReplaceUserRoles
  <2>2. Row(u).status \in Statuses
    BY <1>0, RowTyped DEF Copies
  <2>3. ASSUME NEW at \in {"locked", "changing"},
               Lock(t, u, "roles", Row(u).status, codes, codes, at)
        PROVE  TypeInv'
    BY <1>10, <1>13, <2>2, <2>3 DEF ReplaceUserRoles
  <2> QED BY <1>13, <2>1, <2>3 DEF ReplaceUserRoles
<1>14. ASSUME NEW t \in Txns, FindOtherOwner(t) PROVE TypeInv'
  <2>1. CASE End(t)
    BY <1>11, <1>14, <2>1 DEF FindOtherOwner
  <2>2. CASE txn' = [txn EXCEPT ![t].at = "changing", ![t].holds = @ \cup {Owner}]
    <3> DEFINE x == txn[t]
               at == "changing"
               holds == txn[t].holds \cup {Owner}
               y == [x EXCEPT !.at = at, !.holds = holds]
    <3>1. x \in Requests /\ at \in Steps /\ holds \in SUBSET RoleCodes
      BY <1>0 DEF Typed, Requests, Steps, RoleCodes
    <3>2. txn' = [txn EXCEPT ![t] = y] /\ RequestOK(t) /\ txn[t].at = "locked"
      BY <1>0, <1>14, <2>2 DEF Typed, FindOtherOwner
    <3> HIDE DEF x, holds, at
    <3>3. /\ y \in Requests /\ y.at = at /\ y.user = x.user /\ y.op = x.op /\ y.to = x.to
          /\ y.codes = x.codes
      BY <3>1 DEF Requests
    <3> HIDE DEF y
    <3>4. UNCHANGED <<bootstraps, status, version, roles, created, session>> /\ Grows
      BY <1>14, GrowsIfKept DEF FindOtherOwner
    <3>5. RequestOK(t)'
      BY <1>0, <3>2, <3>3, <3>4 DEF RequestOK, InLocks, Typed, x, at
    <3> QED BY <1>0, <3>2, <3>3, <3>4, <3>5, BegunOK, RowsKept, SessionsKept
            DEF TypeInv, Typed
  <2> QED BY <1>14, <2>1, <2>2 DEF FindOtherOwner
<1>15. ASSUME NEW t \in Txns, NEW users \in SUBSET Users, NEW seen \in [users -> Copies],
              \A u \in users : seen[u].version < MaxVersion /\ status[u] # "absent",
              Invalidate(t, users, seen), UNCHANGED <<bootstraps, created>>, Grows,
              status' \in [Users -> Statuses],
              \A u \in Users : status[u] = "absent" => status'[u] = "absent",
              roles' \in [Users -> SUBSET RoleCodes],
              \A u \in Users : roles'[u] \subseteq
                (IF status[u] = "absent" THEN {} ELSE created \cup {Owner})
       PROVE  TypeInv'
  <2>0. /\ \A u \in users : version'[u] \in 1..MaxVersion
        /\ \A u \in Users : u \notin users => version'[u] = version[u]
    <3>1. \A u \in Users : version'[u] = IF u \in users THEN seen[u].version + 1
                                        ELSE version[u]
      BY <1>15 DEF Invalidate, NextVersion
    <3>2. \A u \in users : version'[u] \in 1..MaxVersion
      <4>1. \A u \in users : seen[u].version + 1 \in 1..MaxVersion /\ u \in Users
        BY <1>15, VersionAssumption DEF Copies
      <4> QED BY <3>1, <4>1
    <3> QED BY <3>1, <3>2
  <2>1. Typed'
    BY <1>0, <1>15, InvalidateIs DEF Typed
  <2>2. \A u \in Users : UserOK(u)'
    <3>1. ASSUME NEW u \in Users PROVE UserOK(u)'
      <4>1. /\ u \in users => version'[u] \in 1..MaxVersion
            /\ u \in users => status'[u] # "absent"
            /\ u \notin users => version'[u] = version[u]
        BY <1>15, <2>0 DEF Grows
      <4>2. status'[u] = "absent" <=> status[u] = "absent"
        BY <1>15 DEF Grows
      <4> QED BY <1>0, <1>15, <4>1, <4>2 DEF UserOK
    <3> QED BY <3>1
  <2>3. \A s \in Sessions : session'[s] \in {session[s], Closed}
    BY <1>15, InvalidateIs
  <2>4. \A s \in Sessions : SessionOK(s)'
    BY <1>15, <2>3, SessionsKept
  <2>5. \A o \in Txns : RequestOK(o)'
    BY <1>15, InvalidateIs, IdleOK, RequestKept
  <2> QED BY <2>1, <2>2, <2>4, <2>5 DEF TypeInv
<1>16. ASSUME NEW t \in Txns, CommitChange(t) PROVE TypeInv'
  <2> DEFINE u == txn[t].user
             seen == [v \in {u} |-> txn[t].seen]
  <2>1. /\ u \in Users /\ status[u] # "absent" /\ txn[t].op \in {"status", "roles"}
        /\ txn[t].op = "status" => txn[t].to \in AdminUserStatus
        /\ txn[t].codes \subseteq created \cup {Owner}
        /\ txn[t].seen \in Copies /\ txn[t].seen.version < MaxVersion
    BY <1>0, <1>16 DEF CommitChange, RequestOK, InLocks, Typed, Requests
  <2>2. /\ Invalidate(t, {u}, seen) /\ UNCHANGED <<bootstraps, created>>
        /\ \/ /\ txn[t].op = "status" /\ status' = [status EXCEPT ![u] = txn[t].to]
              /\ UNCHANGED roles
           \/ /\ roles' = [roles EXCEPT ![u] = txn[t].codes] /\ UNCHANGED status
    BY <1>16 DEF CommitChange
  <2>3. seen \in [{u} -> Copies] /\ seen[u].version < MaxVersion
    BY <2>1
  <2> HIDE DEF u, seen
  <2>4. /\ Grows /\ status' \in [Users -> Statuses]
        /\ \A v \in Users : status[v] = "absent" => status'[v] = "absent"
    BY <1>0, <2>1, <2>2 DEF Grows, Typed, Statuses, AdminUserStatus
  <2>5. /\ roles' \in [Users -> SUBSET RoleCodes]
        /\ \A v \in Users : roles'[v] \subseteq
             (IF status[v] = "absent" THEN {} ELSE created \cup {Owner})
    BY <1>0, <2>1, <2>2 DEF Typed, UserOK, RoleCodes
  <2> QED BY <1>15, <2>1, <2>2, <2>3, <2>4, <2>5
<1>17. ASSUME NEW t \in Txns, NEW r \in OtherRoles, ReplaceRolePermissions(t, r)
       PROVE  TypeInv'
  <2> DEFINE users == {u \in Users : r \in roles[u]}
             seen == [u \in users |-> Row(u)]
  <2>1. /\ Invalidate(t, users, seen) /\ UNCHANGED <<bootstraps, status, roles, created>>
        /\ \A u \in users : seen[u].version < MaxVersion
    BY <1>17 DEF ReplaceRolePermissions
  <2>2. seen \in [users -> Copies] /\ users \in SUBSET Users
    BY <1>0, RowTyped
  <2>3. \A u \in users : status[u] # "absent"
    BY <1>0 DEF UserOK
  <2>4. Grows
    BY <2>1, GrowsIfKept
  <2> HIDE DEF users, seen
  <2> QED BY <1>0, <1>15, <2>1, <2>2, <2>3, <2>4 DEF Typed, UserOK
<1>18. CASE UNCHANGED vars
  BY <1>18 DEF vars, TypeInv, Typed, RequestOK, InLocks, UserOK, SessionOK
<1>19. ASSUME NEW t \in Txns, RollBack(t) PROVE TypeInv'
  BY <1>11, <1>19 DEF RollBack
<1> QED BY <1>1, <1>2, <1>3, <1>4, <1>5, <1>6, <1>7, <1>8, <1>9, <1>12, <1>13, <1>14,
           <1>16, <1>17, <1>18, <1>19 DEF Next, Change

LEMMA TypeInvariant == Spec => []TypeInv
  BY TypeInit, TypeStep, PTL DEF Spec

\* Users, sessions and requests keep their types; an administrator's version stays within
\* its bound and its roles are ones that exist.
THEOREM TypeCorrect == Spec => []TypeOK
<1>1. TypeInv => TypeOK
  <2> SUFFICES ASSUME TypeInv PROVE TypeOK
    OBVIOUS
  <2>1. \A u \in Users : /\ status[u] \in AdminUserStatus \cup {"absent"}
                         /\ version[u] \in (IF status[u] = "absent" THEN {0} ELSE 1..MaxVersion)
                         /\ roles[u] \subseteq created \cup {Owner}
    BY DEF TypeInv, Typed, UserOK, Statuses
  <2>2. \A t \in Txns : /\ txn[t].holds \subseteq RoleCodes
                        /\ txn[t].at # "idle" /\ txn[t].at # "authorized" =>
                             txn[t].user \in Users
    BY DEF TypeInv, Typed, Requests, RequestOK, InLocks, Steps
  <2>3. \A s \in Sessions : session[s].open => session[s].user \in Users
    BY DEF TypeInv, SessionOK
  <2>4. bootstraps \in Nat /\ created \subseteq OtherRoles
    BY DEF TypeInv, Typed
  <2> QED BY <2>1, <2>2, <2>3, <2>4 DEF TypeOK
<1> QED BY <1>1, TypeInvariant, PTL

-----------------------------------------------------------------------------
(* The last Owner.  A change that takes an active Owner away is held under  *)
(* the lock of the Owner role, and while it is, another active Owner is     *)
(* there: the user's own row is locked, and no other such change can hold   *)
(* the role.                                                                *)

Locks ==
  \A t, o \in Txns : t # o =>
    /\ InLocks(t) /\ InLocks(o) => txn[t].user # txn[o].user
    /\ txn[t].holds \cap txn[o].holds = {}

Removes(t) ==
  /\ txn[t].at = "changing" /\ txn[t].user \in ActiveOwners
  /\ \/ txn[t].op = "status" /\ txn[t].to = "DISABLED"
     \/ txn[t].op = "roles" /\ Owner \notin txn[t].codes

Safe(t) ==
  Removes(t) => Owner \in txn[t].holds /\ \E w \in ActiveOwners : w # txn[t].user

OwnerInv == TypeInv /\ Locks /\ (\A t \in Txns : Safe(t)) /\ OwnerRemains

LEMMA ActiveOwnersAre ==
  \A u : u \in ActiveOwners <=> u \in Users /\ Owner \in roles[u] /\ status[u] = "ACTIVE"
BY DEF ActiveOwners, Owners

\* Neither a lock is taken nor a row that exists written; a first Owner may be.
LEMMA QuietStep ==
  ASSUME OwnerInv,
         \A u \in Users : status[u] # "absent" =>
           status'[u] = status[u] /\ roles'[u] = roles[u],
         \A o \in Txns : Kept(o) \/ (~InLocks(o)' /\ txn'[o].holds = {}),
         \/ UNCHANGED bootstraps
         \/ bootstraps = 0 /\ bootstraps' = 1 /\ ActiveOwners' # {}
  PROVE  Locks' /\ (\A t \in Txns : Safe(t)') /\ OwnerRemains'
<1>0. TypeInv /\ Typed /\ \A t \in Txns : RequestOK(t)
  BY DEF OwnerInv, TypeInv
<1>1. ActiveOwners \subseteq ActiveOwners'
  <2>1. \A u \in ActiveOwners : u \in Users /\ Owner \in roles'[u] /\ status'[u] = "ACTIVE"
    BY ActiveOwnersAre
  <2> QED BY <2>1 DEF ActiveOwners, Owners
<1>2. Locks'
  BY DEF OwnerInv, Locks, Kept, InLocks
<1>3. ASSUME NEW t \in Txns, Removes(t)'
      PROVE  Owner \in txn'[t].holds /\ \E w \in ActiveOwners' : w # txn'[t].user
  <2>1. Kept(t) /\ txn'[t].at = "changing"
    BY <1>3 DEF Removes, InLocks
  <2>2. txn[t].user \in Users /\ status[txn[t].user] # "absent"
    BY <1>0, <2>1 DEF RequestOK, InLocks, Kept
  <2>3. Owner \in roles'[txn'[t].user] /\ status'[txn'[t].user] = "ACTIVE"
    BY <1>3 DEF Removes, ActiveOwners, Owners
  <2>4. txn[t].user \in ActiveOwners
    BY <2>1, <2>2, <2>3, ActiveOwnersAre DEF Kept
  <2>5. Removes(t)
    BY <1>3, <2>1, <2>4 DEF Removes, Kept
  <2> QED BY <1>1, <2>1, <2>5 DEF OwnerInv, Safe, Kept
<1>4. OwnerRemains'
  BY <1>1 DEF OwnerInv, OwnerRemains
<1> QED BY <1>2, <1>3, <1>4 DEF Safe

\* set_user_status and replace_user_roles lock the user's row, and change it at once only
\* if no active Owner is taken away by it or the role is locked in the same step.
LEMMA LockStep ==
  ASSUME OwnerInv, NEW t \in Txns, NEW u \in Users, NEW op \in {"status", "roles"},
         NEW to \in Statuses, NEW codes \in SUBSET RoleCodes, NEW holds \in SUBSET codes,
         NEW at \in {"locked", "changing"},
         Lock(t, u, op, to, codes, holds, at), UNCHANGED <<bootstraps, status, roles>>,
         UserFree(t, u), \A r \in holds : RoleFree(t, r),
         at = "changing" /\ u \in ActiveOwners =>
           (op = "status" => to # "DISABLED") /\ (op = "roles" => Owner \in codes)
  PROVE  Locks' /\ (\A o \in Txns : Safe(o)') /\ OwnerRemains'
<1>0. TypeInv /\ Typed
  BY DEF OwnerInv, TypeInv
<1>1. op \in Operations /\ at \in Steps /\ holds \in SUBSET RoleCodes /\ Row(u) \in Copies
  BY <1>0, RowTyped DEF Operations, Steps
<1>2. /\ txn'[t].op = op /\ txn'[t].user = u /\ txn'[t].to = to /\ txn'[t].codes = codes
      /\ txn'[t].holds = holds /\ txn'[t].at = at
      /\ \A o \in Txns : o # t => txn'[o] = txn[o]
  BY <1>0, <1>1, LockIs
<1>3. /\ \A o \in Txns : o # t /\ InLocks(o) => txn[o].user # u
      /\ \A o \in Txns : o # t => txn[o].holds \cap holds = {}
  BY DEF UserFree, RoleFree, InLocks
<1>4. Locks'
  BY <1>2, <1>3 DEF OwnerInv, Locks, InLocks
<1>5. ActiveOwners' = ActiveOwners
  BY DEF ActiveOwners, Owners
<1>6. ~Removes(t)'
  BY <1>2, <1>5 DEF Removes
<1>7. \A o \in Txns : o # t => Safe(o)'
  BY <1>2, <1>5 DEF OwnerInv, Safe, Removes
<1>8. Safe(t)'
  BY <1>6 DEF Safe
<1> QED BY <1>4, <1>5, <1>7, <1>8 DEF OwnerInv, OwnerRemains

LEMMA CommitStep ==
  ASSUME OwnerInv, NEW t \in Txns, CommitChange(t)
  PROVE  Locks' /\ (\A o \in Txns : Safe(o)') /\ OwnerRemains'
<1> DEFINE u == txn[t].user
           seen == [v \in {u} |-> txn[t].seen]
<1>0. TypeInv /\ Typed /\ RequestOK(t) /\ txn[t].at = "changing"
  BY DEF OwnerInv, TypeInv, CommitChange
<1>1. /\ u \in Users /\ status[u] # "absent" /\ txn[t].op \in {"status", "roles"}
      /\ txn[t].op = "status" => txn[t].to \in AdminUserStatus
      /\ txn[t].seen \in Copies /\ txn[t].seen.version < MaxVersion
  BY <1>0 DEF CommitChange, RequestOK, InLocks, Typed, Requests
<1>2. /\ Invalidate(t, {u}, seen) /\ UNCHANGED bootstraps
      /\ \/ /\ txn[t].op = "status" /\ status' = [status EXCEPT ![u] = txn[t].to]
            /\ UNCHANGED roles
         \/ /\ txn[t].op # "status" /\ roles' = [roles EXCEPT ![u] = txn[t].codes]
            /\ UNCHANGED status
  BY DEF CommitChange
<1>3. seen \in [{u} -> Copies] /\ \A v \in {u} : seen[v].version < MaxVersion /\ status[v] # "absent"
  BY <1>1
<1> HIDE DEF seen
<1>4. txn'[t] = Idle /\ \A o \in Txns : o # t => Kept(o)
  BY <1>0, <1>2, OthersKept
<1>5. Locks'
  BY <1>4 DEF OwnerInv, Locks, Kept, InLocks, Idle
<1>6. \A v \in Users : v # u => status'[v] = status[v] /\ roles'[v] = roles[v]
  BY <1>0, <1>1, <1>2 DEF Typed
<1>7. u \in ActiveOwners /\ u \notin ActiveOwners' => Removes(t)
  BY <1>0, <1>1, <1>2 DEF ActiveOwners, Owners, Removes, Typed, AdminUserStatus
<1>8. ActiveOwners \ {u} \subseteq ActiveOwners'
  BY <1>6 DEF ActiveOwners, Owners
<1>9. ActiveOwners # {} => ActiveOwners' # {}
  <2>1. ASSUME NEW w \in ActiveOwners, ActiveOwners' = {} PROVE FALSE
    <3>1. w = u
      BY <1>8, <2>1
    <3>2. \E v \in ActiveOwners : v # u
      BY <1>7, <2>1, <3>1 DEF OwnerInv, Safe
    <3> QED BY <1>8, <2>1, <3>2
  <2> QED BY <2>1
<1>10. ASSUME NEW o \in Txns, Removes(o)'
       PROVE  Owner \in txn'[o].holds /\ \E w \in ActiveOwners' : w # txn'[o].user
  <2>1. o # t
    BY <1>4, <1>10 DEF Removes, Idle
  <2>2. Kept(o) /\ txn[o].at = "changing"
    BY <1>4, <1>10, <2>1 DEF Kept, Removes
  <2>3. txn[o].user # u
    BY <1>0, <2>1, <2>2 DEF OwnerInv, Locks, InLocks
  <2>4. Owner \in roles'[txn[o].user] /\ status'[txn[o].user] = "ACTIVE" /\ txn[o].user \in Users
    BY <1>10, <2>2 DEF Removes, ActiveOwners, Owners, Kept
  <2>5. txn[o].user \in ActiveOwners
    BY <1>6, <2>3, <2>4, ActiveOwnersAre
  <2>6. Removes(o)
    BY <1>10, <2>2, <2>5 DEF Removes, Kept
  <2>7. Owner \in txn[o].holds /\ \E w \in ActiveOwners : w # txn[o].user
    BY <2>6 DEF OwnerInv, Safe
  <2>8. u \in ActiveOwners => u \in ActiveOwners'
    <3>1. ASSUME u \in ActiveOwners, u \notin ActiveOwners' PROVE FALSE
      <4>1. Owner \in txn[t].holds
        BY <1>7, <3>1 DEF OwnerInv, Safe
      <4> QED BY <2>1, <2>7, <4>1 DEF OwnerInv, Locks
    <3> QED BY <3>1
  <2> QED BY <1>8, <2>2, <2>7, <2>8 DEF Kept
<1> QED BY <1>2, <1>5, <1>9, <1>10 DEF OwnerInv, OwnerRemains, Safe

LEMMA OwnerInit == Init => OwnerInv
<1> SUFFICES ASSUME Init PROVE OwnerInv
  OBVIOUS
<1>1. \A t \in Txns : txn[t].at = "idle" /\ txn[t].holds = {}
  BY DEF Init, Idle
<1>2. Locks /\ \A t \in Txns : Safe(t)
  BY <1>1 DEF Locks, InLocks, Safe, Removes
<1>3. OwnerRemains
  BY DEF Init, OwnerRemains
<1> QED BY <1>2, <1>3, TypeInit DEF OwnerInv

\* A request that ends, if no row that exists is written
LEMMA EndStep ==
  ASSUME OwnerInv, NEW t \in Txns, End(t), UNCHANGED bootstraps,
         \A u \in Users : status[u] # "absent" =>
           status'[u] = status[u] /\ roles'[u] = roles[u]
  PROVE  Locks' /\ (\A o \in Txns : Safe(o)') /\ OwnerRemains'
<1>1. txn'[t] = Idle /\ \A o \in Txns : o # t => txn'[o] = txn[o]
  BY EndIs DEF OwnerInv, TypeInv
<1>2. \A o \in Txns : Kept(o) \/ (~InLocks(o)' /\ txn'[o].holds = {})
  BY <1>1, SameIsKept DEF InLocks, Idle
<1> QED BY <1>2, QuietStep

\* A request that begins
LEMMA BeginStep ==
  ASSUME OwnerInv, NEW t \in Txns, NEW x, txn' = [txn EXCEPT ![t] = x],
         x.at \notin {"locked", "changing"}, x.holds = {},
         UNCHANGED <<bootstraps, status, roles>>
  PROVE  Locks' /\ (\A o \in Txns : Safe(o)') /\ OwnerRemains'
<1>1. txn'[t] = x /\ \A o \in Txns : o # t => txn'[o] = txn[o]
  BY DEF OwnerInv, TypeInv, Typed
<1>2. \A o \in Txns : Kept(o) \/ (~InLocks(o)' /\ txn'[o].holds = {})
  BY <1>1, SameIsKept DEF InLocks
<1> QED BY <1>2, QuietStep

LEMMA OwnerStep == OwnerInv /\ [Next]_vars => Locks' /\ (\A o \in Txns : Safe(o)') /\ OwnerRemains'
<1> SUFFICES ASSUME OwnerInv, [Next]_vars
             PROVE  Locks' /\ (\A o \in Txns : Safe(o)') /\ OwnerRemains'
  OBVIOUS
<1> DEFINE Good == Locks' /\ (\A o \in Txns : Safe(o)') /\ OwnerRemains'
<1>0. TypeInv /\ Typed /\ \A t \in Txns : RequestOK(t)
  BY DEF OwnerInv, TypeInv
<1>1. ASSUME NEW t \in Txns, NEW u \in Users, BeginBootstrap(t, u) PROVE Good
  <2> DEFINE x == [Idle EXCEPT !.at = "bootstrapping", !.user = u]
  <2>1. txn' = [txn EXCEPT ![t] = x] /\ UNCHANGED <<bootstraps, status, roles>>
    BY <1>1 DEF BeginBootstrap
  <2>2. x.at = "bootstrapping" /\ x.holds = {}
    BY DEF Idle
  <2> HIDE DEF x
  <2> QED BY <2>1, <2>2, BeginStep
<1>2. ASSUME NEW t \in Txns, EndBootstrap(t) PROVE Good
  <2>1. End(t) /\ txn[t].user \in Users
    BY <1>0, <1>2 DEF EndBootstrap, RequestOK
  <2>2. CASE UNCHANGED <<bootstraps, status, version, roles>>
    BY <2>1, <2>2, EndStep
  <2>3. CASE /\ bootstraps = 0 /\ bootstraps' = bootstraps + 1
             /\ status[txn[t].user] = "absent"
             /\ status' = [status EXCEPT ![txn[t].user] = "ACTIVE"]
             /\ roles' = [roles EXCEPT ![txn[t].user] = {Owner}]
    <3>1. txn[t].user \in ActiveOwners'
      BY <1>0, <2>1, <2>3 DEF ActiveOwners, Owners, Typed
    <3>2. \A u \in Users : status[u] # "absent" =>
            status'[u] = status[u] /\ roles'[u] = roles[u]
      BY <1>0, <2>3 DEF Typed
    <3>3. txn'[t] = Idle /\ \A o \in Txns : o # t => txn'[o] = txn[o]
      BY <1>0, <2>1, EndIs
    <3>4. \A o \in Txns : Kept(o) \/ (~InLocks(o)' /\ txn'[o].holds = {})
      BY <3>3, SameIsKept DEF InLocks, Idle
    <3> QED BY <2>3, <3>1, <3>2, <3>4, QuietStep
  <2>4. bootstraps \in Nat
    BY <1>0 DEF Typed
  <2> QED BY <1>2, <2>2, <2>3, <2>4 DEF EndBootstrap
<1>3. ASSUME NEW t \in Txns, NEW u \in Users, BeginLogin(t, u) PROVE Good
  <2> DEFINE c == Row(u)
             x == [Idle EXCEPT !.at = "verified", !.user = u, !.seen = c]
  <2>1. txn' = [txn EXCEPT ![t] = x] /\ UNCHANGED <<bootstraps, status, roles>>
    BY <1>3 DEF BeginLogin
  <2>2. x.at = "verified" /\ x.holds = {}
    BY DEF Idle
  <2> HIDE DEF x
  <2> QED BY <2>1, <2>2, BeginStep
<1>4. ASSUME NEW t \in Txns, NEW s \in Sessions, Authenticate(t, s) PROVE Good
  <2> DEFINE x == Principal(s)
  <2>1. txn' = [txn EXCEPT ![t] = x] /\ UNCHANGED <<bootstraps, status, roles>>
    BY <1>4 DEF Authenticate
  <2>2. x.at = "authorized" /\ x.holds = {}
    BY DEF Idle, Principal
  <2> HIDE DEF x
  <2> QED BY <2>1, <2>2, BeginStep
<1>5. ASSUME NEW t \in Txns, End(t), UNCHANGED <<bootstraps, status, roles>> PROVE Good
  BY <1>5, EndStep
<1>6. ASSUME NEW t \in Txns, EndLogin(t) \/ Logout(t) \/ RollBack(t) PROVE Good
  BY <1>5, <1>6 DEF EndLogin, Logout, RollBack
<1>7. ASSUME NEW t \in Txns, NEW r \in OtherRoles, CreateRole(t, r) PROVE Good
  BY <1>5, <1>7 DEF CreateRole
<1>8. ASSUME NEW t \in Txns, NEW u \in Users, CreateUser(t, u) PROVE Good
  <2>1. End(t) /\ UNCHANGED <<bootstraps, roles>>
    BY <1>8 DEF CreateUser
  <2>2. \A o \in Users : status[o] # "absent" => status'[o] = status[o]
    BY <1>0, <1>8 DEF CreateUser, Typed
  <2> QED BY <2>1, <2>2, EndStep
<1>9. ASSUME UNCHANGED <<bootstraps, status, roles, txn>> PROVE Good
  <2>1. \A o \in Txns : Kept(o)
    BY <1>9, SameIsKept
  <2> QED BY <1>9, <2>1, QuietStep
<1>10. ASSUME NEW t \in Txns, NEW r \in OtherRoles, ReplaceRolePermissions(t, r) PROVE Good
  <2>1. PICK users, seen : Invalidate(t, users, seen)
    BY <1>10 DEF ReplaceRolePermissions
  <2>2. \A o \in Txns : Kept(o) \/ (~InLocks(o)' /\ txn'[o].holds = {})
    <3>1. txn'[t] = Idle /\ \A o \in Txns : o # t => Kept(o)
      BY <1>0, <2>1, OthersKept
    <3> QED BY <3>1 DEF InLocks, Idle
  <2> QED BY <1>10, <2>2, QuietStep DEF ReplaceRolePermissions
<1>11. ASSUME NEW t \in Txns, NEW u \in Users, NEW to \in AdminUserStatus,
              SetUserStatus(t, u, to)
       PROVE  Good
  <2>1. UNCHANGED <<bootstraps, status, roles>> /\ UserFree(t, u)
    BY <1>11 DEF SetUserStatus
  <2>2. CASE End(t)
    BY <1>5, <2>1, <2>2
  <2>3. ASSUME NEW at \in {"locked", "changing"}, Lock(t, u, "status", to, {}, {}, at),
               at = "changing" => ~(to = "DISABLED" /\ Owner \in roles[u])
        PROVE  Good
    <3>1. at = "changing" /\ u \in ActiveOwners => to # "DISABLED"
      BY <2>3, ActiveOwnersAre
    <3> QED BY <2>1, <2>3, <3>1, LockStep DEF Statuses
  <2> QED BY <1>11, <2>2, <2>3 DEF SetUserStatus
<1>12. ASSUME NEW t \in Txns, NEW u \in Users, NEW codes \in SUBSET RoleCodes,
              ReplaceUserRoles(t, u, codes)
       PROVE  Good
  <2> DEFINE c == Row(u)
  <2>1. /\ UNCHANGED <<bootstraps, status, roles>> /\ UserFree(t, u)
        /\ \A r \in codes : RoleFree(t, r)
    BY <1>12 DEF ReplaceUserRoles
  <2>2. u \in ActiveOwners => c.status = "ACTIVE"
    BY <1>0, <1>12, ActiveOwnersAre DEF ReplaceUserRoles, Row
  <2>3. c.status \in Statuses
    BY <1>0, RowTyped DEF Copies
  <2>4. CASE End(t)
    BY <1>5, <2>1, <2>4
  <2>5. ASSUME NEW at \in {"locked", "changing"},
               Lock(t, u, "roles", c.status, codes, codes, at),
               at = "changing" =>
                 ~(c.status = "ACTIVE" /\ Owner \in roles[u] /\ Owner \notin codes)
        PROVE  Good
    <3>1. at = "changing" /\ u \in ActiveOwners => Owner \in codes
      BY <2>2, <2>5, ActiveOwnersAre
    <3> HIDE DEF c
    <3> QED BY <2>1, <2>3, <2>5, <3>1, LockStep
  <2> QED BY <1>12, <2>4, <2>5 DEF ReplaceUserRoles
<1>13. ASSUME NEW t \in Txns, FindOtherOwner(t) PROVE Good
  <2>1. CASE End(t)
    BY <1>5, <1>13, <2>1 DEF FindOtherOwner
  <2>2. CASE /\ ~(ActiveOwners \subseteq {txn[t].user})
             /\ txn' = [txn EXCEPT ![t].at = "changing", ![t].holds = @ \cup {Owner}]
    <3> DEFINE x == txn[t]
               holds == x.holds \cup {Owner}
               y == [x EXCEPT !.at = "changing", !.holds = holds]
    <3>1. x \in Requests /\ txn' = [txn EXCEPT ![t] = y]
      BY <1>0, <2>2 DEF Typed
    <3>2. y.at = "changing" /\ y.user = x.user /\ y.holds = holds
      BY <3>1 DEF Requests
    <3> HIDE DEF y
    <3>3. /\ txn'[t].at = "changing" /\ txn'[t].user = txn[t].user
          /\ txn'[t].holds = txn[t].holds \cup {Owner}
          /\ \A o \in Txns : o # t => txn'[o] = txn[o]
      BY <1>0, <3>1, <3>2 DEF Typed
    <3>4. /\ UNCHANGED <<bootstraps, status, roles>> /\ txn[t].at = "locked"
          /\ \A o \in Txns : o # t => Owner \notin txn[o].holds
      BY <1>13 DEF FindOtherOwner, RoleFree
    <3>5. Locks'
      BY <3>3, <3>4 DEF OwnerInv, Locks, InLocks
    <3>6. ActiveOwners' = ActiveOwners
      BY <3>4 DEF ActiveOwners, Owners
    <3>7. \A o \in Txns : o # t => Safe(o)'
      BY <3>3, <3>6 DEF OwnerInv, Safe, Removes
    <3>8. Safe(t)'
      BY <2>2, <3>3, <3>6 DEF Safe
    <3> QED BY <3>4, <3>5, <3>6, <3>7, <3>8 DEF OwnerInv, OwnerRemains
  <2> QED BY <1>13, <2>1, <2>2 DEF FindOtherOwner
<1>14. ASSUME NEW t \in Txns, CommitChange(t) PROVE Good
  BY <1>14, CommitStep
<1>15. ASSUME NEW s \in Sessions, RejectSession(s) PROVE Good
  BY <1>9, <1>15 DEF RejectSession
<1>16. CASE UNCHANGED vars
  BY <1>9, <1>16 DEF vars
<1> QED BY <1>1, <1>2, <1>3, <1>4, <1>6, <1>7, <1>8, <1>10, <1>11, <1>12, <1>13, <1>14,
           <1>15, <1>16 DEF Next, Change

\* However Owners disable and demote each other and themselves, an active one remains
\* once there was one: the count and the change are under one lock of the Owner role.
THEOREM AnOwnerRemains == Spec => []OwnerRemains
<1>1. OwnerInv /\ [Next]_vars => OwnerInv'
  BY OwnerStep, TypeStep DEF OwnerInv
<1>2. OwnerInv => OwnerRemains
  BY DEF OwnerInv
<1> QED BY <1>1, <1>2, OwnerInit, PTL DEF Spec

-----------------------------------------------------------------------------
(* What a session or a login under way is worth.  A request that holds the  *)
(* row of a user knows its version, so versions only grow; a login outdated *)
(* since it read the row, and a session that came of it, are behind.        *)

Behind(fate, v, u) ==
  /\ fate = "current" => v = version[u]
  /\ fate = "outdated" => v < version[u]

LoginOK(t) ==
  txn[t].at = "verified" => Behind(txn[t].fate, txn[t].seen.version, txn[t].user)
Refused(s) ==
  session[s].open /\ session[s].fate = "outdated" =>
    session[s].version < version[session[s].user]

KnowsVersion(t) == InLocks(t) => txn[t].seen.version = version[txn[t].user]

VersionInv ==
  /\ TypeInv /\ Locks
  /\ \A t \in Txns : LoginOK(t) /\ KnowsVersion(t)
  /\ \A s \in Sessions : Refused(s)

Settled ==
  (\A t \in Txns : LoginOK(t) /\ KnowsVersion(t)) /\ \A s \in Sessions : Refused(s)

\* A step that writes no version of a user that exists, and opens no session
LEMMA SameVersions ==
  ASSUME VersionInv, \A u \in Users : status[u] # "absent" => version'[u] = version[u],
         \A o \in Txns : txn'[o] = txn[o] \/ (txn'[o].at # "verified" /\ KnowsVersion(o)'),
         \A s \in Sessions : session'[s] \in {session[s], Closed}
  PROVE  Settled'
<1>1. ASSUME NEW t \in Txns PROVE LoginOK(t)'
  <2>1. txn[t].at = "verified" => version'[txn[t].user] = version[txn[t].user]
    BY DEF VersionInv, TypeInv, RequestOK
  <2>2. LoginOK(t)
    BY DEF VersionInv
  <2> QED BY <2>1, <2>2 DEF LoginOK, Behind
<1>3. ASSUME NEW t \in Txns PROVE KnowsVersion(t)'
  <2>1. InLocks(t) => version'[txn[t].user] = version[txn[t].user]
    BY DEF VersionInv, TypeInv, RequestOK
  <2>2. KnowsVersion(t)
    BY DEF VersionInv
  <2> QED BY <2>1, <2>2 DEF KnowsVersion, InLocks
<1>2. ASSUME NEW s \in Sessions PROVE Refused(s)'
  <2>1. session[s].open => version'[session[s].user] = version[session[s].user]
    BY DEF VersionInv, TypeInv, SessionOK
  <2>2. Refused(s)
    BY DEF VersionInv
  <2> QED BY <2>1, <2>2 DEF Refused, Closed
<1> QED BY <1>1, <1>2, <1>3 DEF Settled

\* After _invalidate_users
LEMMA InvalidateBehind ==
  ASSUME VersionInv, NEW t \in Txns, NEW users \in SUBSET Users,
         NEW seen \in [users -> Copies],
         \A u \in users : seen[u].version = version[u] /\ status[u] # "absent",
         \A o \in Txns \ {t} : InLocks(o) => txn[o].user \notin users,
         Invalidate(t, users, seen)
  PROVE  Settled'
<1>0. TypeInv /\ Typed
  BY DEF VersionInv, TypeInv
<1>1. \A u \in Users : version'[u] = IF u \in users THEN seen[u].version + 1 ELSE version[u]
  BY DEF Invalidate, NextVersion
<1>2. ASSUME NEW o \in Txns, txn'[o].at = "verified"
      PROVE  LoginOK(o)'
  <2>1. o # t /\ Kept(o)
    BY <1>0, <1>2, OthersKept DEF Idle
  <2>2. txn[o].at = "verified" /\ txn[o].user \in Users
    BY <1>0, <1>2, <2>1 DEF Kept, TypeInv, RequestOK
  <2>3. Behind(txn[o].fate, txn[o].seen.version, txn[o].user)
    BY <2>2 DEF VersionInv, LoginOK
  <2>4. CASE txn[o].user \notin users
    <3>1. txn'[o] = txn[o] /\ version'[txn[o].user] = version[txn[o].user]
      BY <1>1, <2>1, <2>2, <2>4 DEF Invalidate
    <3> QED BY <2>3, <3>1 DEF LoginOK, Behind
  <2>5. CASE txn[o].user \in users
    <3>1. /\ version'[txn[o].user] = seen[txn[o].user].version + 1
          /\ seen[txn[o].user].version = version[txn[o].user]
      BY <1>1, <2>2, <2>5
    <3>2. version[txn[o].user] \in Nat /\ txn[o].seen.version \in Nat
      <4>1. txn[o].seen \in Copies /\ version[txn[o].user] \in 0..MaxVersion
        BY <1>0, <2>2 DEF Typed, Requests
      <4> QED BY <4>1, VersionAssumption DEF Copies
    <3>3. txn[o].seen.version <= version[txn[o].user]
      <4>1. txn[o].fate \in Fates
        BY <1>0 DEF Typed, Requests
      <4> QED BY <2>3, <3>2, <4>1 DEF Behind, Fates
    <3>4. txn'[o].fate = "outdated"
      <4> DEFINE x == txn[o]
      <4>1. txn'[o] = [x EXCEPT !.fate = "outdated"] /\ x \in Requests
        BY <1>0, <2>1, <2>2, <2>5 DEF Invalidate, Typed
      <4> HIDE DEF x
      <4> QED BY <4>1 DEF Requests
    <3> QED BY <2>1, <3>1, <3>2, <3>3, <3>4 DEF LoginOK, Behind, Kept
  <2> QED BY <2>4, <2>5
<1>3. ASSUME NEW s \in Sessions PROVE Refused(s)'
  <2>1. CASE session'[s] = Closed
    BY <2>1 DEF Refused, Closed
  <2>2. CASE session'[s] = session[s] /\ session[s].open
    <3>1. session[s].user \in Users /\ session[s].user \notin users
      BY <1>0, <2>2 DEF TypeInv, SessionOK, Invalidate, Closed
    <3>2. version'[session[s].user] = version[session[s].user] /\ Refused(s)
      BY <1>1, <3>1 DEF VersionInv
    <3> QED BY <2>2, <3>2 DEF Refused
  <2>3. CASE session'[s] = session[s] /\ ~session[s].open
    BY <2>3 DEF Refused
  <2> QED BY <2>1, <2>2, <2>3 DEF Invalidate
<1>4. \A o \in Txns : txn'[o].at # "verified" => LoginOK(o)'
  BY DEF LoginOK
<1>5. ASSUME NEW o \in Txns, InLocks(o)' PROVE KnowsVersion(o)'
  <2>1. o # t /\ Kept(o)
    BY <1>0, <1>5, OthersKept DEF Idle, InLocks
  <2>2. InLocks(o) /\ txn[o].user \in Users \ users
    BY <1>0, <1>5, <2>1 DEF Kept, InLocks, TypeInv, RequestOK
  <2> QED BY <1>1, <2>1, <2>2 DEF VersionInv, KnowsVersion, Kept
<1>6. \A o \in Txns : ~InLocks(o)' => KnowsVersion(o)'
  BY DEF KnowsVersion
<1> QED BY <1>2, <1>3, <1>4, <1>5, <1>6 DEF Settled

\* Both changes that invalidate users
LEMMA InvalidatesSome ==
  ASSUME VersionInv, NEW t \in Txns,
         CommitChange(t) \/ \E r \in OtherRoles : ReplaceRolePermissions(t, r)
  PROVE  \E users \in SUBSET Users : \E seen \in [users -> Copies] :
           /\ \A u \in users : seen[u].version = version[u] /\ status[u] # "absent"
           /\ \A o \in Txns \ {t} : InLocks(o) => txn[o].user \notin users
           /\ Invalidate(t, users, seen)
<1>0. TypeInv /\ Typed
  BY DEF VersionInv, TypeInv
<1>1. CASE CommitChange(t)
  <2> DEFINE u == txn[t].user
             seen == [v \in {u} |-> txn[t].seen]
  <2>1. /\ u \in Users /\ status[u] # "absent" /\ txn[t].seen \in Copies
        /\ txn[t].seen.version = version[u]
        /\ \A o \in Txns \ {t} : InLocks(o) => txn[o].user # u
    BY <1>1 DEF CommitChange, VersionInv, KnowsVersion, Locks, TypeInv, RequestOK, InLocks,
                Typed, Requests
  <2>2. Invalidate(t, {u}, seen)
    BY <1>1 DEF CommitChange
  <2>3. seen \in [{u} -> Copies] /\ seen[u] = txn[t].seen /\ {u} \in SUBSET Users
    BY <2>1
  <2> HIDE DEF u, seen
  <2> QED BY <2>1, <2>2, <2>3
<1>2. ASSUME NEW r \in OtherRoles, ReplaceRolePermissions(t, r)
      PROVE  \E users \in SUBSET Users : \E seen \in [users -> Copies] :
               /\ \A u \in users : seen[u].version = version[u] /\ status[u] # "absent"
               /\ \A o \in Txns \ {t} : InLocks(o) => txn[o].user \notin users
               /\ Invalidate(t, users, seen)
  <2> DEFINE users == {u \in Users : r \in roles[u]}
             seen == [u \in users |-> Row(u)]
  <2>1. Invalidate(t, users, seen) /\ \A u \in users : UserFree(t, u)
    BY <1>2 DEF ReplaceRolePermissions
  <2>2. /\ seen \in [users -> Copies] /\ users \in SUBSET Users
        /\ \A u \in users : seen[u].version = version[u]
    BY <1>0, RowTyped DEF Row
  <2>3. \A u \in users : status[u] # "absent"
    BY <1>0 DEF TypeInv, UserOK
  <2>4. \A o \in Txns \ {t} : InLocks(o) => txn[o].user \notin users
    BY <2>1 DEF UserFree, InLocks
  <2> HIDE DEF users, seen
  <2> QED BY <2>1, <2>2, <2>3, <2>4
<1> QED BY <1>1, <1>2

LEMMA VersionInit == Init => VersionInv
<1> SUFFICES ASSUME Init PROVE VersionInv
  OBVIOUS
<1>1. Locks /\ \A t \in Txns : LoginOK(t) /\ KnowsVersion(t)
  BY DEF Init, LoginOK, KnowsVersion, Locks, InLocks, Idle
<1>2. \A s \in Sessions : Refused(s)
  BY DEF Init, Refused, Closed
<1> QED BY <1>1, <1>2, TypeInit DEF VersionInv

\* Every other step begins or ends one request, or changes how far it is
LEMMA OneRequestMoves ==
  ASSUME TypeInv, NEW t \in Txns, NEW x, txn' = [txn EXCEPT ![t] = x],
         x.at \notin {"verified", "locked", "changing"}
  PROVE  \A o \in Txns :
           txn'[o] = txn[o] \/ (txn'[o].at # "verified" /\ KnowsVersion(o)')
BY DEF TypeInv, Typed, KnowsVersion, InLocks

LEMMA OneRequestEnds ==
  ASSUME TypeInv, NEW t \in Txns, End(t)
  PROVE  \A o \in Txns :
           txn'[o] = txn[o] \/ (txn'[o].at # "verified" /\ KnowsVersion(o)')
BY DEF TypeInv, Typed, End, Idle, KnowsVersion, InLocks

\* Locking the rows, or finding another Owner
Goes(o) == txn'[o].at \in {"idle", "locked", "changing"} /\ KnowsVersion(o)'

LEMMA LocksOnly ==
  ASSUME VersionInv, NEW t \in Txns,
         \/ \E u \in Users, to \in AdminUserStatus : SetUserStatus(t, u, to)
         \/ \E u \in Users, codes \in SUBSET RoleCodes : ReplaceUserRoles(t, u, codes)
         \/ FindOtherOwner(t)
  PROVE  /\ UNCHANGED <<version, session>>
         /\ \A o \in Txns : txn'[o] = txn[o] \/ Goes(o)
<1>0. TypeInv /\ Typed
  BY DEF VersionInv, TypeInv
<1>6. UNCHANGED <<version, session>>
  BY DEF SetUserStatus, ReplaceUserRoles, FindOtherOwner
<1>1. ASSUME End(t)
      PROVE  \A o \in Txns : txn'[o] = txn[o] \/ Goes(o)
  BY <1>0, <1>1, EndIs DEF Idle, Goes, KnowsVersion, InLocks
<1>2. ASSUME NEW u \in Users, NEW op \in {"status", "roles"}, NEW to \in Statuses,
             NEW codes \in SUBSET RoleCodes, NEW holds \in SUBSET RoleCodes,
             NEW at \in {"locked", "changing"}, Lock(t, u, op, to, codes, holds, at)
      PROVE  \A o \in Txns : txn'[o] = txn[o] \/ Goes(o)
  <2>1. op \in Operations /\ at \in Steps /\ Row(u) \in Copies
    BY <1>0, RowTyped DEF Operations, Steps
  <2>2. /\ txn'[t].at = at /\ txn'[t].user = u /\ txn'[t].seen = Row(u)
        /\ \A o \in Txns : o # t => txn'[o] = txn[o]
    BY <1>0, <1>2, <2>1, LockIs
  <2>3. Goes(t)
    BY <1>6, <2>2 DEF Goes, KnowsVersion, Row
  <2> QED BY <2>2, <2>3
<1>3. ASSUME NEW u \in Users, NEW to \in AdminUserStatus, SetUserStatus(t, u, to)
      PROVE  \A o \in Txns : txn'[o] = txn[o] \/ Goes(o)
  <2>1. \A at \in {"locked", "changing"} :
          Lock(t, u, "status", to, {}, {}, at) =>
            \A o \in Txns : txn'[o] = txn[o] \/ Goes(o)
    BY <1>2 DEF Statuses
  <2> QED BY <1>1, <1>3, <2>1 DEF SetUserStatus
<1>4. ASSUME NEW u \in Users, NEW codes \in SUBSET RoleCodes, ReplaceUserRoles(t, u, codes)
      PROVE  \A o \in Txns : txn'[o] = txn[o] \/ Goes(o)
  <2>1. Row(u).status \in Statuses
    BY <1>0, RowTyped DEF Copies
  <2>2. \A at \in {"locked", "changing"} :
          Lock(t, u, "roles", Row(u).status, codes, codes, at) =>
            \A o \in Txns : txn'[o] = txn[o] \/ Goes(o)
    BY <1>2, <2>1
  <2> QED BY <1>1, <1>4, <2>2 DEF ReplaceUserRoles
<1>5. ASSUME FindOtherOwner(t)
      PROVE  \A o \in Txns : txn'[o] = txn[o] \/ Goes(o)
  <2>1. CASE End(t)
    BY <1>1, <2>1
  <2>2. CASE txn' = [txn EXCEPT ![t].at = "changing", ![t].holds = @ \cup {Owner}]
    <3> DEFINE holds == txn[t].holds \cup {Owner}
               y == [txn[t] EXCEPT !.at = "changing", !.holds = holds]
    <3>1. txn' = [txn EXCEPT ![t] = y] /\ txn[t] \in Requests
      BY <1>0, <2>2 DEF Typed
    <3>2. y.at = "changing" /\ y.user = txn[t].user /\ y.seen = txn[t].seen
      BY <3>1 DEF Requests
    <3>3. txn[t].seen.version = version[txn[t].user]
      BY <1>5 DEF FindOtherOwner, VersionInv, KnowsVersion, InLocks
    <3> HIDE DEF y
    <3>4. txn'[t] = y /\ \A o \in Txns : o # t => txn'[o] = txn[o]
      BY <1>0, <3>1 DEF Typed
    <3>5. Goes(t)
      BY <1>6, <3>2, <3>3, <3>4 DEF Goes, KnowsVersion
    <3> QED BY <3>4, <3>5
  <2> QED BY <1>5, <2>1, <2>2 DEF FindOtherOwner
<1> QED BY <1>3, <1>4, <1>5, <1>6

LEMMA VersionStep ==
  VersionInv /\ [Next]_vars => Settled'
<1> SUFFICES ASSUME VersionInv, [Next]_vars
             PROVE  Settled'
  OBVIOUS
<1>0. TypeInv /\ Typed /\ \A t \in Txns : RequestOK(t)
  BY DEF VersionInv, TypeInv
<1>1. ASSUME NEW t \in Txns, NEW u \in Users, BeginBootstrap(t, u) PROVE Settled'
  <2> DEFINE x == [Idle EXCEPT !.at = "bootstrapping", !.user = u]
  <2>1. txn' = [txn EXCEPT ![t] = x] /\ UNCHANGED <<version, session>>
    BY <1>1 DEF BeginBootstrap
  <2>2. x.at \notin {"verified", "locked", "changing"}
    BY DEF Idle
  <2> HIDE DEF x
  <2> QED BY <1>0, <2>1, <2>2, OneRequestMoves, SameVersions
<1>2. ASSUME NEW t \in Txns, EndBootstrap(t) PROVE Settled'
  <2>1. UNCHANGED session /\ \A u \in Users : status[u] # "absent" => version'[u] = version[u]
    BY <1>0, <1>2 DEF EndBootstrap, Typed
  <2> QED BY <1>0, <1>2, <2>1, OneRequestEnds, SameVersions DEF EndBootstrap
<1>3. ASSUME NEW t \in Txns, NEW u \in Users, BeginLogin(t, u) PROVE Settled'
  <2> DEFINE c == Row(u)
             x == [Idle EXCEPT !.at = "verified", !.user = u, !.seen = c]
  <2>1. txn' = [txn EXCEPT ![t] = x] /\ UNCHANGED <<version, session>>
    BY <1>3 DEF BeginLogin
  <2>2. x.fate = "current" /\ x.seen.version = version[u] /\ x.user = u
    BY DEF Idle, Row
  <2> HIDE DEF x, c
  <2>3. txn'[t] = x /\ \A o \in Txns : o # t => txn'[o] = txn[o]
    BY <1>0, <2>1 DEF Typed
  <2>4. ASSUME NEW o \in Txns PROVE LoginOK(o)'
    BY <2>1, <2>2, <2>3 DEF VersionInv, LoginOK, Behind
  <2>5. \A s \in Sessions : Refused(s)'
    BY <2>1 DEF VersionInv, Refused
  <2>6. x.at = "verified"
    BY DEF x, Idle
  <2>7. \A o \in Txns : KnowsVersion(o)'
    BY <2>1, <2>3, <2>6 DEF VersionInv, KnowsVersion, InLocks
  <2> QED BY <2>4, <2>5, <2>7 DEF Settled
<1>4. ASSUME NEW t \in Txns, EndLogin(t) PROVE Settled'
  <2>1. PICK s \in Sessions : session' = [session EXCEPT ![s] = NewSession(t)]
    BY <1>4 DEF EndLogin
  <2>2. /\ UNCHANGED version /\ txn[t].at = "verified" /\ End(t)
    BY <1>4 DEF EndLogin
  <2>3. \A o \in Txns : txn'[o] = txn[o] \/ (txn'[o].at # "verified" /\ KnowsVersion(o)')
    BY <1>0, <2>2, OneRequestEnds
  <2>4. \A o \in Txns : LoginOK(o)'
    BY <2>2, <2>3 DEF VersionInv, LoginOK, Behind
  <2>5. LoginOK(t) /\ session'[s] = NewSession(t)
        /\ \A o \in Sessions : o # s => session'[o] = session[o]
    BY <1>0, <2>1 DEF VersionInv, Typed
  <2>6. Refused(s)'
    BY <2>2, <2>5 DEF Refused, LoginOK, Behind, NewSession
  <2>7. \A o \in Sessions : o # s => Refused(o)'
    BY <2>2, <2>5 DEF VersionInv, Refused
  <2>8. \A o \in Txns : KnowsVersion(o)'
    BY <2>2, <2>3 DEF VersionInv, KnowsVersion, InLocks
  <2> QED BY <2>4, <2>6, <2>7, <2>8 DEF Settled
<1>5. ASSUME NEW t \in Txns, NEW s \in Sessions, Authenticate(t, s) PROVE Settled'
  <2> DEFINE x == Principal(s)
  <2>1. txn' = [txn EXCEPT ![t] = x] /\ UNCHANGED <<version, session>>
    BY <1>5 DEF Authenticate
  <2>2. x.at \notin {"verified", "locked", "changing"}
    BY DEF Idle, Principal
  <2> HIDE DEF x
  <2> QED BY <1>0, <2>1, <2>2, OneRequestMoves, SameVersions
<1>6. ASSUME NEW s \in Sessions, RejectSession(s) PROVE Settled'
  <2>1. UNCHANGED <<version, txn>> /\ \A o \in Sessions : session'[o] \in {session[o], Closed}
    BY <1>0, <1>6 DEF RejectSession, Typed
  <2> QED BY <2>1, SameVersions
<1>7. ASSUME NEW t \in Txns, Logout(t) PROVE Settled'
  <2>1. /\ End(t) /\ UNCHANGED version
        /\ \A o \in Sessions : session'[o] \in {session[o], Closed}
    BY <1>0, <1>7 DEF Logout, Typed
  <2> QED BY <1>0, <2>1, OneRequestEnds, SameVersions
<1>8. ASSUME NEW t \in Txns, NEW u \in Users, CreateUser(t, u) PROVE Settled'
  <2>1. /\ End(t) /\ UNCHANGED session
        /\ \A o \in Users : status[o] # "absent" => version'[o] = version[o]
    BY <1>0, <1>8 DEF CreateUser, Typed
  <2> QED BY <1>0, <2>1, OneRequestEnds, SameVersions
<1>9. ASSUME NEW t \in Txns, RollBack(t) \/ \E r \in OtherRoles : CreateRole(t, r) PROVE Settled'
  <2>1. End(t) /\ UNCHANGED <<version, session>>
    BY <1>9 DEF RollBack, CreateRole
  <2> QED BY <1>0, <2>1, OneRequestEnds, SameVersions
<1>10. ASSUME NEW t \in Txns,
              \/ \E u \in Users, to \in AdminUserStatus : SetUserStatus(t, u, to)
              \/ \E u \in Users, codes \in SUBSET RoleCodes : ReplaceUserRoles(t, u, codes)
              \/ FindOtherOwner(t)
       PROVE  Settled'
  <2>1. /\ UNCHANGED <<version, session>>
        /\ \A o \in Txns : txn'[o] = txn[o] \/ Goes(o)
    BY <1>0, <1>10, LocksOnly
  <2>2. \A o \in Txns : txn'[o] = txn[o] \/ (txn'[o].at # "verified" /\ KnowsVersion(o)')
    BY <2>1 DEF Goes
  <2> QED BY <2>1, <2>2, SameVersions
<1>11. ASSUME NEW t \in Txns,
              CommitChange(t) \/ \E r \in OtherRoles : ReplaceRolePermissions(t, r)
       PROVE  Settled'
  <2>1. PICK users \in SUBSET Users : \E seen \in [users -> Copies] :
          /\ \A u \in users : seen[u].version = version[u] /\ status[u] # "absent"
          /\ \A o \in Txns \ {t} : InLocks(o) => txn[o].user \notin users
          /\ Invalidate(t, users, seen)
    BY <1>0, <1>11, InvalidatesSome
  <2>2. PICK seen \in [users -> Copies] :
          /\ \A u \in users : seen[u].version = version[u] /\ status[u] # "absent"
          /\ \A o \in Txns \ {t} : InLocks(o) => txn[o].user \notin users
          /\ Invalidate(t, users, seen)
    BY <2>1
  <2> QED BY <2>2, InvalidateBehind
<1>12. CASE UNCHANGED vars
  <2>1. UNCHANGED <<version, txn, session>>
    BY <1>12 DEF vars
  <2> QED BY <2>1, SameVersions
<1> QED BY <1>1, <1>2, <1>3, <1>4, <1>5, <1>6, <1>7, <1>8, <1>9, <1>10, <1>11, <1>12
        DEF Next, Change

\* Only authenticate_session lets a request go on as somebody.
LEMMA OnlyAuthenticate ==
  ASSUME VersionInv, Next, NEW t \in Txns, txn[t].at = "idle", txn'[t].at = "authorized"
  PROVE  \E s \in Sessions : Authenticate(t, s)
<1>0. TypeInv /\ Typed
  BY DEF VersionInv, TypeInv
<1> DEFINE Goal == \E s \in Sessions : Authenticate(t, s)
<1>1. ASSUME NEW o \in Txns, End(o) PROVE Goal
  BY <1>0, <1>1 DEF End, Typed, Idle
<1>2. ASSUME NEW o \in Txns, NEW x, txn' = [txn EXCEPT ![o] = x], x.at # "authorized"
      PROVE  Goal
  BY <1>0, <1>2 DEF Typed
<1>3. ASSUME NEW o \in Txns, NEW u \in Users, BeginBootstrap(o, u) PROVE Goal
  <2> DEFINE x == [Idle EXCEPT !.at = "bootstrapping", !.user = u]
  <2>1. txn' = [txn EXCEPT ![o] = x] /\ x.at # "authorized"
    BY <1>3 DEF BeginBootstrap, Idle
  <2> HIDE DEF x
  <2> QED BY <1>2, <2>1
<1>4. ASSUME NEW o \in Txns, NEW u \in Users, BeginLogin(o, u) PROVE Goal
  <2> DEFINE x == [Idle EXCEPT !.at = "verified", !.user = u, !.seen = Row(u)]
  <2>1. txn' = [txn EXCEPT ![o] = x] /\ x.at # "authorized"
    BY <1>4 DEF BeginLogin, Idle
  <2> HIDE DEF x
  <2> QED BY <1>2, <2>1
<1>5. ASSUME NEW o \in Txns, NEW s \in Sessions, Authenticate(o, s) PROVE Goal
  <2> DEFINE x == Principal(s)
  <2>1. txn' = [txn EXCEPT ![o] = x]
    BY <1>5 DEF Authenticate
  <2> HIDE DEF x
  <2>2. o = t
    BY <1>0, <2>1 DEF Typed
  <2> QED BY <1>5, <2>2
<1>6. ASSUME NEW s \in Sessions, RejectSession(s) PROVE Goal
  BY <1>6 DEF RejectSession
<1>7. ASSUME NEW o \in Txns, EndBootstrap(o) \/ EndLogin(o) \/ Logout(o) \/ RollBack(o)
      PROVE  Goal
  BY <1>1, <1>7 DEF EndBootstrap, EndLogin, Logout, RollBack
<1>8. ASSUME NEW o \in Txns,
             \/ \E u \in Users : CreateUser(o, u)
             \/ \E r \in OtherRoles : CreateRole(o, r)
      PROVE  Goal
  BY <1>1, <1>8 DEF CreateUser, CreateRole
<1>9. ASSUME NEW o \in Txns,
             \/ \E u \in Users, to \in AdminUserStatus : SetUserStatus(o, u, to)
             \/ \E u \in Users, codes \in SUBSET RoleCodes : ReplaceUserRoles(o, u, codes)
             \/ FindOtherOwner(o)
      PROVE  Goal
  BY <1>0, <1>9, LocksOnly DEF Goes
<1>10. ASSUME NEW o \in Txns,
              CommitChange(o) \/ \E r \in OtherRoles : ReplaceRolePermissions(o, r)
       PROVE  Goal
  <2>1. PICK users, seen : Invalidate(o, users, seen)
    BY <1>10 DEF CommitChange, ReplaceRolePermissions
  <2>2. txn'[o] = Idle /\ \A p \in Txns : p # o => Kept(p)
    BY <1>0, <2>1, OthersKept
  <2> QED BY <2>2 DEF Kept, Idle
<1> QED BY <1>3, <1>4, <1>5, <1>6, <1>7, <1>8, <1>9, <1>10 DEF Next, Change

\* No request is let in by a session whose user was disabled, enabled or given other roles
\* since the login read the row: the session is gone, or behind the user's auth_version,
\* because whoever writes the row has read it under its lock.
THEOREM OldSessionsAreRefused == Spec => SessionsHonourInvalidation
<1> DEFINE Honoured == \A t \in Txns : txn[t].at = "idle" /\ txn'[t].at = "authorized" =>
                         session[txn'[t].session].fate # "outdated"
<1>1. OwnerInv /\ VersionInv /\ [Next]_vars => OwnerInv' /\ VersionInv'
  BY VersionStep, OwnerStep, TypeStep DEF OwnerInv, VersionInv, Settled
<1>2. VersionInv /\ [Next]_vars => [Honoured]_vars
  <2> SUFFICES ASSUME VersionInv, Next, NEW t \in Txns, txn[t].at = "idle",
                      txn'[t].at = "authorized"
               PROVE  session[txn'[t].session].fate # "outdated"
    OBVIOUS
  <2>1. PICK s \in Sessions : Authenticate(t, s)
    BY OnlyAuthenticate
  <2>2. txn'[t].session = s /\ Accepted(s)
    <3> DEFINE x == Principal(s)
    <3>1. txn' = [txn EXCEPT ![t] = x] /\ x.session = s
      BY <2>1 DEF Authenticate, Principal, Idle
    <3> HIDE DEF x
    <3> QED BY <2>1, <3>1 DEF Authenticate, VersionInv, TypeInv, Typed
  <2>3. Refused(s) /\ session[s].version \in Nat
    BY VersionAssumption DEF VersionInv, TypeInv, Typed, SessionRows
  <2> QED BY <2>2, <2>3 DEF Refused, Accepted
<1> QED BY <1>1, <1>2, OwnerInit, VersionInit, PTL DEF Spec, SessionsHonourInvalidation
=============================================================================
