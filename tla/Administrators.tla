--------------------------- MODULE Administrators ---------------------------
(***************************************************************************)
(* The administrators of the console: their accounts and roles, their      *)
(* sessions, and the requests that change them.                            *)
(*                                                                         *)
(* A request first authenticates its session; that commits, and the        *)
(* request goes on with the principal it has seen, whose roles may have    *)
(* changed since.  A login reads the user's row without a lock and comes   *)
(* back with a session that carries the version it read.                   *)
(*                                                                         *)
(* Changes lock the row of the user concerned and read it afresh, then the *)
(* rows of the roles; whoever would remove an Owner locks the Owner role   *)
(* before counting the others.  Writes are seen when the transaction       *)
(* commits.                                                                *)
(***************************************************************************)
EXTENDS Naturals, FiniteSets

CONSTANTS
  Users,       \* usernames
  OtherRoles,  \* codes of roles other than the Owner's
  Sessions,    \* tokens; a revoked one may be issued anew
  Txns,        \* requests under way at a time
  MaxVersion   \* bound: auth_version

ASSUME VersionAssumption == MaxVersion \in Nat \ {0}

VARIABLES
  bootstraps,  \* rows of AuthBootstrapState
  status,      \* AdminUser.status, "absent" before there is a row
  version,     \* AdminUser.auth_version
  roles,       \* roles[u]: the codes of RbacUserRole
  created,     \* the other roles there are
  session,     \* session[s]: the AdminSession with token s
  txn          \* txn[t]: how far request t is

vars == <<bootstraps, status, version, roles, created, session, txn>>

-----------------------------------------------------------------------------
Owner == "owner"
Nobody == "nobody"
RoleCodes == OtherRoles \cup {Owner}
AdminUserStatus == {"ACTIVE", "DISABLED"}

Closed == [open |-> FALSE, user |-> Nobody, version |-> 0, fate |-> "current"]

\* actor, owner: the principal and whether it was an Owner.  user, seen: the user
\* concerned and its row as loaded.  to, codes: the status or the roles asked for.
\* holds: the role rows that are locked.  fate: whether the user was invalidated since a
\* login read its row.
Idle == [at |-> "idle", op |-> "none", actor |-> Nobody, owner |-> FALSE,
         session |-> Nobody, user |-> Nobody, seen |-> [status |-> "absent", version |-> 0],
         to |-> "absent", codes |-> {}, holds |-> {}, fate |-> "current"]

Init ==
  /\ bootstraps = 0
  /\ status = [u \in Users |-> "absent"]
  /\ version = [u \in Users |-> 0]
  /\ roles = [u \in Users |-> {}]
  /\ created = {}
  /\ session = [s \in Sessions |-> Closed]
  /\ txn = [t \in Txns |-> Idle]

Owners == {u \in Users : Owner \in roles[u]}
ActiveOwners == {u \in Owners : status[u] = "ACTIVE"}
Row(u) == [status |-> status[u], version |-> version[u]]

End(t) == txn' = [txn EXCEPT ![t] = Idle]

\* Row locks that other requests hold
UserFree(t, u) ==
  \A o \in Txns \ {t} : ~(txn[o].user = u /\ txn[o].at \in {"locked", "changing"})
RoleFree_Unlocked(t, r) == TRUE
RoleFree(t, r) == \A o \in Txns \ {t} : r \notin txn[o].holds

-----------------------------------------------------------------------------
(* The first Owner. *)

\* bootstrap_owner, with the right token: there was none before, and no Owner ...
BeginBootstrap(t, u) ==
  /\ txn[t].at = "idle"
  /\ bootstraps = 0 /\ Owners = {}
  /\ txn' = [txn EXCEPT ![t] = [Idle EXCEPT !.at = "bootstrapping", !.user = u]]
  /\ UNCHANGED <<bootstraps, status, version, roles, created, session>>

\* ... and the unique keys of the state, the role and the username settle it.
EndBootstrap(t) ==
  /\ txn[t].at = "bootstrapping"
  /\ RoleFree(t, Owner)
  /\ LET u == txn[t].user
     IN  IF bootstraps > 0 \/ status[u] # "absent"
         THEN UNCHANGED <<bootstraps, status, version, roles>>
         ELSE /\ bootstraps' = bootstraps + 1
              /\ status' = [status EXCEPT ![u] = "ACTIVE"]
              /\ version' = [version EXCEPT ![u] = 1]
              /\ roles' = [roles EXCEPT ![u] = {Owner}]
  /\ End(t)
  /\ UNCHANGED <<created, session>>

-----------------------------------------------------------------------------
(* Sessions. *)

\* login: the user's row is read, without a lock, and the password verified ...
BeginLogin(t, u) ==
  /\ txn[t].at = "idle"
  /\ status[u] = "ACTIVE"
  /\ txn' = [txn EXCEPT ![t] = [Idle EXCEPT !.at = "verified", !.user = u, !.seen = Row(u)]]
  /\ UNCHANGED <<bootstraps, status, version, roles, created, session>>

\* The session carries the version that was read.
NewSession(t) ==
  [open |-> TRUE, user |-> txn[t].user, version |-> txn[t].seen.version, fate |-> txn[t].fate]

\* ... then last_login_at takes the row's lock.
EndLogin(t) ==
  /\ txn[t].at = "verified"
  /\ UserFree(t, txn[t].user)
  /\ \E s \in Sessions :
       /\ ~session[s].open
       /\ session' = [session EXCEPT ![s] = NewSession(t)]
  /\ End(t)
  /\ UNCHANGED <<bootstraps, status, version, roles, created>>

\* What authenticate_session asks of a session that has not expired
Accepted(s) ==
  /\ session[s].open
  /\ status[session[s].user] = "ACTIVE"
  /\ session[s].version = version[session[s].user]

\* The principal the request goes on with
Principal(s) ==
  LET u == session[s].user
  IN  [Idle EXCEPT !.at = "authorized", !.actor = u, !.session = s,
                   !.owner = (Owner \in roles[u])]

Authenticate(t, s) ==
  /\ txn[t].at = "idle"
  /\ Accepted(s)
  /\ txn' = [txn EXCEPT ![t] = Principal(s)]
  /\ UNCHANGED <<bootstraps, status, version, roles, created, session>>

\* An open session that is not accepted, or has expired, is revoked.
RejectSession(s) ==
  /\ session[s].open
  /\ session' = [session EXCEPT ![s] = Closed]
  /\ UNCHANGED <<bootstraps, status, version, roles, created, txn>>

Logout(t) ==
  /\ txn[t].at = "authorized"
  /\ session' = [session EXCEPT ![txn[t].session] =
       IF session[txn[t].session].user = txn[t].actor THEN Closed ELSE @]
  /\ End(t)
  /\ UNCHANGED <<bootstraps, status, version, roles, created>>

-----------------------------------------------------------------------------
(* Users and roles.  The permission to manage administrators, which a request needs to
   get here, may belong to any role. *)

CreateUser_VersionZero(t, u) ==
  /\ txn[t].at = "authorized"
  /\ status[u] = "absent"
  /\ status' = [status EXCEPT ![u] = "ACTIVE"]
  /\ End(t)
  /\ UNCHANGED <<bootstraps, version, roles, created, session>>

CreateUser(t, u) ==
  /\ txn[t].at = "authorized"
  /\ status[u] = "absent"
  /\ status' = [status EXCEPT ![u] = "ACTIVE"]
  /\ version' = [version EXCEPT ![u] = 1]
  /\ End(t)
  /\ UNCHANGED <<bootstraps, roles, created, session>>

CreateRole(t, r) ==
  /\ txn[t].at = "authorized" /\ txn[t].owner
  /\ created' = created \cup {r}
  /\ End(t)
  /\ UNCHANGED <<bootstraps, status, version, roles, session>>

\* _load_user_for_update: the row is locked and read.
Lock(t, u, op, to, codes, holds, at) ==
  txn' = [txn EXCEPT ![t].op = op, ![t].user = u, ![t].seen = Row(u), ![t].to = to,
                     ![t].codes = codes, ![t].holds = holds, ![t].at = at]

\* set_user_status: refused to those below an Owner, nothing to do, or a change; to
\* disable an Owner another one has to be found.
SetUserStatus(t, u, to) ==
  /\ txn[t].at = "authorized"
  /\ status[u] # "absent" /\ UserFree(t, u)
  /\ IF (Owner \in roles[u] /\ ~txn[t].owner) \/ Row(u).status = to
     THEN End(t)
     ELSE Lock(t, u, "status", to, {}, {},
               IF to = "DISABLED" /\ Owner \in roles[u] THEN "locked" ELSE "changing")
  /\ UNCHANGED <<bootstraps, status, version, roles, created, session>>

\* replace_user_roles, for Owners: the rows of the roles asked for are locked as well,
\* which a request may have to wait for with nothing else to do.
ReplaceUserRoles(t, u, codes) ==
  /\ txn[t].at = "authorized" /\ txn[t].owner
  /\ status[u] # "absent" /\ UserFree(t, u)
  /\ codes \subseteq created \cup {Owner} /\ \A r \in codes : RoleFree(t, r)
  /\ IF roles[u] = codes
     THEN End(t)
     ELSE Lock(t, u, "roles", Row(u).status, codes, codes,
               IF /\ Row(u).status = "ACTIVE"
                  /\ Owner \in roles[u] /\ Owner \notin codes
               THEN "locked" ELSE "changing")
  /\ UNCHANGED <<bootstraps, status, version, roles, created, session>>

\* _assert_another_active_owner_exists: counted under the lock of the Owner role.
FindOtherOwner(t) ==
  /\ txn[t].at = "locked"
  /\ RoleFree(t, Owner)
  /\ IF ActiveOwners \subseteq {txn[t].user}
     THEN End(t)
     ELSE txn' = [txn EXCEPT ![t].at = "changing", ![t].holds = @ \cup {Owner}]
  /\ UNCHANGED <<bootstraps, status, version, roles, created, session>>

NextVersion_Same(v) == v

\* auth_version += 1
NextVersion(v) == v + 1

\* _invalidate_users: each row's version is written from what was loaded, and the
\* sessions there are, are revoked.  A login under way is outdated by it.
Invalidate(t, users, seen) ==
  /\ version' = [u \in Users |-> IF u \in users THEN NextVersion(seen[u].version)
                                ELSE version[u]]
  /\ session' = [s \in Sessions |->
       IF session[s].open /\ session[s].user \in users THEN Closed ELSE session[s]]
  /\ txn' = [o \in Txns |->
       IF o = t THEN Idle
       ELSE IF txn[o].at = "verified" /\ txn[o].user \in users
       THEN [txn[o] EXCEPT !.fate = "outdated"]
       ELSE txn[o]]

CommitChange(t) ==
  /\ txn[t].at = "changing"
  /\ LET u == txn[t].user
     IN  /\ txn[t].seen.version < MaxVersion
         /\ IF txn[t].op = "status"
            THEN /\ status' = [status EXCEPT ![u] = txn[t].to]
                 /\ UNCHANGED roles
            ELSE /\ roles' = [roles EXCEPT ![u] = txn[t].codes]
                 /\ UNCHANGED status
         /\ Invalidate(t, {u}, [v \in {u} |-> txn[t].seen])
  /\ UNCHANGED <<bootstraps, created>>

\* replace_role_permissions: the role's row is locked, then those of its users, whose
\* sessions end.  The permissions themselves are read afresh by every request.
ReplaceRolePermissions(t, r) ==
  /\ txn[t].at = "authorized" /\ txn[t].owner
  /\ r \in created /\ RoleFree(t, r)
  /\ LET users == {u \in Users : r \in roles[u]}
         seen == [u \in users |-> Row(u)]
     IN  /\ \A u \in users : UserFree(t, u) /\ seen[u].version < MaxVersion
         /\ Invalidate(t, users, seen)
  /\ UNCHANGED <<bootstraps, status, roles, created>>

\* A refusal, a failure, or the victim of a deadlock between the locks above
RollBack(t) ==
  /\ txn[t].at # "idle"
  /\ End(t)
  /\ UNCHANGED <<bootstraps, status, version, roles, created, session>>

-----------------------------------------------------------------------------
Change(t) ==
  \/ \E u \in Users : CreateUser(t, u) \/ (\E to \in AdminUserStatus : SetUserStatus(t, u, to))
  \/ \E u \in Users : \E codes \in SUBSET RoleCodes : ReplaceUserRoles(t, u, codes)
  \/ \E r \in OtherRoles : CreateRole(t, r) \/ ReplaceRolePermissions(t, r)
  \/ FindOtherOwner(t) \/ CommitChange(t)

Next ==
  \/ \E t \in Txns :
       \/ \E u \in Users : BeginBootstrap(t, u) \/ BeginLogin(t, u)
       \/ EndBootstrap(t) \/ EndLogin(t)
       \/ \E s \in Sessions : Authenticate(t, s)
       \/ Logout(t) \/ Change(t) \/ RollBack(t)
  \/ \E s \in Sessions : RejectSession(s)

Spec == Init /\ [][Next]_vars

-----------------------------------------------------------------------------
(* Properties. *)

\* Users, sessions and requests are of their types; an administrator's auth_version is
\* positive, and its roles are ones that were created.
TypeOK ==
  /\ bootstraps \in Nat
  /\ \A u \in Users :
       /\ status[u] \in AdminUserStatus \cup {"absent"}
       /\ version[u] \in (IF status[u] = "absent" THEN {0} ELSE 1..MaxVersion)
       /\ roles[u] \subseteq created \cup {Owner}
  /\ created \subseteq OtherRoles
  /\ \A s \in Sessions : session[s].open => session[s].user \in Users
  /\ \A t \in Txns : /\ txn[t].holds \subseteq RoleCodes
                     /\ txn[t].at # "idle" /\ txn[t].at # "authorized" => txn[t].user \in Users

\* One bootstrap succeeds, and from then on there is an active Owner, though Owners
\* disable and demote each other and themselves at the same time, as principals whose
\* own roles may be gone since they were authenticated.
OwnerRemains ==
  /\ bootstraps <= 1
  /\ bootstraps = 1 => ActiveOwners # {}

\* A session is not accepted if its user was invalidated since the login read the row:
\* what was there is revoked, and a login under way comes back with the old version,
\* however many requests load, lock and write the user's row meanwhile.
SessionsHonourInvalidation ==
  [][\A t \in Txns : txn[t].at = "idle" /\ txn'[t].at = "authorized" =>
       session[txn'[t].session].fate # "outdated"]_vars
=============================================================================
