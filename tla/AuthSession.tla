------------------------------ MODULE AuthSession ------------------------------
(***************************************************************************)
(* The sessions of one user: login, token refresh and logout of the        *)
(* user's devices, and the admin actions of the team service that end      *)
(* sessions (block, change of roles).  Sources: auth/auth.service.ts,      *)
(* auth/guards/jwt-auth.guard.ts, admin/team/team.service.ts.              *)
(*                                                                         *)
(* Three stores have to agree: the user_session rows in PostgreSQL, and in *)
(* Redis the keys refresh_token:<id> and blacklist:<id>.  No step changes  *)
(* two of them at once.  Every handler is cut at its awaits.  A session is *)
(* named after the login or refresh that created it; its tokens carry that *)
(* name.                                                                   *)
(*                                                                         *)
(* PostgreSQL runs at READ COMMITTED: a statement sees what was committed  *)
(* when it began, and waits for the rows it is going to write.             *)
(*                                                                         *)
(* Abstracted: passwords and the second factor are read only and taken to  *)
(* be right.  No token and no key expires: the Redis keys are given a time *)
(* to live in milliseconds where EX counts seconds, and so outlive the     *)
(* tokens.  logout-all is as many logouts at once.                         *)
(***************************************************************************)
EXTENDS FiniteSets

CONSTANTS Requests,   \* the requests of a behaviour, each served once
          Kinds,      \* the kinds of requests a run admits
          Devices,    \* device name and address of a client
          Roles,      \* roles there are
          RoleSets,   \* the sets of roles an admin gives a user
          None,       \* no token, no session, no roles
          Faults      \* whether handlers may break off

ASSUME KindsAssumption ==
  Kinds \subseteq {"login", "refresh", "logout", "block", "unblock", "change"}
ASSUME FaultsAssumption == Faults \in BOOLEAN
ASSUME RolesAssumption == RoleSets \subseteq SUBSET Roles
ASSUME NoneAssumption == None \notin Requests /\ \A roles \in SUBSET Roles : roles # None

VARIABLES user,         \* the row of the user, and its rows of role_users
          sessions,     \* rows of user_session
          refreshKeys,  \* sessions with a key refresh_token:<id>
          blacklist,    \* sessions with a key blacklist:<id>
          token,        \* token[s]: roles in the access token of s, once answered
          device,       \* device[r]: where a request comes from
          pc,           \* pc[r]: the await request r has reached
          target,       \* target[r]: the session request r is about
          seen,         \* seen[r]: roles read for a token, or roles to be set
          erased,       \* erased[r]: role_users a role change has found
          listed,       \* listed[r]: sessions a sweep has still to invalidate
          late,         \* history: logins and refreshes that overlap a sweep
          superseded    \* history: sessions a login or a refresh replaced

stores == <<user, sessions, refreshKeys, blacklist>>
locals == <<target, seen, erased, listed>>
history == <<late, superseded>>
vars == <<stores, token, device, pc, locals, history>>

\* A row of role_users, and who inserted it.
RoleRows == Roles \X (Requests \cup {None})

Names(rows) == {row[1] : row \in rows}

Init ==
  /\ user \in [status: {"active"}, roles: {roles \X {None} : roles \in RoleSets}]
  /\ sessions = {} /\ refreshKeys = {} /\ blacklist = {}
  /\ token = [r \in Requests |-> None]
  /\ device \in [Requests -> Devices]
  /\ pc = [r \in Requests |-> "new"]
  /\ target = [r \in Requests |-> None]
  /\ seen = [r \in Requests |-> None]
  /\ erased = [r \in Requests |-> {}]
  /\ listed = [r \in Requests |-> {}]
  /\ late = {} /\ superseded = {}

Goto(r, label) == pc' = [pc EXCEPT ![r] = label]

Issued == {s \in Requests : token[s] # None}

\* JwtAuthGuard: the token is not of a blacklisted session.  Neither the
\* row of the session nor the user is looked up.
AccessUsable(s) == s \in Issued /\ s \notin blacklist

Refreshing == {"refresh_create", "refresh_read", "refresh_del", "refresh_store"}
SignIn == {"login_clear", "login_create", "login_store", "refresh_delete"} \cup Refreshing
SignOut == {"logout_blacklist", "logout_del", "logout_delete"}
Sweep == {"sweep_blacklist", "sweep_del", "sweep_delete"}
Final == {"answered", "logged_out", "done", "rejected", "failed", "broken", "unswept"}
Labels == {"new", "change_write", "sweep_list"} \cup SignIn \cup SignOut \cup Sweep \cup Final

SigningIn(r) == pc[r] \in SignIn
Sweeping(r) == pc[r] \in Sweep

-----------------------------------------------------------------------------
(* POST auth/login *)

\* validateUser: the status and the roles are read once.
LoginValidate(r) ==
  /\ "login" \in Kinds /\ pc[r] = "new"
  /\ seen' = [seen EXCEPT ![r] = Names(user.roles)]
  /\ Goto(r, IF user.status = "active" THEN "login_clear" ELSE "rejected")
  /\ late' = IF \E q \in Requests : Sweeping(q) THEN late \cup {r} ELSE late
  /\ UNCHANGED <<stores, token, device, target, erased, listed, superseded>>

\* The rows of the same device go; their keys stay.
LoginClear(r) ==
  /\ pc[r] = "login_clear"
  /\ sessions' = {s \in sessions : device[s] # device[r]}
  /\ superseded' = superseded \cup (sessions \ sessions')
  /\ Goto(r, "login_create")
  /\ UNCHANGED <<user, refreshKeys, blacklist, token, device, locals, late>>

Create(r, label, next) ==
  /\ pc[r] = label
  /\ sessions' = sessions \cup {r}
  /\ Goto(r, next)
  /\ UNCHANGED <<user, refreshKeys, blacklist, token, device, locals, history>>

LoginCreate(r) == Create(r, "login_create", "login_store")

\* The tokens are signed, the key is written, and the client is answered.
Store(r, label) ==
  /\ pc[r] = label
  /\ refreshKeys' = refreshKeys \cup {r}
  /\ token' = [token EXCEPT ![r] = seen[r]]
  /\ Goto(r, "answered")
  /\ UNCHANGED <<user, sessions, blacklist, device, locals, history>>

LoginStore(r) == Store(r, "login_store")

-----------------------------------------------------------------------------
(* POST auth/refresh-tokens *)

RefreshGet(r) ==
  /\ "refresh" \in Kinds /\ pc[r] = "new"
  /\ \E s \in Issued :
       /\ target' = [target EXCEPT ![r] = s]
       /\ Goto(r, IF s \in refreshKeys THEN "refresh_delete" ELSE "rejected")
       /\ late' = IF s \in late \/ \E q \in Requests : Sweeping(q)
                  THEN late \cup {r} ELSE late
  /\ UNCHANGED <<stores, token, device, seen, erased, listed, superseded>>

\* Fault: deleteMany, which does not mind that the row is gone.
RefreshDeleteMany(r) ==
  /\ pc[r] = "refresh_delete"
  /\ sessions' = sessions \ {target[r]}
  /\ superseded' = superseded \cup {target[r]}
  /\ Goto(r, "refresh_create")
  /\ UNCHANGED <<user, refreshKeys, blacklist, token, device, locals, late>>

\* Deleting a row that is gone throws.
RefreshDelete(r) ==
  /\ pc[r] = "refresh_delete"
  /\ sessions' = sessions \ {target[r]}
  /\ superseded' = superseded \cup {target[r]}
  /\ Goto(r, IF target[r] \in sessions THEN "refresh_create" ELSE "failed")
  /\ UNCHANGED <<user, refreshKeys, blacklist, token, device, locals, late>>

RefreshCreate(r) == Create(r, "refresh_create", "refresh_read")

\* getUserDetails reads the roles; the status is not looked at.
RefreshRead(r) ==
  /\ pc[r] = "refresh_read"
  /\ seen' = [seen EXCEPT ![r] = Names(user.roles)]
  /\ Goto(r, "refresh_del")
  /\ UNCHANGED <<stores, token, device, target, erased, listed, history>>

DeleteKey(r, label, next) ==
  /\ pc[r] = label
  /\ refreshKeys' = refreshKeys \ {target[r]}
  /\ Goto(r, next)
  /\ UNCHANGED <<user, sessions, blacklist, token, device, target, seen, erased, history>>

RefreshDel(r) == DeleteKey(r, "refresh_del", "refresh_store") /\ UNCHANGED listed

RefreshStore(r) == Store(r, "refresh_store")

-----------------------------------------------------------------------------
(* POST auth/logout, logout-all: revokeRefreshToken *)

\* The guard in front is left out, which admits more logouts than the code.
LogoutGet(r) ==
  /\ "logout" \in Kinds /\ pc[r] = "new"
  /\ \E s \in Issued :
       /\ target' = [target EXCEPT ![r] = s]
       /\ Goto(r, IF s \in refreshKeys THEN "logout_blacklist" ELSE "rejected")
  /\ UNCHANGED <<stores, token, device, seen, erased, listed, history>>

LogoutBlacklist(r) ==
  /\ pc[r] = "logout_blacklist"
  /\ blacklist' = blacklist \cup {target[r]}
  /\ Goto(r, "logout_del")
  /\ UNCHANGED <<user, sessions, refreshKeys, token, device, locals, history>>

LogoutDel(r) == DeleteKey(r, "logout_del", "logout_delete") /\ UNCHANGED listed

\* Fault: the row is left to expire.
LogoutKeepsRow(r) ==
  /\ pc[r] = "logout_delete"
  /\ Goto(r, IF target[r] \in sessions THEN "logged_out" ELSE "failed")
  /\ UNCHANGED <<stores, token, device, locals, history>>

LogoutDelete(r) ==
  /\ pc[r] = "logout_delete"
  /\ sessions' = sessions \ {target[r]}
  /\ Goto(r, IF target[r] \in sessions THEN "logged_out" ELSE "failed")
  /\ UNCHANGED <<user, refreshKeys, blacklist, token, device, locals, history>>

-----------------------------------------------------------------------------
(* toggleBlockStatus and changeMemberRolesByName *)

BlockWrite(r) ==
  /\ "block" \in Kinds /\ pc[r] = "new"
  /\ user' = [user EXCEPT !.status = "blocked"]
  /\ Goto(r, "sweep_list")
  /\ UNCHANGED <<sessions, refreshKeys, blacklist, token, device, locals, history>>

\* Fault: the flag of the request is written, not the status it stands for.
UnblockFlag(r) ==
  /\ "unblock" \in Kinds /\ pc[r] = "new"
  /\ user' = [user EXCEPT !.status = "false"]
  /\ Goto(r, "done")
  /\ UNCHANGED <<sessions, refreshKeys, blacklist, token, device, locals, history>>

Unblock(r) ==
  /\ "unblock" \in Kinds /\ pc[r] = "new"
  /\ user' = [user EXCEPT !.status = "active"]
  /\ Goto(r, "done")
  /\ UNCHANGED <<sessions, refreshKeys, blacklist, token, device, locals, history>>

\* The transaction of a role change begins with deleteMany, which finds the
\* rows committed by now.
ChangeBegin(r) ==
  /\ "change" \in Kinds /\ pc[r] = "new"
  /\ \E roles \in RoleSets : seen' = [seen EXCEPT ![r] = roles]
  /\ erased' = [erased EXCEPT ![r] = user.roles]
  /\ Goto(r, "change_write")
  /\ UNCHANGED <<stores, token, device, target, listed, history>>

Changing(q) == seen[q] # None /\ (pc[q] = "sweep_list" \/ Sweeping(q))

\* deleteMany and createMany, which wait for transactions that have deleted
\* the same rows or inserted the same roles.  Rows deleted meanwhile are
\* passed over, and rows inserted meanwhile stay: with them a role may be
\* there already, which ends the transaction.
ChangeWrite(r) ==
  /\ pc[r] = "change_write"
  /\ \A q \in Requests : Changing(q) =>
       /\ erased[q] \cap erased[r] \cap user.roles = {}
       /\ seen[q] \cap seen[r] = {}
  /\ Goto(r, IF Names(user.roles \ erased[r]) \cap seen[r] = {}
             THEN "sweep_list" ELSE "failed")
  /\ UNCHANGED <<stores, token, device, locals, history>>

\* The sweep of a block or a role change: the sessions are listed, each is
\* blacklisted and loses its key, and all rows are deleted.  The history
\* variable notes who is signing in while it runs.
SweepList(r) ==
  /\ pc[r] = "sweep_list"
  /\ listed' = [listed EXCEPT ![r] = sessions]
  /\ Goto(r, IF sessions = {} THEN "sweep_delete" ELSE "sweep_blacklist")
  /\ late' = late \cup {q \in Requests : SigningIn(q)}
  /\ UNCHANGED <<stores, token, device, target, seen, erased, superseded>>

\* Fault: the refresh token is revoked, the access token is not.
SweepBlacklistSkipped(r) ==
  /\ pc[r] = "sweep_blacklist"
  /\ \E s \in listed[r] : target' = [target EXCEPT ![r] = s]
  /\ Goto(r, "sweep_del")
  /\ UNCHANGED <<stores, token, device, seen, erased, listed, history>>

SweepBlacklist(r) ==
  /\ pc[r] = "sweep_blacklist"
  /\ \E s \in listed[r] :
       /\ target' = [target EXCEPT ![r] = s]
       /\ blacklist' = blacklist \cup {s}
  /\ Goto(r, "sweep_del")
  /\ UNCHANGED <<user, sessions, refreshKeys, token, device, seen, erased, listed, history>>

\* Fault: the loop returns after its first session.
SweepDelFirst(r) ==
  /\ listed' = [listed EXCEPT ![r] = {}]
  /\ DeleteKey(r, "sweep_del", "sweep_delete")

SweepDel(r) ==
  LET rest == listed[r] \ {target[r]} IN
  /\ listed' = [listed EXCEPT ![r] = rest]
  /\ DeleteKey(r, "sweep_del", IF rest = {} THEN "sweep_delete" ELSE "sweep_blacklist")

\* A role change commits here.
SweepDelete(r) ==
  /\ pc[r] = "sweep_delete"
  /\ sessions' = {}
  /\ user' = IF seen[r] = None THEN user
             ELSE [user EXCEPT !.roles = (user.roles \ erased[r]) \cup (seen[r] \X {r})]
  /\ Goto(r, "done")
  /\ UNCHANGED <<refreshKeys, blacklist, token, device, locals, history>>

-----------------------------------------------------------------------------

Login(r) == LoginValidate(r) \/ LoginClear(r) \/ LoginCreate(r) \/ LoginStore(r)

Refresh(r) ==
  \/ RefreshGet(r) \/ RefreshDelete(r) \/ RefreshCreate(r)
  \/ RefreshRead(r) \/ RefreshDel(r) \/ RefreshStore(r)

Logout(r) == LogoutGet(r) \/ LogoutBlacklist(r) \/ LogoutDel(r) \/ LogoutDelete(r)

Team(r) ==
  \/ BlockWrite(r) \/ Unblock(r) \/ ChangeBegin(r) \/ ChangeWrite(r)
  \/ SweepList(r) \/ SweepBlacklist(r) \/ SweepDel(r) \/ SweepDelete(r)

AtRest(r) == pc[r] \in Final \cup {"new"}

\* A call or a query fails, or the server dies; a transaction rolls back,
\* what it did in Redis stays.
BreakOff(r) ==
  /\ Faults
  /\ ~AtRest(r)
  /\ Goto(r, IF pc[r] = "sweep_list" \/ Sweeping(r) THEN "unswept" ELSE "broken")
  /\ UNCHANGED <<stores, token, device, locals, history>>

Next == \E r \in Requests : Login(r) \/ Refresh(r) \/ Logout(r) \/ Team(r) \/ BreakOff(r)

Spec == Init /\ [][Next]_vars

-----------------------------------------------------------------------------
(* Properties *)

\* The type of every variable.
TypeOK ==
  /\ user \in [status: {"active", "blocked"}, roles: SUBSET RoleRows]
  /\ sessions \in SUBSET Requests
  /\ refreshKeys \in SUBSET Requests
  /\ blacklist \in SUBSET Requests
  /\ token \in [Requests -> (SUBSET Roles) \cup {None}]
  /\ device \in [Requests -> Devices]
  /\ pc \in [Requests -> Labels]
  /\ target \in [Requests -> Requests \cup {None}]
  /\ seen \in [Requests -> (SUBSET Roles) \cup {None}]
  /\ erased \in [Requests -> SUBSET RoleRows]
  /\ listed \in [Requests -> SUBSET Requests]
  /\ late \in SUBSET Requests

\* Whether r has taken its session's row away, by a refresh or a logout.
Ended(r) ==
  \/ pc[r] = "logged_out"
  \/ target[r] # None /\ pc[r] \in Refreshing \cup {"answered"}

\* A session ends once: of any number of refreshes and logouts that found
\* its key at the same time, one goes through (refreshToken,
\* revokeRefreshToken).
SessionEndsOnce ==
  \A q, r \in Requests : Ended(q) /\ Ended(r) /\ target[q] = target[r] => q = r

BlockSettled ==
  /\ user.status = "blocked"
  /\ \A r \in Requests : ~Sweeping(r) /\ pc[r] \notin {"sweep_list", "unswept"}

\* A blocked user has no access token that works but those of sessions that
\* were replaced before, and of logins and refreshes that overlap the sweep
\* (toggleBlockStatus).
BlockReachesSessions ==
  BlockSettled => \A s \in Requests : AccessUsable(s) => s \in late \cup superseded

\* With the same exceptions a token that works carries the roles the user
\* has now, also when role changes overlap and the user ends up with the
\* roles of both (changeMemberRolesByName).
RolesCurrent ==
  \A s \in Requests :
    AccessUsable(s) /\ s \notin late \cup superseded => token[s] = Names(user.roles)

\* Once all is quiet the three stores agree: the sessions a user is shown
\* can be refreshed and are not revoked, unless a handler broke off.
StoresAgree ==
  (\A r \in Requests : AtRest(r) /\ pc[r] \notin {"broken", "unswept"})
    => sessions \subseteq refreshKeys \ blacklist

(* The abstract specification *)

\* Requests that will not create a session any more.
PastCreation ==
  {r \in Requests : pc[r] \in {"login_store", "refresh_read", "refresh_del",
                              "refresh_store", "answered", "broken"}}

SessionRegister ==
  INSTANCE Register WITH Grants <- Requests, valid <- sessions,
                         ended <- PastCreation \ sessions
KeyRegister ==
  INSTANCE Register WITH Grants <- Requests, valid <- refreshKeys,
                         ended <- Issued \ refreshKeys

\* A session whose row is gone, and a refresh token that was used or revoked,
\* do not come back: no request creates a row or a key that another has taken
\* away, whatever the order of logins, refreshes, logouts and sweeps.
ImplementsRegister == SessionRegister!Spec /\ KeyRegister!Spec

(* What the developer guide says and the code refutes *)

\* "Blocking a user invalidates sessions and refresh tokens": no access token
\* of a blocked user works, if no login or refresh overlapped a sweep.
BlockInvalidates ==
  BlockSettled /\ late = {} => \A s \in Requests : ~AccessUsable(s)
=============================================================================
