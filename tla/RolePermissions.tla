---------------------------- MODULE RolePermissions ----------------------------
(***************************************************************************)
(* Roles, their permissions and the Redis cache role:<name> that the       *)
(* permission guard reads.  Sources: admin/role/role.service.ts (create,   *)
(* update, remove), auth/guards/permission.guard.ts, the loop over the     *)
(* roles in me of auth/auth.service.ts, and common/redis/redis-keys.ts.    *)
(*                                                                         *)
(* The cache has no time to live.  Role requests write it after they have  *)
(* written the database; the guard and me fill it where they find nothing. *)
(* Every handler is cut at its awaits.                                     *)
(*                                                                         *)
(* A name is a key with a spelling: the cache and the guard's query ignore *)
(* case, the uniqueness of names does not, so that two roles can share a   *)
(* key.  A role is known by its id; one that is created is named after the *)
(* request that did.                                                       *)
(*                                                                         *)
(* Abstracted: the protected Super User role, which update and remove turn *)
(* down, is none of the roles here.  A query and its includes is one step. *)
(* A user with several roles is several me requests.  The SETs of a guard  *)
(* leave in one batch over one connection.                                 *)
(***************************************************************************)
EXTENDS FiniteSets

CONSTANTS Requests,   \* the requests of a behaviour, each served once
          Kinds,      \* the kinds of requests a run admits
          Seeded,     \* ids of the roles there may be at first
          Keys,       \* names in lower case, as in the keys of the cache
          Spellings,  \* ways to write a name
          Perms,      \* permissions
          None,       \* no role, no entry, no value
          Faults      \* whether handlers may break off and the cache be lost

ASSUME KindsAssumption ==
  Kinds \subseteq {"guard", "me", "create", "update", "remove"}
ASSUME FaultsAssumption == Faults \in BOOLEAN
ASSUME SeededAssumption == Seeded \cap Requests = {}
ASSUME NoneAssumption ==
  /\ None \notin Seeded \cup Requests \cup Perms
  /\ \A perms \in SUBSET Perms : perms # None
  /\ \A n \in Keys \X Spellings : n # None
  /\ \A row \in [name: Keys \X Spellings, perms: SUBSET Perms] : row # None

VARIABLES role,     \* rows of roles with their rows of role_permissions
          cache,    \* cache[k]: the permissions under role:<k>
          pc,       \* pc[r]: the await request r has reached
          held,     \* held[r]: keys of the roles in the token a guard looks at
          asked,    \* asked[r]: the permission the route of a guard requires
          op,       \* op[r]: the local variables of the handler of r
          dirty,    \* history: keys whose last change was raced or broken off
          calm      \* history: guards that no change of a role overlaps

vars == <<role, cache, pc, held, asked, op, dirty, calm>>

Ids == Seeded \cup Requests
Names == Keys \X Spellings
Grants == SUBSET Perms
Role == [name: Names, perms: Grants]
Payload == [name: {None} \cup Names, perms: {None} \cup Grants]

\* RedisKeys.rolePermissions.
Key(n) == n[1]

Live == {i \in Ids : role[i] # None}
NameTaken(n) == \E i \in Live : role[i].name = n
RolesAt(k) == {i \in Live : Key(role[i].name) = k}

\* What a lookup by key may come to.  Of two roles that share the key the
\* last one in the answer wins; no role has no permissions.
PermissionsAt(k) ==
  IF RolesAt(k) = {} THEN {{}} ELSE {role[i].perms : i \in RolesAt(k)}

\* The local variables of a handler: the role it is about, the name of that
\* role as it was read, the payload, the permissions it has in its hands by
\* key, and the keys it is going to SET.
Idle == [id |-> None, name |-> None, input |-> None,
         found |-> [k \in Keys |-> None], missing |-> {}]

Init ==
  /\ role \in [Ids -> {None} \cup Role]
  /\ \A i \in Ids : role[i] # None =>
       i \in Seeded /\ \A j \in Ids \ {i} : role[j] # None => role[j].name # role[i].name
  /\ cache = [k \in Keys |-> None]
  /\ pc = [r \in Requests |-> "new"]
  /\ held = [r \in Requests |-> {}]
  /\ asked = [r \in Requests |-> None]
  /\ op = [r \in Requests |-> Idle]
  /\ dirty = {} /\ calm = {}

Goto(r, label) == pc' = [pc EXCEPT ![r] = label]

\* The handler of r returns or throws.
End(r, label) == Goto(r, label) /\ op' = [op EXCEPT ![r] = Idle]

\* r is going to SET these keys, to what it has read or is going to read
\* for a role it has read.
Holding(r) == IF pc[r] = "guard_read" THEN {} ELSE op[r].missing

\* r has changed the database and is going to DEL this key.
Dropping(r) ==
  IF pc[r] \in {"update_cache", "update_del", "remove_del"} THEN {Key(op[r].name)} ELSE {}

\* r changes roles under the keys touched, and is going to SET or DEL the
\* keys own.  Whoever else is about to SET such a key has read too early.
Commit(r, touched, own) ==
  /\ dirty' = {k \in dirty \cup touched :
                 k \notin own \/ \E q \in Requests \ {r} : k \in Holding(q)}
  /\ calm' = {q \in calm : held[q] \cap touched = {}}

\* SET of the keys r has been missing.
SetMissing(r) ==
  cache' = [k \in Keys |-> IF k \in op[r].missing THEN op[r].found[k] ELSE cache[k]]

-----------------------------------------------------------------------------
(* PermissionGuard *)

Verdict(keys, p, values) == IF \E k \in keys : p \in values[k] THEN "granted" ELSE "denied"

\* MGET.  An entry is a hit even if it lists nothing.
GuardMget(r) ==
  /\ "guard" \in Kinds /\ pc[r] = "new"
  /\ \E keys \in (SUBSET Keys) \ {{}}, p \in Perms :
       LET misses == {k \in keys : cache[k] = None} IN
       /\ held' = [held EXCEPT ![r] = keys]
       /\ asked' = [asked EXCEPT ![r] = p]
       /\ IF misses = {} THEN End(r, Verdict(keys, p, cache))
          ELSE /\ op' = [op EXCEPT ![r] = [@ EXCEPT !.missing = misses,
                      !.found = [k \in Keys |-> IF k \in keys THEN cache[k] ELSE None]]]
               /\ Goto(r, "guard_read")
       /\ calm' = IF \E k \in keys : \/ k \in dirty
                                     \/ \E q \in Requests : k \in Holding(q) \cup Dropping(q)
                  THEN calm ELSE calm \cup {r}
  /\ UNCHANGED <<role, cache, dirty>>

\* Fault: what the query yields takes the place of the hits.
GuardReadOnly(r) ==
  /\ pc[r] = "guard_read"
  /\ \E read \in [Keys -> {None} \cup Grants] :
       /\ \A k \in Keys : IF k \in op[r].missing THEN read[k] \in PermissionsAt(k)
                         ELSE read[k] = {}
       /\ op' = [op EXCEPT ![r] = [@ EXCEPT !.found = read]]
  /\ Goto(r, "guard_write")
  /\ UNCHANGED <<role, cache, held, asked, dirty, calm>>

\* findMany, ignoring case.
GuardRead(r) ==
  /\ pc[r] = "guard_read"
  /\ \E read \in [Keys -> {None} \cup Grants] :
       /\ \A k \in Keys : IF k \in op[r].missing THEN read[k] \in PermissionsAt(k)
                         ELSE read[k] = op[r].found[k]
       /\ op' = [op EXCEPT ![r] = [@ EXCEPT !.found = read]]
  /\ Goto(r, "guard_write")
  /\ UNCHANGED <<role, cache, held, asked, dirty, calm>>

\* The entries that were missing are SET, and the guard decides.
GuardWrite(r) ==
  /\ pc[r] = "guard_write"
  /\ SetMissing(r)
  /\ End(r, Verdict(held[r], asked[r], op[r].found))
  /\ UNCHANGED <<role, held, asked, dirty, calm>>

Guard(r) == GuardMget(r) \/ GuardRead(r) \/ GuardWrite(r)

-----------------------------------------------------------------------------
(* GET auth/me, for one of the roles of the user *)

\* The user with its roles: the name the key is made of is read here.
MeFind(r) ==
  /\ "me" \in Kinds /\ pc[r] = "new"
  /\ \E i \in Live :
       op' = [op EXCEPT ![r] = [@ EXCEPT !.id = i, !.name = role[i].name,
                                            !.missing = {Key(role[i].name)}]]
  /\ Goto(r, "me_get")
  /\ UNCHANGED <<role, cache, held, asked, dirty, calm>>

\* A failing GET is a miss.
MeGet(r) ==
  /\ pc[r] = "me_get"
  /\ \/ /\ cache[Key(op[r].name)] # None
        /\ End(r, "done")
     \/ /\ cache[Key(op[r].name)] = None \/ Faults
        /\ Goto(r, "me_read")
        /\ UNCHANGED op
  /\ UNCHANGED <<role, cache, held, asked, dirty, calm>>

\* Fault: the name of the role is kept instead of those of its permissions.
MeReadName(r) ==
  /\ pc[r] = "me_read"
  /\ op' = [op EXCEPT ![r] = [@ EXCEPT !.found[Key(op[r].name)] = {op[r].name}]]
  /\ Goto(r, "me_set")
  /\ UNCHANGED <<role, cache, held, asked, dirty, calm>>

\* By id: a role that is gone has no permissions.
MeRead(r) ==
  /\ pc[r] = "me_read"
  /\ op' = [op EXCEPT ![r] = [@ EXCEPT !.found[Key(op[r].name)] =
              IF op[r].id \in Live THEN role[op[r].id].perms ELSE {}]]
  /\ Goto(r, "me_set")
  /\ UNCHANGED <<role, cache, held, asked, dirty, calm>>

\* A failing SET is logged and forgotten.
MeSet(r) ==
  /\ pc[r] = "me_set"
  /\ SetMissing(r) \/ (Faults /\ UNCHANGED cache)
  /\ End(r, "done")
  /\ UNCHANGED <<role, held, asked, dirty, calm>>

Me(r) == MeFind(r) \/ MeGet(r) \/ MeRead(r) \/ MeSet(r)

-----------------------------------------------------------------------------
(* POST admin/role *)

CreateFind(r) ==
  /\ "create" \in Kinds /\ pc[r] = "new"
  /\ \E given \in Role :
       IF NameTaken(given.name) THEN End(r, "rejected")
       ELSE Goto(r, "create_insert") /\ op' = [op EXCEPT ![r] = [@ EXCEPT !.input = given]]
  /\ UNCHANGED <<role, cache, held, asked, dirty, calm>>

\* The row is written, and r has its permissions to cache under its name.
Written(r, i, row) ==
  /\ role' = [role EXCEPT ![i] = row]
  /\ op' = [op EXCEPT ![r] = [@ EXCEPT !.found[Key(row.name)] = row.perms,
                                       !.missing = {Key(row.name)}]]

Refused(r) == End(r, "rejected") /\ UNCHANGED <<role, dirty, calm>>

\* The unique index on roles.name looks again.
CreateInsert(r) ==
  /\ pc[r] = "create_insert"
  /\ LET row == op[r].input IN
     IF NameTaken(row.name) THEN Refused(r)
     ELSE /\ Written(r, r, row)
          /\ Commit(r, {Key(row.name)}, {Key(row.name)})
          /\ Goto(r, "create_cache")
  /\ UNCHANGED <<cache, held, asked>>

\* cacheRolePermissions: SET what the write returned.
CreateCache(r) ==
  /\ pc[r] = "create_cache"
  /\ SetMissing(r)
  /\ End(r, "done")
  /\ UNCHANGED <<role, held, asked, dirty, calm>>

Create(r) == CreateFind(r) \/ CreateInsert(r) \/ CreateCache(r)

-----------------------------------------------------------------------------
(* PATCH admin/role/:id *)

\* The payload may leave out the name, the permissions or both.
UpdateFind(r) ==
  /\ "update" \in Kinds /\ pc[r] = "new"
  /\ \E i \in Live, given \in Payload :
       /\ op' = [op EXCEPT ![r] = [@ EXCEPT !.id = i, !.name = role[i].name, !.input = given]]
       /\ Goto(r, IF given.name \in {None, role[i].name} THEN "update_write" ELSE "update_clash")
  /\ UNCHANGED <<role, cache, held, asked, dirty, calm>>

UpdateClash(r) ==
  /\ pc[r] = "update_clash"
  /\ IF NameTaken(op[r].input.name) THEN End(r, "rejected")
     ELSE Goto(r, "update_write") /\ UNCHANGED op
  /\ UNCHANGED <<role, cache, held, asked, dirty, calm>>

\* The row may be gone or the name taken by now, and both throw.
UpdateWrite(r) ==
  /\ pc[r] = "update_write"
  /\ LET i == op[r].id
         given == op[r].input
         row == [name |-> IF given.name = None THEN role[i].name ELSE given.name,
                 perms |-> IF given.perms = None THEN role[i].perms ELSE given.perms]
     IN
     IF i \notin Live \/ \E j \in Live \ {i} : role[j].name = row.name
     THEN Refused(r)
     ELSE /\ Written(r, i, row)
          /\ Commit(r, {Key(role[i].name), Key(row.name)}, {Key(op[r].name), Key(row.name)})
          /\ Goto(r, "update_cache")
  /\ UNCHANGED <<cache, held, asked>>

\* Fault: the entry under the old name stays when a role is renamed.
UpdateCacheOnly(r) ==
  /\ pc[r] = "update_cache"
  /\ SetMissing(r)
  /\ End(r, "done")
  /\ UNCHANGED <<role, held, asked, dirty, calm>>

\* cacheRolePermissions; the entry under the name that was read goes next
\* if its key is another one.
UpdateCache(r) ==
  /\ pc[r] = "update_cache"
  /\ SetMissing(r)
  /\ IF op[r].missing = {Key(op[r].name)} THEN End(r, "done")
     ELSE Goto(r, "update_del") /\ op' = [op EXCEPT ![r] = [@ EXCEPT !.missing = {}]]
  /\ UNCHANGED <<role, held, asked, dirty, calm>>

\* The DEL of the entry under the name that was read.
Drop(r, label) ==
  /\ pc[r] = label
  /\ cache' = [cache EXCEPT ![Key(op[r].name)] = None]
  /\ End(r, "done")
  /\ UNCHANGED <<role, held, asked, dirty, calm>>

UpdateDel(r) == Drop(r, "update_del")

Update(r) ==
  UpdateFind(r) \/ UpdateClash(r) \/ UpdateWrite(r) \/ UpdateCache(r) \/ UpdateDel(r)

-----------------------------------------------------------------------------
(* DELETE admin/role/:id *)

RemoveFind(r) ==
  /\ "remove" \in Kinds /\ pc[r] = "new"
  /\ \E i \in Live : op' = [op EXCEPT ![r] = [@ EXCEPT !.id = i, !.name = role[i].name]]
  /\ Goto(r, "remove_delete")
  /\ UNCHANGED <<role, cache, held, asked, dirty, calm>>

RemoveDelete(r) ==
  /\ pc[r] = "remove_delete"
  /\ LET i == op[r].id IN
     IF i \notin Live THEN Refused(r)
     ELSE /\ role' = [role EXCEPT ![i] = None]
          /\ Commit(r, {Key(role[i].name)}, {Key(op[r].name)})
          /\ Goto(r, "remove_del")
          /\ UNCHANGED op
  /\ UNCHANGED <<cache, held, asked>>

RemoveDel(r) == Drop(r, "remove_del")

Remove(r) == RemoveFind(r) \/ RemoveDelete(r) \/ RemoveDel(r)

-----------------------------------------------------------------------------
(* Failures *)

Final == {"granted", "denied", "done", "rejected", "broken"}

\* A call of the handler fails, or its server dies.  What it has committed
\* stays, and the cache is not brought up to date.
BreakOff(r) ==
  /\ Faults
  /\ pc[r] \notin Final \cup {"new"}
  /\ dirty' = IF pc[r] \in {"create_cache", "update_cache", "update_del", "remove_del"}
              THEN dirty \cup Holding(r) \cup Dropping(r) ELSE dirty
  /\ End(r, "broken")
  /\ UNCHANGED <<role, cache, held, asked, calm>>

\* Redis is emptied or evicts a key.
CacheLost(k) ==
  /\ Faults
  /\ cache' = [cache EXCEPT ![k] = None]
  /\ UNCHANGED <<role, pc, held, asked, op, dirty, calm>>

Handler(r) == Guard(r) \/ Me(r) \/ Create(r) \/ Update(r) \/ Remove(r)

Next ==
  \/ \E r \in Requests : Handler(r) \/ BreakOff(r)
  \/ \E k \in Keys : CacheLost(k)

Spec == Init /\ [][Next]_vars
-----------------------------------------------------------------------------
(* Properties *)

Labels == Final \cup {"new", "guard_read", "guard_write", "me_get", "me_read", "me_set",
                      "create_insert", "create_cache", "update_clash", "update_write",
                      "update_cache", "update_del", "remove_delete", "remove_del"}

Local == [id: {None} \cup Ids, name: {None} \cup Names, input: {None} \cup Payload,
          found: [Keys -> {None} \cup Grants], missing: SUBSET Keys]

\* The type of every variable.
TypeOK ==
  /\ role \in [Ids -> {None} \cup Role]
  /\ cache \in [Keys -> {None} \cup Grants]
  /\ pc \in [Requests -> Labels]
  /\ held \in [Requests -> SUBSET Keys]
  /\ asked \in [Requests -> {None} \cup Perms]
  /\ op \in [Requests -> Local]
  /\ dirty \subseteq Keys
  /\ calm \subseteq Requests

\* The entry of a key is missing or is what the database says, unless a
\* request is about to change it, or the last change of a role of that name
\* was overtaken by another writer or a fill, or broke off (role.service.ts
\* writes the cache in the flow of every change; nothing repairs it later).
CacheCurrent ==
  \A k \in Keys :
    \/ k \in dirty
    \/ \E r \in Requests : k \in Holding(r) \cup Dropping(r)
    \/ cache[k] \in {None} \cup PermissionsAt(k)

\* A guard that overlaps no change of its roles decides by the database,
\* whatever part of the permissions it took from the cache
\* (permission.guard.ts merges hits and misses).
GuardDecidesRight ==
  [][\A r \in calm' :
       pc'[r] # pc[r] =>
         /\ pc'[r] = "granted" =>
              \E k \in held'[r] : \E perms \in PermissionsAt(k) : asked'[r] \in perms
         /\ pc'[r] = "denied" =>
              \A k \in held'[r] : \E perms \in PermissionsAt(k) : asked'[r] \notin perms]_vars
=============================================================================
