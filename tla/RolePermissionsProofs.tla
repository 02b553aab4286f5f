------------------------- MODULE RolePermissionsProofs -------------------------
(***************************************************************************)
(* RolePermissions: type correctness, that the cache is current where      *)
(* nothing raced or broke off, and that guards decide by the database.     *)
(*                                                                         *)
(* CacheCurrent is not inductive. A request that is going to SET a key     *)
(* that is not dirty must have the right permissions in its hands, or be   *)
(* about to read them for a role that still has the key (Fresh); and an    *)
(* entry that is out of date waits for a request that has changed the      *)
(* database (Follows). Locals and Unborn say where the locals of a request *)
(* are set and that the id of a new role is new. With these, a guard in    *)
(* calm has in its hands what the database has (CalmKnows).                *)
(***************************************************************************)
EXTENDS RolePermissions, TLAPS

USE DEF Final, Labels

MeSteps == {"me_get", "me_read", "me_set"}
Reading == {"me_get", "me_read"}
InHand == {"guard_write", "create_cache", "update_cache", "me_set"}
Committed == {"create_cache", "update_cache", "update_del", "remove_del"}
Named == MeSteps \cup {"update_clash", "update_write", "update_cache", "update_del",
                       "remove_delete", "remove_del"}

\* The locals a request has at each await.
Locals ==
  \A r \in Requests :
    /\ op[r].missing # {} => pc[r] \in {"guard_read"} \cup Reading \cup InHand
    /\ pc[r] \in MeSteps => op[r].missing = {Key(op[r].name)}
    /\ pc[r] \in Named => op[r].name \in Names /\ op[r].id \in Ids
    /\ pc[r] = "create_insert" => op[r].input \in Role
    /\ pc[r] \in {"update_clash", "update_write"} => op[r].input \in Payload

\* The id of a role that is created was not in use.
Unborn ==
  \A r \in Requests : role[r] # None => pc[r] \in {"create_cache", "done", "broken"}

\* What is going to be SET is what the database says.
Fresh ==
  \A r \in Requests : \A k \in Keys \ dirty :
    k \in Holding(r) =>
      /\ pc[r] \in InHand => op[r].found[k] \in PermissionsAt(k)
      /\ pc[r] \in Reading => op[r].id \in Live /\ Key(role[op[r].id].name) = k

\* An entry that is not up to date waits for a request that will see to it.
Follows ==
  \A k \in Keys \ dirty :
    \/ cache[k] \in {None} \cup PermissionsAt(k)
    \/ \E r \in Requests : pc[r] \in Committed /\ k \in Holding(r) \cup Dropping(r)

IInv == TypeOK /\ Locals /\ Unborn /\ Fresh /\ Follows

-----------------------------------------------------------------------------
(* Types and locals *)

LEMMA IdleIsLocal == Idle \in Local /\ Idle.missing = {}
  BY DEF Idle, Local

LEMMA NoneIsNoRole == ASSUME NEW row \in Role PROVE row # None
  BY NoneAssumption DEF Role, Names, Grants

LEMMA KeysOfNames == ASSUME NEW n \in Names PROVE Key(n) \in Keys
  BY DEF Names, Key

\* What a handler does to its locals keeps their type.
LEMMA LocalRead ==
  ASSUME NEW o \in Local, NEW i \in Ids, NEW n \in Names, NEW ks \in SUBSET Keys
  PROVE  [o EXCEPT !.id = i, !.name = n, !.missing = ks] \in Local
  BY DEF Local

LEMMA LocalTarget ==
  ASSUME NEW o \in Local, NEW i \in Ids, NEW n \in Names
  PROVE  /\ [o EXCEPT !.id = i, !.name = n] \in Local
         /\ \A given \in Payload :
              [o EXCEPT !.id = i, !.name = n, !.input = given] \in Local
  BY DEF Local

LEMMA LocalInput ==
  ASSUME NEW o \in Local, NEW given \in Payload
  PROVE  [o EXCEPT !.input = given] \in Local
  BY DEF Local

LEMMA LocalMisses ==
  ASSUME NEW o \in Local, NEW f \in [Keys -> {None} \cup Grants], NEW ks \in SUBSET Keys
  PROVE  [o EXCEPT !.missing = ks, !.found = f] \in Local
  BY DEF Local

LEMMA LocalFills ==
  ASSUME NEW o \in Local, NEW f \in [Keys -> {None} \cup Grants]
  PROVE  [o EXCEPT !.found = f] \in Local
  BY DEF Local

LEMMA LocalMissing ==
  ASSUME NEW o \in Local, NEW ks \in SUBSET Keys
  PROVE  [o EXCEPT !.missing = ks] \in Local
  BY DEF Local

LEMMA LocalFound ==
  ASSUME NEW o \in Local, NEW k \in Keys, NEW perms \in Grants, NEW ks \in SUBSET Keys
  PROVE  /\ [o EXCEPT !.found[k] = perms] \in Local
         /\ [o EXCEPT !.found[k] = perms, !.missing = ks] \in Local
  BY DEF Local

\* A write of a role, too.
LEMMA WriteTypes ==
  ASSUME TypeOK, NEW r \in Requests, NEW i \in Ids, NEW row \in Role, Written(r, i, row)
  PROVE  role' \in [Ids -> {None} \cup Role] /\ op' \in [Requests -> Local]
<1>1. Key(row.name) \in Keys /\ row.perms \in Grants /\ op[r] \in Local
  BY KeysOfNames DEF Role, TypeOK
<1>2. op' = [op EXCEPT ![r] = [op[r] EXCEPT !.found[Key(row.name)] = row.perms,
                                            !.missing = {Key(row.name)}]]
  BY DEF Written
<1>3. op' \in [Requests -> Local]
  BY <1>1, <1>2, LocalFound DEF TypeOK
<1> QED
  BY <1>3 DEF Written, TypeOK

\* Every step keeps the types.
LEMMA TypeStep == TypeOK /\ Locals /\ [Next]_vars => TypeOK'
<1> SUFFICES ASSUME TypeOK, Locals, [Next]_vars PROVE TypeOK'
  OBVIOUS
<1> USE NoneAssumption, IdleIsLocal DEF TypeOK, Goto, End, SetMissing
<1>a. \A r \in Requests : op[r] \in Local
  OBVIOUS
<1>b. \A i \in Live : i \in Ids /\ role[i].name \in Names /\ role[i].perms \in Grants
  BY DEF Live, Role
<1>c. \A r \in Requests : /\ op[r].missing \in SUBSET Keys
                          /\ op[r].found \in [Keys -> {None} \cup Grants]
  BY <1>a DEF Local
<1>d. \A n \in Names : Key(n) \in Keys
  BY KeysOfNames
<1>e. \A r \in Requests : pc[r] \in Named => op[r].name \in Names /\ op[r].id \in Ids
  BY DEF Locals
<1>1. ASSUME NEW r \in Requests, GuardMget(r) PROVE TypeOK'
  <2>1. PICK keys \in SUBSET Keys, p \in Perms :
          /\ held' = [held EXCEPT ![r] = keys]
          /\ asked' = [asked EXCEPT ![r] = p]
          /\ \/ op' = [op EXCEPT ![r] = Idle]
             \/ op' = [op EXCEPT ![r] = [op[r] EXCEPT !.missing = {k \in keys : cache[k] = None},
                  !.found = [k \in Keys |-> IF k \in keys THEN cache[k] ELSE None]]]
          /\ pc' \in [Requests -> Labels]
    <3>1. PICK keys \in (SUBSET Keys) \ {{}}, p \in Perms :
            /\ held' = [held EXCEPT ![r] = keys]
            /\ asked' = [asked EXCEPT ![r] = p]
            /\ \/ End(r, Verdict(keys, p, cache))
               \/ /\ op' = [op EXCEPT ![r] = [@ EXCEPT !.missing = {k \in keys : cache[k] = None},
                       !.found = [k \in Keys |-> IF k \in keys THEN cache[k] ELSE None]]]
                  /\ Goto(r, "guard_read")
      BY <1>1, Zenon DEF GuardMget
    <3>2. CASE End(r, Verdict(keys, p, cache))
      <4>1. Verdict(keys, p, cache) \in Labels
        BY DEF Verdict
      <4>2. pc' \in [Requests -> Labels] /\ op' = [op EXCEPT ![r] = Idle]
        BY <3>2, <4>1
      <4> QED
        BY <3>1, <4>2
    <3>3. CASE /\ op' = [op EXCEPT ![r] = [@ EXCEPT !.missing = {k \in keys : cache[k] = None},
                     !.found = [k \in Keys |-> IF k \in keys THEN cache[k] ELSE None]]]
               /\ Goto(r, "guard_read")
      <4>1. pc' \in [Requests -> Labels]
        BY <3>3
      <4> QED
        BY <3>1, <3>3, <4>1
    <3> QED
      BY <3>1, <3>2, <3>3
  <2> DEFINE f == [k \in Keys |-> IF k \in keys THEN cache[k] ELSE None]
  <2>2. f \in [Keys -> {None} \cup Grants] /\ {k \in keys : cache[k] = None} \in SUBSET Keys
    OBVIOUS
  <2>3. op' \in [Requests -> Local]
    <3> DEFINE o == [op[r] EXCEPT !.missing = {k \in keys : cache[k] = None}, !.found = f]
    <3>1. o \in Local
      BY <2>2, <1>a, LocalMisses
    <3>2. op' = [op EXCEPT ![r] = Idle] \/ op' = [op EXCEPT ![r] = o]
      BY <2>1
    <3> HIDE DEF o
    <3> QED
      BY <3>1, <3>2
  <2> QED
    BY <1>1, <2>1, <2>3 DEF GuardMget
<1>2. ASSUME NEW r \in Requests, GuardRead(r) PROVE TypeOK'
  <2>1. PICK read \in [Keys -> {None} \cup Grants] :
          op' = [op EXCEPT ![r] = [op[r] EXCEPT !.found = read]]
    BY <1>2 DEF GuardRead
  <2>2. op' \in [Requests -> Local]
    BY <2>1, <1>a, LocalFills
  <2> QED
    BY <1>2, <2>2 DEF GuardRead
<1>3. ASSUME NEW r \in Requests, GuardWrite(r) PROVE TypeOK'
  BY <1>3, <1>c DEF GuardWrite, Verdict
<1>4. ASSUME NEW r \in Requests, MeFind(r) PROVE TypeOK'
  <2>1. PICK i \in Live :
          op' = [op EXCEPT ![r] = [op[r] EXCEPT !.id = i, !.name = role[i].name,
                                                !.missing = {Key(role[i].name)}]]
    BY <1>4 DEF MeFind
  <2>2. op' \in [Requests -> Local]
    BY <2>1, <1>a, <1>b, <1>d, LocalRead
  <2> QED
    BY <1>4, <2>2 DEF MeFind
<1>5. ASSUME NEW r \in Requests, MeGet(r) PROVE TypeOK'
  BY <1>5 DEF MeGet
<1>6. ASSUME NEW r \in Requests, MeRead(r) PROVE TypeOK'
  BY <1>6, <1>a, <1>b, <1>d, <1>e, LocalFound DEF MeRead, Named, MeSteps, Grants
<1>7. ASSUME NEW r \in Requests, MeSet(r) PROVE TypeOK'
  BY <1>7, <1>c DEF MeSet
<1>8. ASSUME NEW r \in Requests, CreateFind(r) PROVE TypeOK'
  BY <1>8, <1>a, LocalInput DEF CreateFind, Role, Payload
<1>9. ASSUME NEW r \in Requests, CreateInsert(r) PROVE TypeOK'
  <2>1. op[r].input \in Role
    BY <1>9 DEF CreateInsert, Locals
  <2>2. op[r].input.name \in Names /\ op[r].input.perms \in Grants
    BY <2>1 DEF Role
  <2>3. CASE Refused(r)
    BY <1>9, <2>3 DEF CreateInsert, Refused
  <2>4. CASE ~Refused(r)
    <3>1. /\ Written(r, r, op[r].input)
          /\ Commit(r, {Key(op[r].input.name)}, {Key(op[r].input.name)})
          /\ pc' = [pc EXCEPT ![r] = "create_cache"]
          /\ UNCHANGED <<cache, held, asked>>
      BY <1>9, <2>4 DEF CreateInsert
    <3>2. role' \in [Ids -> {None} \cup Role] /\ op' \in [Requests -> Local]
      BY <3>1, <2>1, WriteTypes DEF Ids
    <3> QED
      BY <3>1, <3>2, <2>2, <1>d DEF Commit
  <2> QED
    BY <2>3, <2>4
<1>10. ASSUME NEW r \in Requests, CreateCache(r) PROVE TypeOK'
  BY <1>10, <1>c DEF CreateCache
<1>11. ASSUME NEW r \in Requests, UpdateFind(r) PROVE TypeOK'
  <2>1. PICK i \in Live, given \in Payload :
          op' = [op EXCEPT ![r] = [op[r] EXCEPT !.id = i, !.name = role[i].name,
                                                !.input = given]]
    BY <1>11 DEF UpdateFind
  <2>2. op' \in [Requests -> Local]
    BY <2>1, <1>a, <1>b, LocalTarget
  <2> QED
    BY <1>11, <2>2 DEF UpdateFind
<1>12. ASSUME NEW r \in Requests, UpdateClash(r) PROVE TypeOK'
  BY <1>12 DEF UpdateClash
<1>13. ASSUME NEW r \in Requests, UpdateWrite(r) PROVE TypeOK'
  <2>1. CASE Refused(r)
    BY <1>13, <2>1 DEF UpdateWrite, Refused
  <2>2. CASE ~Refused(r)
    <3> DEFINE i == op[r].id
               row == [name |-> IF op[r].input.name = None THEN role[i].name
                                ELSE op[r].input.name,
                       perms |-> IF op[r].input.perms = None THEN role[i].perms
                                 ELSE op[r].input.perms]
    <3>1. /\ i \in Live
          /\ Written(r, i, row)
          /\ Commit(r, {Key(role[i].name), Key(row.name)}, {Key(op[r].name), Key(row.name)})
          /\ pc' = [pc EXCEPT ![r] = "update_cache"]
          /\ UNCHANGED <<cache, held, asked>>
      BY <1>13, <2>2 DEF UpdateWrite
    <3>2. op[r].input \in Payload
      BY <1>13 DEF UpdateWrite, Locals
    <3>3. row \in Role
      BY <3>1, <3>2, <1>b DEF Role, Payload
    <3>4. role' \in [Ids -> {None} \cup Role] /\ op' \in [Requests -> Local]
      BY <3>1, <3>3, <1>b, WriteTypes
    <3>5. Key(role[i].name) \in Keys /\ Key(row.name) \in Keys
      BY <3>1, <3>3, <1>b, <1>d DEF Role
    <3> HIDE DEF row
    <3> QED
      BY <3>1, <3>4, <3>5 DEF Commit
  <2> QED
    BY <2>1, <2>2
<1>14. ASSUME NEW r \in Requests, UpdateCache(r) PROVE TypeOK'
  <2>1. \/ op' = [op EXCEPT ![r] = Idle]
        \/ op' = [op EXCEPT ![r] = [op[r] EXCEPT !.missing = {}]]
    BY <1>14 DEF UpdateCache
  <2>2. op' \in [Requests -> Local]
    <3>1. [op[r] EXCEPT !.missing = {}] \in Local
      BY <1>a, LocalMissing
    <3> QED
      BY <2>1, <3>1
  <2> QED
    BY <1>14, <1>c, <2>2 DEF UpdateCache
<1>15. ASSUME NEW r \in Requests, UpdateDel(r) PROVE TypeOK'
  BY <1>15 DEF UpdateDel, Drop
<1>16. ASSUME NEW r \in Requests, RemoveFind(r) PROVE TypeOK'
  <2>1. PICK i \in Live :
          op' = [op EXCEPT ![r] = [op[r] EXCEPT !.id = i, !.name = role[i].name]]
    BY <1>16 DEF RemoveFind
  <2>2. op' \in [Requests -> Local]
    BY <2>1, <1>a, <1>b, LocalTarget
  <2> QED
    BY <1>16, <2>2 DEF RemoveFind
<1>17. ASSUME NEW r \in Requests, RemoveDelete(r) PROVE TypeOK'
  BY <1>17, <1>b, <1>d DEF RemoveDelete, Refused, Commit
<1>18. ASSUME NEW r \in Requests, RemoveDel(r) PROVE TypeOK'
  BY <1>18 DEF RemoveDel, Drop
<1>19. ASSUME NEW r \in Requests, BreakOff(r) PROVE TypeOK'
  BY <1>19, <1>c, <1>d, <1>e DEF BreakOff, Holding, Dropping, Named
<1>20. ASSUME NEW k \in Keys, CacheLost(k) PROVE TypeOK'
  BY <1>20 DEF CacheLost
<1>21. CASE UNCHANGED vars
  BY <1>21 DEF vars
<1> QED
  BY <1>1, <1>2, <1>3, <1>4, <1>5, <1>6, <1>7, <1>8, <1>9, <1>10, <1>11, <1>12, <1>13,
     <1>14, <1>15, <1>16, <1>17, <1>18, <1>19, <1>20, <1>21
     DEF Next, Handler, Guard, Me, Create, Update, Remove

\* Every step leaves the locals where they belong.
LEMMA LocalsStep == TypeOK /\ Locals /\ [Next]_vars => Locals'
<1> SUFFICES ASSUME TypeOK, Locals, [Next]_vars PROVE Locals'
  OBVIOUS
<1> USE IdleIsLocal DEF Goto, End, MeSteps, Reading, InHand, Named, Locals
<1>a. /\ pc \in [Requests -> Labels]
      /\ op \in [Requests -> Local]
  BY DEF TypeOK
<1>c. \A i \in Live : i \in Ids /\ role[i].name \in Names
  BY DEF TypeOK, Live, Role
<1>b. \A r \in Requests : DOMAIN op[r] = {"id", "name", "input", "found", "missing"}
  BY <1>a DEF Local
<1>1. ASSUME NEW r \in Requests, GuardMget(r) PROVE Locals'
  BY <1>1, <1>a, <1>b DEF GuardMget, Verdict, Local
<1>2. ASSUME NEW r \in Requests, GuardRead(r) PROVE Locals'
  BY <1>2, <1>a, <1>b DEF GuardRead, Local
<1>3. ASSUME NEW r \in Requests, GuardWrite(r) PROVE Locals'
  BY <1>3, <1>a, <1>b DEF GuardWrite, Verdict, Local
<1>4. ASSUME NEW r \in Requests, MeFind(r) PROVE Locals'
  BY <1>4, <1>a, <1>b, <1>c DEF MeFind
<1>5. ASSUME NEW r \in Requests, MeGet(r) PROVE Locals'
  BY <1>5, <1>a, <1>b DEF MeGet, Local
<1>6. ASSUME NEW r \in Requests, MeRead(r) PROVE Locals'
  BY <1>6, <1>a, <1>b DEF MeRead, Local
<1>7. ASSUME NEW r \in Requests, MeSet(r) PROVE Locals'
  BY <1>7, <1>a, <1>b DEF MeSet, Local
<1>8. ASSUME NEW r \in Requests, CreateFind(r) PROVE Locals'
  BY <1>8, <1>a, <1>b DEF CreateFind, Local
<1>9. ASSUME NEW r \in Requests, CreateInsert(r) PROVE Locals'
  BY <1>9, <1>a, <1>b DEF CreateInsert, Refused, Written, Local
<1>10. ASSUME NEW r \in Requests, CreateCache(r) PROVE Locals'
  BY <1>10, <1>a, <1>b DEF CreateCache, Local
<1>11. ASSUME NEW r \in Requests, UpdateFind(r) PROVE Locals'
  BY <1>11, <1>a, <1>b, <1>c DEF UpdateFind
<1>12. ASSUME NEW r \in Requests, UpdateClash(r) PROVE Locals'
  BY <1>12, <1>a, <1>b DEF UpdateClash, Local
<1>13. ASSUME NEW r \in Requests, UpdateWrite(r) PROVE Locals'
  <2>1. CASE Refused(r)
    BY <1>13, <2>1, <1>a DEF UpdateWrite, Refused
  <2>2. CASE ~Refused(r)
    <3>1. PICK row : Written(r, op[r].id, row) /\ pc' = [pc EXCEPT ![r] = "update_cache"]
      BY <1>13, <2>2 DEF UpdateWrite
    <3>2. op[r].name \in Names /\ op[r].id \in Ids
      BY <1>13 DEF UpdateWrite
    <3>3. op'[r].name = op[r].name /\ op'[r].id = op[r].id
      BY <3>1, <1>a, <1>b DEF Written
    <3>4. \A q \in Requests \ {r} : op'[q] = op[q] /\ pc'[q] = pc[q]
      BY <3>1, <1>a DEF Written
    <3>5. pc'[r] = "update_cache"
      BY <3>1, <1>a
    <3> QED
      BY <3>2, <3>3, <3>4, <3>5
  <2> QED
    BY <2>1, <2>2
<1>14. ASSUME NEW r \in Requests, UpdateCache(r) PROVE Locals'
  <2>1. \A q \in Requests \ {r} : op'[q] = op[q] /\ pc'[q] = pc[q]
    BY <1>14, <1>a DEF UpdateCache
  <2>2. CASE End(r, "done")
    <3>1. op'[r] = Idle /\ pc'[r] = "done"
      BY <2>2, <1>a
    <3> QED
      BY <2>1, <3>1
  <2>3. CASE Goto(r, "update_del") /\ op' = [op EXCEPT ![r] = [@ EXCEPT !.missing = {}]]
    <3>1. pc'[r] = "update_del" /\ op'[r] = [op[r] EXCEPT !.missing = {}]
      BY <2>3, <1>a
    <3>2. op'[r].name = op[r].name /\ op'[r].id = op[r].id
      BY <3>1, <1>b
    <3>3. op[r].name \in Names /\ op[r].id \in Ids
      BY <1>14 DEF UpdateCache
    <3>4. op'[r].missing = {}
      BY <3>1, <1>b
    <3> QED
      BY <2>1, <3>1, <3>2, <3>3, <3>4
  <2> QED
    BY <1>14, <2>2, <2>3 DEF UpdateCache
<1>15. ASSUME NEW r \in Requests, UpdateDel(r) PROVE Locals'
  BY <1>15, <1>a, <1>b DEF UpdateDel, Drop, Local
<1>16. ASSUME NEW r \in Requests, RemoveFind(r) PROVE Locals'
  BY <1>16, <1>a, <1>b, <1>c DEF RemoveFind
<1>17. ASSUME NEW r \in Requests, RemoveDelete(r) PROVE Locals'
  BY <1>17, <1>a, <1>b DEF RemoveDelete, Refused, Local
<1>18. ASSUME NEW r \in Requests, RemoveDel(r) PROVE Locals'
  BY <1>18, <1>a, <1>b DEF RemoveDel, Drop, Local
<1>19. ASSUME NEW r \in Requests, BreakOff(r) PROVE Locals'
  BY <1>19, <1>a, <1>b DEF BreakOff, Local
<1>20. ASSUME NEW k \in Keys, CacheLost(k) PROVE Locals'
  BY <1>20 DEF CacheLost
<1>21. CASE UNCHANGED vars
  BY <1>21 DEF vars
<1> QED
  BY <1>1, <1>2, <1>3, <1>4, <1>5, <1>6, <1>7, <1>8, <1>9, <1>10, <1>11, <1>12, <1>13,
     <1>14, <1>15, <1>16, <1>17, <1>18, <1>19, <1>20, <1>21
     DEF Next, Handler, Guard, Me, Create, Update, Remove

-----------------------------------------------------------------------------
(* The cache *)

\* A write of one role changes what is found under its old and new key only.
LEMMA OtherKeys ==
  ASSUME TypeOK, NEW i \in Ids, NEW row \in {None} \cup Role,
         role' = [role EXCEPT ![i] = row],
         NEW k \in Keys,
         i \in Live => Key(role[i].name) # k,
         row # None => Key(row.name) # k
  PROVE  PermissionsAt(k)' = PermissionsAt(k)
<1>1. RolesAt(k)' = RolesAt(k)
  BY DEF RolesAt, Live, TypeOK
<1>2. i \notin RolesAt(k)
  BY DEF RolesAt
<1>3. \A j \in RolesAt(k) : role'[j] = role[j]
  BY <1>2 DEF RolesAt, Live, TypeOK
<1> QED
  BY <1>1, <1>3 DEF PermissionsAt

LEMMA UnbornStep == TypeOK /\ Locals /\ Unborn /\ [Next]_vars => Unborn'
<1> SUFFICES ASSUME TypeOK, Locals, Unborn, [Next]_vars PROVE Unborn'
  OBVIOUS
<1> USE DEF Unborn, Goto, End
<1>a. pc \in [Requests -> Labels] /\ role \in [Ids -> {None} \cup Role]
  BY DEF TypeOK
<1>1. ASSUME NEW r \in Requests, Guard(r) \/ Me(r) PROVE Unborn'
  BY <1>1, <1>a DEF Guard, GuardMget, GuardRead, GuardWrite, Me, MeFind, MeGet, MeRead, MeSet
<1>2. ASSUME NEW r \in Requests, Create(r) PROVE Unborn'
  BY <1>2, <1>a DEF Create, CreateFind, CreateInsert, CreateCache, Written, Refused, Ids
<1>3. ASSUME NEW r \in Requests, Update(r) \/ Remove(r) PROVE Unborn'
  <2>1. \A j \in Requests : role'[j] # None => role[j] # None
    <3>1. CASE UpdateWrite(r)
      BY <3>1, <1>a DEF UpdateWrite, Written, Refused, Live, Ids
    <3>2. CASE RemoveDelete(r)
      BY <3>2, <1>a DEF RemoveDelete, Refused, Live, Ids
    <3> QED
      BY <1>3, <3>1, <3>2 DEF Update, UpdateFind, UpdateClash, UpdateCache, UpdateDel, Drop,
         Remove, RemoveFind, RemoveDel
  <2>2. pc[r] \notin {"create_cache", "done", "broken"}
    BY <1>3 DEF Update, UpdateFind, UpdateClash, UpdateWrite, UpdateCache, UpdateDel, Drop,
       Remove, RemoveFind, RemoveDelete, RemoveDel
  <2>3. \A q \in Requests \ {r} : pc'[q] = pc[q]
    BY <1>3, <1>a DEF Update, UpdateFind, UpdateClash, UpdateWrite, UpdateCache, UpdateDel,
       Drop, Refused, Remove, RemoveFind, RemoveDelete, RemoveDel
  <2> QED
    BY <2>1, <2>2, <2>3
<1>5. ASSUME NEW r \in Requests, BreakOff(r) PROVE Unborn'
  BY <1>5, <1>a DEF BreakOff
<1>6. ASSUME NEW k \in Keys, CacheLost(k) PROVE Unborn'
  BY <1>6 DEF CacheLost
<1>7. CASE UNCHANGED vars
  BY <1>7 DEF vars
<1> QED
  BY <1>1, <1>2, <1>3, <1>5, <1>6, <1>7 DEF Next, Handler

\* Steps that neither change a role nor the cache.
LEMMA QuietStep ==
  ASSUME IInv, NEW r \in Requests,
         \/ GuardMget(r)   \/ GuardRead(r)  \/ MeFind(r)      \/ MeGet(r)
         \/ MeRead(r)      \/ CreateFind(r) \/ UpdateFind(r)  \/ UpdateClash(r)
         \/ RemoveFind(r)
  PROVE  Fresh' /\ Follows'
<1> USE IdleIsLocal DEF Goto, End, Holding, Dropping, Fresh, Follows, InHand, Reading,
      Committed
<1>a. /\ pc \in [Requests -> Labels]
      /\ op \in [Requests -> Local]
      /\ Locals
      /\ Fresh
      /\ Follows
  BY DEF IInv, TypeOK
<1>b. \A q \in Requests : DOMAIN op[q] = {"id", "name", "input", "found", "missing"}
  BY <1>a DEF Local
<1>c. UNCHANGED <<role, cache, dirty>>
  BY DEF GuardMget, GuardRead, MeFind, MeGet, MeRead, CreateFind, UpdateFind, UpdateClash,
     RemoveFind
<1>d. Live' = Live /\ \A k \in Keys : PermissionsAt(k)' = PermissionsAt(k)
  BY <1>c DEF PermissionsAt, RolesAt, Live
<1>1. \A q \in Requests \ {r} : pc'[q] = pc[q] /\ op'[q] = op[q]
  <2>1. CASE GuardMget(r)
    <3>1. (\E label : pc' = [pc EXCEPT ![r] = label]) /\ \E o : op' = [op EXCEPT ![r] = o]
      BY <2>1 DEF GuardMget, Verdict
    <3> QED
      BY <3>1, <1>a
  <2>2. CASE GuardRead(r)
    BY <2>2, <1>a DEF GuardRead
  <2>3. CASE MeFind(r)
    BY <2>3, <1>a DEF MeFind
  <2>4. CASE MeGet(r)
    BY <2>4, <1>a DEF MeGet
  <2>5. CASE MeRead(r)
    BY <2>5, <1>a DEF MeRead
  <2>6. CASE CreateFind(r)
    BY <2>6, <1>a DEF CreateFind
  <2>7. CASE UpdateFind(r)
    BY <2>7, <1>a DEF UpdateFind
  <2>8. CASE UpdateClash(r)
    BY <2>8, <1>a DEF UpdateClash
  <2>9. CASE RemoveFind(r)
    BY <2>9, <1>a DEF RemoveFind
  <2> QED
    BY <2>1, <2>2, <2>3, <2>4, <2>5, <2>6, <2>7, <2>8, <2>9
<1>2. pc[r] \notin Committed
  BY DEF GuardMget, GuardRead, MeFind, MeGet, MeRead, CreateFind, UpdateFind, UpdateClash,
     RemoveFind
<1>3. Follows'
  BY <1>a, <1>c, <1>d, <1>1, <1>2
<1>4. ASSUME NEW k \in Keys \ dirty, k \in Holding(r)'
      PROVE  /\ pc'[r] \in InHand => op'[r].found[k] \in PermissionsAt(k)
             /\ pc'[r] \in Reading => op'[r].id \in Live /\ Key(role[op'[r].id].name) = k
  <2>1. CASE GuardMget(r)
    <3>1. pc'[r] = "guard_read" \/ op'[r] = Idle
      BY <2>1, <1>a DEF GuardMget
    <3> QED
      BY <1>4, <3>1
  <2>2. CASE GuardRead(r)
    BY <1>4, <2>2, <1>a, <1>b, <1>c, <1>d DEF GuardRead, Locals, MeSteps
  <2>3. CASE MeFind(r)
    <3>1. PICK i \in Live :
            op' = [op EXCEPT ![r] = [op[r] EXCEPT !.id = i, !.name = role[i].name,
                                                  !.missing = {Key(role[i].name)}]]
      BY <2>3 DEF MeFind
    <3>2. op'[r].id = i /\ op'[r].missing = {Key(role[i].name)} /\ pc'[r] = "me_get"
      BY <2>3, <3>1, <1>a, <1>b DEF MeFind
    <3> QED
      BY <1>4, <3>2
  <2>4. CASE MeGet(r)
    BY <1>4, <2>4, <1>a, <1>b, <1>c, <1>d DEF MeGet, Locals, MeSteps
  <2>5. CASE MeRead(r)
    <3>1. /\ pc[r] = "me_read" /\ pc'[r] = "me_set"
          /\ op'[r].missing = op[r].missing
      BY <2>5, <1>a, <1>b DEF MeRead
    <3>2. op[r].missing = {Key(op[r].name)} /\ k = Key(op[r].name)
      BY <1>4, <3>1, <1>a DEF Locals, MeSteps
    <3>3. op[r].id \in Live /\ Key(role[op[r].id].name) = k
      BY <3>1, <3>2, <1>a
    <3>4. op'[r].found[k] = role[op[r].id].perms
      <4>1. op[r] \in Local /\ k \in Keys
        BY <1>a
      <4>2. op[r].found \in [Keys -> {None} \cup Grants]
        BY <4>1 DEF Local
      <4>3. op'[r] = [op[r] EXCEPT !.found[k] = role[op[r].id].perms]
        BY <2>5, <3>2, <3>3, <1>a DEF MeRead
      <4> QED
        BY <4>2, <4>3, <1>b
    <3>5. role[op[r].id].perms \in PermissionsAt(k)
      BY <3>3 DEF PermissionsAt, RolesAt
    <3> QED
      BY <3>1, <3>4, <3>5
  <2>6. CASE CreateFind(r)
    BY <1>4, <2>6, <1>a, <1>b, <1>c, <1>d DEF CreateFind, Locals, MeSteps
  <2>7. CASE UpdateFind(r)
    BY <1>4, <2>7, <1>a, <1>b, <1>c, <1>d DEF UpdateFind, Locals, MeSteps
  <2>8. CASE UpdateClash(r)
    BY <1>4, <2>8, <1>a, <1>b, <1>c, <1>d DEF UpdateClash, Locals, MeSteps
  <2>9. CASE RemoveFind(r)
    BY <1>4, <2>9, <1>a, <1>b, <1>c, <1>d DEF RemoveFind, Locals, MeSteps
  <2> QED
    BY <2>1, <2>2, <2>3, <2>4, <2>5, <2>6, <2>7, <2>8, <2>9
<1> QED
  BY <1>a, <1>c, <1>d, <1>1, <1>3, <1>4

\* Steps that write the cache.
LEMMA WriteStep ==
  ASSUME IInv, NEW r \in Requests,
         \/ GuardWrite(r) \/ MeSet(r)     \/ CreateCache(r) \/ UpdateCache(r)
         \/ UpdateDel(r)  \/ RemoveDel(r)
  PROVE  Fresh' /\ Follows'
<1> USE IdleIsLocal DEF Goto, End, Holding, Dropping, Fresh, Follows, InHand, Reading,
      Committed
<1>a. /\ pc \in [Requests -> Labels]
      /\ op \in [Requests -> Local]
      /\ cache \in [Keys -> {None} \cup Grants]
      /\ Locals
      /\ Fresh
      /\ Follows
  BY DEF IInv, TypeOK
<1>b. \A q \in Requests : DOMAIN op[q] = {"id", "name", "input", "found", "missing"}
  BY <1>a DEF Local
<1>c. UNCHANGED <<role, dirty>>
  BY DEF GuardWrite, MeSet, CreateCache, UpdateCache, UpdateDel, RemoveDel, Drop
<1>d. Live' = Live /\ \A k \in Keys : PermissionsAt(k)' = PermissionsAt(k)
  BY <1>c DEF PermissionsAt, RolesAt, Live
<1>1. \A q \in Requests \ {r} : pc'[q] = pc[q] /\ op'[q] = op[q]
  BY <1>a DEF GuardWrite, MeSet, CreateCache, UpdateCache, UpdateDel, RemoveDel, Drop
<1>2. op'[r].missing = {}
  BY <1>a, <1>b DEF GuardWrite, MeSet, CreateCache, UpdateCache, UpdateDel, RemoveDel, Drop
<1>3. Fresh'
  BY <1>a, <1>c, <1>d, <1>1, <1>2
<1>4. \A k \in Keys \ dirty : k \in op[r].missing /\ pc[r] \in InHand =>
        op[r].found[k] \in PermissionsAt(k)
  BY <1>a
<1>5. CASE GuardWrite(r) \/ MeSet(r)
  <2>1. pc[r] \in InHand \ Committed /\ pc'[r] \notin Committed
    BY <1>5, <1>a DEF GuardWrite, MeSet, Verdict
  <2>2. \A k \in Keys : \/ cache'[k] = cache[k]
                        \/ k \in op[r].missing /\ cache'[k] = op[r].found[k]
    BY <1>5, <1>a DEF GuardWrite, MeSet, SetMissing
  <2> QED
    BY <1>a, <1>c, <1>d, <1>1, <1>3, <1>4, <2>1, <2>2
<1>6. CASE CreateCache(r) \/ UpdateCache(r)
  <2>1. pc[r] \in {"create_cache", "update_cache"}
    BY <1>6 DEF CreateCache, UpdateCache
  <2>2. \A k \in Keys : cache'[k] = IF k \in op[r].missing THEN op[r].found[k] ELSE cache[k]
    BY <1>6, <1>a DEF CreateCache, UpdateCache, SetMissing
  <2>3. \A k \in Keys \ op[r].missing :
          k \in Dropping(r) => pc'[r] = "update_del" /\ op'[r].name = op[r].name
    BY <1>6, <1>a, <1>b DEF CreateCache, UpdateCache
  <2>4. ASSUME NEW k \in Keys \ dirty
        PROVE  \/ cache'[k] \in {None} \cup PermissionsAt(k)
               \/ \E q \in Requests :
                    pc'[q] \in Committed /\ k \in Holding(q)' \cup Dropping(q)'
    <3>1. CASE k \in op[r].missing
      BY <3>1, <1>4, <2>1, <2>2
    <3>2. CASE k \notin op[r].missing
      BY <3>2, <1>a, <1>1, <2>1, <2>2, <2>3
    <3> QED
      BY <3>1, <3>2
  <2> QED
    BY <1>3, <1>c, <1>d, <2>4
<1>7. CASE UpdateDel(r) \/ RemoveDel(r)
  <2>1. pc[r] \in {"update_del", "remove_del"}
    BY <1>7 DEF UpdateDel, RemoveDel, Drop
  <2>2. \A k \in Keys : cache'[k] = IF k = Key(op[r].name) THEN None ELSE cache[k]
    BY <1>7, <1>a DEF UpdateDel, RemoveDel, Drop
  <2>3. op[r].missing = {}
    BY <2>1, <1>a DEF Locals
  <2> QED
    BY <1>a, <1>c, <1>d, <1>1, <1>3, <2>1, <2>2, <2>3
<1> QED
  BY <1>5, <1>6, <1>7

\* A request has changed the role i to row, or taken it away, and is going to
\* SET or DEL the keys own.
LEMMA CommitStep ==
  ASSUME IInv, NEW r \in Requests, pc[r] \notin Committed,
         NEW i \in Ids, NEW row \in {None} \cup Role, role' = [role EXCEPT ![i] = row],
         NEW touched \in SUBSET Keys, NEW own \in SUBSET Keys, Commit(r, touched, own),
         i \in Live => Key(role[i].name) \in touched,
         row # None => Key(row.name) \in touched,
         UNCHANGED cache,
         \A q \in Requests \ {r} : pc'[q] = pc[q] /\ op'[q] = op[q],
         pc'[r] \in Committed,
         own \subseteq Holding(r)' \cup Dropping(r)',
         \A k \in Holding(r)' : row # None /\ k = Key(row.name) /\ op'[r].found[k] = row.perms
  PROVE  Fresh' /\ Follows'
<1> USE DEF Holding, Dropping, Fresh, Follows, InHand, Reading, Committed
<1>a. /\ role \in [Ids -> {None} \cup Role]
      /\ dirty \subseteq Keys
      /\ Fresh
      /\ Follows
  BY DEF IInv, TypeOK
<1>1. \A k \in Keys \ touched : PermissionsAt(k)' = PermissionsAt(k)
  BY OtherKeys DEF IInv
<1>2. \A k \in Keys \ touched, j \in Live :
        Key(role[j].name) = k => j # i /\ j \in Live' /\ role'[j] = role[j]
  BY <1>a DEF Live
<1>3. \A k \in Keys \ dirty' :
        \/ k \notin dirty \cup touched
        \/ k \in own /\ \A q \in Requests \ {r} : k \notin Holding(q)
  BY DEF Commit
<1>4. ASSUME NEW k \in Keys \ dirty', k \in Holding(r)'
      PROVE  op'[r].found[k] \in PermissionsAt(k)'
  <2>1. row # None /\ k = Key(row.name) /\ op'[r].found[k] = row.perms
    BY <1>4
  <2>2. i \in RolesAt(k)' /\ role'[i].perms = row.perms
    BY <2>1, <1>a DEF RolesAt, Live
  <2> QED
    BY <2>1, <2>2 DEF PermissionsAt
<1>5. ASSUME NEW q \in Requests \ {r}, NEW k \in Keys \ dirty', k \in Holding(q)'
      PROVE  /\ pc'[q] \in InHand => op'[q].found[k] \in PermissionsAt(k)'
             /\ pc'[q] \in Reading => op'[q].id \in Live' /\ Key(role'[op'[q].id].name) = k
  <2>1. k \in Holding(q) /\ k \notin dirty \cup touched
    BY <1>3, <1>5
  <2> QED
    BY <2>1, <1>a, <1>1, <1>2
<1>6. Fresh'
  BY <1>4, <1>5
<1>7. ASSUME NEW k \in Keys \ dirty'
      PROVE  \/ cache'[k] \in {None} \cup PermissionsAt(k)'
             \/ \E q \in Requests :
                  pc'[q] \in Committed /\ k \in Holding(q)' \cup Dropping(q)'
  <2>1. CASE k \in own
    BY <2>1
  <2>2. CASE k \notin dirty \cup touched
    BY <2>2, <1>a, <1>1
  <2> QED
    BY <1>3, <2>1, <2>2
<1> QED
  BY <1>6, <1>7

\* A request that is turned down.
LEMMA RefusedStep ==
  ASSUME IInv, NEW r \in Requests, Refused(r), pc[r] \notin Committed,
         UNCHANGED cache
  PROVE  Fresh' /\ Follows'
<1> USE IdleIsLocal DEF Refused, End, Goto, Holding, Dropping, Fresh, Follows, InHand,
      Reading, Committed
<1>a. pc \in [Requests -> Labels] /\ op \in [Requests -> Local] /\ Fresh /\ Follows
  BY DEF IInv, TypeOK
<1>b. Live' = Live /\ \A k \in Keys : PermissionsAt(k)' = PermissionsAt(k)
  BY DEF PermissionsAt, RolesAt, Live
<1>1. \A q \in Requests \ {r} : pc'[q] = pc[q] /\ op'[q] = op[q]
  BY <1>a
<1>2. op'[r].missing = {}
  BY <1>a
<1> QED
  BY <1>a, <1>b, <1>1, <1>2

LEMMA ChangeStep ==
  ASSUME IInv, NEW r \in Requests,
         CreateInsert(r) \/ UpdateWrite(r) \/ RemoveDelete(r)
  PROVE  Fresh' /\ Follows'
<1>a. /\ role \in [Ids -> {None} \cup Role]
      /\ pc \in [Requests -> Labels]
      /\ op \in [Requests -> Local]
      /\ Locals
  BY DEF IInv, TypeOK
<1>b. DOMAIN op[r] = {"id", "name", "input", "found", "missing"}
  BY <1>a DEF Local
<1>c. \A i \in Live : i \in Ids /\ role[i] \in Role /\ Key(role[i].name) \in Keys
  BY <1>a, KeysOfNames DEF Live, Role
<1>d. pc[r] \in Named => Key(op[r].name) \in Keys
  BY <1>a, KeysOfNames DEF Locals
<1>e. pc[r] \notin Committed /\ UNCHANGED cache
  BY DEF CreateInsert, UpdateWrite, RemoveDelete, Committed
<1>f. ASSUME NEW i \in Ids, NEW row \in Role, Written(r, i, row)
      PROVE  /\ op'[r].name = op[r].name
             /\ op'[r].missing = {Key(row.name)}
             /\ op'[r].found[Key(row.name)] = row.perms
             /\ \A q \in Requests \ {r} : op'[q] = op[q]
  <2>1. Key(row.name) \in Keys
    BY KeysOfNames DEF Role
  <2>2. op[r].found \in [Keys -> {None} \cup Grants]
    BY <1>a DEF Local
  <2> QED
    BY <1>f, <2>1, <2>2, <1>a, <1>b DEF Written
<1>1. CASE Refused(r)
  BY <1>1, <1>e, RefusedStep
<1>2. CASE CreateInsert(r) /\ ~Refused(r)
  <2> DEFINE row == op[r].input
  <2>1. /\ Written(r, r, row)
        /\ Commit(r, {Key(row.name)}, {Key(row.name)})
        /\ pc' = [pc EXCEPT ![r] = "create_cache"]
        /\ pc[r] = "create_insert"
    BY <1>2 DEF CreateInsert, Goto
  <2>2. row \in Role /\ Key(row.name) \in Keys /\ r \in Ids
    BY <2>1, <1>a, KeysOfNames DEF Locals, Role, Ids
  <2>3. role[r] = None
    BY <2>1 DEF IInv, Unborn
  <2>4. r \notin Live
    BY <2>3 DEF Live
  <2>5. pc'[r] = "create_cache" /\ \A q \in Requests \ {r} : pc'[q] = pc[q]
    BY <2>1, <1>a
  <2>6. Holding(r)' = {Key(row.name)} /\ Dropping(r)' = {}
    BY <2>1, <2>2, <2>5, <1>f DEF Holding, Dropping
  <2>7. role' = [role EXCEPT ![r] = row]
    BY <2>1 DEF Written
  <2>8. row # None
    BY <2>2, NoneIsNoRole
  <2>9. /\ \A q \in Requests \ {r} : op'[q] = op[q]
        /\ op'[r].found[Key(row.name)] = row.perms
    BY <2>1, <2>2, <1>f
  <2> DEFINE own == {Key(row.name)}
  <2>10. own \in SUBSET Keys /\ own \subseteq Holding(r)' \cup Dropping(r)'
    BY <2>2, <2>6
  <2>11. \A k \in Holding(r)' : row # None /\ k = Key(row.name) /\ op'[r].found[k] = row.perms
    BY <2>6, <2>8, <2>9
  <2>12. Commit(r, own, own) /\ Key(row.name) \in own
    BY <2>1
  <2>13. pc'[r] \in Committed
    BY <2>5 DEF Committed
  <2> HIDE DEF row, own
  <2> QED
    BY <1>e, <2>2, <2>4, <2>5, <2>7, <2>9, <2>10, <2>11, <2>12, <2>13, CommitStep
<1>3. CASE UpdateWrite(r) /\ ~Refused(r)
  <2> DEFINE i == op[r].id
             row == [name |-> IF op[r].input.name = None THEN role[i].name
                              ELSE op[r].input.name,
                     perms |-> IF op[r].input.perms = None THEN role[i].perms
                               ELSE op[r].input.perms]
             touched == {Key(role[i].name), Key(row.name)}
             own == {Key(op[r].name), Key(row.name)}
  <2>1. /\ i \in Live
        /\ Written(r, i, row)
        /\ Commit(r, touched, own)
        /\ pc' = [pc EXCEPT ![r] = "update_cache"]
        /\ pc[r] = "update_write"
    BY <1>3 DEF UpdateWrite, Goto
  <2>2. op[r].input \in Payload
    BY <2>1, <1>a DEF Locals
  <2>3. row \in Role
    BY <2>1, <2>2, <1>c DEF Role, Payload
  <2> HIDE DEF row
  <2>4. Key(row.name) \in Keys /\ Key(role[i].name) \in Keys /\ Key(op[r].name) \in Keys
    BY <2>1, <2>3, <1>c, <1>d, KeysOfNames DEF Role, Named
  <2>5. pc'[r] = "update_cache" /\ \A q \in Requests \ {r} : pc'[q] = pc[q]
    BY <2>1, <1>a
  <2>6. Holding(r)' = {Key(row.name)} /\ Dropping(r)' = {Key(op[r].name)}
    BY <2>1, <2>3, <2>5, <1>c, <1>f DEF Holding, Dropping
  <2>7. role' = [role EXCEPT ![i] = row] /\ i \in Ids
    BY <2>1, <1>c DEF Written
  <2>8. row # None
    BY <2>3, NoneIsNoRole
  <2>9. /\ \A q \in Requests \ {r} : op'[q] = op[q]
        /\ op'[r].found[Key(row.name)] = row.perms
    BY <2>1, <2>3, <2>7, <1>f
  <2>10. /\ own \in SUBSET Keys /\ own \subseteq Holding(r)' \cup Dropping(r)'
         /\ touched \in SUBSET Keys
         /\ Key(role[i].name) \in touched /\ Key(row.name) \in touched
    BY <2>4, <2>6
  <2>11. \A k \in Holding(r)' : row # None /\ k = Key(row.name) /\ op'[r].found[k] = row.perms
    BY <2>6, <2>8, <2>9
  <2>12. Commit(r, touched, own)
    BY <2>1
  <2>13. pc'[r] \in Committed
    BY <2>5 DEF Committed
  <2> HIDE DEF i, own, touched
  <2> QED
    BY <1>e, <2>3, <2>5, <2>7, <2>9, <2>10, <2>11, <2>12, <2>13, CommitStep
<1>4. CASE RemoveDelete(r) /\ ~Refused(r)
  <2> DEFINE i == op[r].id
             touched == {Key(role[i].name)}
             own == {Key(op[r].name)}
  <2>1. /\ i \in Live
        /\ role' = [role EXCEPT ![i] = None]
        /\ Commit(r, touched, own)
        /\ pc' = [pc EXCEPT ![r] = "remove_del"]
        /\ pc[r] = "remove_delete"
        /\ op' = op
    BY <1>4 DEF RemoveDelete, Goto
  <2>2. op[r].missing = {}
    BY <2>1, <1>a DEF Locals, Reading, InHand
  <2>3. pc'[r] = "remove_del" /\ \A q \in Requests \ {r} : pc'[q] = pc[q]
    BY <2>1, <1>a
  <2>4. Holding(r)' = {} /\ Dropping(r)' = own
    BY <2>1, <2>2, <2>3 DEF Holding, Dropping
  <2>5. touched \in SUBSET Keys /\ own \in SUBSET Keys /\ i \in Ids
    BY <2>1, <1>c, <1>d DEF Named
  <2> QED
    BY <1>e, <2>1, <2>3, <2>4, <2>5, CommitStep DEF Committed
<1> QED
  BY <1>1, <1>2, <1>3, <1>4

\* Failures: what a request broken off leaves undone makes its keys dirty, and
\* an entry that is lost is not a wrong one.
LEMMA FailureStep ==
  ASSUME IInv,
         \/ \E r \in Requests : BreakOff(r)
         \/ \E k \in Keys : CacheLost(k)
  PROVE  Fresh' /\ Follows'
<1> USE IdleIsLocal DEF End, Goto, Holding, Dropping, Fresh, Follows, InHand, Reading,
      Committed
<1>a. /\ pc \in [Requests -> Labels]
      /\ op \in [Requests -> Local]
      /\ cache \in [Keys -> {None} \cup Grants]
      /\ Fresh
      /\ Follows
  BY DEF IInv, TypeOK
<1>1. UNCHANGED role
  BY DEF BreakOff, CacheLost
<1>2. Live' = Live /\ \A k \in Keys : PermissionsAt(k)' = PermissionsAt(k)
  BY <1>1 DEF PermissionsAt, RolesAt, Live
<1>3. ASSUME NEW r \in Requests, BreakOff(r) PROVE Fresh' /\ Follows'
  <2>1. \A q \in Requests \ {r} : pc'[q] = pc[q] /\ op'[q] = op[q]
    BY <1>3, <1>a DEF BreakOff
  <2>2. op'[r].missing = {} /\ UNCHANGED cache
    BY <1>3, <1>a DEF BreakOff
  <2>3. /\ dirty \subseteq dirty'
        /\ pc[r] \in Committed => Holding(r) \cup Dropping(r) \subseteq dirty'
    BY <1>3 DEF BreakOff
  <2> QED
    BY <1>a, <1>1, <1>2, <2>1, <2>2, <2>3
<1>4. ASSUME NEW k \in Keys, CacheLost(k) PROVE Fresh' /\ Follows'
  BY <1>4, <1>a, <1>1, <1>2 DEF CacheLost
<1> QED
  BY <1>3, <1>4

-----------------------------------------------------------------------------

LEMMA InvariantStep == IInv /\ [Next]_vars => IInv'
<1> SUFFICES ASSUME IInv, [Next]_vars PROVE Fresh' /\ Follows'
  BY TypeStep, LocalsStep, UnbornStep DEF IInv
<1>1. CASE UNCHANGED vars
  <2>1. Fresh /\ Follows
    BY DEF IInv
  <2>2. UNCHANGED <<role, cache, pc, op, dirty>>
    BY <1>1 DEF vars
  <2>3. Live' = Live /\ \A k \in Keys : PermissionsAt(k)' = PermissionsAt(k)
    BY <2>2 DEF PermissionsAt, RolesAt, Live
  <2>4. Fresh'
    BY <2>1, <2>2, <2>3 DEF Fresh, Holding
  <2>5. Follows'
    BY <2>1, <2>2, <2>3 DEF Follows, Holding, Dropping
  <2> QED
    BY <2>4, <2>5
<1> QED
  BY <1>1, QuietStep, WriteStep, ChangeStep, FailureStep
     DEF Next, Handler, Guard, Me, Create, Update, Remove

LEMMA Initially == Init => IInv
<1> SUFFICES ASSUME Init PROVE IInv
  OBVIOUS
<1>1. TypeOK
  BY IdleIsLocal DEF Init, TypeOK
<1>2. Locals /\ Fresh /\ Follows
  BY IdleIsLocal DEF Init, Locals, Fresh, Follows, MeSteps, Reading, InHand, Named, Holding
<1>3. Unborn
  BY SeededAssumption DEF Init, Unborn, Ids
<1> QED
  BY <1>1, <1>2, <1>3 DEF IInv

\* Every variable keeps its type, for any requests, roles and permissions.
THEOREM TypeCorrect == Spec => []TypeOK
<1>1. IInv => TypeOK
  BY DEF IInv
<1> QED
  BY <1>1, Initially, InvariantStep, PTL DEF Spec

\* Wherever no change of a role was raced or broken off, the cache says what
\* the database says as soon as the request that changed it is through.
THEOREM CacheStaysCurrent == Spec => []CacheCurrent
<1>1. IInv => CacheCurrent
  BY DEF IInv, Follows, CacheCurrent
<1> QED
  BY <1>1, Initially, InvariantStep, PTL DEF Spec
-----------------------------------------------------------------------------
(* What guards decide *)

Guarding == {"guard_read", "guard_write"}

\* A guard that no change of its roles overlaps has the permissions in its
\* hands that the database has, but for those it has still to read.
CalmKnows ==
  \A r \in calm :
    /\ pc[r] # "new"
    /\ pc[r] \in Guarding =>
         \A k \in held[r] : \/ pc[r] = "guard_read" /\ k \in op[r].missing
                            \/ op[r].found[k] \in PermissionsAt(k)

\* A step of q that leaves the guards alone, and the roles of calm guards.
Beside(q) ==
  /\ held' = held /\ calm' \subseteq calm
  /\ \A r \in Requests \ {q} : pc'[r] = pc[r] /\ op'[r] = op[r]
  /\ pc'[q] \notin Guarding \cup {"new", "granted", "denied"}
  /\ \A r \in calm' : \A k \in held[r] : PermissionsAt(k)' = PermissionsAt(k)

DecidesRight ==
  \A r \in calm' :
    pc'[r] # pc[r] =>
      /\ pc'[r] = "granted" =>
           \E k \in held'[r] : \E perms \in PermissionsAt(k) : asked'[r] \in perms
      /\ pc'[r] = "denied" =>
           \A k \in held'[r] : \E perms \in PermissionsAt(k) : asked'[r] \notin perms

LEMMA SameRoles ==
  ASSUME role' = role PROVE \A k \in Keys : PermissionsAt(k)' = PermissionsAt(k)
  BY DEF PermissionsAt, RolesAt, Live

\* A change of a role leaves the permissions of the other keys.
LEMMA CommitBeside ==
  ASSUME IInv, NEW q \in Requests,
         NEW i \in Ids, NEW row \in {None} \cup Role, role' = [role EXCEPT ![i] = row],
         NEW touched \in SUBSET Keys, NEW own, Commit(q, touched, own),
         i \in Live => Key(role[i].name) \in touched,
         row # None => Key(row.name) \in touched
  PROVE  /\ calm' \subseteq calm
         /\ \A r \in calm' : \A k \in held[r] : PermissionsAt(k)' = PermissionsAt(k)
<1>1. calm' = {r \in calm : held[r] \cap touched = {}}
  BY DEF Commit
<1>2. ASSUME NEW r \in calm', NEW k \in held[r] PROVE PermissionsAt(k)' = PermissionsAt(k)
  <2>1. k \in Keys /\ k \notin touched
    BY <1>1, <1>2 DEF IInv, TypeOK
  <2>2. TypeOK
    BY DEF IInv
  <2> QED
    BY <2>1, <2>2, OtherKeys
<1> QED
  BY <1>1, <1>2

LEMMA OtherSteps ==
  ASSUME IInv, NEW q \in Requests,
         Me(q) \/ Create(q) \/ Update(q) \/ Remove(q) \/ BreakOff(q)
  PROVE  Beside(q)
<1>a. /\ TypeOK /\ Locals
      /\ pc \in [Requests -> Labels] /\ op \in [Requests -> Local]
      /\ role \in [Ids -> {None} \cup Role]
      /\ calm \subseteq Requests /\ held \in [Requests -> SUBSET Keys]
  BY DEF IInv, TypeOK
<1>1. CASE \/ Me(q) \/ BreakOff(q) \/ CreateFind(q) \/ CreateCache(q) \/ UpdateFind(q)
           \/ UpdateClash(q) \/ UpdateCache(q) \/ UpdateDel(q) \/ RemoveFind(q)
           \/ RemoveDel(q) \/ (Refused(q) /\ UNCHANGED held)
  <2>1. /\ held' = held /\ calm' = calm /\ role' = role
        /\ \A r \in Requests \ {q} : pc'[r] = pc[r] /\ op'[r] = op[r]
        /\ pc'[q] \notin Guarding \cup {"new", "granted", "denied"}
    BY <1>1, <1>a DEF Me, MeFind, MeGet, MeRead, MeSet, BreakOff, CreateFind, CreateCache,
       UpdateFind, UpdateClash, UpdateCache, UpdateDel, RemoveFind, RemoveDel, Drop,
       Refused, End, Goto, Guarding
  <2> QED
    BY <2>1, <1>a, SameRoles DEF Beside
<1>2. CASE CreateInsert(q) /\ ~Refused(q)
  <2> DEFINE row == op[q].input
  <2>1. /\ Written(q, q, row) /\ Commit(q, {Key(row.name)}, {Key(row.name)})
        /\ Goto(q, "create_cache") /\ held' = held
        /\ row \in Role /\ q \in Ids
    BY <1>2, <1>a DEF CreateInsert, Locals, Ids
  <2>2. row # None /\ Key(row.name) \in Keys
    BY <2>1, NoneIsNoRole, KeysOfNames DEF Role
  <2>3. q \notin Live
    BY <1>2 DEF IInv, Unborn, CreateInsert, Live
  <2>4. /\ calm' \subseteq calm
        /\ \A r \in calm' : \A k \in held[r] : PermissionsAt(k)' = PermissionsAt(k)
    BY <2>1, <2>2, <2>3, CommitBeside DEF Written
  <2> QED
    BY <2>1, <2>4, <1>a DEF Beside, Goto, Written, Guarding
<1>3. CASE UpdateWrite(q) /\ ~Refused(q)
  <2> DEFINE i == op[q].id
             given == op[q].input
             row == [name |-> IF given.name = None THEN role[i].name ELSE given.name,
                     perms |-> IF given.perms = None THEN role[i].perms ELSE given.perms]
             touched == {Key(role[i].name), Key(row.name)}
  <2>1. /\ Written(q, i, row) /\ Commit(q, touched, {Key(op[q].name), Key(row.name)})
        /\ Goto(q, "update_cache") /\ held' = held /\ i \in Live
    BY <1>3 DEF UpdateWrite
  <2>2. i \in Ids /\ given \in Payload /\ role[i] \in Role
    BY <2>1, <1>3, <1>a DEF Locals, UpdateWrite, Live
  <2>3. row \in Role /\ role[i].name \in Names
    BY <2>2 DEF Payload, Role
  <2> HIDE DEF row
  <2>4. touched \in SUBSET Keys
    BY <2>3, KeysOfNames DEF Role
  <2>5. /\ calm' \subseteq calm
        /\ \A r \in calm' : \A k \in held[r] : PermissionsAt(k)' = PermissionsAt(k)
    BY <2>1, <2>2, <2>3, <2>4, CommitBeside DEF Written
  <2> QED
    BY <2>1, <2>5, <1>a DEF Beside, Goto, Written, Guarding
<1>4. CASE RemoveDelete(q) /\ ~Refused(q)
  <2> DEFINE i == op[q].id
  <2>1. /\ role' = [role EXCEPT ![i] = None] /\ Commit(q, {Key(role[i].name)}, {Key(op[q].name)})
        /\ Goto(q, "remove_del") /\ held' = held /\ op' = op /\ i \in Live
    BY <1>4 DEF RemoveDelete
  <2>2. i \in Ids /\ role[i] \in Role
    BY <2>1, <1>a DEF Live
  <2>3. Key(role[i].name) \in Keys
    BY <2>2, KeysOfNames DEF Role
  <2>4. /\ calm' \subseteq calm
        /\ \A r \in calm' : \A k \in held[r] : PermissionsAt(k)' = PermissionsAt(k)
    BY <2>1, <2>2, <2>3, CommitBeside
  <2> QED
    BY <2>1, <2>4, <1>a DEF Beside, Goto, Guarding
<1>5. CreateInsert(q) \/ UpdateWrite(q) \/ RemoveDelete(q) => held' = held
  BY DEF CreateInsert, UpdateWrite, RemoveDelete
<1> QED
  BY <1>1, <1>2, <1>3, <1>4, <1>5 DEF Create, Update, Remove

LEMMA BesideKeeps ==
  ASSUME IInv, CalmKnows, NEW q \in Requests, Beside(q) PROVE CalmKnows' /\ DecidesRight
<1>a. calm \subseteq Requests
  BY DEF IInv, TypeOK
<1>1. ASSUME NEW r \in calm'
      PROVE  /\ pc'[r] # "new"
             /\ pc'[r] \in Guarding =>
                  \A k \in held'[r] : \/ pc'[r] = "guard_read" /\ k \in op'[r].missing
                                      \/ op'[r].found[k] \in PermissionsAt(k)'
             /\ pc'[r] # pc[r] => pc'[r] \notin {"granted", "denied"}
  BY <1>a, <1>1 DEF Beside, CalmKnows
<1> QED
  BY <1>1 DEF CalmKnows, DecidesRight

\* What is wrong with a decision is wrong with the permissions it is made from.
LEMMA VerdictRight ==
  ASSUME NEW keys \in SUBSET Keys, NEW p, NEW values,
         \A k \in keys : values[k] \in PermissionsAt(k)
  PROVE  /\ Verdict(keys, p, values) = "granted" =>
              \E k \in keys : \E perms \in PermissionsAt(k) : p \in perms
         /\ Verdict(keys, p, values) = "denied" =>
              \A k \in keys : \E perms \in PermissionsAt(k) : p \notin perms
  BY DEF Verdict

LEMMA GuardKeeps ==
  ASSUME IInv, CalmKnows, NEW q \in Requests, Guard(q) PROVE CalmKnows' /\ DecidesRight
<1>a. /\ pc \in [Requests -> Labels] /\ op \in [Requests -> Local]
      /\ cache \in [Keys -> {None} \cup Grants]
      /\ calm \subseteq Requests /\ held \in [Requests -> SUBSET Keys]
      /\ asked \in [Requests -> {None} \cup Perms]
      /\ op[q].found \in [Keys -> {None} \cup Grants] /\ op[q].missing \in SUBSET Keys
  BY DEF IInv, TypeOK, Local
<1>b. role' = role
  BY DEF Guard, GuardMget, GuardRead, GuardWrite
<1>c. \A k \in Keys : PermissionsAt(k)' = PermissionsAt(k)
  BY <1>b, SameRoles
<1>d. ASSUME \A r \in Requests \ {q} : /\ pc'[r] = pc[r] /\ op'[r] = op[r]
                                       /\ held'[r] = held[r]
                                       /\ r \in calm' => r \in calm,
             calm' \subseteq Requests,
             q \in calm' =>
               /\ pc'[q] # "new"
               /\ pc'[q] \in Guarding =>
                    \A k \in held'[q] : \/ pc'[q] = "guard_read" /\ k \in op'[q].missing
                                        \/ op'[q].found[k] \in PermissionsAt(k)
      PROVE  CalmKnows'
  <2>1. ASSUME NEW r \in calm', r # q
        PROVE  /\ pc'[r] # "new"
               /\ pc'[r] \in Guarding =>
                    \A k \in held'[r] : \/ pc'[r] = "guard_read" /\ k \in op'[r].missing
                                        \/ op'[r].found[k] \in PermissionsAt(k)
    BY <2>1, <1>d DEF CalmKnows
  <2>2. \A r \in calm' : held'[r] \subseteq Keys
    BY <1>a, <1>d, TypeStep DEF IInv, TypeOK, Next, Handler
  <2> QED
    BY <2>1, <2>2, <1>c, <1>d DEF CalmKnows
<1>1. CASE GuardMget(q)
  <2>1. PICK keys \in SUBSET Keys, p \in Perms :
          /\ held' = [held EXCEPT ![q] = keys]
          /\ asked' = [asked EXCEPT ![q] = p]
          /\ LET misses == {k \in keys : cache[k] = None} IN
             IF misses = {} THEN End(q, Verdict(keys, p, cache))
             ELSE /\ op' = [op EXCEPT ![q] = [op[q] EXCEPT !.missing = misses,
                        !.found = [k \in Keys |-> IF k \in keys THEN cache[k] ELSE None]]]
                  /\ Goto(q, "guard_read")
          /\ calm' = IF \E k \in keys : \/ k \in dirty
                                        \/ \E r \in Requests : k \in Holding(r) \cup Dropping(r)
                     THEN calm ELSE calm \cup {q}
    BY <1>1 DEF GuardMget
  <2> DEFINE misses == {k \in keys : cache[k] = None}
  <2>2. q \notin calm
    BY <1>1 DEF GuardMget, CalmKnows
  <2>3. calm' \subseteq calm \cup {q}
    BY <2>1
  <2>4. ASSUME q \in calm', NEW k \in keys PROVE cache[k] \in {None} \cup PermissionsAt(k)
    <3>1. k \in Keys \ dirty /\ \A r \in Requests : k \notin Holding(r) \cup Dropping(r)
      BY <2>1, <2>2, <2>4
    <3> QED
      BY <3>1 DEF IInv, Follows
  <2>5. held'[q] = keys /\ asked'[q] = p
    BY <2>1, <1>a
  <2>6. CASE misses = {}
    <3>1. End(q, Verdict(keys, p, cache))
      BY <2>1, <2>6
    <3>2. pc'[q] = Verdict(keys, p, cache) /\ pc'[q] \in {"granted", "denied"}
      BY <3>1, <1>a DEF End, Goto, Verdict
    <3>3. q \in calm' => \A k \in keys : cache[k] \in PermissionsAt(k)
      BY <2>4, <2>6
    <3>4. \A r \in Requests \ {q} : /\ pc'[r] = pc[r] /\ op'[r] = op[r] /\ held'[r] = held[r]
                                    /\ r \in calm' => r \in calm
      BY <3>1, <2>1, <2>3, <1>a DEF End, Goto
    <3>5. CalmKnows'
      BY <3>2, <3>4, <2>3, <1>a, <1>d DEF Guarding
    <3>6. q \in calm' =>
            /\ pc'[q] = "granted" =>
                 \E k \in keys : \E perms \in PermissionsAt(k) : p \in perms
            /\ pc'[q] = "denied" =>
                 \A k \in keys : \E perms \in PermissionsAt(k) : p \notin perms
      BY <3>2, <3>3, VerdictRight
    <3>7. DecidesRight
      BY <3>4, <3>6, <2>3, <2>5, <1>a DEF DecidesRight
    <3> QED
      BY <3>5, <3>7
  <2>7. CASE misses # {}
    <3> DEFINE f == [k \in Keys |-> IF k \in keys THEN cache[k] ELSE None]
    <3>1. /\ op' = [op EXCEPT ![q] = [op[q] EXCEPT !.missing = misses, !.found = f]]
          /\ Goto(q, "guard_read")
      BY <2>1, <2>7
    <3>2. pc'[q] = "guard_read" /\ op'[q].missing = misses /\ op'[q].found = f
      BY <3>1, <1>a DEF Goto, Local
    <3>3. q \in calm' => \A k \in keys : k \in misses \/ f[k] \in PermissionsAt(k)
      BY <2>4
    <3>4. \A r \in Requests \ {q} : /\ pc'[r] = pc[r] /\ op'[r] = op[r] /\ held'[r] = held[r]
                                    /\ r \in calm' => r \in calm
      BY <3>1, <2>1, <2>3, <1>a DEF Goto
    <3> HIDE DEF f, misses
    <3>5. CalmKnows'
      BY <3>2, <3>3, <3>4, <2>3, <2>5, <1>a, <1>d DEF Guarding
    <3>6. DecidesRight
      BY <3>2, <3>4, <2>3, <1>a DEF DecidesRight
    <3> QED
      BY <3>5, <3>6
  <2> QED
    BY <2>6, <2>7
<1>2. CASE GuardRead(q)
  <2>1. PICK read \in [Keys -> {None} \cup Grants] :
          /\ \A k \in Keys : IF k \in op[q].missing THEN read[k] \in PermissionsAt(k)
                            ELSE read[k] = op[q].found[k]
          /\ op' = [op EXCEPT ![q] = [op[q] EXCEPT !.found = read]]
    BY <1>2 DEF GuardRead
  <2>2. pc[q] = "guard_read" /\ Goto(q, "guard_write") /\ held' = held /\ calm' = calm
    BY <1>2 DEF GuardRead
  <2>3. op'[q].found = read
    BY <2>1, <1>a DEF Local
  <2>4. \A r \in Requests \ {q} : pc'[r] = pc[r] /\ op'[r] = op[r] /\ held'[r] = held[r]
    BY <2>1, <2>2, <1>a DEF Goto
  <2>5. q \in calm => \A k \in held[q] : read[k] \in PermissionsAt(k)
    BY <2>1, <2>2, <1>a DEF CalmKnows, Guarding
  <2>6. CalmKnows'
    BY <2>2, <2>3, <2>4, <2>5, <1>a, <1>d DEF Goto
  <2>7. DecidesRight
    BY <2>2, <2>4, <1>a DEF DecidesRight, Goto
  <2> QED
    BY <2>6, <2>7
<1>3. CASE GuardWrite(q)
  <2>1. /\ pc[q] = "guard_write" /\ End(q, Verdict(held[q], asked[q], op[q].found))
        /\ held' = held /\ calm' = calm /\ asked' = asked
    BY <1>3 DEF GuardWrite
  <2>2. /\ pc'[q] = Verdict(held[q], asked[q], op[q].found)
        /\ pc'[q] \in {"granted", "denied"}
    BY <2>1, <1>a DEF End, Goto, Verdict
  <2>3. \A r \in Requests \ {q} : pc'[r] = pc[r] /\ op'[r] = op[r] /\ held'[r] = held[r]
    BY <2>1, <1>a DEF End, Goto
  <2>4. q \in calm => \A k \in held[q] : op[q].found[k] \in PermissionsAt(k)
    BY <2>1 DEF CalmKnows, Guarding
  <2>5. CalmKnows'
    BY <2>1, <2>2, <2>3, <1>a, <1>d DEF Guarding
  <2>6. q \in calm =>
          /\ pc'[q] = "granted" =>
               \E k \in held[q] : \E perms \in PermissionsAt(k) : asked[q] \in perms
          /\ pc'[q] = "denied" =>
               \A k \in held[q] : \E perms \in PermissionsAt(k) : asked[q] \notin perms
    BY <2>2, <2>4, <1>a, VerdictRight
  <2>7. DecidesRight
    BY <2>1, <2>3, <2>6, <1>a DEF DecidesRight
  <2> QED
    BY <2>5, <2>7
<1> QED
  BY <1>1, <1>2, <1>3 DEF Guard

LEMMA CalmStep == IInv /\ CalmKnows /\ [Next]_vars => CalmKnows' /\ DecidesRight
<1> SUFFICES ASSUME IInv, CalmKnows, [Next]_vars PROVE CalmKnows' /\ DecidesRight
  OBVIOUS
<1>1. CASE UNCHANGED vars \/ \E k \in Keys : CacheLost(k)
  <2>1. UNCHANGED <<role, pc, held, op, calm>>
    BY <1>1 DEF vars, CacheLost
  <2>2. (\A k \in Keys : PermissionsAt(k)' = PermissionsAt(k)) /\ held \in [Requests -> SUBSET Keys]
        /\ calm \subseteq Requests
    BY <2>1, SameRoles DEF IInv, TypeOK
  <2> QED
    BY <2>1, <2>2 DEF CalmKnows, DecidesRight
<1> QED
  BY <1>1, OtherSteps, BesideKeeps, GuardKeeps DEF Next, Handler

\* For any requests, roles and permissions, with failures: a guard that no
\* change of its roles overlaps decides by the permissions the database has.
THEOREM GuardsDecideRight == Spec => GuardDecidesRight
<1>1. Init => CalmKnows
  BY DEF Init, CalmKnows
<1>2. DecidesRight \/ UNCHANGED vars => [DecidesRight]_vars
  OBVIOUS
<1>3. Spec => [][DecidesRight]_vars
  BY <1>1, Initially, InvariantStep, CalmStep, PTL DEF Spec
<1> QED
  BY <1>3 DEF GuardDecidesRight, DecidesRight
=============================================================================
