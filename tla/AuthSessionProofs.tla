--------------------------- MODULE AuthSessionProofs ---------------------------
(***************************************************************************)
(* AuthSession, for any sets of requests, devices and roles.               *)
(*                                                                         *)
(* That a session ends once is not inductive: a refresh may end its        *)
(* session because the row is there, so the row of an ended session must   *)
(* be gone, and stay gone (EndedGone).  Nobody creates it again, because   *)
(* only the request it is named after could, and that one was answered     *)
(* before anyone could end it.                                             *)
(*                                                                         *)
(* What a sweep reaches rests on two facts.  A token that works and is     *)
(* neither late nor superseded still has its row (RowsKept), and while a   *)
(* sweep runs every row is listed, revoked or excepted (SweepCovers); so   *)
(* once the sweep deletes the rows, no token is left that carries the old  *)
(* roles or belongs to a blocked user.                                     *)
(***************************************************************************)
EXTENDS AuthSession, TLAPS

USE DEF Refreshing, SignIn, SignOut, Sweep, Final, Labels, stores, locals, history

\* A token is out only when its login or refresh was answered.
TokenAnswered == \A s \in Requests : token[s] # None => pc[s] = "answered"

\* A request that has not named a session has no target.
NoTarget ==
  \A r \in Requests :
    pc[r] \in {"new", "login_clear", "login_create", "login_store"} => target[r] = None

Aimed == {"refresh_delete", "logged_out", "answered"} \cup Refreshing \cup SignOut

\* The session a refresh or a logout is about was handed out.
TargetAnswered ==
  \A r \in Requests :
    pc[r] \in Aimed /\ target[r] # None => pc[target[r]] = "answered"

HasTarget ==
  \A r \in Requests :
    pc[r] \in (Aimed \ {"answered"}) => target[r] # None

\* The row of an ended session is gone.
EndedGone == \A r \in Requests : Ended(r) => target[r] \notin sessions

Inv ==
  /\ TypeOK
  /\ TokenAnswered
  /\ NoTarget
  /\ TargetAnswered
  /\ HasTarget
  /\ EndedGone
  /\ SessionEndsOnce

Excepted == late \cup superseded

\* A session is not spoken of before its row is created.
Unborn ==
  \A s \in Requests :
    pc[s] \in {"new", "login_clear", "login_create", "refresh_delete", "refresh_create"} =>
      /\ s \notin sessions \cup blacklist \cup superseded
      /\ \A r \in Requests : s \notin listed[r]

\* A row that was replaced does not come back.
ReplacedGone == superseded \cap sessions = {}

\* Whoever signs in while a sweep runs is noted.
OverlapNoted == \A r, q \in Requests : Sweeping(r) /\ SigningIn(q) => q \in late

\* A running sweep has every row on its list, or has revoked it, or is excused.
SweepCovers ==
  \A r \in Requests :
    /\ Sweeping(r) => sessions \subseteq blacklist \cup Excepted \cup listed[r]
    /\ pc[r] = "sweep_del" => target[r] \in blacklist
    /\ pc[r] = "sweep_delete" => listed[r] = {}

\* A logout revokes before it deletes.
LogoutRevokes ==
  \A r \in Requests : pc[r] \in {"logout_del", "logout_delete"} => target[r] \in blacklist

Stored == {"login_store", "refresh_read", "refresh_del", "refresh_store"}

\* A session that works, or is about to, has its row.
RowsKept ==
  \A s \in Requests :
    (token[s] # None \/ pc[s] \in Stored) /\ s \notin blacklist \cup Excepted => s \in sessions

\* What the sweep of a block leaves behind.
Reached ==
  /\ sessions \subseteq late
  /\ \A r \in Requests :
       /\ pc[r] \in SignIn \ {"refresh_delete"} => r \in late
       /\ pc[r] = "refresh_delete" /\ target[r] \in sessions => r \in late

BlockSweeps ==
  user.status = "blocked" =>
    Reached \/ \E r \in Requests : pc[r] \in Sweep \cup {"sweep_list", "unswept"}

\* The roles in the hands of a login or a refresh are current.
SeenCurrent ==
  \A r \in Requests :
    /\ pc[r] \in {"login_clear", "login_create", "login_store", "refresh_del", "refresh_store"}
    /\ r \notin blacklist \cup Excepted
    => seen[r] = Names(user.roles)

\* Somebody is about to take the row of s away, or broke off.
Ending(s) ==
  \E r \in Requests :
    \/ pc[r] \in Sweep \cup {"broken", "unswept"}
    \/ pc[r] \in {"logout_del", "logout_delete"} /\ target[r] = s

StoresFollow ==
  \A s \in sessions :
    /\ s \in blacklist => Ending(s)
    /\ s \notin refreshKeys /\ pc[s] \notin SignIn => Ending(s)

SweepInv ==
  /\ Unborn        /\ ReplacedGone  /\ OverlapNoted
  /\ SweepCovers   /\ LogoutRevokes /\ RowsKept
  /\ BlockSweeps   /\ SeenCurrent   /\ RolesCurrent
  /\ StoresFollow
-----------------------------------------------------------------------------
(* Types, and sessions that end once *)

LEMMA NamesTyped == \A rows \in SUBSET RoleRows : Names(rows) \in SUBSET Roles
  BY DEF Names, RoleRows

\* Every step keeps the types.
LEMMA TypeStep == Inv /\ [Next]_vars => TypeOK'
<1> SUFFICES ASSUME TypeOK, HasTarget, [Next]_vars PROVE TypeOK'
  BY DEF Inv
<1>0. Names(user.roles) \in SUBSET Roles
  BY NamesTyped DEF TypeOK
<1>a. \A r \in Requests : seen[r] # None => seen[r] \in SUBSET Roles
  BY DEF TypeOK
<1> USE NoneAssumption DEF TypeOK, Goto, HasTarget, Aimed
<1>1. ASSUME NEW r \in Requests, LoginValidate(r) PROVE TypeOK'
  BY <1>1, <1>0 DEF LoginValidate, Sweeping
<1>2. ASSUME NEW r \in Requests, LoginClear(r) PROVE TypeOK'
  BY <1>2 DEF LoginClear
<1>3. ASSUME NEW r \in Requests, LoginCreate(r) PROVE TypeOK'
  BY <1>3 DEF LoginCreate, Create
<1>4. ASSUME NEW r \in Requests, LoginStore(r) PROVE TypeOK'
  BY <1>4 DEF LoginStore, Store
<1>5. ASSUME NEW r \in Requests, RefreshGet(r) PROVE TypeOK'
  BY <1>5 DEF RefreshGet, Issued, Sweeping
<1>6. ASSUME NEW r \in Requests, RefreshDelete(r) PROVE TypeOK'
  BY <1>6 DEF RefreshDelete
<1>7. ASSUME NEW r \in Requests, RefreshCreate(r) PROVE TypeOK'
  BY <1>7 DEF RefreshCreate, Create
<1>8. ASSUME NEW r \in Requests, RefreshRead(r) PROVE TypeOK'
  BY <1>8, <1>0 DEF RefreshRead
<1>9. ASSUME NEW r \in Requests, RefreshDel(r) PROVE TypeOK'
  BY <1>9 DEF RefreshDel, DeleteKey
<1>10. ASSUME NEW r \in Requests, RefreshStore(r) PROVE TypeOK'
  BY <1>10 DEF RefreshStore, Store
<1>11. ASSUME NEW r \in Requests, LogoutGet(r) PROVE TypeOK'
  BY <1>11 DEF LogoutGet, Issued
<1>12. ASSUME NEW r \in Requests, LogoutBlacklist(r) PROVE TypeOK'
  BY <1>12 DEF LogoutBlacklist
<1>13. ASSUME NEW r \in Requests, LogoutDel(r) PROVE TypeOK'
  BY <1>13 DEF LogoutDel, DeleteKey
<1>14. ASSUME NEW r \in Requests, LogoutDelete(r) PROVE TypeOK'
  BY <1>14 DEF LogoutDelete
<1>15. ASSUME NEW r \in Requests, BlockWrite(r) PROVE TypeOK'
  BY <1>15 DEF BlockWrite
<1>16. ASSUME NEW r \in Requests, Unblock(r) PROVE TypeOK'
  BY <1>16 DEF Unblock
<1>17. ASSUME NEW r \in Requests, ChangeBegin(r) PROVE TypeOK'
  BY <1>17, RolesAssumption DEF ChangeBegin
<1>18. ASSUME NEW r \in Requests, ChangeWrite(r) PROVE TypeOK'
  BY <1>18 DEF ChangeWrite
<1>19. ASSUME NEW r \in Requests, SweepList(r) PROVE TypeOK'
  BY <1>19 DEF SweepList, SigningIn
<1>20. ASSUME NEW r \in Requests, SweepBlacklist(r) PROVE TypeOK'
  BY <1>20 DEF SweepBlacklist
<1>21. ASSUME NEW r \in Requests, SweepDel(r) PROVE TypeOK'
  BY <1>21 DEF SweepDel, DeleteKey
<1>22. ASSUME NEW r \in Requests, SweepDelete(r) PROVE TypeOK'
  <2>1. ASSUME seen[r] # None
        PROVE  (user.roles \ erased[r]) \cup (seen[r] \X {r}) \in SUBSET RoleRows
    <3>1. seen[r] \in SUBSET Roles
      BY <1>a, <2>1
    <3>2. seen[r] \X {r} \subseteq RoleRows
      BY <3>1 DEF RoleRows
    <3>3. user.roles \subseteq RoleRows
      OBVIOUS
    <3> QED
      BY <3>2, <3>3
  <2>2. user' \in [status: {"active", "blocked"}, roles: SUBSET RoleRows]
    BY <1>22, <2>1 DEF SweepDelete
  <2> QED
    BY <1>22, <2>2 DEF SweepDelete
<1>23. ASSUME NEW r \in Requests, BreakOff(r) PROVE TypeOK'
  BY <1>23 DEF BreakOff, AtRest, Sweeping
<1>24. CASE UNCHANGED vars
  BY <1>24 DEF vars
<1> QED
  BY <1>1, <1>2, <1>3, <1>4, <1>5, <1>6, <1>7, <1>8, <1>9, <1>10, <1>11,
     <1>12, <1>13, <1>14, <1>15, <1>16, <1>17, <1>18, <1>19, <1>20, <1>21,
     <1>22, <1>23, <1>24 DEF Next, Login, Refresh, Logout, Team

\* Every step keeps the invariant.
LEMMA InvStep == Inv /\ TypeOK' /\ [Next]_vars => Inv'
<1> SUFFICES ASSUME Inv, TypeOK', [Next]_vars PROVE Inv'
  OBVIOUS
<1> USE NoneAssumption DEF Inv, TypeOK, Goto, TokenAnswered, NoTarget, Aimed,
      TargetAnswered, HasTarget, EndedGone, Ended, SessionEndsOnce
<1>1. ASSUME NEW r \in Requests, LoginValidate(r) PROVE Inv'
  BY <1>1 DEF LoginValidate, Sweeping
<1>2. ASSUME NEW r \in Requests, LoginClear(r) PROVE Inv'
  BY <1>2 DEF LoginClear
<1>3. ASSUME NEW r \in Requests, LoginCreate(r) PROVE Inv'
  BY <1>3 DEF LoginCreate, Create
<1>4. ASSUME NEW r \in Requests, LoginStore(r) PROVE Inv'
  BY <1>4 DEF LoginStore, Store
<1>5. ASSUME NEW r \in Requests, RefreshGet(r) PROVE Inv'
  BY <1>5 DEF RefreshGet, Issued, Sweeping
<1>6. ASSUME NEW r \in Requests, RefreshDelete(r) PROVE Inv'
  BY <1>6 DEF RefreshDelete
<1>7. ASSUME NEW r \in Requests, RefreshCreate(r) PROVE Inv'
  BY <1>7 DEF RefreshCreate, Create
<1>8. ASSUME NEW r \in Requests, RefreshRead(r) PROVE Inv'
  BY <1>8 DEF RefreshRead
<1>9. ASSUME NEW r \in Requests, RefreshDel(r) PROVE Inv'
  BY <1>9 DEF RefreshDel, DeleteKey
<1>10. ASSUME NEW r \in Requests, RefreshStore(r) PROVE Inv'
  BY <1>10 DEF RefreshStore, Store
<1>11. ASSUME NEW r \in Requests, LogoutGet(r) PROVE Inv'
  BY <1>11 DEF LogoutGet, Issued
<1>12. ASSUME NEW r \in Requests, LogoutBlacklist(r) PROVE Inv'
  BY <1>12 DEF LogoutBlacklist
<1>13. ASSUME NEW r \in Requests, LogoutDel(r) PROVE Inv'
  BY <1>13 DEF LogoutDel, DeleteKey
<1>14. ASSUME NEW r \in Requests, LogoutDelete(r) PROVE Inv'
  BY <1>14 DEF LogoutDelete
<1>15. ASSUME NEW r \in Requests, BlockWrite(r) PROVE Inv'
  BY <1>15 DEF BlockWrite
<1>16. ASSUME NEW r \in Requests, Unblock(r) PROVE Inv'
  BY <1>16 DEF Unblock
<1>17. ASSUME NEW r \in Requests, ChangeBegin(r) PROVE Inv'
  BY <1>17 DEF ChangeBegin
<1>18. ASSUME NEW r \in Requests, ChangeWrite(r) PROVE Inv'
  BY <1>18 DEF ChangeWrite
<1>19. ASSUME NEW r \in Requests, SweepList(r) PROVE Inv'
  BY <1>19 DEF SweepList, SigningIn
<1>20. ASSUME NEW r \in Requests, SweepBlacklist(r) PROVE Inv'
  BY <1>20 DEF SweepBlacklist
<1>21. ASSUME NEW r \in Requests, SweepDel(r) PROVE Inv'
  BY <1>21 DEF SweepDel, DeleteKey
<1>22. ASSUME NEW r \in Requests, SweepDelete(r) PROVE Inv'
  BY <1>22 DEF SweepDelete
<1>23. ASSUME NEW r \in Requests, BreakOff(r) PROVE Inv'
  BY <1>23 DEF BreakOff, AtRest, Sweeping
<1>24. CASE UNCHANGED vars
  BY <1>24 DEF vars
<1> QED
  BY <1>1, <1>2, <1>3, <1>4, <1>5, <1>6, <1>7, <1>8, <1>9, <1>10, <1>11,
     <1>12, <1>13, <1>14, <1>15, <1>16, <1>17, <1>18, <1>19, <1>20, <1>21,
     <1>22, <1>23, <1>24 DEF Next, Login, Refresh, Logout, Team

\* Nothing speaks of a session before its row is there.
LEMMA UnbornStep ==
  ASSUME Inv, Unborn, [Next]_vars
  PROVE  Unborn'
<1> USE NoneAssumption DEF TypeOK, Inv, Goto, TokenAnswered, TargetAnswered,
      HasTarget, Aimed, Unborn
<1>1. ASSUME NEW r \in Requests, LoginValidate(r) PROVE Unborn'
  BY <1>1 DEF LoginValidate, Sweeping
<1>2. ASSUME NEW r \in Requests, LoginClear(r) PROVE Unborn'
  BY <1>2 DEF LoginClear
<1>3. ASSUME NEW r \in Requests, LoginCreate(r) PROVE Unborn'
  BY <1>3 DEF LoginCreate, Create
<1>4. ASSUME NEW r \in Requests, LoginStore(r) PROVE Unborn'
  BY <1>4 DEF LoginStore, Store
<1>5. ASSUME NEW r \in Requests, RefreshGet(r) PROVE Unborn'
  BY <1>5 DEF RefreshGet, Issued, Sweeping
<1>6. ASSUME NEW r \in Requests, RefreshDelete(r) PROVE Unborn'
  BY <1>6 DEF RefreshDelete
<1>7. ASSUME NEW r \in Requests, RefreshCreate(r) PROVE Unborn'
  BY <1>7 DEF RefreshCreate, Create
<1>8. ASSUME NEW r \in Requests, RefreshRead(r) PROVE Unborn'
  BY <1>8 DEF RefreshRead
<1>9. ASSUME NEW r \in Requests, RefreshDel(r) PROVE Unborn'
  BY <1>9 DEF RefreshDel, DeleteKey
<1>10. ASSUME NEW r \in Requests, RefreshStore(r) PROVE Unborn'
  BY <1>10 DEF RefreshStore, Store
<1>11. ASSUME NEW r \in Requests, LogoutGet(r) PROVE Unborn'
  BY <1>11 DEF LogoutGet, Issued
<1>12. ASSUME NEW r \in Requests, LogoutBlacklist(r) PROVE Unborn'
  BY <1>12 DEF LogoutBlacklist
<1>13. ASSUME NEW r \in Requests, LogoutDel(r) PROVE Unborn'
  BY <1>13 DEF LogoutDel, DeleteKey
<1>14. ASSUME NEW r \in Requests, LogoutDelete(r) PROVE Unborn'
  BY <1>14 DEF LogoutDelete
<1>15. ASSUME NEW r \in Requests, BlockWrite(r) PROVE Unborn'
  BY <1>15 DEF BlockWrite
<1>16. ASSUME NEW r \in Requests, Unblock(r) PROVE Unborn'
  BY <1>16 DEF Unblock
<1>17. ASSUME NEW r \in Requests, ChangeBegin(r) PROVE Unborn'
  BY <1>17 DEF ChangeBegin
<1>18. ASSUME NEW r \in Requests, ChangeWrite(r) PROVE Unborn'
  BY <1>18 DEF ChangeWrite
<1>19. ASSUME NEW r \in Requests, SweepList(r) PROVE Unborn'
  BY <1>19 DEF SweepList, SigningIn
<1>20. ASSUME NEW r \in Requests, SweepBlacklist(r) PROVE Unborn'
  BY <1>20 DEF SweepBlacklist
<1>21. ASSUME NEW r \in Requests, SweepDel(r) PROVE Unborn'
  BY <1>21 DEF SweepDel, DeleteKey
<1>22. ASSUME NEW r \in Requests, SweepDelete(r) PROVE Unborn'
  BY <1>22 DEF SweepDelete
<1>23. ASSUME NEW r \in Requests, BreakOff(r) PROVE Unborn'
  BY <1>23 DEF BreakOff, AtRest, Sweeping
<1>24. CASE UNCHANGED vars
  BY <1>24 DEF vars
<1> QED
  BY <1>1, <1>2, <1>3, <1>4, <1>5, <1>6, <1>7, <1>8, <1>9, <1>10, <1>11,
     <1>12, <1>13, <1>14, <1>15, <1>16, <1>17, <1>18, <1>19, <1>20, <1>21,
     <1>22, <1>23, <1>24 DEF Next, Login, Refresh, Logout, Team

\* Rows that were replaced stay away.
LEMMA ReplacedGoneStep ==
  ASSUME Inv, Unborn, ReplacedGone, [Next]_vars
  PROVE  ReplacedGone'
<1> USE NoneAssumption DEF TypeOK, Inv, Goto, Unborn, ReplacedGone
<1>1. ASSUME NEW r \in Requests, LoginValidate(r) PROVE ReplacedGone'
  BY <1>1 DEF LoginValidate, Sweeping
<1>2. ASSUME NEW r \in Requests, LoginClear(r) PROVE ReplacedGone'
  BY <1>2 DEF LoginClear
<1>3. ASSUME NEW r \in Requests, LoginCreate(r) PROVE ReplacedGone'
  BY <1>3 DEF LoginCreate, Create
<1>4. ASSUME NEW r \in Requests, LoginStore(r) PROVE ReplacedGone'
  BY <1>4 DEF LoginStore, Store
<1>5. ASSUME NEW r \in Requests, RefreshGet(r) PROVE ReplacedGone'
  BY <1>5 DEF RefreshGet, Issued, Sweeping
<1>6. ASSUME NEW r \in Requests, RefreshDelete(r) PROVE ReplacedGone'
  BY <1>6 DEF RefreshDelete
<1>7. ASSUME NEW r \in Requests, RefreshCreate(r) PROVE ReplacedGone'
  BY <1>7 DEF RefreshCreate, Create
<1>8. ASSUME NEW r \in Requests, RefreshRead(r) PROVE ReplacedGone'
  BY <1>8 DEF RefreshRead
<1>9. ASSUME NEW r \in Requests, RefreshDel(r) PROVE ReplacedGone'
  BY <1>9 DEF RefreshDel, DeleteKey
<1>10. ASSUME NEW r \in Requests, RefreshStore(r) PROVE ReplacedGone'
  BY <1>10 DEF RefreshStore, Store
<1>11. ASSUME NEW r \in Requests, LogoutGet(r) PROVE ReplacedGone'
  BY <1>11 DEF LogoutGet, Issued
<1>12. ASSUME NEW r \in Requests, LogoutBlacklist(r) PROVE ReplacedGone'
  BY <1>12 DEF LogoutBlacklist
<1>13. ASSUME NEW r \in Requests, LogoutDel(r) PROVE ReplacedGone'
  BY <1>13 DEF LogoutDel, DeleteKey
<1>14. ASSUME NEW r \in Requests, LogoutDelete(r) PROVE ReplacedGone'
  BY <1>14 DEF LogoutDelete
<1>15. ASSUME NEW r \in Requests, BlockWrite(r) PROVE ReplacedGone'
  BY <1>15 DEF BlockWrite
<1>16. ASSUME NEW r \in Requests, Unblock(r) PROVE ReplacedGone'
  BY <1>16 DEF Unblock
<1>17. ASSUME NEW r \in Requests, ChangeBegin(r) PROVE ReplacedGone'
  BY <1>17 DEF ChangeBegin
<1>18. ASSUME NEW r \in Requests, ChangeWrite(r) PROVE ReplacedGone'
  BY <1>18 DEF ChangeWrite
<1>19. ASSUME NEW r \in Requests, SweepList(r) PROVE ReplacedGone'
  BY <1>19 DEF SweepList, SigningIn
<1>20. ASSUME NEW r \in Requests, SweepBlacklist(r) PROVE ReplacedGone'
  BY <1>20 DEF SweepBlacklist
<1>21. ASSUME NEW r \in Requests, SweepDel(r) PROVE ReplacedGone'
  BY <1>21 DEF SweepDel, DeleteKey
<1>22. ASSUME NEW r \in Requests, SweepDelete(r) PROVE ReplacedGone'
  BY <1>22 DEF SweepDelete
<1>23. ASSUME NEW r \in Requests, BreakOff(r) PROVE ReplacedGone'
  BY <1>23 DEF BreakOff, AtRest, Sweeping
<1>24. CASE UNCHANGED vars
  BY <1>24 DEF vars
<1> QED
  BY <1>1, <1>2, <1>3, <1>4, <1>5, <1>6, <1>7, <1>8, <1>9, <1>10, <1>11,
     <1>12, <1>13, <1>14, <1>15, <1>16, <1>17, <1>18, <1>19, <1>20, <1>21,
     <1>22, <1>23, <1>24 DEF Next, Login, Refresh, Logout, Team

LEMMA OverlapNotedStep ==
  ASSUME Inv, OverlapNoted, [Next]_vars
  PROVE  OverlapNoted'
<1> USE NoneAssumption DEF TypeOK, Inv, Goto, OverlapNoted, Sweeping,
      SigningIn
<1>1. ASSUME NEW r \in Requests, LoginValidate(r) PROVE OverlapNoted'
  BY <1>1 DEF LoginValidate, Sweeping
<1>2. ASSUME NEW r \in Requests, LoginClear(r) PROVE OverlapNoted'
  BY <1>2 DEF LoginClear
<1>3. ASSUME NEW r \in Requests, LoginCreate(r) PROVE OverlapNoted'
  BY <1>3 DEF LoginCreate, Create
<1>4. ASSUME NEW r \in Requests, LoginStore(r) PROVE OverlapNoted'
  BY <1>4 DEF LoginStore, Store
<1>5. ASSUME NEW r \in Requests, RefreshGet(r) PROVE OverlapNoted'
  BY <1>5 DEF RefreshGet, Issued, Sweeping
<1>6. ASSUME NEW r \in Requests, RefreshDelete(r) PROVE OverlapNoted'
  BY <1>6 DEF RefreshDelete
<1>7. ASSUME NEW r \in Requests, RefreshCreate(r) PROVE OverlapNoted'
  BY <1>7 DEF RefreshCreate, Create
<1>8. ASSUME NEW r \in Requests, RefreshRead(r) PROVE OverlapNoted'
  BY <1>8 DEF RefreshRead
<1>9. ASSUME NEW r \in Requests, RefreshDel(r) PROVE OverlapNoted'
  BY <1>9 DEF RefreshDel, DeleteKey
<1>10. ASSUME NEW r \in Requests, RefreshStore(r) PROVE OverlapNoted'
  BY <1>10 DEF RefreshStore, Store
<1>11. ASSUME NEW r \in Requests, LogoutGet(r) PROVE OverlapNoted'
  BY <1>11 DEF LogoutGet, Issued
<1>12. ASSUME NEW r \in Requests, LogoutBlacklist(r) PROVE OverlapNoted'
  BY <1>12 DEF LogoutBlacklist
<1>13. ASSUME NEW r \in Requests, LogoutDel(r) PROVE OverlapNoted'
  BY <1>13 DEF LogoutDel, DeleteKey
<1>14. ASSUME NEW r \in Requests, LogoutDelete(r) PROVE OverlapNoted'
  BY <1>14 DEF LogoutDelete
<1>15. ASSUME NEW r \in Requests, BlockWrite(r) PROVE OverlapNoted'
  BY <1>15 DEF BlockWrite
<1>16. ASSUME NEW r \in Requests, Unblock(r) PROVE OverlapNoted'
  BY <1>16 DEF Unblock
<1>17. ASSUME NEW r \in Requests, ChangeBegin(r) PROVE OverlapNoted'
  BY <1>17 DEF ChangeBegin
<1>18. ASSUME NEW r \in Requests, ChangeWrite(r) PROVE OverlapNoted'
  BY <1>18 DEF ChangeWrite
<1>19. ASSUME NEW r \in Requests, SweepList(r) PROVE OverlapNoted'
  BY <1>19 DEF SweepList, SigningIn
<1>20. ASSUME NEW r \in Requests, SweepBlacklist(r) PROVE OverlapNoted'
  BY <1>20 DEF SweepBlacklist
<1>21. ASSUME NEW r \in Requests, SweepDel(r) PROVE OverlapNoted'
  BY <1>21 DEF SweepDel, DeleteKey
<1>22. ASSUME NEW r \in Requests, SweepDelete(r) PROVE OverlapNoted'
  BY <1>22 DEF SweepDelete
<1>23. ASSUME NEW r \in Requests, BreakOff(r) PROVE OverlapNoted'
  BY <1>23 DEF BreakOff, AtRest, Sweeping
<1>24. CASE UNCHANGED vars
  BY <1>24 DEF vars
<1> QED
  BY <1>1, <1>2, <1>3, <1>4, <1>5, <1>6, <1>7, <1>8, <1>9, <1>10, <1>11,
     <1>12, <1>13, <1>14, <1>15, <1>16, <1>17, <1>18, <1>19, <1>20, <1>21,
     <1>22, <1>23, <1>24 DEF Next, Login, Refresh, Logout, Team

LEMMA LogoutRevokesStep ==
  ASSUME Inv, LogoutRevokes, [Next]_vars
  PROVE  LogoutRevokes'
<1> USE NoneAssumption DEF TypeOK, Inv, Goto, LogoutRevokes
<1>1. ASSUME NEW r \in Requests, LoginValidate(r) PROVE LogoutRevokes'
  BY <1>1 DEF LoginValidate, Sweeping
<1>2. ASSUME NEW r \in Requests, LoginClear(r) PROVE LogoutRevokes'
  BY <1>2 DEF LoginClear
<1>3. ASSUME NEW r \in Requests, LoginCreate(r) PROVE LogoutRevokes'
  BY <1>3 DEF LoginCreate, Create
<1>4. ASSUME NEW r \in Requests, LoginStore(r) PROVE LogoutRevokes'
  BY <1>4 DEF LoginStore, Store
<1>5. ASSUME NEW r \in Requests, RefreshGet(r) PROVE LogoutRevokes'
  BY <1>5 DEF RefreshGet, Issued, Sweeping
<1>6. ASSUME NEW r \in Requests, RefreshDelete(r) PROVE LogoutRevokes'
  BY <1>6 DEF RefreshDelete
<1>7. ASSUME NEW r \in Requests, RefreshCreate(r) PROVE LogoutRevokes'
  BY <1>7 DEF RefreshCreate, Create
<1>8. ASSUME NEW r \in Requests, RefreshRead(r) PROVE LogoutRevokes'
  BY <1>8 DEF RefreshRead
<1>9. ASSUME NEW r \in Requests, RefreshDel(r) PROVE LogoutRevokes'
  BY <1>9 DEF RefreshDel, DeleteKey
<1>10. ASSUME NEW r \in Requests, RefreshStore(r) PROVE LogoutRevokes'
  BY <1>10 DEF RefreshStore, Store
<1>11. ASSUME NEW r \in Requests, LogoutGet(r) PROVE LogoutRevokes'
  BY <1>11 DEF LogoutGet, Issued
<1>12. ASSUME NEW r \in Requests, LogoutBlacklist(r) PROVE LogoutRevokes'
  BY <1>12 DEF LogoutBlacklist
<1>13. ASSUME NEW r \in Requests, LogoutDel(r) PROVE LogoutRevokes'
  BY <1>13 DEF LogoutDel, DeleteKey
<1>14. ASSUME NEW r \in Requests, LogoutDelete(r) PROVE LogoutRevokes'
  BY <1>14 DEF LogoutDelete
<1>15. ASSUME NEW r \in Requests, BlockWrite(r) PROVE LogoutRevokes'
  BY <1>15 DEF BlockWrite
<1>16. ASSUME NEW r \in Requests, Unblock(r) PROVE LogoutRevokes'
  BY <1>16 DEF Unblock
<1>17. ASSUME NEW r \in Requests, ChangeBegin(r) PROVE LogoutRevokes'
  BY <1>17 DEF ChangeBegin
<1>18. ASSUME NEW r \in Requests, ChangeWrite(r) PROVE LogoutRevokes'
  BY <1>18 DEF ChangeWrite
<1>19. ASSUME NEW r \in Requests, SweepList(r) PROVE LogoutRevokes'
  BY <1>19 DEF SweepList, SigningIn
<1>20. ASSUME NEW r \in Requests, SweepBlacklist(r) PROVE LogoutRevokes'
  BY <1>20 DEF SweepBlacklist
<1>21. ASSUME NEW r \in Requests, SweepDel(r) PROVE LogoutRevokes'
  BY <1>21 DEF SweepDel, DeleteKey
<1>22. ASSUME NEW r \in Requests, SweepDelete(r) PROVE LogoutRevokes'
  BY <1>22 DEF SweepDelete
<1>23. ASSUME NEW r \in Requests, BreakOff(r) PROVE LogoutRevokes'
  BY <1>23 DEF BreakOff, AtRest, Sweeping
<1>24. CASE UNCHANGED vars
  BY <1>24 DEF vars
<1> QED
  BY <1>1, <1>2, <1>3, <1>4, <1>5, <1>6, <1>7, <1>8, <1>9, <1>10, <1>11,
     <1>12, <1>13, <1>14, <1>15, <1>16, <1>17, <1>18, <1>19, <1>20, <1>21,
     <1>22, <1>23, <1>24 DEF Next, Login, Refresh, Logout, Team

LEMMA SweepCoversStep ==
  ASSUME Inv, OverlapNoted, SweepCovers, [Next]_vars
  PROVE  SweepCovers'
<1> USE NoneAssumption DEF TypeOK, Inv, Goto, OverlapNoted, SweepCovers,
      Sweeping, SigningIn, Excepted
<1>1. ASSUME NEW r \in Requests, LoginValidate(r) PROVE SweepCovers'
  BY <1>1 DEF LoginValidate, Sweeping
<1>2. ASSUME NEW r \in Requests, LoginClear(r) PROVE SweepCovers'
  BY <1>2 DEF LoginClear
<1>3. ASSUME NEW r \in Requests, LoginCreate(r) PROVE SweepCovers'
  BY <1>3 DEF LoginCreate, Create
<1>4. ASSUME NEW r \in Requests, LoginStore(r) PROVE SweepCovers'
  BY <1>4 DEF LoginStore, Store
<1>5. ASSUME NEW r \in Requests, RefreshGet(r) PROVE SweepCovers'
  BY <1>5 DEF RefreshGet, Issued, Sweeping
<1>6. ASSUME NEW r \in Requests, RefreshDelete(r) PROVE SweepCovers'
  BY <1>6 DEF RefreshDelete
<1>7. ASSUME NEW r \in Requests, RefreshCreate(r) PROVE SweepCovers'
  BY <1>7 DEF RefreshCreate, Create
<1>8. ASSUME NEW r \in Requests, RefreshRead(r) PROVE SweepCovers'
  BY <1>8 DEF RefreshRead
<1>9. ASSUME NEW r \in Requests, RefreshDel(r) PROVE SweepCovers'
  BY <1>9 DEF RefreshDel, DeleteKey
<1>10. ASSUME NEW r \in Requests, RefreshStore(r) PROVE SweepCovers'
  BY <1>10 DEF RefreshStore, Store
<1>11. ASSUME NEW r \in Requests, LogoutGet(r) PROVE SweepCovers'
  BY <1>11 DEF LogoutGet, Issued
<1>12. ASSUME NEW r \in Requests, LogoutBlacklist(r) PROVE SweepCovers'
  BY <1>12 DEF LogoutBlacklist
<1>13. ASSUME NEW r \in Requests, LogoutDel(r) PROVE SweepCovers'
  BY <1>13 DEF LogoutDel, DeleteKey
<1>14. ASSUME NEW r \in Requests, LogoutDelete(r) PROVE SweepCovers'
  BY <1>14 DEF LogoutDelete
<1>15. ASSUME NEW r \in Requests, BlockWrite(r) PROVE SweepCovers'
  BY <1>15 DEF BlockWrite
<1>16. ASSUME NEW r \in Requests, Unblock(r) PROVE SweepCovers'
  BY <1>16 DEF Unblock
<1>17. ASSUME NEW r \in Requests, ChangeBegin(r) PROVE SweepCovers'
  BY <1>17 DEF ChangeBegin
<1>18. ASSUME NEW r \in Requests, ChangeWrite(r) PROVE SweepCovers'
  BY <1>18 DEF ChangeWrite
<1>19. ASSUME NEW r \in Requests, SweepList(r) PROVE SweepCovers'
  BY <1>19 DEF SweepList, SigningIn
<1>20. ASSUME NEW r \in Requests, SweepBlacklist(r) PROVE SweepCovers'
  BY <1>20 DEF SweepBlacklist
<1>21. ASSUME NEW r \in Requests, SweepDel(r) PROVE SweepCovers'
  BY <1>21 DEF SweepDel, DeleteKey
<1>22. ASSUME NEW r \in Requests, SweepDelete(r) PROVE SweepCovers'
  BY <1>22 DEF SweepDelete
<1>23. ASSUME NEW r \in Requests, BreakOff(r) PROVE SweepCovers'
  BY <1>23 DEF BreakOff, AtRest, Sweeping
<1>24. CASE UNCHANGED vars
  BY <1>24 DEF vars
<1> QED
  BY <1>1, <1>2, <1>3, <1>4, <1>5, <1>6, <1>7, <1>8, <1>9, <1>10, <1>11,
     <1>12, <1>13, <1>14, <1>15, <1>16, <1>17, <1>18, <1>19, <1>20, <1>21,
     <1>22, <1>23, <1>24 DEF Next, Login, Refresh, Logout, Team

LEMMA RowsKeptStep ==
  ASSUME Inv, OverlapNoted, SweepCovers, LogoutRevokes, RowsKept, [Next]_vars
  PROVE  RowsKept'
<1> USE NoneAssumption DEF TypeOK, Inv, Goto, OverlapNoted, SweepCovers,
      LogoutRevokes, RowsKept, Stored, Sweeping, SigningIn, Excepted,
      TokenAnswered
<1>1. ASSUME NEW r \in Requests, LoginValidate(r) PROVE RowsKept'
  BY <1>1 DEF LoginValidate, Sweeping
<1>2. ASSUME NEW r \in Requests, LoginClear(r) PROVE RowsKept'
  BY <1>2 DEF LoginClear
<1>3. ASSUME NEW r \in Requests, LoginCreate(r) PROVE RowsKept'
  BY <1>3 DEF LoginCreate, Create
<1>4. ASSUME NEW r \in Requests, LoginStore(r) PROVE RowsKept'
  BY <1>4 DEF LoginStore, Store
<1>5. ASSUME NEW r \in Requests, RefreshGet(r) PROVE RowsKept'
  BY <1>5 DEF RefreshGet, Issued, Sweeping
<1>6. ASSUME NEW r \in Requests, RefreshDelete(r) PROVE RowsKept'
  BY <1>6 DEF RefreshDelete
<1>7. ASSUME NEW r \in Requests, RefreshCreate(r) PROVE RowsKept'
  BY <1>7 DEF RefreshCreate, Create
<1>8. ASSUME NEW r \in Requests, RefreshRead(r) PROVE RowsKept'
  BY <1>8 DEF RefreshRead
<1>9. ASSUME NEW r \in Requests, RefreshDel(r) PROVE RowsKept'
  BY <1>9 DEF RefreshDel, DeleteKey
<1>10. ASSUME NEW r \in Requests, RefreshStore(r) PROVE RowsKept'
  BY <1>10 DEF RefreshStore, Store
<1>11. ASSUME NEW r \in Requests, LogoutGet(r) PROVE RowsKept'
  BY <1>11 DEF LogoutGet, Issued
<1>12. ASSUME NEW r \in Requests, LogoutBlacklist(r) PROVE RowsKept'
  BY <1>12 DEF LogoutBlacklist
<1>13. ASSUME NEW r \in Requests, LogoutDel(r) PROVE RowsKept'
  BY <1>13 DEF LogoutDel, DeleteKey
<1>14. ASSUME NEW r \in Requests, LogoutDelete(r) PROVE RowsKept'
  BY <1>14 DEF LogoutDelete
<1>15. ASSUME NEW r \in Requests, BlockWrite(r) PROVE RowsKept'
  BY <1>15 DEF BlockWrite
<1>16. ASSUME NEW r \in Requests, Unblock(r) PROVE RowsKept'
  BY <1>16 DEF Unblock
<1>17. ASSUME NEW r \in Requests, ChangeBegin(r) PROVE RowsKept'
  BY <1>17 DEF ChangeBegin
<1>18. ASSUME NEW r \in Requests, ChangeWrite(r) PROVE RowsKept'
  BY <1>18 DEF ChangeWrite
<1>19. ASSUME NEW r \in Requests, SweepList(r) PROVE RowsKept'
  BY <1>19 DEF SweepList, SigningIn
<1>20. ASSUME NEW r \in Requests, SweepBlacklist(r) PROVE RowsKept'
  BY <1>20 DEF SweepBlacklist
<1>21. ASSUME NEW r \in Requests, SweepDel(r) PROVE RowsKept'
  BY <1>21 DEF SweepDel, DeleteKey
<1>22. ASSUME NEW r \in Requests, SweepDelete(r) PROVE RowsKept'
  BY <1>22 DEF SweepDelete
<1>23. ASSUME NEW r \in Requests, BreakOff(r) PROVE RowsKept'
  BY <1>23 DEF BreakOff, AtRest, Sweeping
<1>24. CASE UNCHANGED vars
  BY <1>24 DEF vars
<1> QED
  BY <1>1, <1>2, <1>3, <1>4, <1>5, <1>6, <1>7, <1>8, <1>9, <1>10, <1>11,
     <1>12, <1>13, <1>14, <1>15, <1>16, <1>17, <1>18, <1>19, <1>20, <1>21,
     <1>22, <1>23, <1>24 DEF Next, Login, Refresh, Logout, Team

LEMMA BlockSweepsStep ==
  ASSUME Inv, OverlapNoted, BlockSweeps, [Next]_vars
  PROVE  BlockSweeps'
<1> USE NoneAssumption DEF TypeOK, Inv, Goto, OverlapNoted, BlockSweeps,
      Reached, Sweeping, SigningIn, TokenAnswered, TargetAnswered, HasTarget,
      Aimed
<1>1. ASSUME NEW r \in Requests, LoginValidate(r) PROVE BlockSweeps'
  BY <1>1 DEF LoginValidate, Sweeping
<1>2. ASSUME NEW r \in Requests, LoginClear(r) PROVE BlockSweeps'
  BY <1>2 DEF LoginClear
<1>3. ASSUME NEW r \in Requests, LoginCreate(r) PROVE BlockSweeps'
  BY <1>3 DEF LoginCreate, Create
<1>4. ASSUME NEW r \in Requests, LoginStore(r) PROVE BlockSweeps'
  BY <1>4 DEF LoginStore, Store
<1>5. ASSUME NEW r \in Requests, RefreshGet(r) PROVE BlockSweeps'
  BY <1>5 DEF RefreshGet, Issued, Sweeping
<1>6. ASSUME NEW r \in Requests, RefreshDelete(r) PROVE BlockSweeps'
  BY <1>6 DEF RefreshDelete
<1>7. ASSUME NEW r \in Requests, RefreshCreate(r) PROVE BlockSweeps'
  BY <1>7 DEF RefreshCreate, Create
<1>8. ASSUME NEW r \in Requests, RefreshRead(r) PROVE BlockSweeps'
  BY <1>8 DEF RefreshRead
<1>9. ASSUME NEW r \in Requests, RefreshDel(r) PROVE BlockSweeps'
  BY <1>9 DEF RefreshDel, DeleteKey
<1>10. ASSUME NEW r \in Requests, RefreshStore(r) PROVE BlockSweeps'
  BY <1>10 DEF RefreshStore, Store
<1>11. ASSUME NEW r \in Requests, LogoutGet(r) PROVE BlockSweeps'
  BY <1>11 DEF LogoutGet, Issued
<1>12. ASSUME NEW r \in Requests, LogoutBlacklist(r) PROVE BlockSweeps'
  BY <1>12 DEF LogoutBlacklist
<1>13. ASSUME NEW r \in Requests, LogoutDel(r) PROVE BlockSweeps'
  BY <1>13 DEF LogoutDel, DeleteKey
<1>14. ASSUME NEW r \in Requests, LogoutDelete(r) PROVE BlockSweeps'
  BY <1>14 DEF LogoutDelete
<1>15. ASSUME NEW r \in Requests, BlockWrite(r) PROVE BlockSweeps'
  BY <1>15 DEF BlockWrite
<1>16. ASSUME NEW r \in Requests, Unblock(r) PROVE BlockSweeps'
  BY <1>16 DEF Unblock
<1>17. ASSUME NEW r \in Requests, ChangeBegin(r) PROVE BlockSweeps'
  BY <1>17 DEF ChangeBegin
<1>18. ASSUME NEW r \in Requests, ChangeWrite(r) PROVE BlockSweeps'
  BY <1>18 DEF ChangeWrite
<1>19. ASSUME NEW r \in Requests, SweepList(r) PROVE BlockSweeps'
  BY <1>19 DEF SweepList, SigningIn
<1>20. ASSUME NEW r \in Requests, SweepBlacklist(r) PROVE BlockSweeps'
  BY <1>20 DEF SweepBlacklist
<1>21. ASSUME NEW r \in Requests, SweepDel(r) PROVE BlockSweeps'
  BY <1>21 DEF SweepDel, DeleteKey
<1>22. ASSUME NEW r \in Requests, SweepDelete(r) PROVE BlockSweeps'
  BY <1>22 DEF SweepDelete
<1>23. ASSUME NEW r \in Requests, BreakOff(r) PROVE BlockSweeps'
  BY <1>23 DEF BreakOff, AtRest, Sweeping
<1>24. CASE UNCHANGED vars
  BY <1>24 DEF vars
<1> QED
  BY <1>1, <1>2, <1>3, <1>4, <1>5, <1>6, <1>7, <1>8, <1>9, <1>10, <1>11,
     <1>12, <1>13, <1>14, <1>15, <1>16, <1>17, <1>18, <1>19, <1>20, <1>21,
     <1>22, <1>23, <1>24 DEF Next, Login, Refresh, Logout, Team

LEMMA SeenCurrentStep ==
  ASSUME Inv, OverlapNoted, SeenCurrent, [Next]_vars
  PROVE  SeenCurrent'
<1> USE NoneAssumption DEF TypeOK, Inv, Goto, OverlapNoted, SeenCurrent,
      Sweeping, SigningIn, Excepted
<1>1. ASSUME NEW r \in Requests, LoginValidate(r) PROVE SeenCurrent'
  BY <1>1 DEF LoginValidate, Sweeping
<1>2. ASSUME NEW r \in Requests, LoginClear(r) PROVE SeenCurrent'
  BY <1>2 DEF LoginClear
<1>3. ASSUME NEW r \in Requests, LoginCreate(r) PROVE SeenCurrent'
  BY <1>3 DEF LoginCreate, Create
<1>4. ASSUME NEW r \in Requests, LoginStore(r) PROVE SeenCurrent'
  BY <1>4 DEF LoginStore, Store
<1>5. ASSUME NEW r \in Requests, RefreshGet(r) PROVE SeenCurrent'
  BY <1>5 DEF RefreshGet, Issued, Sweeping
<1>6. ASSUME NEW r \in Requests, RefreshDelete(r) PROVE SeenCurrent'
  BY <1>6 DEF RefreshDelete
<1>7. ASSUME NEW r \in Requests, RefreshCreate(r) PROVE SeenCurrent'
  BY <1>7 DEF RefreshCreate, Create
<1>8. ASSUME NEW r \in Requests, RefreshRead(r) PROVE SeenCurrent'
  BY <1>8 DEF RefreshRead
<1>9. ASSUME NEW r \in Requests, RefreshDel(r) PROVE SeenCurrent'
  BY <1>9 DEF RefreshDel, DeleteKey
<1>10. ASSUME NEW r \in Requests, RefreshStore(r) PROVE SeenCurrent'
  BY <1>10 DEF RefreshStore, Store
<1>11. ASSUME NEW r \in Requests, LogoutGet(r) PROVE SeenCurrent'
  BY <1>11 DEF LogoutGet, Issued
<1>12. ASSUME NEW r \in Requests, LogoutBlacklist(r) PROVE SeenCurrent'
  BY <1>12 DEF LogoutBlacklist
<1>13. ASSUME NEW r \in Requests, LogoutDel(r) PROVE SeenCurrent'
  BY <1>13 DEF LogoutDel, DeleteKey
<1>14. ASSUME NEW r \in Requests, LogoutDelete(r) PROVE SeenCurrent'
  BY <1>14 DEF LogoutDelete
<1>15. ASSUME NEW r \in Requests, BlockWrite(r) PROVE SeenCurrent'
  BY <1>15 DEF BlockWrite
<1>16. ASSUME NEW r \in Requests, Unblock(r) PROVE SeenCurrent'
  BY <1>16 DEF Unblock
<1>17. ASSUME NEW r \in Requests, ChangeBegin(r) PROVE SeenCurrent'
  BY <1>17 DEF ChangeBegin
<1>18. ASSUME NEW r \in Requests, ChangeWrite(r) PROVE SeenCurrent'
  BY <1>18 DEF ChangeWrite
<1>19. ASSUME NEW r \in Requests, SweepList(r) PROVE SeenCurrent'
  BY <1>19 DEF SweepList, SigningIn
<1>20. ASSUME NEW r \in Requests, SweepBlacklist(r) PROVE SeenCurrent'
  BY <1>20 DEF SweepBlacklist
<1>21. ASSUME NEW r \in Requests, SweepDel(r) PROVE SeenCurrent'
  BY <1>21 DEF SweepDel, DeleteKey
<1>22. ASSUME NEW r \in Requests, SweepDelete(r) PROVE SeenCurrent'
  BY <1>22 DEF SweepDelete
<1>23. ASSUME NEW r \in Requests, BreakOff(r) PROVE SeenCurrent'
  BY <1>23 DEF BreakOff, AtRest, Sweeping
<1>24. CASE UNCHANGED vars
  BY <1>24 DEF vars
<1> QED
  BY <1>1, <1>2, <1>3, <1>4, <1>5, <1>6, <1>7, <1>8, <1>9, <1>10, <1>11,
     <1>12, <1>13, <1>14, <1>15, <1>16, <1>17, <1>18, <1>19, <1>20, <1>21,
     <1>22, <1>23, <1>24 DEF Next, Login, Refresh, Logout, Team

LEMMA RolesCurrentStep ==
  ASSUME Inv, SweepCovers, RowsKept, SeenCurrent, RolesCurrent, [Next]_vars
  PROVE  RolesCurrent'
<1> USE NoneAssumption DEF TypeOK, Inv, Goto, SweepCovers, RowsKept,
      SeenCurrent, RolesCurrent, AccessUsable, Issued, Stored, Sweeping,
      Excepted
<1>1. ASSUME NEW r \in Requests, LoginValidate(r) PROVE RolesCurrent'
  BY <1>1 DEF LoginValidate, Sweeping
<1>2. ASSUME NEW r \in Requests, LoginClear(r) PROVE RolesCurrent'
  BY <1>2 DEF LoginClear
<1>3. ASSUME NEW r \in Requests, LoginCreate(r) PROVE RolesCurrent'
  BY <1>3 DEF LoginCreate, Create
<1>4. ASSUME NEW r \in Requests, LoginStore(r) PROVE RolesCurrent'
  BY <1>4 DEF LoginStore, Store
<1>5. ASSUME NEW r \in Requests, RefreshGet(r) PROVE RolesCurrent'
  BY <1>5 DEF RefreshGet, Issued, Sweeping
<1>6. ASSUME NEW r \in Requests, RefreshDelete(r) PROVE RolesCurrent'
  BY <1>6 DEF RefreshDelete
<1>7. ASSUME NEW r \in Requests, RefreshCreate(r) PROVE RolesCurrent'
  BY <1>7 DEF RefreshCreate, Create
<1>8. ASSUME NEW r \in Requests, RefreshRead(r) PROVE RolesCurrent'
  BY <1>8 DEF RefreshRead
<1>9. ASSUME NEW r \in Requests, RefreshDel(r) PROVE RolesCurrent'
  BY <1>9 DEF RefreshDel, DeleteKey
<1>10. ASSUME NEW r \in Requests, RefreshStore(r) PROVE RolesCurrent'
  BY <1>10 DEF RefreshStore, Store
<1>11. ASSUME NEW r \in Requests, LogoutGet(r) PROVE RolesCurrent'
  BY <1>11 DEF LogoutGet, Issued
<1>12. ASSUME NEW r \in Requests, LogoutBlacklist(r) PROVE RolesCurrent'
  BY <1>12 DEF LogoutBlacklist
<1>13. ASSUME NEW r \in Requests, LogoutDel(r) PROVE RolesCurrent'
  BY <1>13 DEF LogoutDel, DeleteKey
<1>14. ASSUME NEW r \in Requests, LogoutDelete(r) PROVE RolesCurrent'
  BY <1>14 DEF LogoutDelete
<1>15. ASSUME NEW r \in Requests, BlockWrite(r) PROVE RolesCurrent'
  BY <1>15 DEF BlockWrite
<1>16. ASSUME NEW r \in Requests, Unblock(r) PROVE RolesCurrent'
  BY <1>16 DEF Unblock
<1>17. ASSUME NEW r \in Requests, ChangeBegin(r) PROVE RolesCurrent'
  BY <1>17 DEF ChangeBegin
<1>18. ASSUME NEW r \in Requests, ChangeWrite(r) PROVE RolesCurrent'
  BY <1>18 DEF ChangeWrite
<1>19. ASSUME NEW r \in Requests, SweepList(r) PROVE RolesCurrent'
  BY <1>19 DEF SweepList, SigningIn
<1>20. ASSUME NEW r \in Requests, SweepBlacklist(r) PROVE RolesCurrent'
  BY <1>20 DEF SweepBlacklist
<1>21. ASSUME NEW r \in Requests, SweepDel(r) PROVE RolesCurrent'
  BY <1>21 DEF SweepDel, DeleteKey
<1>22. ASSUME NEW r \in Requests, SweepDelete(r) PROVE RolesCurrent'
  BY <1>22 DEF SweepDelete
<1>23. ASSUME NEW r \in Requests, BreakOff(r) PROVE RolesCurrent'
  BY <1>23 DEF BreakOff, AtRest, Sweeping
<1>24. CASE UNCHANGED vars
  BY <1>24 DEF vars
<1> QED
  BY <1>1, <1>2, <1>3, <1>4, <1>5, <1>6, <1>7, <1>8, <1>9, <1>10, <1>11,
     <1>12, <1>13, <1>14, <1>15, <1>16, <1>17, <1>18, <1>19, <1>20, <1>21,
     <1>22, <1>23, <1>24 DEF Next, Login, Refresh, Logout, Team

LEMMA StoresFollowStep ==
  ASSUME Inv, Unborn, StoresFollow, [Next]_vars
  PROVE  StoresFollow'
<1> USE NoneAssumption DEF TypeOK, Inv, Goto, Unborn, StoresFollow, Ending,
      EndedGone, Ended, TargetAnswered, HasTarget, TokenAnswered, Aimed
<1>1. ASSUME NEW r \in Requests, LoginValidate(r) PROVE StoresFollow'
  BY <1>1 DEF LoginValidate, Sweeping
<1>2. ASSUME NEW r \in Requests, LoginClear(r) PROVE StoresFollow'
  BY <1>2 DEF LoginClear
<1>3. ASSUME NEW r \in Requests, LoginCreate(r) PROVE StoresFollow'
  BY <1>3 DEF LoginCreate, Create
<1>4. ASSUME NEW r \in Requests, LoginStore(r) PROVE StoresFollow'
  BY <1>4 DEF LoginStore, Store
<1>5. ASSUME NEW r \in Requests, RefreshGet(r) PROVE StoresFollow'
  BY <1>5 DEF RefreshGet, Issued, Sweeping
<1>6. ASSUME NEW r \in Requests, RefreshDelete(r) PROVE StoresFollow'
  BY <1>6 DEF RefreshDelete
<1>7. ASSUME NEW r \in Requests, RefreshCreate(r) PROVE StoresFollow'
  BY <1>7 DEF RefreshCreate, Create
<1>8. ASSUME NEW r \in Requests, RefreshRead(r) PROVE StoresFollow'
  BY <1>8 DEF RefreshRead
<1>9. ASSUME NEW r \in Requests, RefreshDel(r) PROVE StoresFollow'
  BY <1>9 DEF RefreshDel, DeleteKey
<1>10. ASSUME NEW r \in Requests, RefreshStore(r) PROVE StoresFollow'
  BY <1>10 DEF RefreshStore, Store
<1>11. ASSUME NEW r \in Requests, LogoutGet(r) PROVE StoresFollow'
  BY <1>11 DEF LogoutGet, Issued
<1>12. ASSUME NEW r \in Requests, LogoutBlacklist(r) PROVE StoresFollow'
  BY <1>12 DEF LogoutBlacklist
<1>13. ASSUME NEW r \in Requests, LogoutDel(r) PROVE StoresFollow'
  BY <1>13 DEF LogoutDel, DeleteKey
<1>14. ASSUME NEW r \in Requests, LogoutDelete(r) PROVE StoresFollow'
  BY <1>14 DEF LogoutDelete
<1>15. ASSUME NEW r \in Requests, BlockWrite(r) PROVE StoresFollow'
  BY <1>15 DEF BlockWrite
<1>16. ASSUME NEW r \in Requests, Unblock(r) PROVE StoresFollow'
  BY <1>16 DEF Unblock
<1>17. ASSUME NEW r \in Requests, ChangeBegin(r) PROVE StoresFollow'
  BY <1>17 DEF ChangeBegin
<1>18. ASSUME NEW r \in Requests, ChangeWrite(r) PROVE StoresFollow'
  BY <1>18 DEF ChangeWrite
<1>19. ASSUME NEW r \in Requests, SweepList(r) PROVE StoresFollow'
  BY <1>19 DEF SweepList, SigningIn
<1>20. ASSUME NEW r \in Requests, SweepBlacklist(r) PROVE StoresFollow'
  BY <1>20 DEF SweepBlacklist
<1>21. ASSUME NEW r \in Requests, SweepDel(r) PROVE StoresFollow'
  BY <1>21 DEF SweepDel, DeleteKey
<1>22. ASSUME NEW r \in Requests, SweepDelete(r) PROVE StoresFollow'
  BY <1>22 DEF SweepDelete
<1>23. ASSUME NEW r \in Requests, BreakOff(r) PROVE StoresFollow'
  BY <1>23 DEF BreakOff, AtRest, Sweeping
<1>24. CASE UNCHANGED vars
  BY <1>24 DEF vars
<1> QED
  BY <1>1, <1>2, <1>3, <1>4, <1>5, <1>6, <1>7, <1>8, <1>9, <1>10, <1>11,
     <1>12, <1>13, <1>14, <1>15, <1>16, <1>17, <1>18, <1>19, <1>20, <1>21,
     <1>22, <1>23, <1>24 DEF Next, Login, Refresh, Logout, Team

-----------------------------------------------------------------------------

LEMMA Initially == Init => Inv /\ SweepInv
<1> SUFFICES ASSUME Init PROVE Inv /\ SweepInv
  OBVIOUS
<1> USE NoneAssumption DEF Init
<1>1. TypeOK
  <2>1. \A roles \in RoleSets : roles \X {None} \in SUBSET RoleRows
    BY RolesAssumption DEF RoleRows
  <2>2. PICK roles \in RoleSets : user = [status |-> "active", roles |-> roles \X {None}]
    <3>1. /\ user = [status |-> user.status, roles |-> user.roles]
          /\ user.status \in {"active"}
          /\ user.roles \in {roles \X {None} : roles \in RoleSets}
      OBVIOUS
    <3> QED
      BY <3>1
  <2>3. user \in [status: {"active", "blocked"}, roles: SUBSET RoleRows]
    BY <2>1, <2>2
  <2> QED
    BY <2>3 DEF TypeOK
<1>2. Inv
  BY <1>1 DEF Inv, TokenAnswered, NoTarget, Aimed, TargetAnswered, HasTarget, EndedGone,
     Ended, SessionEndsOnce
<1>3. Unborn /\ ReplacedGone /\ OverlapNoted /\ SweepCovers /\ LogoutRevokes
  BY DEF Unborn, ReplacedGone, OverlapNoted, SweepCovers, LogoutRevokes, Sweeping, SigningIn
<1>4. RowsKept /\ BlockSweeps /\ SeenCurrent /\ StoresFollow
  BY DEF RowsKept, BlockSweeps, SeenCurrent, StoresFollow, Stored
<1>5. RolesCurrent
  BY DEF RolesCurrent, AccessUsable, Issued
<1> QED
  BY <1>2, <1>3, <1>4, <1>5 DEF SweepInv

LEMMA SpecInv == Spec => [](Inv /\ SweepInv)
<1>1. ASSUME Inv, SweepInv, [Next]_vars PROVE Inv' /\ SweepInv'
  BY <1>1, TypeStep, InvStep, UnbornStep, ReplacedGoneStep, OverlapNotedStep,
     SweepCoversStep, LogoutRevokesStep, RowsKeptStep, BlockSweepsStep,
     SeenCurrentStep, RolesCurrentStep, StoresFollowStep DEF SweepInv
<1> QED
  BY <1>1, Initially, PTL DEF Spec

\* Every variable keeps its type, for any requests, devices and roles.
THEOREM TypeCorrect == Spec => []TypeOK
<1>1. Inv => TypeOK
  BY DEF Inv
<1> QED
  BY <1>1, SpecInv, PTL

\* Of any number of refreshes and logouts that found the key of a session at
\* the same time, one goes through.
THEOREM EndsOnce == Spec => []SessionEndsOnce
<1>1. Inv => SessionEndsOnce
  BY DEF Inv
<1> QED
  BY <1>1, SpecInv, PTL

\* Whatever overlaps, a blocked user is left with the tokens of replaced
\* sessions and of those that signed in during a sweep.
THEOREM BlocksReachSessions == Spec => []BlockReachesSessions
<1>1. Inv /\ SweepInv => BlockReachesSessions
  BY DEF Inv, TypeOK, SweepInv, BlockSweeps, Reached, RowsKept, Excepted, BlockReachesSessions,
     BlockSettled, AccessUsable, Issued, Sweeping
<1> QED
  BY <1>1, SpecInv, PTL

\* Tokens carry the roles the user has, with the same exceptions and though
\* any number of role changes overlap.
THEOREM RolesStayCurrent == Spec => []RolesCurrent
<1>1. SweepInv => RolesCurrent
  BY DEF SweepInv
<1> QED
  BY <1>1, SpecInv, PTL

\* When nothing is under way and nothing broke off, the three stores agree.
THEOREM StoresEndUpAgreeing == Spec => []StoresAgree
<1>1. Inv /\ SweepInv => StoresAgree
  BY DEF Inv, TypeOK, SweepInv, StoresFollow, Ending, StoresAgree, AtRest
<1> QED
  BY <1>1, SpecInv, PTL

-----------------------------------------------------------------------------
(* The registers of sessions and of refresh tokens *)

\* A row was created by a request that will not create another, a key was
\* written with the token of its session, and a token is signed with roles
\* that were read.
RegisterInv ==
  /\ sessions \subseteq PastCreation
  /\ refreshKeys \subseteq Issued
  /\ \A r \in Requests :
       pc[r] \in {"login_clear", "login_create", "login_store", "refresh_del", "refresh_store"}
         => seen[r] # None

LEMMA RegisterInvStep ==
  ASSUME TypeOK, RegisterInv, [Next]_vars
  PROVE  RegisterInv'
<1> USE NoneAssumption DEF TypeOK, RegisterInv, PastCreation, Issued, Goto
<1>1. ASSUME NEW r \in Requests, LoginValidate(r) PROVE RegisterInv'
  <2>1. Names(user.roles) # None
    BY NamesTyped
  <2> QED
    BY <1>1, <2>1 DEF LoginValidate
<1>2. ASSUME NEW r \in Requests, LoginClear(r) PROVE RegisterInv'
  BY <1>2 DEF LoginClear
<1>3. ASSUME NEW r \in Requests, LoginCreate(r) PROVE RegisterInv'
  BY <1>3 DEF LoginCreate, Create
<1>4. ASSUME NEW r \in Requests, LoginStore(r) PROVE RegisterInv'
  BY <1>4 DEF LoginStore, Store
<1>5. ASSUME NEW r \in Requests, RefreshGet(r) PROVE RegisterInv'
  BY <1>5 DEF RefreshGet, Sweeping
<1>6. ASSUME NEW r \in Requests, RefreshDelete(r) PROVE RegisterInv'
  BY <1>6 DEF RefreshDelete
<1>7. ASSUME NEW r \in Requests, RefreshCreate(r) PROVE RegisterInv'
  BY <1>7 DEF RefreshCreate, Create
<1>8. ASSUME NEW r \in Requests, RefreshRead(r) PROVE RegisterInv'
  <2>1. Names(user.roles) # None
    BY NamesTyped
  <2> QED
    BY <1>8, <2>1 DEF RefreshRead
<1>9. ASSUME NEW r \in Requests, RefreshDel(r) PROVE RegisterInv'
  BY <1>9 DEF RefreshDel, DeleteKey
<1>10. ASSUME NEW r \in Requests, RefreshStore(r) PROVE RegisterInv'
  BY <1>10 DEF RefreshStore, Store
<1>11. ASSUME NEW r \in Requests, LogoutGet(r) PROVE RegisterInv'
  BY <1>11 DEF LogoutGet
<1>12. ASSUME NEW r \in Requests, LogoutBlacklist(r) PROVE RegisterInv'
  BY <1>12 DEF LogoutBlacklist
<1>13. ASSUME NEW r \in Requests, LogoutDel(r) PROVE RegisterInv'
  BY <1>13 DEF LogoutDel, DeleteKey
<1>14. ASSUME NEW r \in Requests, LogoutDelete(r) PROVE RegisterInv'
  BY <1>14 DEF LogoutDelete
<1>15. ASSUME NEW r \in Requests, BlockWrite(r) PROVE RegisterInv'
  BY <1>15 DEF BlockWrite
<1>16. ASSUME NEW r \in Requests, Unblock(r) PROVE RegisterInv'
  BY <1>16 DEF Unblock
<1>17. ASSUME NEW r \in Requests, ChangeBegin(r) PROVE RegisterInv'
  BY <1>17 DEF ChangeBegin
<1>18. ASSUME NEW r \in Requests, ChangeWrite(r) PROVE RegisterInv'
  BY <1>18 DEF ChangeWrite
<1>19. ASSUME NEW r \in Requests, SweepList(r) PROVE RegisterInv'
  BY <1>19 DEF SweepList
<1>20. ASSUME NEW r \in Requests, SweepBlacklist(r) PROVE RegisterInv'
  BY <1>20 DEF SweepBlacklist
<1>21. ASSUME NEW r \in Requests, SweepDel(r) PROVE RegisterInv'
  BY <1>21 DEF SweepDel, DeleteKey
<1>22. ASSUME NEW r \in Requests, SweepDelete(r) PROVE RegisterInv'
  BY <1>22 DEF SweepDelete
<1>23. ASSUME NEW r \in Requests, BreakOff(r) PROVE RegisterInv'
  BY <1>23 DEF BreakOff, AtRest, Sweeping
<1>24. CASE UNCHANGED vars
  BY <1>24 DEF vars
<1> QED
  BY <1>1, <1>2, <1>3, <1>4, <1>5, <1>6, <1>7, <1>8, <1>9, <1>10, <1>11,
     <1>12, <1>13, <1>14, <1>15, <1>16, <1>17, <1>18, <1>19, <1>20, <1>21,
     <1>22, <1>23, <1>24 DEF Next, Login, Refresh, Logout, Team

\* Rows that go have ended.
LEMMA RowsEnd ==
  ASSUME TypeOK, RegisterInv, PastCreation' = PastCreation, sessions' \subseteq sessions
  PROVE  SessionRegister!Next
<1>1. SessionRegister!End(sessions \ sessions')
  BY DEF RegisterInv, SessionRegister!End
<1>2. sessions \ sessions' \in SUBSET Requests
  BY DEF TypeOK
<1> QED
  BY <1>1, <1>2 DEF SessionRegister!Next

LEMMA SessionCreated ==
  ASSUME Inv, Unborn, RegisterInv, NEW r \in Requests, LoginCreate(r) \/ RefreshCreate(r)
  PROVE  SessionRegister!Next
<1>1. PastCreation' = PastCreation \cup {r} /\ r \notin PastCreation
  BY DEF Inv, TypeOK, LoginCreate, RefreshCreate, Create, Goto, PastCreation
<1>2. sessions' = sessions \cup {r} /\ r \notin sessions
  BY DEF LoginCreate, RefreshCreate, Create, Unborn
<1>3. SessionRegister!Issue(r, {}) /\ {} \in SUBSET Requests
  BY <1>1, <1>2 DEF SessionRegister!Issue
<1> QED
  BY <1>3 DEF SessionRegister!Next

\* A request that breaks off before it creates its session never will.
LEMMA SessionGivenUp ==
  ASSUME TypeOK, RegisterInv, NEW r \in Requests, BreakOff(r)
  PROVE  SessionRegister!Next
<1>1. sessions' = sessions
  BY DEF BreakOff
<1>2. PICK label \in {"unswept", "broken"} : pc' = [pc EXCEPT ![r] = label]
  BY DEF BreakOff, Goto
<1>3. CASE label = "unswept" \/ r \in PastCreation
  <2>1. pc[r] \in {"sweep_list"} \cup Sweep \/ label = "broken"
    BY <1>2 DEF TypeOK, BreakOff, Goto, Sweeping
  <2>2. PastCreation' = PastCreation
    BY <1>2, <1>3, <2>1 DEF TypeOK, PastCreation
  <2> QED
    BY <1>1, <2>2, RowsEnd
<1>4. CASE label = "broken" /\ r \notin PastCreation
  <2>1. PastCreation' = PastCreation \cup {r}
    BY <1>2, <1>4 DEF TypeOK, PastCreation
  <2>2. SessionRegister!End({r}) /\ {r} \in SUBSET Requests
    BY <1>1, <1>4, <2>1 DEF RegisterInv, SessionRegister!End
  <2> QED
    BY <2>2 DEF SessionRegister!Next
<1> QED
  BY <1>2, <1>3, <1>4

LEMMA SessionStep ==
  ASSUME Inv, Unborn, RegisterInv, [Next]_vars
  PROVE  [SessionRegister!Next]_(SessionRegister!register)
<1> DEFINE Ends == PastCreation' = PastCreation /\ sessions' \subseteq sessions
<1> USE DEF Inv, TypeOK, Goto, PastCreation
<1>1. ASSUME NEW r \in Requests, LoginValidate(r) \/ LoginClear(r) \/ LoginStore(r) PROVE Ends
  BY <1>1 DEF LoginValidate, LoginClear, LoginStore, Store
<1>2. ASSUME NEW r \in Requests,
             RefreshGet(r) \/ RefreshDelete(r) \/ RefreshRead(r) \/ RefreshDel(r) \/ RefreshStore(r)
      PROVE  Ends
  BY <1>2 DEF RefreshGet, RefreshDelete, RefreshRead, RefreshDel, RefreshStore, DeleteKey, Store
<1>3. ASSUME NEW r \in Requests, Logout(r) PROVE Ends
  BY <1>3 DEF Logout, LogoutGet, LogoutBlacklist, LogoutDel, LogoutDelete, DeleteKey
<1>4. ASSUME NEW r \in Requests, BlockWrite(r) \/ Unblock(r) \/ ChangeBegin(r) \/ ChangeWrite(r)
      PROVE  Ends
  BY <1>4 DEF BlockWrite, Unblock, ChangeBegin, ChangeWrite
<1>5. ASSUME NEW r \in Requests,
             SweepList(r) \/ SweepBlacklist(r) \/ SweepDel(r) \/ SweepDelete(r)
      PROVE  Ends
  BY <1>5 DEF SweepList, SweepBlacklist, SweepDel, SweepDelete, DeleteKey
<1>6. CASE UNCHANGED vars
  BY <1>6 DEF vars, SessionRegister!register
<1>7. ASSUME Ends PROVE SessionRegister!Next
  BY <1>7, RowsEnd
<1> HIDE DEF Ends, Inv, TypeOK, Goto, PastCreation
<1>8. TypeOK
  BY DEF Inv
<1> QED
  BY <1>1, <1>2, <1>3, <1>4, <1>5, <1>6, <1>7, <1>8, SessionCreated, SessionGivenUp
     DEF Next, Login, Refresh, Team

\* Keys that go have ended.
LEMMA KeysEnd ==
  ASSUME TypeOK, RegisterInv, Issued' = Issued, refreshKeys' \subseteq refreshKeys
  PROVE  KeyRegister!Next
<1>1. KeyRegister!End(refreshKeys \ refreshKeys')
  BY DEF RegisterInv, KeyRegister!End
<1>2. refreshKeys \ refreshKeys' \in SUBSET Requests
  BY DEF TypeOK
<1> QED
  BY <1>1, <1>2 DEF KeyRegister!Next

LEMMA KeyStored ==
  ASSUME Inv, RegisterInv, NEW r \in Requests, LoginStore(r) \/ RefreshStore(r)
  PROVE  KeyRegister!Next
<1>1. Issued' = Issued \cup {r} /\ r \notin Issued
  BY DEF Inv, TypeOK, TokenAnswered, RegisterInv, LoginStore, RefreshStore, Store, Issued
<1>2. refreshKeys' = refreshKeys \cup {r} /\ r \notin refreshKeys
  BY <1>1 DEF LoginStore, RefreshStore, Store, RegisterInv
<1>3. KeyRegister!Issue(r, {}) /\ {} \in SUBSET Requests
  BY <1>1, <1>2 DEF KeyRegister!Issue
<1> QED
  BY <1>3 DEF KeyRegister!Next

LEMMA KeyStep ==
  ASSUME Inv, RegisterInv, [Next]_vars
  PROVE  [KeyRegister!Next]_(KeyRegister!register)
<1> DEFINE Ends == Issued' = Issued /\ refreshKeys' \subseteq refreshKeys
<1> USE DEF Issued
<1>1. ASSUME NEW r \in Requests, LoginValidate(r) \/ LoginClear(r) \/ LoginCreate(r) PROVE Ends
  BY <1>1 DEF LoginValidate, LoginClear, LoginCreate, Create
<1>2. ASSUME NEW r \in Requests,
             RefreshGet(r) \/ RefreshDelete(r) \/ RefreshCreate(r) \/ RefreshRead(r) \/ RefreshDel(r)
      PROVE  Ends
  BY <1>2 DEF RefreshGet, RefreshDelete, RefreshCreate, RefreshRead, RefreshDel, DeleteKey, Create
<1>3. ASSUME NEW r \in Requests, Logout(r) PROVE Ends
  BY <1>3 DEF Logout, LogoutGet, LogoutBlacklist, LogoutDel, LogoutDelete, DeleteKey
<1>4. ASSUME NEW r \in Requests, Team(r) \/ BreakOff(r) PROVE Ends
  BY <1>4 DEF Team, BlockWrite, Unblock, ChangeBegin, ChangeWrite, SweepList, SweepBlacklist,
              SweepDel, SweepDelete, DeleteKey, BreakOff
<1>5. CASE UNCHANGED vars
  BY <1>5 DEF vars, KeyRegister!register
<1>6. ASSUME Ends PROVE KeyRegister!Next
  BY <1>6, KeysEnd DEF Inv
<1> HIDE DEF Ends, Issued
<1> QED
  BY <1>1, <1>2, <1>3, <1>4, <1>5, <1>6, KeyStored DEF Next, Login, Refresh

\* A session whose row is gone and a refresh token that was used or revoked do
\* not come back, and no request creates one twice, whatever overlaps.
THEOREM SessionsFollowRegister == Spec => ImplementsRegister
<1>1. Init => SessionRegister!Init /\ KeyRegister!Init /\ RegisterInv
  BY DEF Init, SessionRegister!Init, KeyRegister!Init, RegisterInv, PastCreation, Issued
<1>2. Spec => []RegisterInv
  <2>1. Inv /\ RegisterInv /\ [Next]_vars => RegisterInv'
    BY RegisterInvStep DEF Inv
  <2> QED
    BY <1>1, <2>1, SpecInv, PTL DEF Spec
<1>3. Inv /\ SweepInv /\ RegisterInv /\ [Next]_vars =>
        /\ [SessionRegister!Next]_(SessionRegister!register)
        /\ [KeyRegister!Next]_(KeyRegister!register)
  BY SessionStep, KeyStep DEF SweepInv
<1> QED
  BY <1>1, <1>2, <1>3, SpecInv, PTL
     DEF Spec, ImplementsRegister, SessionRegister!Spec, KeyRegister!Spec
=============================================================================
