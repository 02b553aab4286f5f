---------------------------- MODULE AccountProofs ----------------------------
(***************************************************************************)
(* Account: type correctness, that a used secret stays used, that an       *)
(* invitation opens no other account, that the counter of wrong guesses    *)
(* has an end, and that an activated account is left alone.                *)
(*                                                                         *)
(* The types are inductive, and so is the counter.  The rest needs to know *)
(* where a secret comes from: a code or a token in Redis, in the row or in *)
(* the hands of a request was generated by a request that is through       *)
(* (KnownCodes and KnownTokens), and so was a row (KnownRows), hence no    *)
(* request will generate it again.                                         *)
(* Settled says who can still touch an active row.                         *)
(***************************************************************************)
EXTENDS Account, TLAPS

USE NamesAssumption, AttemptsAssumption
USE DEF Labels, Ids, Row

Sent == {"invited", "resent"}
Guessed == {"verify_count", "verify_ttl", "verify_drop", "verify_forget", "locked_out"}
Resetting == {"reset_change", "reset_del", "reset_done"}
Writing == {"accept_update", "resend_update", "remove_delete"}

\* Where a code comes from.
KnownCodes ==
  /\ otp # None => pc[otp] = "code_sent"
  /\ \A r \in Requests :
       /\ pc[r] \in Resetting => shown[r] \in Requests /\ pc[shown[r]] = "code_sent"
       /\ pc[r] \in Guessed => read[r] \in Requests /\ pc[read[r]] = "code_sent"
       /\ pc[r] \in {"verify_forget", "locked_out"} => otp # read[r]
       /\ pc[r] = "reset_done" => otp # shown[r]

\* Where a token comes from, and which row it is for.
KnownTokens ==
  /\ user # None /\ user.token # None =>
       pc[user.token] \in Sent /\ RowOf(user.token) = user.id
  /\ \A r \in Requests :
       pc[r] \in {"accept_update", "accepted"} =>
         /\ shown[r] \in Requests /\ pc[shown[r]] \in Sent
         /\ RowOf(shown[r]) = read[r]
  /\ \A r \in Requests :
       pc[r] = "accepted" => user = None \/ user.token # shown[r]
  /\ user # None /\ user.password \in Requests =>
       /\ pc[user.password] \in {"accepted", "reset_del", "reset_done", "changed", "entered"}
       /\ pc[user.password] = "accepted" => read[user.password] = user.id

\* Who may still change an active row.
Settled ==
  user # None =>
    /\ user.fresh => user.token # None
    /\ user.active =>
         /\ user.token \in late \cup {None}
         /\ \A r \in Requests :
              pc[r] \in Writing /\ read[r] = user.id =>
                \/ r \in late
                \/ pc[r] = "accept_update" /\ shown[r] \in late

\* Where a row comes from that this e-mail has or that a request will write:
\* no request will make it again.
KnownRows ==
  /\ user # None /\ user.id \in Requests => pc[user.id] \in {"invited", "entered"}
  /\ \A r \in Requests : pc[r] \in Writing /\ read[r] \in Requests =>
       pc[read[r]] \in {"invited", "entered"}

IInv == TypeOK /\ KnownCodes /\ KnownTokens /\ KnownRows /\ AttemptsHaveEnd /\ Settled

-----------------------------------------------------------------------------

LEMMA InitHolds == Init => IInv
<1> SUFFICES ASSUME Init PROVE IInv
  OBVIOUS
<1>1. Member \in Row /\ Member.token = None /\ ~Member.fresh /\ Member.password = Root
  BY DEF Member
<1>2. TypeOK
  BY <1>1 DEF Init, TypeOK, NoAttempts
<1>3. KnownCodes /\ AttemptsHaveEnd
  BY DEF Init, KnownCodes, AttemptsHaveEnd, NoAttempts, Resetting, Guessed
<1>4. KnownTokens /\ KnownRows /\ Settled
  BY <1>1 DEF Init, KnownTokens, KnownRows, Settled, Writing, Member
<1> QED
  BY <1>2, <1>3, <1>4 DEF IInv

\* What the two updates of a row leave in it.
LEMMA RowResent ==
  ASSUME NEW row \in Row, NEW t \in Requests,
         NEW w, w = [row EXCEPT !.token = t, !.fresh = TRUE]
  PROVE  /\ w \in Row /\ w.token = t /\ w.fresh
         /\ w.id = row.id /\ w.active = row.active /\ w.password = row.password
  OBVIOUS

LEMMA RowActivated ==
  ASSUME NEW row \in Row, NEW r \in Requests,
         NEW w, w = [row EXCEPT !.password = r, !.active = TRUE, !.token = None,
                                !.fresh = FALSE]
  PROVE  /\ w \in Row /\ w.token = None /\ ~w.fresh
         /\ w.id = row.id /\ w.active /\ w.password = r
  OBVIOUS

LEMMA RowCreated ==
  ASSUME NEW r \in Requests
  PROVE  [id |-> r, active |-> FALSE, password |-> None, token |-> r, fresh |-> TRUE]
           \in Row
  OBVIOUS

LEMMA RowEntered ==
  ASSUME NEW r \in Requests, NEW active \in BOOLEAN
  PROVE  LET w == Entered(r, active) IN
           /\ w \in Row /\ w.id = r /\ w.active = active /\ w.password = r
           /\ w.token = None /\ ~w.fresh
  BY DEF Entered

LEMMA TypeStep == TypeOK /\ [Next]_vars => TypeOK'
<1> SUFFICES ASSUME TypeOK, [Next]_vars PROVE TypeOK'
  OBVIOUS
<1> USE DEF TypeOK, NoAttempts
<1>1. ASSUME NEW r \in Requests, SendFind(r) PROVE TypeOK'
  BY <1>1 DEF SendFind, Goto
<1>2. ASSUME NEW r \in Requests, SendSet(r) PROVE TypeOK'
  BY <1>2 DEF SendSet, Goto
<1>3. ASSUME NEW r \in Requests, VerifyFind(r) PROVE TypeOK'
  BY <1>3 DEF VerifyFind, Goto, Codes
<1>4. ASSUME NEW r \in Requests, VerifyGet(r) PROVE TypeOK'
  BY <1>4 DEF VerifyGet, Goto
<1>5. ASSUME NEW r \in Requests, VerifyCount(r) PROVE TypeOK'
  <2> DEFINE m == attempts.n + 1
             by == IF m = 1 THEN r ELSE attempts.by
  <2>1. attempts' = [attempts EXCEPT !.n = m, !.by = by]
    BY <1>5, Zenon DEF VerifyCount
  <2>2. attempts' \in [n: Nat, ttl: BOOLEAN, by: Requests \cup {None}]
    <3>1. m \in Nat /\ by \in Requests \cup {None}
      OBVIOUS
    <3> HIDE DEF m, by
    <3> QED
      BY <2>1, <3>1
  <2> HIDE DEF m, by
  <2>3. PICK label \in {"verify_ttl", "verify_drop", "refused"} :
          pc' = [pc EXCEPT ![r] = label]
    <3>1. Goto(r, CASE m = 1           -> "verify_ttl"
                    [] m >= MaxAttempts -> "verify_drop"
                    [] OTHER            -> "refused")
      BY <1>5, Zenon DEF VerifyCount, m
    <3>2. CASE m = 1
      <4>1. ~(m >= MaxAttempts)
        BY <3>2
      <4> QED
        BY <3>1, <3>2, <4>1 DEF Goto
    <3>3. CASE m # 1 /\ m >= MaxAttempts
      BY <3>1, <3>3 DEF Goto
    <3>4. CASE m # 1 /\ ~(m >= MaxAttempts)
      BY <3>1, <3>4 DEF Goto
    <3> QED
      BY <3>2, <3>3, <3>4
  <2>4. UNCHANGED <<shown, read, user, otp, late>>
    BY <1>5 DEF VerifyCount
  <2> QED
    BY <2>2, <2>3, <2>4
<1>6. ASSUME NEW r \in Requests, VerifyTtl(r) PROVE TypeOK'
  <2>1. PICK b \in BOOLEAN : attempts' = [attempts EXCEPT !.ttl = b]
    <3>1. (attempts.n > 0) \in BOOLEAN
      OBVIOUS
    <3> QED
      BY <1>6, <3>1, Zenon DEF VerifyTtl
  <2>2. attempts' \in [n: Nat, ttl: BOOLEAN, by: Requests \cup {None}]
    BY <2>1
  <2> QED
    BY <1>6, <2>2 DEF VerifyTtl, Goto
<1>7. ASSUME NEW r \in Requests, VerifyDrop(r) PROVE TypeOK'
  BY <1>7 DEF VerifyDrop, Goto
<1>8. ASSUME NEW r \in Requests, VerifyForget(r) PROVE TypeOK'
  BY <1>8 DEF VerifyForget, Goto
<1>9. ASSUME NEW r \in Requests, VerifyClear(r) PROVE TypeOK'
  BY <1>9 DEF VerifyClear, Goto
<1>10. ASSUME NEW r \in Requests, ResetFind(r) PROVE TypeOK'
  BY <1>10 DEF ResetFind, Goto, Codes
<1>11. ASSUME NEW r \in Requests, ResetGet(r) PROVE TypeOK'
  BY <1>11 DEF ResetGet, Goto
<1>12. ASSUME NEW r \in Requests, ResetChange(r) PROVE TypeOK'
  BY <1>12 DEF ResetChange, Goto
<1>13. ASSUME NEW r \in Requests, ResetDel(r) PROVE TypeOK'
  BY <1>13 DEF ResetDel, Goto
<1>14. ASSUME NEW r \in Requests, CreateFind(r) PROVE TypeOK'
  BY <1>14 DEF CreateFind, Goto
<1>15. ASSUME NEW r \in Requests, CreateInsert(r) PROVE TypeOK'
  <2>1. user' \in Row \cup {None}
    <3> DEFINE created == [id |-> r, active |-> FALSE, password |-> None, token |-> r,
                           fresh |-> TRUE]
    <3>1. user' = user \/ user' = created
      BY <1>15, Zenon DEF CreateInsert
    <3>2. created \in Row
      BY RowCreated, Zenon
    <3>3. user \in Row \cup {None}
      OBVIOUS
    <3> HIDE DEF created
    <3> QED
      BY ONLY <3>1, <3>2, <3>3
  <2>2. pc' = [pc EXCEPT ![r] = "invited"] \/ pc' = [pc EXCEPT ![r] = "refused"]
    BY <1>15 DEF CreateInsert, Goto
  <2>3. UNCHANGED <<shown, read, otp, attempts, late>>
    BY <1>15 DEF CreateInsert
  <2> QED
    BY <2>1, <2>2, <2>3
<1>16. ASSUME NEW r \in Requests, AcceptFind(r) PROVE TypeOK'
  BY <1>16 DEF AcceptFind, Goto, Tokens
<1>17. ASSUME NEW r \in Requests, AcceptUpdate(r) PROVE TypeOK'
  <2>1. CASE StillThere(r)
    <3>1. user \in Row /\ user' = Activated(r)
      BY <1>17, <2>1 DEF AcceptUpdate, StillThere
    <3>2. /\ user' \in Row /\ user'.id = user.id
          /\ user'.token = None /\ ~user'.fresh /\ user'.active /\ user'.password = r
      BY <3>1, RowActivated DEF Activated
    <3> QED
      BY <1>17, <2>1, <3>2 DEF AcceptUpdate, Goto, StillThere, Overlapping
  <2>2. CASE ~StillThere(r)
    BY <1>17, <2>2 DEF AcceptUpdate, Goto
  <2> QED
    BY <2>1, <2>2
<1>18. ASSUME NEW r \in Requests, ResendFind(r) PROVE TypeOK'
  BY <1>18 DEF ResendFind, Goto
<1>19. ASSUME NEW r \in Requests, ResendUpdate(r) PROVE TypeOK'
  <2>1. CASE StillThere(r)
    <3>1. user \in Row /\ user' = [user EXCEPT !.token = r, !.fresh = TRUE]
      BY <1>19, <2>1 DEF ResendUpdate, StillThere
    <3>2. /\ user' \in Row /\ user'.id = user.id
          /\ user'.token = r /\ user'.fresh /\ user'.active = user.active /\ user'.password = user.password
      BY <3>1, RowResent
    <3> QED
      BY <1>19, <2>1, <3>2 DEF ResendUpdate, Goto, StillThere
  <2>2. CASE ~StillThere(r)
    BY <1>19, <2>2 DEF ResendUpdate, Goto
  <2> QED
    BY <2>1, <2>2
<1>20. ASSUME NEW r \in Requests, RemoveFind(r) PROVE TypeOK'
  BY <1>20 DEF RemoveFind, Goto
<1>21. ASSUME NEW r \in Requests, RemoveDelete(r) PROVE TypeOK'
  BY <1>21 DEF RemoveDelete, Goto, StillThere
<1>22. ASSUME OtpExpires PROVE TypeOK'
  BY <1>22 DEF OtpExpires
<1>23. ASSUME AttemptsExpire PROVE TypeOK'
  BY <1>23 DEF AttemptsExpire
<1>24. ASSUME InvitationExpires PROVE TypeOK'
  BY <1>24 DEF InvitationExpires
<1>25. ASSUME UNCHANGED vars PROVE TypeOK'
  BY <1>25 DEF vars
<1>26. ASSUME NEW r \in Requests, VerifyTtlFails(r) PROVE TypeOK'
  BY <1>26 DEF VerifyTtlFails, Goto
<1>27. ASSUME NEW r \in Requests, ChangeFind(r) PROVE TypeOK'
  BY <1>27 DEF ChangeFind, Goto
<1>28. ASSUME NEW r \in Requests, ChangeUpdate(r) PROVE TypeOK'
  BY <1>28 DEF ChangeUpdate, Goto
<1>29. ASSUME NEW r \in Requests, LeaveFind(r) PROVE TypeOK'
  BY <1>29 DEF LeaveFind, Goto
<1>30. ASSUME NEW r \in Requests, LeaveUpdate(r) PROVE TypeOK'
  BY <1>30 DEF LeaveUpdate, Goto, StillThere
<1>31. ASSUME NEW r \in Requests, Enter(r) PROVE TypeOK'
  <2>1. PICK active \in BOOLEAN :
          IF user = None
          THEN user' = Entered(r, active) /\ Goto(r, "entered")
          ELSE Goto(r, "refused") /\ UNCHANGED user
    BY <1>31, Zenon DEF Enter
  <2>2. UNCHANGED <<shown, read, otp, attempts, late>> /\ pc[r] = "new"
    BY <1>31 DEF Enter
  <2>3. CASE user = None
    <3>1. /\ user' \in Row /\ user'.id = r /\ user'.token = None /\ ~user'.fresh
          /\ user'.password = r
      BY <2>1, <2>3, RowEntered
    <3> QED
      BY <2>1, <2>2, <2>3, <3>1 DEF Goto
  <2>4. CASE user # None
    BY <2>1, <2>2, <2>4 DEF Goto
  <2> QED
    BY <2>3, <2>4
<1> QED
  BY <1>1, <1>2, <1>3, <1>4, <1>5, <1>6, <1>7, <1>8, <1>9, <1>10, <1>11,
     <1>12, <1>13, <1>14, <1>15, <1>16, <1>17, <1>18, <1>19, <1>20, <1>21,
     <1>22, <1>23, <1>24, <1>25, <1>26, <1>27, <1>28, <1>29, <1>30, <1>31
     DEF Next, ForgotPassword, Invitation, Profile

LEMMA CodesStep == ASSUME TypeOK, KnownCodes, [Next]_vars PROVE KnownCodes'
<1> USE DEF TypeOK, KnownCodes, Resetting, Guessed
<1>1. ASSUME NEW r \in Requests, SendFind(r) PROVE KnownCodes'
  BY <1>1 DEF SendFind, Goto
<1>2. ASSUME NEW r \in Requests, SendSet(r) PROVE KnownCodes'
  BY <1>2 DEF SendSet, Goto
<1>3. ASSUME NEW r \in Requests, VerifyFind(r) PROVE KnownCodes'
  BY <1>3 DEF VerifyFind, Goto, Codes
<1>4. ASSUME NEW r \in Requests, VerifyGet(r) PROVE KnownCodes'
  BY <1>4 DEF VerifyGet, Goto
<1>5. ASSUME NEW r \in Requests, VerifyCount(r) PROVE KnownCodes'
  BY <1>5 DEF VerifyCount, Goto
<1>6. ASSUME NEW r \in Requests, VerifyTtl(r) PROVE KnownCodes'
  BY <1>6 DEF VerifyTtl, Goto
<1>7. ASSUME NEW r \in Requests, VerifyDrop(r) PROVE KnownCodes'
  BY <1>7 DEF VerifyDrop, Goto
<1>8. ASSUME NEW r \in Requests, VerifyForget(r) PROVE KnownCodes'
  BY <1>8 DEF VerifyForget, Goto
<1>9. ASSUME NEW r \in Requests, VerifyClear(r) PROVE KnownCodes'
  BY <1>9 DEF VerifyClear, Goto
<1>10. ASSUME NEW r \in Requests, ResetFind(r) PROVE KnownCodes'
  BY <1>10 DEF ResetFind, Goto, Codes
<1>11. ASSUME NEW r \in Requests, ResetGet(r) PROVE KnownCodes'
  BY <1>11 DEF ResetGet, Goto
<1>12. ASSUME NEW r \in Requests, ResetChange(r) PROVE KnownCodes'
  BY <1>12 DEF ResetChange, Goto
<1>13. ASSUME NEW r \in Requests, ResetDel(r) PROVE KnownCodes'
  BY <1>13 DEF ResetDel, Goto
<1>14. ASSUME NEW r \in Requests, CreateFind(r) PROVE KnownCodes'
  BY <1>14 DEF CreateFind, Goto
<1>15. ASSUME NEW r \in Requests, CreateInsert(r) PROVE KnownCodes'
  BY <1>15 DEF CreateInsert, Goto
<1>16. ASSUME NEW r \in Requests, AcceptFind(r) PROVE KnownCodes'
  BY <1>16 DEF AcceptFind, Goto, Tokens
<1>17. ASSUME NEW r \in Requests, AcceptUpdate(r) PROVE KnownCodes'
  BY <1>17 DEF AcceptUpdate, Goto, Activated, StillThere, Overlapping
<1>18. ASSUME NEW r \in Requests, ResendFind(r) PROVE KnownCodes'
  BY <1>18 DEF ResendFind, Goto
<1>19. ASSUME NEW r \in Requests, ResendUpdate(r) PROVE KnownCodes'
  BY <1>19 DEF ResendUpdate, Goto, StillThere
<1>20. ASSUME NEW r \in Requests, RemoveFind(r) PROVE KnownCodes'
  BY <1>20 DEF RemoveFind, Goto
<1>21. ASSUME NEW r \in Requests, RemoveDelete(r) PROVE KnownCodes'
  BY <1>21 DEF RemoveDelete, Goto, StillThere
<1>22. ASSUME OtpExpires PROVE KnownCodes'
  BY <1>22 DEF OtpExpires
<1>23. ASSUME AttemptsExpire PROVE KnownCodes'
  BY <1>23 DEF AttemptsExpire
<1>24. ASSUME InvitationExpires PROVE KnownCodes'
  BY <1>24 DEF InvitationExpires
<1>25. ASSUME UNCHANGED vars PROVE KnownCodes'
  BY <1>25 DEF vars
<1>26. ASSUME NEW r \in Requests, VerifyTtlFails(r) PROVE KnownCodes'
  BY <1>26 DEF VerifyTtlFails, Goto
<1>27. ASSUME NEW r \in Requests, ChangeFind(r) PROVE KnownCodes'
  BY <1>27 DEF ChangeFind, Goto
<1>28. ASSUME NEW r \in Requests, ChangeUpdate(r) PROVE KnownCodes'
  BY <1>28 DEF ChangeUpdate, Goto
<1>29. ASSUME NEW r \in Requests, LeaveFind(r) PROVE KnownCodes'
  BY <1>29 DEF LeaveFind, Goto
<1>30. ASSUME NEW r \in Requests, LeaveUpdate(r) PROVE KnownCodes'
  BY <1>30 DEF LeaveUpdate, Goto, StillThere
<1>31. ASSUME NEW r \in Requests, Enter(r) PROVE KnownCodes'
  BY <1>31 DEF Enter, Goto
<1> QED
  BY <1>1, <1>2, <1>3, <1>4, <1>5, <1>6, <1>7, <1>8, <1>9, <1>10, <1>11,
     <1>12, <1>13, <1>14, <1>15, <1>16, <1>17, <1>18, <1>19, <1>20, <1>21,
     <1>22, <1>23, <1>24, <1>25, <1>26, <1>27, <1>28, <1>29, <1>30, <1>31
     DEF Next, ForgotPassword, Invitation, Profile

LEMMA TokensStep == ASSUME TypeOK, KnownTokens, [Next]_vars PROVE KnownTokens'
<1> USE DEF TypeOK, KnownTokens, Sent, RowOf
<1>1. ASSUME NEW r \in Requests, SendFind(r) PROVE KnownTokens'
  BY <1>1 DEF SendFind, Goto
<1>2. ASSUME NEW r \in Requests, SendSet(r) PROVE KnownTokens'
  BY <1>2 DEF SendSet, Goto
<1>3. ASSUME NEW r \in Requests, VerifyFind(r) PROVE KnownTokens'
  BY <1>3 DEF VerifyFind, Goto, Codes
<1>4. ASSUME NEW r \in Requests, VerifyGet(r) PROVE KnownTokens'
  BY <1>4 DEF VerifyGet, Goto
<1>5. ASSUME NEW r \in Requests, VerifyCount(r) PROVE KnownTokens'
  BY <1>5 DEF VerifyCount, Goto
<1>6. ASSUME NEW r \in Requests, VerifyTtl(r) PROVE KnownTokens'
  BY <1>6 DEF VerifyTtl, Goto
<1>7. ASSUME NEW r \in Requests, VerifyDrop(r) PROVE KnownTokens'
  BY <1>7 DEF VerifyDrop, Goto
<1>8. ASSUME NEW r \in Requests, VerifyForget(r) PROVE KnownTokens'
  BY <1>8 DEF VerifyForget, Goto
<1>9. ASSUME NEW r \in Requests, VerifyClear(r) PROVE KnownTokens'
  BY <1>9 DEF VerifyClear, Goto
<1>10. ASSUME NEW r \in Requests, ResetFind(r) PROVE KnownTokens'
  BY <1>10 DEF ResetFind, Goto, Codes
<1>11. ASSUME NEW r \in Requests, ResetGet(r) PROVE KnownTokens'
  BY <1>11 DEF ResetGet, Goto
<1>12. ASSUME NEW r \in Requests, ResetChange(r) PROVE KnownTokens'
  BY <1>12 DEF ResetChange, Goto
<1>13. ASSUME NEW r \in Requests, ResetDel(r) PROVE KnownTokens'
  BY <1>13 DEF ResetDel, Goto
<1>14. ASSUME NEW r \in Requests, CreateFind(r) PROVE KnownTokens'
  BY <1>14 DEF CreateFind, Goto
<1>15. ASSUME NEW r \in Requests, CreateInsert(r) PROVE KnownTokens'
  BY <1>15 DEF CreateInsert, Goto
<1>16. ASSUME NEW r \in Requests, AcceptFind(r) PROVE KnownTokens'
  BY <1>16 DEF AcceptFind, Goto, Tokens
<1>17. ASSUME NEW r \in Requests, AcceptUpdate(r) PROVE KnownTokens'
  <2>1. CASE StillThere(r)
    <3>1. user \in Row /\ user' = Activated(r)
      BY <1>17, <2>1 DEF AcceptUpdate, StillThere
    <3>2. /\ user' \in Row /\ user'.id = user.id
          /\ user'.token = None /\ ~user'.fresh /\ user'.active /\ user'.password = r
      BY <3>1, RowActivated DEF Activated
    <3> QED
      BY <1>17, <2>1, <3>2 DEF AcceptUpdate, Goto, StillThere, Overlapping
  <2>2. CASE ~StillThere(r)
    BY <1>17, <2>2 DEF AcceptUpdate, Goto
  <2> QED
    BY <2>1, <2>2
<1>18. ASSUME NEW r \in Requests, ResendFind(r) PROVE KnownTokens'
  BY <1>18 DEF ResendFind, Goto
<1>19. ASSUME NEW r \in Requests, ResendUpdate(r) PROVE KnownTokens'
  <2>1. CASE StillThere(r)
    <3>1. user \in Row /\ user' = [user EXCEPT !.token = r, !.fresh = TRUE]
      BY <1>19, <2>1 DEF ResendUpdate, StillThere
    <3>2. /\ user' \in Row /\ user'.id = user.id
          /\ user'.token = r /\ user'.fresh /\ user'.active = user.active /\ user'.password = user.password
      BY <3>1, RowResent
    <3> QED
      BY <1>19, <2>1, <3>2 DEF ResendUpdate, Goto, StillThere
  <2>2. CASE ~StillThere(r)
    BY <1>19, <2>2 DEF ResendUpdate, Goto
  <2> QED
    BY <2>1, <2>2
<1>20. ASSUME NEW r \in Requests, RemoveFind(r) PROVE KnownTokens'
  BY <1>20 DEF RemoveFind, Goto
<1>21. ASSUME NEW r \in Requests, RemoveDelete(r) PROVE KnownTokens'
  BY <1>21 DEF RemoveDelete, Goto, StillThere
<1>22. ASSUME OtpExpires PROVE KnownTokens'
  BY <1>22 DEF OtpExpires
<1>23. ASSUME AttemptsExpire PROVE KnownTokens'
  BY <1>23 DEF AttemptsExpire
<1>24. ASSUME InvitationExpires PROVE KnownTokens'
  BY <1>24 DEF InvitationExpires
<1>25. ASSUME UNCHANGED vars PROVE KnownTokens'
  BY <1>25 DEF vars
<1>26. ASSUME NEW r \in Requests, VerifyTtlFails(r) PROVE KnownTokens'
  BY <1>26 DEF VerifyTtlFails, Goto
<1>27. ASSUME NEW r \in Requests, ChangeFind(r) PROVE KnownTokens'
  BY <1>27 DEF ChangeFind, Goto
<1>28. ASSUME NEW r \in Requests, ChangeUpdate(r) PROVE KnownTokens'
  BY <1>28 DEF ChangeUpdate, Goto
<1>29. ASSUME NEW r \in Requests, LeaveFind(r) PROVE KnownTokens'
  BY <1>29 DEF LeaveFind, Goto
<1>30. ASSUME NEW r \in Requests, LeaveUpdate(r) PROVE KnownTokens'
  BY <1>30 DEF LeaveUpdate, Goto, StillThere
<1>31. ASSUME NEW r \in Requests, Enter(r) PROVE KnownTokens'
  <2>1. PICK active \in BOOLEAN :
          IF user = None
          THEN user' = Entered(r, active) /\ Goto(r, "entered")
          ELSE Goto(r, "refused") /\ UNCHANGED user
    BY <1>31, Zenon DEF Enter
  <2>2. UNCHANGED <<shown, read, otp, attempts, late>> /\ pc[r] = "new"
    BY <1>31 DEF Enter
  <2>3. CASE user = None
    <3>1. /\ user' \in Row /\ user'.id = r /\ user'.token = None /\ ~user'.fresh
          /\ user'.password = r
      BY <2>1, <2>3, RowEntered
    <3> QED
      BY <2>1, <2>2, <2>3, <3>1 DEF Goto
  <2>4. CASE user # None
    BY <2>1, <2>2, <2>4 DEF Goto
  <2> QED
    BY <2>3, <2>4
<1> QED
  BY <1>1, <1>2, <1>3, <1>4, <1>5, <1>6, <1>7, <1>8, <1>9, <1>10, <1>11,
     <1>12, <1>13, <1>14, <1>15, <1>16, <1>17, <1>18, <1>19, <1>20, <1>21,
     <1>22, <1>23, <1>24, <1>25, <1>26, <1>27, <1>28, <1>29, <1>30, <1>31
     DEF Next, ForgotPassword, Invitation, Profile

LEMMA AttemptsStep == ASSUME TypeOK, AttemptsHaveEnd, [Next]_vars PROVE AttemptsHaveEnd'
<1> USE DEF TypeOK, AttemptsHaveEnd, NoAttempts
<1>1. ASSUME NEW r \in Requests, SendFind(r) PROVE AttemptsHaveEnd'
  BY <1>1 DEF SendFind, Goto
<1>2. ASSUME NEW r \in Requests, SendSet(r) PROVE AttemptsHaveEnd'
  BY <1>2 DEF SendSet, Goto
<1>3. ASSUME NEW r \in Requests, VerifyFind(r) PROVE AttemptsHaveEnd'
  BY <1>3 DEF VerifyFind, Goto, Codes
<1>4. ASSUME NEW r \in Requests, VerifyGet(r) PROVE AttemptsHaveEnd'
  BY <1>4 DEF VerifyGet, Goto
<1>5. ASSUME NEW r \in Requests, VerifyCount(r) PROVE AttemptsHaveEnd'
  BY <1>5 DEF VerifyCount, Goto
<1>6. ASSUME NEW r \in Requests, VerifyTtl(r) PROVE AttemptsHaveEnd'
  BY <1>6 DEF VerifyTtl, Goto
<1>7. ASSUME NEW r \in Requests, VerifyDrop(r) PROVE AttemptsHaveEnd'
  BY <1>7 DEF VerifyDrop, Goto
<1>8. ASSUME NEW r \in Requests, VerifyForget(r) PROVE AttemptsHaveEnd'
  BY <1>8 DEF VerifyForget, Goto
<1>9. ASSUME NEW r \in Requests, VerifyClear(r) PROVE AttemptsHaveEnd'
  BY <1>9 DEF VerifyClear, Goto
<1>10. ASSUME NEW r \in Requests, ResetFind(r) PROVE AttemptsHaveEnd'
  BY <1>10 DEF ResetFind, Goto, Codes
<1>11. ASSUME NEW r \in Requests, ResetGet(r) PROVE AttemptsHaveEnd'
  BY <1>11 DEF ResetGet, Goto
<1>12. ASSUME NEW r \in Requests, ResetChange(r) PROVE AttemptsHaveEnd'
  BY <1>12 DEF ResetChange, Goto
<1>13. ASSUME NEW r \in Requests, ResetDel(r) PROVE AttemptsHaveEnd'
  BY <1>13 DEF ResetDel, Goto
<1>14. ASSUME NEW r \in Requests, CreateFind(r) PROVE AttemptsHaveEnd'
  BY <1>14 DEF CreateFind, Goto
<1>15. ASSUME NEW r \in Requests, CreateInsert(r) PROVE AttemptsHaveEnd'
  BY <1>15 DEF CreateInsert, Goto
<1>16. ASSUME NEW r \in Requests, AcceptFind(r) PROVE AttemptsHaveEnd'
  BY <1>16 DEF AcceptFind, Goto, Tokens
<1>17. ASSUME NEW r \in Requests, AcceptUpdate(r) PROVE AttemptsHaveEnd'
  BY <1>17 DEF AcceptUpdate, Goto, Activated, StillThere, Overlapping
<1>18. ASSUME NEW r \in Requests, ResendFind(r) PROVE AttemptsHaveEnd'
  BY <1>18 DEF ResendFind, Goto
<1>19. ASSUME NEW r \in Requests, ResendUpdate(r) PROVE AttemptsHaveEnd'
  BY <1>19 DEF ResendUpdate, Goto, StillThere
<1>20. ASSUME NEW r \in Requests, RemoveFind(r) PROVE AttemptsHaveEnd'
  BY <1>20 DEF RemoveFind, Goto
<1>21. ASSUME NEW r \in Requests, RemoveDelete(r) PROVE AttemptsHaveEnd'
  BY <1>21 DEF RemoveDelete, Goto, StillThere
<1>22. ASSUME OtpExpires PROVE AttemptsHaveEnd'
  BY <1>22 DEF OtpExpires
<1>23. ASSUME AttemptsExpire PROVE AttemptsHaveEnd'
  BY <1>23 DEF AttemptsExpire
<1>24. ASSUME InvitationExpires PROVE AttemptsHaveEnd'
  BY <1>24 DEF InvitationExpires
<1>25. ASSUME UNCHANGED vars PROVE AttemptsHaveEnd'
  BY <1>25 DEF vars
<1>26. ASSUME NEW r \in Requests, VerifyTtlFails(r) PROVE AttemptsHaveEnd'
  BY <1>26 DEF VerifyTtlFails, Goto
<1>27. ASSUME NEW r \in Requests, ChangeFind(r) PROVE AttemptsHaveEnd'
  BY <1>27 DEF ChangeFind, Goto
<1>28. ASSUME NEW r \in Requests, ChangeUpdate(r) PROVE AttemptsHaveEnd'
  BY <1>28 DEF ChangeUpdate, Goto
<1>29. ASSUME NEW r \in Requests, LeaveFind(r) PROVE AttemptsHaveEnd'
  BY <1>29 DEF LeaveFind, Goto
<1>30. ASSUME NEW r \in Requests, LeaveUpdate(r) PROVE AttemptsHaveEnd'
  BY <1>30 DEF LeaveUpdate, Goto, StillThere
<1>31. ASSUME NEW r \in Requests, Enter(r) PROVE AttemptsHaveEnd'
  BY <1>31 DEF Enter, Goto
<1> QED
  BY <1>1, <1>2, <1>3, <1>4, <1>5, <1>6, <1>7, <1>8, <1>9, <1>10, <1>11,
     <1>12, <1>13, <1>14, <1>15, <1>16, <1>17, <1>18, <1>19, <1>20, <1>21,
     <1>22, <1>23, <1>24, <1>25, <1>26, <1>27, <1>28, <1>29, <1>30, <1>31
     DEF Next, ForgotPassword, Invitation, Profile

LEMMA RowsStep == ASSUME TypeOK, KnownRows, [Next]_vars PROVE KnownRows'
<1> USE DEF TypeOK, KnownRows, Writing, Goto, StillThere
<1>1. ASSUME NEW r \in Requests, ForgotPassword(r) PROVE KnownRows'
  <2>1. user' = user \/ (user # None /\ user' # None /\ user'.id = user.id)
    BY <1>1, RowAssumption
       DEF ForgotPassword, SendFind, SendSet, VerifyFind, VerifyGet, VerifyCount,
           VerifyTtl, VerifyTtlFails, VerifyDrop, VerifyForget, VerifyClear, ResetFind,
           ResetGet, ResetChange, ResetDel
  <2>2. /\ \E label \in Labels \ Writing : pc' = [pc EXCEPT ![r] = label]
        /\ pc[r] \notin {"invited", "entered"}
        /\ \A q \in Requests \ {r} : read'[q] = read[q]
    BY <1>1 DEF ForgotPassword, SendFind, SendSet, VerifyFind, VerifyGet, VerifyCount,
                VerifyTtl, VerifyTtlFails, VerifyDrop, VerifyForget, VerifyClear, ResetFind,
                ResetGet, ResetChange, ResetDel
  <2> QED
    BY <2>1, <2>2
<1>2. ASSUME NEW r \in Requests, AcceptFind(r) \/ ResendFind(r) \/ RemoveFind(r)
      PROVE  KnownRows'
  BY <1>2 DEF AcceptFind, ResendFind, RemoveFind, Tokens
<1>3. ASSUME NEW r \in Requests, CreateFind(r) \/ ChangeFind(r) \/ LeaveFind(r)
      PROVE  KnownRows'
  BY <1>3 DEF CreateFind, ChangeFind, LeaveFind
<1>4. ASSUME NEW r \in Requests, CreateInsert(r) PROVE KnownRows'
  BY <1>4 DEF CreateInsert
<1>5. ASSUME NEW r \in Requests, AcceptUpdate(r) \/ ResendUpdate(r) PROVE KnownRows'
  <2>1. user' = user \/ (user # None /\ user'.id = user.id)
    BY <1>5 DEF AcceptUpdate, ResendUpdate, Activated
  <2>2. /\ \E label \in Labels \ Writing : pc' = [pc EXCEPT ![r] = label]
        /\ pc[r] \in Writing /\ read' = read
    BY <1>5 DEF AcceptUpdate, ResendUpdate
  <2>3. user = None => user' = user
    BY <1>5 DEF AcceptUpdate, ResendUpdate
  <2> QED
    BY <2>1, <2>2, <2>3
<1>6. ASSUME NEW r \in Requests, RemoveDelete(r) \/ LeaveUpdate(r) PROVE KnownRows'
  BY <1>6 DEF RemoveDelete, LeaveUpdate
<1>7. ASSUME NEW r \in Requests, ChangeUpdate(r) PROVE KnownRows'
  BY <1>7, RowAssumption DEF ChangeUpdate
<1>8. ASSUME NEW r \in Requests, Enter(r) PROVE KnownRows'
  BY <1>8, RowEntered DEF Enter
<1>9. ASSUME OtpExpires \/ AttemptsExpire \/ InvitationExpires \/ UNCHANGED vars
      PROVE  KnownRows'
  BY <1>9 DEF OtpExpires, AttemptsExpire, InvitationExpires, vars
<1> QED
  BY <1>1, <1>2, <1>3, <1>4, <1>5, <1>6, <1>7, <1>8, <1>9 DEF Next, Invitation, Profile

LEMMA SettledStep == ASSUME TypeOK, KnownRows, Settled, [Next]_vars PROVE Settled'
<1> USE DEF TypeOK, Settled, Writing
<1>1. ASSUME NEW r \in Requests, SendFind(r) PROVE Settled'
  BY <1>1 DEF SendFind, Goto
<1>2. ASSUME NEW r \in Requests, SendSet(r) PROVE Settled'
  BY <1>2 DEF SendSet, Goto
<1>3. ASSUME NEW r \in Requests, VerifyFind(r) PROVE Settled'
  BY <1>3 DEF VerifyFind, Goto, Codes
<1>4. ASSUME NEW r \in Requests, VerifyGet(r) PROVE Settled'
  BY <1>4 DEF VerifyGet, Goto
<1>5. ASSUME NEW r \in Requests, VerifyCount(r) PROVE Settled'
  BY <1>5 DEF VerifyCount, Goto
<1>6. ASSUME NEW r \in Requests, VerifyTtl(r) PROVE Settled'
  BY <1>6 DEF VerifyTtl, Goto
<1>7. ASSUME NEW r \in Requests, VerifyDrop(r) PROVE Settled'
  BY <1>7 DEF VerifyDrop, Goto
<1>8. ASSUME NEW r \in Requests, VerifyForget(r) PROVE Settled'
  BY <1>8 DEF VerifyForget, Goto
<1>9. ASSUME NEW r \in Requests, VerifyClear(r) PROVE Settled'
  BY <1>9 DEF VerifyClear, Goto
<1>10. ASSUME NEW r \in Requests, ResetFind(r) PROVE Settled'
  BY <1>10 DEF ResetFind, Goto, Codes
<1>11. ASSUME NEW r \in Requests, ResetGet(r) PROVE Settled'
  BY <1>11 DEF ResetGet, Goto
<1>12. ASSUME NEW r \in Requests, ResetChange(r) PROVE Settled'
  BY <1>12 DEF ResetChange, Goto
<1>13. ASSUME NEW r \in Requests, ResetDel(r) PROVE Settled'
  BY <1>13 DEF ResetDel, Goto
<1>14. ASSUME NEW r \in Requests, CreateFind(r) PROVE Settled'
  BY <1>14 DEF CreateFind, Goto
<1>15. ASSUME NEW r \in Requests, CreateInsert(r) PROVE Settled'
  BY <1>15 DEF CreateInsert, Goto
<1>16. ASSUME NEW r \in Requests, AcceptFind(r) PROVE Settled'
  BY <1>16 DEF AcceptFind, Goto, Tokens
<1>17. ASSUME NEW r \in Requests, AcceptUpdate(r) PROVE Settled'
  <2>1. CASE StillThere(r)
    <3>1. user \in Row /\ user' = Activated(r)
      BY <1>17, <2>1 DEF AcceptUpdate, StillThere
    <3>2. /\ user' \in Row /\ user'.id = user.id
          /\ user'.token = None /\ ~user'.fresh /\ user'.active /\ user'.password = r
      BY <3>1, RowActivated DEF Activated
    <3> QED
      BY <1>17, <2>1, <3>2 DEF AcceptUpdate, Goto, StillThere, Overlapping
  <2>2. CASE ~StillThere(r)
    BY <1>17, <2>2 DEF AcceptUpdate, Goto
  <2> QED
    BY <2>1, <2>2
<1>18. ASSUME NEW r \in Requests, ResendFind(r) PROVE Settled'
  BY <1>18 DEF ResendFind, Goto
<1>19. ASSUME NEW r \in Requests, ResendUpdate(r) PROVE Settled'
  <2>1. CASE StillThere(r)
    <3>1. user \in Row /\ user' = [user EXCEPT !.token = r, !.fresh = TRUE]
      BY <1>19, <2>1 DEF ResendUpdate, StillThere
    <3>2. /\ user' \in Row /\ user'.id = user.id
          /\ user'.token = r /\ user'.fresh /\ user'.active = user.active /\ user'.password = user.password
      BY <3>1, RowResent
    <3> QED
      BY <1>19, <2>1, <3>2 DEF ResendUpdate, Goto, StillThere
  <2>2. CASE ~StillThere(r)
    BY <1>19, <2>2 DEF ResendUpdate, Goto
  <2> QED
    BY <2>1, <2>2
<1>20. ASSUME NEW r \in Requests, RemoveFind(r) PROVE Settled'
  BY <1>20 DEF RemoveFind, Goto
<1>21. ASSUME NEW r \in Requests, RemoveDelete(r) PROVE Settled'
  BY <1>21 DEF RemoveDelete, Goto, StillThere
<1>22. ASSUME OtpExpires PROVE Settled'
  BY <1>22 DEF OtpExpires
<1>23. ASSUME AttemptsExpire PROVE Settled'
  BY <1>23 DEF AttemptsExpire
<1>24. ASSUME InvitationExpires PROVE Settled'
  BY <1>24 DEF InvitationExpires
<1>25. ASSUME UNCHANGED vars PROVE Settled'
  BY <1>25 DEF vars
<1>26. ASSUME NEW r \in Requests, VerifyTtlFails(r) PROVE Settled'
  BY <1>26 DEF VerifyTtlFails, Goto
<1>27. ASSUME NEW r \in Requests, ChangeFind(r) PROVE Settled'
  BY <1>27 DEF ChangeFind, Goto
<1>28. ASSUME NEW r \in Requests, ChangeUpdate(r) PROVE Settled'
  BY <1>28 DEF ChangeUpdate, Goto
<1>29. ASSUME NEW r \in Requests, LeaveFind(r) PROVE Settled'
  BY <1>29 DEF LeaveFind, Goto
<1>30. ASSUME NEW r \in Requests, LeaveUpdate(r) PROVE Settled'
  BY <1>30 DEF LeaveUpdate, Goto, StillThere
<1>31. ASSUME NEW r \in Requests, Enter(r) PROVE Settled'
  <2>1. PICK active \in BOOLEAN :
          IF user = None
          THEN user' = Entered(r, active) /\ Goto(r, "entered")
          ELSE Goto(r, "refused") /\ UNCHANGED user
    BY <1>31, Zenon DEF Enter
  <2>2. UNCHANGED <<shown, read, otp, attempts, late>> /\ pc[r] = "new"
    BY <1>31 DEF Enter
  <2>3. CASE user = None
    <3>1. /\ user' \in Row /\ user'.id = r /\ user'.token = None /\ ~user'.fresh
          /\ user'.password = r
      BY <2>1, <2>3, RowEntered
    <3> QED
      BY <2>1, <2>2, <2>3, <3>1 DEF Goto, KnownRows
  <2>4. CASE user # None
    BY <2>1, <2>2, <2>4 DEF Goto
  <2> QED
    BY <2>3, <2>4
<1> QED
  BY <1>1, <1>2, <1>3, <1>4, <1>5, <1>6, <1>7, <1>8, <1>9, <1>10, <1>11,
     <1>12, <1>13, <1>14, <1>15, <1>16, <1>17, <1>18, <1>19, <1>20, <1>21,
     <1>22, <1>23, <1>24, <1>25, <1>26, <1>27, <1>28, <1>29, <1>30, <1>31
     DEF Next, ForgotPassword, Invitation, Profile

LEMMA IInvStep == IInv /\ [Next]_vars => IInv'
  BY TypeStep, CodesStep, TokensStep, RowsStep, AttemptsStep, SettledStep DEF IInv

LEMMA Inductive == Spec => []IInv
  BY InitHolds, IInvStep, PTL DEF Spec

-----------------------------------------------------------------------------

\* Every variable keeps its type.
THEOREM TypeCorrect == Spec => []TypeOK
  BY Inductive, PTL DEF IInv

\* A code that was reset with or guessed at too often, and an invitation that
\* set a password, are never valid again.
THEOREM SpentSecretsStayGone == Spec => []SpentSecretsGone
<1>1. IInv => SpentSecretsGone
  BY DEF IInv, KnownCodes, KnownTokens, SpentSecretsGone
<1> QED
  BY <1>1, Inductive, PTL

\* An invitation opens the account it was sent for and no other, whatever was
\* removed and invited in between.
THEOREM InvitationsOpenOwnAccount == Spec => []InvitationOpensOwnAccount
<1>1. IInv => InvitationOpensOwnAccount
  BY DEF IInv, TypeOK, KnownTokens, InvitationOpensOwnAccount
<1> QED
  BY <1>1, Inductive, PTL

\* A counter of wrong guesses has a time to live, or the request that created it
\* is about to give it one or failed to.
THEOREM AttemptsAreForgotten == Spec => []AttemptsHaveEnd
  BY Inductive, PTL DEF IInv

\* An active account changes only by a password reset, by a change of password or
\* e-mail that a member asks for, and by what was under way when it was activated.
THEOREM ActivatedAccountsSettle == Spec => ActivationSettles
<1> DEFINE Allowed ==
      \/ \E r \in Requests : OwnChange(r)
      \/ \E r \in Requests : pc'[r] # pc[r] /\ {r, shown[r]} \cap late # {}
      \/ user.token \in late /\ InvitationExpires
      Settles == user # None /\ user.active /\ user' # user => Allowed
<1>1. ASSUME IInv, [Next]_vars, user # None, user.active, user' # user
      PROVE  Allowed
  <2> USE <1>1 DEF IInv, TypeOK, Settled, Writing, Goto
  <2>1. ASSUME NEW r \in Requests, ResetChange(r) PROVE Allowed
    BY <2>1 DEF ResetChange, OwnChange
  <2>2. ASSUME NEW r \in Requests, AcceptUpdate(r) PROVE Allowed
    BY <2>2 DEF AcceptUpdate, StillThere
  <2>3. ASSUME NEW r \in Requests, ResendUpdate(r) PROVE Allowed
    BY <2>3 DEF ResendUpdate, StillThere
  <2>4. ASSUME NEW r \in Requests, RemoveDelete(r) PROVE Allowed
    BY <2>4 DEF RemoveDelete, StillThere
  <2>5. CASE InvitationExpires
    BY <2>5 DEF InvitationExpires
  <2>6. ASSUME NEW r \in Requests, CreateInsert(r) PROVE Allowed
    BY <2>6 DEF CreateInsert
  <2>7. ASSUME NEW r \in Requests, ForgotPassword(r), ~ResetChange(r) PROVE user' = user
    BY <2>7 DEF ForgotPassword, SendFind, SendSet, VerifyFind, VerifyGet, VerifyCount,
                VerifyTtl, VerifyTtlFails, VerifyDrop, VerifyForget, VerifyClear, ResetFind,
                ResetGet, ResetDel
  <2>8. ASSUME NEW r \in Requests,
               \/ CreateFind(r) \/ AcceptFind(r) \/ ResendFind(r) \/ RemoveFind(r)
               \/ ChangeFind(r) \/ LeaveFind(r)
        PROVE  user' = user
    BY <2>8 DEF CreateFind, AcceptFind, ResendFind, RemoveFind, ChangeFind, LeaveFind
  <2>9. ASSUME OtpExpires \/ AttemptsExpire \/ UNCHANGED vars PROVE user' = user
    BY <2>9 DEF OtpExpires, AttemptsExpire, vars
  <2>10. ASSUME NEW r \in Requests, ChangeUpdate(r) PROVE Allowed
    BY <2>10 DEF ChangeUpdate, OwnChange
  <2>11. ASSUME NEW r \in Requests, LeaveUpdate(r) PROVE Allowed
    BY <2>11 DEF LeaveUpdate, OwnChange
  <2>12. ASSUME NEW r \in Requests, Enter(r) PROVE user' = user
    BY <2>12 DEF Enter
  <2> QED
    BY <2>1, <2>2, <2>3, <2>4, <2>5, <2>6, <2>7, <2>8, <2>9, <2>10, <2>11, <2>12
       DEF Next, Invitation, Profile
<1>2. IInv /\ [Next]_vars => [Settles]_vars
  BY <1>1
<1>3. Spec => [][Settles]_vars
  BY <1>2, Inductive, PTL DEF Spec
<1> QED
  BY <1>3 DEF ActivationSettles

-----------------------------------------------------------------------------
(* The registers of codes and of invitations *)

LEMMA CodeKept ==
  ASSUME TypeOK, KnownCodes, Codes' = Codes, otp' \in {otp, None}
  PROVE  [CodeRegister!Next]_(CodeRegister!register)
<1>1. CASE otp' = otp
  BY <1>1 DEF CodeRegister!register, TheCode
<1>2. CASE otp' = None /\ otp # None
  <2>1. otp \in Codes /\ TheCode = {otp} /\ TheCode' = {}
    BY <1>2 DEF TypeOK, KnownCodes, Codes, TheCode
  <2>2. CodeRegister!End({otp}) /\ {otp} \in SUBSET Requests
    BY <2>1 DEF CodeRegister!End, Codes
  <2> QED
    BY <2>2 DEF CodeRegister!Next
<1> QED
  BY <1>1, <1>2

LEMMA CodeStep ==
  ASSUME TypeOK, KnownCodes, [Next]_vars
  PROVE  [CodeRegister!Next]_(CodeRegister!register)
<1>1. ASSUME NEW r \in Requests, SendSet(r) PROVE CodeRegister!Next
  <2>1. Codes' = Codes \cup {r} /\ r \notin Codes /\ otp' = r
    BY <1>1 DEF SendSet, Goto, TypeOK, Codes
  <2>2. TheCode \subseteq Codes /\ TheCode' = {r}
    BY <2>1 DEF TypeOK, KnownCodes, Codes, TheCode
  <2>3. CodeRegister!Issue(r, TheCode) /\ TheCode \in SUBSET Requests
    BY <2>1, <2>2 DEF CodeRegister!Issue, Codes
  <2> QED
    BY <2>3 DEF CodeRegister!Next
<1>2. ASSUME NEW r \in Requests, ForgotPassword(r), ~SendSet(r)
      PROVE  Codes' = Codes /\ otp' \in {otp, None}
  BY <1>2 DEF ForgotPassword, SendFind, VerifyFind, VerifyGet, VerifyCount, VerifyTtl,
              VerifyTtlFails, VerifyDrop, VerifyForget, VerifyClear, ResetFind, ResetGet, ResetChange,
              ResetDel, Goto, Codes, TypeOK
<1>3. ASSUME NEW r \in Requests, Invitation(r)
      PROVE  Codes' = Codes /\ otp' \in {otp, None}
  BY <1>3 DEF Invitation, CreateFind, CreateInsert, AcceptFind, AcceptUpdate, ResendFind,
              ResendUpdate, RemoveFind, RemoveDelete, Goto, Codes, TypeOK
<1>4. ASSUME NEW r \in Requests, Profile(r)
      PROVE  Codes' = Codes /\ otp' \in {otp, None}
  BY <1>4 DEF Profile, ChangeFind, ChangeUpdate, LeaveFind, LeaveUpdate, Enter, Goto, Codes,
              TypeOK
<1>5. ASSUME OtpExpires \/ AttemptsExpire \/ InvitationExpires \/ UNCHANGED vars
      PROVE  Codes' = Codes /\ otp' \in {otp, None}
  BY <1>5 DEF OtpExpires, AttemptsExpire, InvitationExpires, vars, Codes
<1> QED
  BY <1>1, <1>2, <1>3, <1>4, <1>5, CodeKept DEF Next

\* A valid invitation was sent.
LEMMA InvitationSent == IInv => TheInvitation \subseteq Tokens
  BY DEF IInv, TypeOK, KnownTokens, Settled, Sent, Tokens, TheInvitation

LEMMA InvitationKept ==
  ASSUME IInv, Tokens' = Tokens, TheInvitation' \in {TheInvitation, {}}
  PROVE  [InvitationRegister!Next]_(InvitationRegister!register)
<1>1. CASE TheInvitation' = TheInvitation
  BY <1>1 DEF InvitationRegister!register
<1>2. CASE TheInvitation' = {}
  <2>1. InvitationRegister!End(TheInvitation) /\ TheInvitation \in SUBSET Requests
    BY <1>2, InvitationSent DEF InvitationRegister!End, Tokens
  <2> QED
    BY <2>1 DEF InvitationRegister!Next
<1> QED
  BY <1>1, <1>2

\* r sends a new invitation, which replaces the one before, if any.
LEMMA InvitationIssued ==
  ASSUME IInv, NEW r \in Requests, Tokens' = Tokens \cup {r}, r \notin Tokens,
         TheInvitation' = {r}
  PROVE  InvitationRegister!Next
<1>1. InvitationRegister!Issue(r, TheInvitation) /\ TheInvitation \in SUBSET Requests
  BY InvitationSent DEF InvitationRegister!Issue, Tokens
<1> QED
  BY <1>1 DEF InvitationRegister!Next

LEMMA InvitationStep ==
  ASSUME IInv, [Next]_vars
  PROVE  [InvitationRegister!Next]_(InvitationRegister!register)
<1> USE DEF IInv, TypeOK, Goto
<1>1. ASSUME NEW r \in Requests, CreateInsert(r), user = None PROVE InvitationRegister!Next
  <2>1. Tokens' = Tokens \cup {r} /\ r \notin Tokens
    BY <1>1 DEF CreateInsert, Tokens
  <2>2. user' # None /\ user'.fresh /\ user'.token = r
    <3>1. user' = [id |-> r, active |-> FALSE, password |-> None, token |-> r, fresh |-> TRUE]
      BY <1>1 DEF CreateInsert
    <3>2. user' \in Row
      BY <3>1, RowCreated
    <3> QED
      BY <3>1, <3>2, RowAssumption
  <2>3. TheInvitation' = {r}
    BY <2>2 DEF TheInvitation
  <2> HIDE DEF TypeOK, IInv
  <2> QED
    BY <2>1, <2>3, InvitationIssued
<1>2. ASSUME NEW r \in Requests, ResendUpdate(r), StillThere(r) PROVE InvitationRegister!Next
  <2>1. Tokens' = Tokens \cup {r} /\ r \notin Tokens
    BY <1>2 DEF ResendUpdate, Tokens
  <2>2. user \in Row /\ user' = [user EXCEPT !.token = r, !.fresh = TRUE]
    BY <1>2 DEF ResendUpdate, StillThere
  <2>3. user' # None /\ user'.fresh /\ user'.token = r
    BY <2>2, RowResent, RowAssumption
  <2>4. TheInvitation' = {r}
    BY <2>3 DEF TheInvitation
  <2> HIDE DEF TypeOK, IInv
  <2> QED
    BY <2>1, <2>4, InvitationIssued
<1> DEFINE Kept == Tokens' = Tokens /\ TheInvitation' \in {TheInvitation, {}}
<1>3. ASSUME NEW r \in Requests, CreateInsert(r), user # None PROVE Kept
  BY <1>3 DEF CreateInsert, Tokens, TheInvitation
<1>4. ASSUME NEW r \in Requests, ResendUpdate(r), ~StillThere(r) PROVE Kept
  BY <1>4 DEF ResendUpdate, Tokens, TheInvitation
<1>5. ASSUME NEW r \in Requests, AcceptUpdate(r) PROVE Kept
  <2>1. Tokens' = Tokens
    BY <1>5 DEF AcceptUpdate, Tokens
  <2>2. CASE StillThere(r)
    <3>1. user \in Row /\ user' = Activated(r)
      BY <1>5, <2>2 DEF AcceptUpdate, StillThere
    <3>2. ~user'.fresh
      BY <3>1, RowActivated DEF Activated
    <3> QED
      BY <2>1, <3>2 DEF TheInvitation
  <2>3. CASE ~StillThere(r)
    BY <1>5, <2>1, <2>3 DEF AcceptUpdate, TheInvitation
  <2> QED
    BY <2>2, <2>3
<1>6. ASSUME NEW r \in Requests, RemoveDelete(r) PROVE Kept
  BY <1>6 DEF RemoveDelete, Tokens, TheInvitation
<1>7. ASSUME NEW r \in Requests, ResetChange(r) PROVE Kept
  <2>1. Tokens' = Tokens
    BY <1>7 DEF ResetChange, Tokens
  <2>2. CASE user # None
    BY <1>7, <2>1, <2>2 DEF ResetChange, TheInvitation
  <2>3. CASE user = None
    BY <1>7, <2>1, <2>3 DEF ResetChange, TheInvitation
  <2> QED
    BY <2>2, <2>3
<1>8. ASSUME NEW r \in Requests, ForgotPassword(r), ~ResetChange(r)
      PROVE  Tokens' = Tokens /\ user' = user
  BY <1>8 DEF ForgotPassword, SendFind, SendSet, VerifyFind, VerifyGet, VerifyCount,
              VerifyTtl, VerifyTtlFails, VerifyDrop, VerifyForget, VerifyClear, ResetFind,
              ResetGet, ResetDel, Tokens
<1>9. ASSUME NEW r \in Requests,
             \/ CreateFind(r) \/ AcceptFind(r) \/ ResendFind(r) \/ RemoveFind(r)
             \/ ChangeFind(r) \/ LeaveFind(r)
      PROVE  Tokens' = Tokens /\ user' = user
  BY <1>9 DEF CreateFind, AcceptFind, ResendFind, RemoveFind, ChangeFind, LeaveFind, Tokens
<1>10. ASSUME OtpExpires \/ AttemptsExpire \/ UNCHANGED vars
       PROVE  Tokens' = Tokens /\ user' = user
  BY <1>10 DEF OtpExpires, AttemptsExpire, vars, Tokens
<1>11. ASSUME InvitationExpires PROVE Kept
  BY <1>11 DEF InvitationExpires, Tokens, TheInvitation
<1>12. ASSUME Tokens' = Tokens, user' = user PROVE Kept
  BY <1>12 DEF TheInvitation
<1>13. ASSUME NEW r \in Requests, ChangeUpdate(r) PROVE Kept
  <2>1. Tokens' = Tokens
    BY <1>13 DEF ChangeUpdate, Tokens
  <2>2. CASE user # None
    BY <1>13, <2>1, <2>2 DEF ChangeUpdate, TheInvitation
  <2>3. CASE user = None
    BY <1>13, <2>1, <2>3 DEF ChangeUpdate, TheInvitation
  <2> QED
    BY <2>2, <2>3
<1>14. ASSUME NEW r \in Requests, LeaveUpdate(r) PROVE Kept
  BY <1>14 DEF LeaveUpdate, Tokens, TheInvitation
<1>15. ASSUME NEW r \in Requests, Enter(r) PROVE Kept
  BY <1>15, RowEntered DEF Enter, Tokens, TheInvitation
<1>16. ASSUME Kept PROVE [InvitationRegister!Next]_(InvitationRegister!register)
  BY <1>16, InvitationKept
<1> HIDE DEF Kept
<1> QED
  BY <1>1, <1>2, <1>3, <1>4, <1>5, <1>6, <1>7, <1>8, <1>9, <1>10, <1>11, <1>12, <1>13,
     <1>14, <1>15, <1>16
     DEF Next, Invitation, Profile

\* Codes and invitations are issued at most once, and what has ended has ended
\* for good: a code that was used, guessed at too often, replaced or has
\* expired, and an invitation that was accepted, sent again, removed or has
\* expired.
THEOREM SecretsFollowRegister == Spec => ImplementsRegister
<1>1. Init => CodeRegister!Init /\ InvitationRegister!Init
  BY DEF Init, Member, CodeRegister!Init, InvitationRegister!Init, TheCode,
         TheInvitation, Codes, Tokens
<1>2. IInv /\ [Next]_vars =>
        /\ [CodeRegister!Next]_(CodeRegister!register)
        /\ [InvitationRegister!Next]_(InvitationRegister!register)
  BY CodeStep, InvitationStep DEF IInv
<1> QED
  BY <1>1, <1>2, Inductive, PTL DEF Spec, ImplementsRegister, CodeRegister!Spec,
     InvitationRegister!Spec
=============================================================================
