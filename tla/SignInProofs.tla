---------------------------- MODULE SignInProofs ----------------------------
(* Theorems about SignIn, for any number of sessions, forms in flight,        *)
(* passkeys and codes, and any limits.                                        *)
EXTENDS SignIn, FiniteSetTheorems, TLAPS

-----------------------------------------------------------------------------
(* Types *)

\* The codes the program knows are codes.
LEMMA CodesType ==
  ASSUME TypeOK
  PROVE  /\ Authenticator \subseteq Code
         /\ Enrolling \subseteq Code
         /\ Typed \subseteq Code
         /\ FreshCodes \subseteq Code
<1> USE SignInAssumption DEF TypeOK, Code, Totp, Window
<1>1. Authenticator \subseteq Code
  BY DEF Authenticator
<1>2. Enrolling \subseteq Code
  BY DEF Enrolling
<1>3. FreshCodes \subseteq Code
  BY DEF FreshCodes
<1> QED BY <1>1, <1>2, <1>3 DEF Typed

LEMMA BlankType == Blank \in Row
  BY SignInAssumption DEF Blank, Row, Purpose

LEMMA NewRowType ==
  ASSUME NEW complete \in BOOLEAN, NEW proved \in BOOLEAN, NEW with \in Nat, NEW under \in Nat
  PROVE  NewRow(complete, proved, with, under) \in Row
  BY SignInAssumption DEF NewRow, Row, Purpose

LEMMA IdleType == Idle \in Snapshot
  BY DEF Idle, Snapshot

LEMMA InitType == Init => TypeOK
<1> SUFFICES ASSUME Init PROVE TypeOK
  OBVIOUS
<1>1. seen \in [Request -> Snapshot]
  BY IdleType DEF Init
<1>2. row \in [Session -> Row]
  BY BlankType DEF Init
<1>3. signing \in [on : BOOLEAN, with : Nat, second : BOOLEAN]
  BY DEF Init, NotSigning
<1> QED BY <1>1, <1>2, <1>3 DEF Init, TypeOK, NoStep

LEMMA EndType ==
  ASSUME TypeOK, NEW gone, NEW r \in [Session -> Row], End(gone, r)
  PROVE  live' \subseteq Session /\ row' \in [Session -> Row]
  BY BlankType DEF TypeOK, End

LEMMA ReplaceType ==
  ASSUME TypeOK, NEW s, NEW t \in Session, s \in Session, Replace(s, t)
  PROVE  /\ live' \subseteq Session
         /\ row' \in [Session -> Row]
         /\ failed' \in Nat /\ lock' \in {"open", "shut"} /\ misses' \in Nat
<1>1. row[s].signed \in Nat /\ row[s].born \in Nat
  BY DEF TypeOK, Row
<1>2. NewRow(TRUE, TRUE, row[s].signed, row[s].born) \in Row
  BY <1>1, NewRowType
<1> QED BY <1>2, BlankType DEF TypeOK, Replace

LEMMA AcceptType ==
  ASSUME TypeOK, NEW c \in Code, Accept(c)
  PROVE  used' \subseteq Code /\ lastStep' \in Int /\ recovery' \subseteq Code
  BY DEF TypeOK, Accept, Code

LEMMA MissType ==
  ASSUME TypeOK, CountMiss
  PROVE  failed' \in Nat /\ lock' \in {"open", "shut"} /\ misses' \in Nat
  BY DEF TypeOK, CountMiss

LEMMA ReplaceCodesType ==
  ASSUME TypeOK, ReplaceCodes
  PROVE  batch' \in Nat /\ recovery' \subseteq Code
  BY CodesType DEF TypeOK, ReplaceCodes

LEMMA SeenType ==
  ASSUME TypeOK, NEW r \in Request, Answered(r) \/ Die
  PROVE  seen' \in [Request -> Snapshot]
  BY IdleType DEF TypeOK, Answered, Die

\* What the handlers write into a row leaves it one.
LEMMA EditType ==
  ASSUME TypeOK, NEW s \in Session
  PROVE  /\ \A p \in Purpose :
              [row[s] EXCEPT !.purpose = p, !.answered = FALSE] \in Row
         /\ [row[s] EXCEPT !.answered = TRUE] \in Row
         /\ [row[s] EXCEPT !.confirmed = TRUE] \in Row
         /\ [row[s] EXCEPT !.confirmed = FALSE] \in Row
         /\ \A n \in Nat : [row[s] EXCEPT !.signed = n, !.born = n] \in Row
         /\ \A b \in BOOLEAN : [row[s] EXCEPT !.verified = TRUE, !.proved = @ \/ b] \in Row
<1>1. row[s] \in Row
  BY DEF TypeOK
<1> QED BY <1>1, SignInAssumption DEF Row

LEMMA WrittenType ==
  ASSUME TypeOK, NEW s, NEW r \in Row
  PROVE  Written(s, r) \in [Session -> Row]
  BY DEF TypeOK, Written

\* The challenge and the confirmation of a session.
LEMMA CeremonyType ==
  ASSUME TypeOK, NEW s \in Session
  PROVE  /\ \A p \in Purpose : BeginCeremony(s, p) => row' \in [Session -> Row]
         /\ Taken(s) \in [Session -> Row]
         /\ MarkConfirmed(s) => row' \in [Session -> Row]
<1>1. ASSUME NEW p \in Purpose, BeginCeremony(s, p) PROVE row' \in [Session -> Row]
  BY <1>1, EditType, WrittenType DEF BeginCeremony
<1>2. Taken(s) \in [Session -> Row]
  <2>1. "none" \in Purpose
    BY DEF Purpose
  <2>2. [row[s] EXCEPT !.purpose = "none", !.answered = FALSE] \in Row
    BY <2>1, EditType
  <2> QED BY <2>2, WrittenType DEF Taken
<1>3. MarkConfirmed(s) => row' \in [Session -> Row]
  <2>1. [row[s] EXCEPT !.confirmed = TRUE] \in Row
    BY EditType
  <2> QED BY <2>1, WrittenType DEF MarkConfirmed
<1> QED BY <1>1, <1>2, <1>3

\* Every step keeps the types.
LEMMA TypeStep == TypeOK /\ [Next]_vars => TypeOK'
<1> SUFFICES ASSUME TypeOK, [Next]_vars PROVE TypeOK'
  OBVIOUS
<1> USE SignInAssumption DEF account, guard, sessions, process
<1>1. ASSUME NEW r \in Request, RequestNext(r) PROVE TypeOK'
  <2>1. seen[r] \in Snapshot /\ (seen[r].sid # None => seen[r].sid \in Session)
    BY DEF TypeOK, Snapshot
  <2> USE DEF AnySession, SignedIn, PendingOnly, Confirmed
  <2>2. CASE \E s \in Session : Arrive(r, s)
    <3>1. PICK s \in Session : Arrive(r, s)
      BY <2>2
    <3>2. Cardinality(keys) \in Nat
      BY FS_Subset, FS_CardinalityType DEF TypeOK
    <3>3. row[s].confirmed \in BOOLEAN /\ Complete(s) \in BOOLEAN
      BY DEF TypeOK, Row, Complete, HasFactor
    <3> DEFINE q == [sid |-> s, complete |-> Complete(s), totpEnabled |-> totp = "on",
                     passkeys |-> Cardinality(keys), confirmed |-> row[s].confirmed]
    <3>4. q \in Snapshot
      BY <3>2, <3>3 DEF Snapshot
    <3> HIDE DEF q
    <3>5. seen' = [seen EXCEPT ![r] = q]
      BY <3>1 DEF Arrive, q
    <3> QED BY <3>1, <3>4, <3>5 DEF Arrive, TypeOK
  <2>3. CASE Leave(r)
    BY <2>3, SeenType DEF Leave, TypeOK
  <2>4. CASE \E c \in Typed : TypeCode(r, c)
    <3>1. PICK c \in Typed : TypeCode(r, c)
      BY <2>4
    <3>2. c \in Code
      BY CodesType
    <3> QED BY <3>1, <3>2, <2>1, SeenType, AcceptType, ReplaceType DEF TypeCode, TypeOK
  <2>5. CASE \E c \in Typed : ConfirmCode(r, c)
    <3>1. PICK c \in Typed : ConfirmCode(r, c)
      BY <2>5
    <3>2. c \in Code
      BY CodesType
    <3>3. used' \subseteq Code /\ lastStep' \in Int /\ recovery' \subseteq Code
      BY <3>1, <3>2, AcceptType DEF ConfirmCode
    <3> QED BY <3>1, <3>3, <2>1, SeenType, CeremonyType DEF ConfirmCode, TypeOK
  <2>6. CASE \E c \in Typed : DisableTotp(r, c)
    <3>1. PICK c \in Typed : DisableTotp(r, c)
      BY <2>6
    <3>2. c \in Code
      BY CodesType
    <3>3. live' \subseteq Session /\ row' \in [Session -> Row]
      BY <3>1, EndType DEF DisableTotp, TypeOK
    <3> QED BY <3>1, <3>2, <3>3, SeenType DEF DisableTotp, Kept, NoStep, TypeOK
  <2>7. CASE MissCode(r)
    <3>1. seen[r].sid \in Session
      BY <2>7, <2>1 DEF MissCode
    <3>2. CASE FailLast
      BY <2>7, <3>2, SeenType, MissType, EndType DEF MissCode, TypeOK
    <3>3. CASE ~FailLast /\ Spent(seen[r].sid)
      BY <2>7, <3>3, SeenType, MissType, EndType DEF MissCode, TypeOK
    <3>4. CASE ~FailLast /\ ~Spent(seen[r].sid)
      <4>1. [row[seen[r].sid] EXCEPT !.attempts = @ + 1] \in Row
        BY <3>1, <3>4 DEF Spent, TypeOK, Row
      <4>2. row' = [row EXCEPT ![seen[r].sid] = [row[seen[r].sid] EXCEPT !.attempts = @ + 1]]
        BY <2>7, <3>1, <3>4 DEF MissCode, TypeOK, Row
      <4> QED BY <2>7, <3>1, <3>4, <4>1, <4>2, SeenType, MissType DEF MissCode, TypeOK
    <3> QED BY <3>2, <3>3, <3>4
  <2>8. CASE MissConfirm(r)
    BY <2>8, SeenType, MissType, EndType DEF MissConfirm, TypeOK
  <2>9. CASE LoginOptions(r)
    BY <2>9, <2>1, SeenType, CeremonyType DEF LoginOptions, TypeOK, Purpose
  <2>10. CASE PasskeyLogin(r)
    BY <2>10, <2>1, SeenType, ReplaceType DEF PasskeyLogin, TypeOK
  <2>11. CASE FailLogin(r)
    BY <2>11, <2>1, SeenType, CeremonyType DEF FailLogin, TypeOK
  <2>12. CASE ConfirmOptions(r)
    BY <2>12, <2>1, SeenType, CeremonyType DEF ConfirmOptions, TypeOK, Purpose
  <2>13. CASE ConfirmPasskey(r)
    <3> DEFINE s == seen[r].sid
               e == [row[s] EXCEPT !.purpose = "none", !.answered = FALSE, !.confirmed = TRUE]
    <3>1. s \in Session
      BY <2>13, <2>1 DEF ConfirmPasskey
    <3>2. e \in Row
      <4>1. row[s] \in Row
        BY <3>1 DEF TypeOK
      <4> QED BY <4>1 DEF Row, Purpose
    <3>3. row' = [row EXCEPT ![s] = e]
      BY <2>13, <3>1 DEF ConfirmPasskey, TypeOK, Row
    <3> HIDE DEF e
    <3> QED BY <2>13, <3>1, <3>2, <3>3, SeenType DEF ConfirmPasskey, TypeOK
  <2>14. CASE FailConfirm(r)
    BY <2>14, <2>1, SeenType, CeremonyType DEF FailConfirm, TypeOK
  <2>15. CASE ConfirmPassword(r)
    BY <2>15, <2>1, SeenType, CeremonyType DEF ConfirmPassword, TypeOK
  <2>16. CASE ChangePassword(r)
    <3> DEFINE changed == Written(seen[r].sid, [row[seen[r].sid] EXCEPT !.signed = password + 1, !.born = password + 1])
    <3>1. changed \in [Session -> Row]
      <4>1. password + 1 \in Nat
        BY DEF TypeOK
      <4>2. [row[seen[r].sid] EXCEPT !.signed = password + 1, !.born = password + 1] \in Row
        BY <2>16, <2>1, <4>1, EditType DEF ChangePassword
      <4> QED BY <4>2, WrittenType
    <3>2. EndOthers("password", r, changed)
      BY <2>16 DEF ChangePassword
    <3> HIDE DEF changed
    <3>3. live' \subseteq Session /\ row' \in [Session -> Row] /\ seen' \in [Request -> Snapshot]
      BY <3>1, <3>2, EndType, SeenType DEF EndOthers, TypeOK
    <3> QED BY <2>16, <3>3 DEF ChangePassword, TypeOK
  <2>17. CASE BeginTotp(r)
    BY <2>17, SeenType DEF BeginTotp, TypeOK, NoStep
  <2>18. CASE \E c \in Enrolling : ConfirmTotp(r, c)
    <3>1. PICK c \in Enrolling : ConfirmTotp(r, c)
      BY <2>18
    <3> DEFINE verified == [t \in Session |->
                         IF t \in live THEN [row[t] EXCEPT !.verified = TRUE,
                                                           !.proved = @ \/ t = seen[r].sid]
                                       ELSE row[t]]
    <3>2. c \in Code
      BY CodesType
    <3>3. verified \in [Session -> Row]
      <4>1. ASSUME NEW t \in Session
            PROVE  [row[t] EXCEPT !.verified = TRUE, !.proved = @ \/ t = seen[r].sid] \in Row
        <5>1. row[t] \in Row
          BY DEF TypeOK
        <5>2. (row[t].proved \/ t = seen[r].sid) \in BOOLEAN
          OBVIOUS
        <5> QED BY <5>1, <5>2 DEF Row
      <4>2. row \in [Session -> Row]
        BY DEF TypeOK
      <4> QED BY <4>1, <4>2
    <3>4. EndOthers("enrol", r, verified)
      BY <3>1 DEF ConfirmTotp
    <3> HIDE DEF verified
    <3>5. live' \subseteq Session /\ row' \in [Session -> Row] /\ seen' \in [Request -> Snapshot]
      BY <3>3, <3>4, EndType, SeenType DEF EndOthers, TypeOK
    <3>6. lastStep' \in Int
      BY <3>1, <3>2 DEF ConfirmTotp, Code
    <3> QED BY <3>1, <3>2, <3>5, <3>6, ReplaceCodesType DEF ConfirmTotp, TypeOK
  <2>19. CASE \E c \in Authenticator : RegenerateByCode(r, c)
    <3>1. PICK c \in Authenticator : RegenerateByCode(r, c)
      BY <2>19
    <3>2. c \in Code
      BY CodesType
    <3>3. c.n \in Int
      BY <3>2 DEF Code
    <3> QED BY <3>1, <3>2, <3>3, SeenType, ReplaceCodesType DEF RegenerateByCode, TypeOK
  <2>20. CASE Regenerate(r)
    BY <2>20, SeenType, ReplaceCodesType DEF Regenerate, TypeOK
  <2>21. CASE RegisterOptions(r)
    BY <2>21, <2>1, SeenType, CeremonyType DEF RegisterOptions, TypeOK, Purpose
  <2>22. CASE FailRegister(r)
    <3>1. seen[r].sid \in Session /\ [row[seen[r].sid] EXCEPT !.answered = TRUE] \in Row
      BY <2>22, <2>1, EditType DEF FailRegister
    <3>2. row' = [row EXCEPT ![seen[r].sid] = [row[seen[r].sid] EXCEPT !.answered = TRUE]]
      BY <2>22, <3>1 DEF FailRegister, TypeOK, Row
    <3> QED BY <2>22, <3>1, <3>2, SeenType DEF FailRegister, TypeOK
  <2>23. CASE \E k \in Key : AddPasskey(r, k)
    <3>1. PICK k \in Key : AddPasskey(r, k)
      BY <2>23
    <3> DEFINE s == seen[r].sid
               e == [row[s] EXCEPT !.purpose = "none", !.answered = FALSE,
                                   !.verified = TRUE, !.proved = TRUE]
               proved == [row EXCEPT ![s].purpose = "none", ![s].answered = FALSE,
                                     ![s].verified = TRUE, ![s].proved = TRUE]
    <3>2. s \in Session
      BY <3>1, <2>1 DEF AddPasskey
    <3>3. e \in Row
      <4>1. row[s] \in Row
        BY <3>2 DEF TypeOK
      <4> QED BY <4>1 DEF Row, Purpose
    <3>4. proved = [row EXCEPT ![s] = e]
      BY <3>2 DEF TypeOK, Row
    <3>5. proved \in [Session -> Row]
      <4> HIDE DEF e, proved
      <4> QED BY <3>2, <3>3, <3>4 DEF TypeOK
    <3>6. /\ End(Others(s), proved) \/ (live' = live /\ row' = proved)
          /\ ReplaceCodes \/ UNCHANGED <<batch, recovery>>
          /\ Answered(r) \/ Die
      BY <3>1 DEF AddPasskey
    <3> HIDE DEF proved, s, e
    <3>7. /\ live' \subseteq Session /\ row' \in [Session -> Row]
          /\ seen' \in [Request -> Snapshot]
          /\ batch' \in Nat /\ recovery' \subseteq Code
      BY <3>5, <3>6, EndType, SeenType, ReplaceCodesType DEF TypeOK
    <3> QED BY <3>1, <3>7 DEF AddPasskey, TypeOK
  <2>24. CASE \E k \in Key : RemovePasskey(r, k)
    <3>1. PICK k \in Key : RemovePasskey(r, k)
      BY <2>24
    <3>2. live' \subseteq Session /\ row' \in [Session -> Row]
      BY <3>1, EndType DEF RemovePasskey, TypeOK
    <3> QED BY <3>1, <3>2, SeenType DEF RemovePasskey, Kept, TypeOK
  <2>25. CASE Logout(r)
    BY <2>25, SeenType, EndType DEF Logout, TypeOK
  <2>26. CASE RevokeOthers(r)
    BY <2>26, SeenType, EndType DEF RevokeOthers, TypeOK
  <2>27. CASE \E t \in Session : RevokeSession(r, t)
    BY <2>27, SeenType, EndType DEF RevokeSession, TypeOK
  <2> QED
    BY <1>1, <2>2, <2>3, <2>4, <2>5, <2>6, <2>7, <2>8, <2>9, <2>10, <2>11,
       <2>12, <2>13, <2>14, <2>15, <2>16, <2>17, <2>18, <2>19, <2>20, <2>21,
       <2>22, <2>23, <2>24, <2>25, <2>26, <2>27 DEF RequestNext
<1>2. CASE Authenticate
  <2>1. [on |-> TRUE, with |-> password, second |-> HasFactor]
          \in [on : BOOLEAN, with : Nat, second : BOOLEAN]
    BY DEF TypeOK, HasFactor
  <2> QED BY <1>2, <2>1 DEF Authenticate, TypeOK
<1>3. CASE CreateSession
  <2>1. NewRow(NeedsNoFactor, FALSE, signing.with, password) \in Row
    <3>1. NeedsNoFactor \in BOOLEAN /\ signing.with \in Nat
      BY DEF TypeOK, NeedsNoFactor
    <3> QED BY <3>1, NewRowType DEF TypeOK
  <2>2. live' \subseteq Session /\ row' \in [Session -> Row]
    <3>1. PICK s \in Unused :
            /\ live' = live \cup {s}
            /\ row' = [row EXCEPT ![s] = NewRow(NeedsNoFactor, FALSE, signing.with, password)]
      BY <1>3 DEF CreateSession
    <3>2. s \in Session /\ live \subseteq Session /\ row \in [Session -> Row]
      BY DEF Unused, TypeOK
    <3> QED BY <2>1, <3>1, <3>2
  <2>3. signing' \in [on : BOOLEAN, with : Nat, second : BOOLEAN]
    BY <1>3 DEF CreateSession, NotSigning
  <2> QED BY <1>3, <2>2, <2>3 DEF CreateSession, TypeOK
<1>4. CASE ResetPassword
  BY <1>4, EndType DEF ResetPassword, TypeOK
<1>5. CASE ResetFactors
  BY <1>5, EndType DEF ResetFactors, NoStep, TypeOK
<1>6. CASE CliUpdate
  BY <1>6 DEF CliUpdate, TypeOK
<1>7. CASE CliDelete
  BY <1>7, EndType DEF CliDelete, TypeOK
<1>8. CASE Tick
  BY <1>8 DEF Tick, TypeOK
<1>9. CASE LockExpires
  BY <1>9 DEF LockExpires, TypeOK
<1>10. CASE Crash
  BY <1>10, IdleType DEF Crash, Die, NotSigning, TypeOK
<1>11. CASE \E s \in Session : WindowCloses(s)
  <2>1. PICK s \in Session : WindowCloses(s)
    BY <1>11
  <2>2. row' = [row EXCEPT ![s] = [row[s] EXCEPT !.confirmed = FALSE]]
    BY <2>1 DEF WindowCloses, TypeOK, Row
  <2>3. [row[s] EXCEPT !.confirmed = FALSE] \in Row
    BY EditType
  <2> QED BY <2>1, <2>2, <2>3 DEF WindowCloses, TypeOK
<1>12. CASE \E s \in Session : Expire(s)
  BY <1>12, EndType DEF Expire, TypeOK
<1>13. CASE UNCHANGED vars
  BY <1>13 DEF vars, TypeOK
<1> QED
  BY <1>1, <1>2, <1>3, <1>4, <1>5, <1>6, <1>7, <1>8, <1>9, <1>10, <1>11,
     <1>12, <1>13 DEF Next

\* Every variable keeps its type.
THEOREM TypeCorrect == Spec => []TypeOK
<1> QED BY InitType, TypeStep, PTL DEF Spec

-----------------------------------------------------------------------------
(* Codes and factors *)

\* The steps that touch a factor, a recovery code or the codes accepted.
FactorStep(r) ==
  \/ \E c \in Typed : TypeCode(r, c) \/ ConfirmCode(r, c) \/ DisableTotp(r, c)
  \/ BeginTotp(r)
  \/ \E c \in Enrolling : ConfirmTotp(r, c)
  \/ \E c \in Authenticator : RegenerateByCode(r, c)
  \/ Regenerate(r)
  \/ \E k \in Key : AddPasskey(r, k) \/ RemovePasskey(r, k)

factors == <<totp, secret, lastStep, recovery, batch, keys, used>>

LEMMA QuietFactors ==
  [Next]_vars =>
    \/ UNCHANGED factors
    \/ ResetFactors
    \/ \E r \in Request : FactorStep(r)
<1> SUFFICES ASSUME [Next]_vars
             PROVE  UNCHANGED factors \/ ResetFactors \/ \E r \in Request : FactorStep(r)
  OBVIOUS
<1> USE DEF factors, account
<1>1. ASSUME NEW r \in Request, RequestNext(r) PROVE UNCHANGED factors \/ FactorStep(r)
  <2>1. \/ FactorStep(r)
        \/ \E s \in Session : Arrive(r, s)
        \/ \E t \in Session : RevokeSession(r, t)
        \/ Leave(r) \/ MissCode(r) \/ MissConfirm(r)
        \/ LoginOptions(r) \/ PasskeyLogin(r) \/ FailLogin(r)
        \/ ConfirmOptions(r) \/ ConfirmPasskey(r) \/ FailConfirm(r)
        \/ ConfirmPassword(r) \/ ChangePassword(r)
        \/ RegisterOptions(r) \/ FailRegister(r)
        \/ Logout(r) \/ RevokeOthers(r)
    BY <1>1 DEF RequestNext, FactorStep
  <2> QED BY <2>1 DEF Arrive, RevokeSession, Leave, MissCode, MissConfirm, LoginOptions,
             PasskeyLogin, FailLogin, ConfirmOptions, ConfirmPasskey, FailConfirm,
             ConfirmPassword, ChangePassword, RegisterOptions, FailRegister, Logout,
             RevokeOthers
<1>2. ASSUME ~\E r \in Request : RequestNext(r) PROVE UNCHANGED factors \/ ResetFactors
  BY <1>2 DEF Next, vars, Authenticate, CreateSession, ResetPassword, CliUpdate, CliDelete,
     Tick, LockExpires, Crash, WindowCloses, Expire
<1> QED BY <1>1, <1>2

\* Recovery codes never outlive the last factor they stand in for
\* (dropRecoveryCodesIfUnused, resetSecondFactors).
THEOREM RecoveryNeedsFactorHolds == Spec => []RecoveryNeedsFactor
<1> USE DEF RecoveryNeedsFactor, HasFactor
<1>1. Init => RecoveryNeedsFactor
  BY DEF Init
<1>2. RecoveryNeedsFactor /\ [Next]_vars => RecoveryNeedsFactor'
  <2> SUFFICES ASSUME RecoveryNeedsFactor, [Next]_vars PROVE RecoveryNeedsFactor'
    OBVIOUS
  <2>1. CASE UNCHANGED factors
    BY <2>1 DEF factors
  <2>2. CASE ResetFactors
    BY <2>2 DEF ResetFactors
  <2>3. ASSUME NEW r \in Request, FactorStep(r) PROVE RecoveryNeedsFactor'
    <3>1. CASE \E c \in Typed : TypeCode(r, c)
      BY <3>1 DEF TypeCode, Accept
    <3>2. CASE \E c \in Typed : ConfirmCode(r, c)
      BY <3>2 DEF ConfirmCode, Accept
    <3>3. CASE \E c \in Typed : DisableTotp(r, c)
      BY <3>3 DEF DisableTotp, Kept
    <3>4. CASE BeginTotp(r)
      BY <3>4 DEF BeginTotp
    <3>5. CASE \E c \in Enrolling : ConfirmTotp(r, c)
      BY <3>5 DEF ConfirmTotp
    <3>6. CASE \E c \in Authenticator : RegenerateByCode(r, c)
      BY <3>6 DEF RegenerateByCode, Authenticator
    <3>7. CASE Regenerate(r)
      BY <3>7 DEF Regenerate
    <3>8. CASE \E k \in Key : AddPasskey(r, k)
      BY <3>8 DEF AddPasskey
    <3>9. CASE \E k \in Key : RemovePasskey(r, k)
      BY <3>9 DEF RemovePasskey, Kept
    <3> QED BY <2>3, <3>1, <3>2, <3>3, <3>4, <3>5, <3>6, <3>7, <3>8, <3>9 DEF FactorStep
  <2> QED BY <2>1, <2>2, <2>3, QuietFactors
<1> QED BY <1>1, <1>2, PTL DEF Spec

\* The codes that could still be accepted are newer than those that were: a
\* recovery code is of the batch that is stored, an authenticator code of the
\* secret that is stored and past its last step.
ReplayInv ==
  /\ \A c \in recovery : c.kind = "recovery" /\ c.of = batch
  /\ \A c \in used : c.kind = "recovery" => c.of <= batch /\ c \notin recovery
  /\ \A c \in used : c.kind = "totp" =>
       /\ c.of <= secret
       /\ c.of = secret => totp # "pending" /\ (totp = "on" => c.n <= lastStep)

LEMMA ReplayStep == TypeOK /\ ReplayInv /\ [Next]_vars => ReplayInv'
<1> SUFFICES ASSUME TypeOK, ReplayInv, [Next]_vars PROVE ReplayInv'
  OBVIOUS
<1>1. /\ secret \in Nat /\ batch \in Nat /\ lastStep \in Int
      /\ recovery \subseteq Code /\ used \subseteq Code
      /\ \A c \in Code : c.kind \in {"totp", "recovery"} /\ c.of \in Nat /\ c.n \in Int
  BY DEF TypeOK, Code
<1>2. \A c \in Authenticator : c.kind = "totp" /\ c.of = secret /\ c.n > lastStep /\ totp = "on"
  BY DEF Authenticator, Totp
<1>3. \A c \in Enrolling : c.kind = "totp" /\ c.of = secret /\ totp = "pending"
  BY DEF Enrolling, Totp
<1>4. \A c \in FreshCodes : c.kind = "recovery" /\ c.of = batch + 1
  BY DEF FreshCodes
<1>5. Typed = Authenticator \cup recovery /\ Typed \subseteq Code
      /\ Authenticator \subseteq Code /\ Enrolling \subseteq Code /\ FreshCodes \subseteq Code
  BY CodesType DEF Typed
<1>6. CASE UNCHANGED factors
  BY <1>6 DEF factors, ReplayInv
<1>7. CASE ResetFactors
  BY <1>1, <1>7 DEF ResetFactors, ReplayInv
<1>8. ASSUME NEW r \in Request, FactorStep(r) PROVE ReplayInv'
  <2>1. ASSUME NEW c \in Typed, Accept(c), UNCHANGED <<totp, secret, batch>> PROVE ReplayInv'
    BY <1>1, <1>2, <1>5, <2>1 DEF Accept, ReplayInv
  <2>2. CASE \E c \in Typed : TypeCode(r, c)
    BY <2>1, <2>2 DEF TypeCode
  <2>3. CASE \E c \in Typed : ConfirmCode(r, c)
    BY <2>1, <2>3 DEF ConfirmCode
  <2>4. CASE \E c \in Typed : DisableTotp(r, c)
    <3>1. PICK c \in Typed : DisableTotp(r, c)
      BY <2>4
    <3>2. recovery' \subseteq recovery \ {c} /\ used' = used \cup {c} /\ totp' = "off"
          /\ UNCHANGED <<batch, secret>>
      BY <3>1 DEF DisableTotp, Kept
    <3> QED BY <1>1, <1>2, <1>5, <3>2 DEF ReplayInv
  <2>5. CASE BeginTotp(r)
    <3>1. totp' = "pending" /\ secret' = secret + 1 /\ UNCHANGED <<recovery, batch, used>>
      BY <2>5 DEF BeginTotp
    <3> QED BY <1>1, <3>1 DEF ReplayInv
  <2>6. CASE \E c \in Enrolling : ConfirmTotp(r, c)
    <3>1. PICK c \in Enrolling : ConfirmTotp(r, c)
      BY <2>6
    <3>2. /\ totp' = "on" /\ lastStep' = c.n /\ used' = used \cup {c}
          /\ recovery' = FreshCodes /\ batch' = batch + 1 /\ secret' = secret
      BY <3>1 DEF ConfirmTotp, ReplaceCodes
    <3> QED BY <1>1, <1>3, <1>4, <1>5, <3>2 DEF ReplayInv
  <2>7. CASE \E c \in Authenticator : RegenerateByCode(r, c)
    <3>1. PICK c \in Authenticator : RegenerateByCode(r, c)
      BY <2>7
    <3>2. /\ lastStep' = c.n /\ used' = used \cup {c}
          /\ recovery' = FreshCodes /\ batch' = batch + 1 /\ UNCHANGED <<totp, secret>>
      BY <3>1 DEF RegenerateByCode, ReplaceCodes
    <3> QED BY <1>1, <1>2, <1>4, <1>5, <3>2 DEF ReplayInv
  <2>8. ASSUME ReplaceCodes \/ UNCHANGED <<batch, recovery>>,
               UNCHANGED <<totp, secret, lastStep, used>>
        PROVE  ReplayInv'
    BY <1>1, <1>4, <1>5, <2>8 DEF ReplaceCodes, ReplayInv
  <2>9. CASE Regenerate(r)
    BY <2>8, <2>9 DEF Regenerate
  <2>10. CASE \E k \in Key : AddPasskey(r, k)
    BY <2>8, <2>10 DEF AddPasskey
  <2>11. CASE \E k \in Key : RemovePasskey(r, k)
    <3>1. recovery' \subseteq recovery /\ UNCHANGED <<totp, secret, lastStep, batch, used>>
      BY <2>11 DEF RemovePasskey, Kept
    <3> QED BY <3>1 DEF ReplayInv
  <2> QED BY <1>8, <2>2, <2>3, <2>4, <2>5, <2>6, <2>7, <2>9, <2>10, <2>11 DEF FactorStep
<1> QED BY <1>6, <1>7, <1>8, QuietFactors

\* A code works once: what the program accepted, at sign-in, to confirm, to
\* enrol, to regenerate or to disable, it does not accept again (the replay
\* guard of totp_last_step, reset with every new secret, and the deletion of
\* recovery codes).
THEOREM NoReplayHolds == Spec => []NoReplay
<1>1. Init => ReplayInv
  BY DEF Init, ReplayInv
<1>2. TypeOK /\ ReplayInv => NoReplay
  <2> SUFFICES ASSUME TypeOK, ReplayInv, NEW c \in used,
                      c \in Authenticator \cup Enrolling \cup recovery
               PROVE  FALSE
    BY DEF NoReplay
  <2>1. c \in Code /\ c.n \in Int /\ lastStep \in Int /\ c.kind \in {"totp", "recovery"}
    BY DEF TypeOK, Code
  <2>2. CASE c \in Authenticator
    BY <2>1, <2>2 DEF Authenticator, Totp, ReplayInv
  <2>3. CASE c \in Enrolling
    BY <2>3 DEF Enrolling, Totp, ReplayInv
  <2>4. CASE c \in recovery
    BY <2>4 DEF ReplayInv
  <2> QED BY <2>2, <2>3, <2>4
<1> QED BY <1>1, <1>2, InitType, TypeStep, ReplayStep, PTL DEF Spec

-----------------------------------------------------------------------------
(* Guesses *)

\* The stored counter never runs behind the wrong guesses there were.
MissesInv == misses <= failed /\ failed < LockAfter

LEMMA GuardSteps ==
  ASSUME [Next]_vars
  PROVE  \/ UNCHANGED <<failed, misses>>
         \/ CountMiss
         \/ failed' \in {0, failed} /\ misses' = 0
<1> USE DEF guard
<1>1. ASSUME NEW r \in Request, RequestNext(r)
      PROVE  \/ UNCHANGED <<failed, misses>>
             \/ CountMiss
             \/ failed' \in {0, failed} /\ misses' = 0
  <2>1. CASE \E c \in Typed : TypeCode(r, c) \/ ConfirmCode(r, c) \/ DisableTotp(r, c)
    BY <2>1 DEF TypeCode, Replace, ConfirmCode, DisableTotp
  <2>2. CASE MissCode(r) \/ MissConfirm(r)
    BY <2>2 DEF MissCode, MissConfirm
  <2>3. CASE PasskeyLogin(r)
    BY <2>3 DEF PasskeyLogin, Replace
  <2>4. CASE \/ \E s \in Session : Arrive(r, s)
             \/ \E t \in Session : RevokeSession(r, t)
             \/ \E c \in Enrolling : ConfirmTotp(r, c)
             \/ \E c \in Authenticator : RegenerateByCode(r, c)
             \/ \E k \in Key : AddPasskey(r, k) \/ RemovePasskey(r, k)
             \/ Leave(r) \/ LoginOptions(r) \/ FailLogin(r)
             \/ ConfirmOptions(r) \/ ConfirmPasskey(r) \/ FailConfirm(r)
             \/ ConfirmPassword(r) \/ ChangePassword(r) \/ BeginTotp(r) \/ Regenerate(r)
             \/ RegisterOptions(r) \/ FailRegister(r)
             \/ Logout(r) \/ RevokeOthers(r)
    BY <2>4 DEF Arrive, RevokeSession, ConfirmTotp, RegenerateByCode, AddPasskey,
       RemovePasskey, Leave, LoginOptions, FailLogin, ConfirmOptions, ConfirmPasskey,
       FailConfirm, ConfirmPassword, ChangePassword, BeginTotp, Regenerate,
       RegisterOptions, FailRegister, Logout, RevokeOthers
  <2> QED BY <1>1, <2>1, <2>2, <2>3, <2>4 DEF RequestNext
<1>2. ASSUME ~\E r \in Request : RequestNext(r)
      PROVE  UNCHANGED <<failed, misses>> \/ (failed' = 0 /\ misses' = 0)
  BY <1>2 DEF Next, vars, Authenticate, CreateSession, ResetPassword, ResetFactors,
     CliUpdate, CliDelete, Tick, LockExpires, Crash, WindowCloses, Expire
<1> QED BY <1>1, <1>2

\* At most LockAfter - 1 wrong codes in a row go by before the account is
\* locked, whichever sessions and forms they come through (recordTotpFailure).
THEOREM MissesLockHolds == Spec => []MissesLock
<1> USE SignInAssumption
<1>1. Init => MissesInv
  BY DEF Init, MissesInv
<1>2. TypeOK /\ MissesInv /\ [Next]_vars => MissesInv'
  <2> SUFFICES ASSUME TypeOK, MissesInv, [Next]_vars PROVE MissesInv'
    OBVIOUS
  <2>1. failed \in Nat /\ misses \in Nat
    BY DEF TypeOK
  <2>2. CASE UNCHANGED <<failed, misses>>
    BY <2>2 DEF MissesInv
  <2>3. CASE CountMiss
    BY <2>1, <2>3 DEF CountMiss, FailLast, MissesInv
  <2>4. CASE failed' \in {0, failed} /\ misses' = 0
    BY <2>1, <2>4 DEF MissesInv
  <2> QED BY <2>2, <2>3, <2>4, GuardSteps
<1>3. TypeOK /\ MissesInv => MissesLock
  BY DEF TypeOK, MissesInv, MissesLock
<1> QED BY <1>1, <1>2, <1>3, InitType, TypeStep, PTL DEF Spec

-----------------------------------------------------------------------------
(* Sessions and factors *)

\* Rows that are as complete and as proved as the stored ones.
SameProof(changed) ==
  \A s \in live : changed[s].verified = row[s].verified /\ changed[s].proved = row[s].proved

\* A step that neither adds nor completes a session, changes no factor, and
\* takes no snapshot.
Calm ==
  /\ HasFactor' <=> HasFactor
  /\ live' \subseteq live
  /\ \A s \in live' : row'[s].verified = row[s].verified /\ row'[s].proved = row[s].proved
  /\ \A r \in Request : seen'[r] \in {seen[r], Idle}
  /\ signing' \in {signing, NotSigning}

\* The steps that are not calm.
LoudForm(r) ==
  \/ \E s \in Session : Arrive(r, s)
  \/ \E c \in Typed : TypeCode(r, c) \/ DisableTotp(r, c)
  \/ PasskeyLogin(r)
  \/ \E c \in Enrolling : ConfirmTotp(r, c)
  \/ \E k \in Key : AddPasskey(r, k) \/ RemovePasskey(r, k)

LEMMA EndCalm ==
  ASSUME TypeOK, NEW gone, NEW changed, End(gone, changed), SameProof(changed)
  PROVE  /\ live' \subseteq live
         /\ \A s \in live' : row'[s].verified = row[s].verified /\ row'[s].proved = row[s].proved
  BY DEF TypeOK, End, SameProof

LEMMA SameCalm ==
  ASSUME TypeOK, NEW changed, live' = live, row' = changed, SameProof(changed)
  PROVE  /\ live' \subseteq live
         /\ \A s \in live' : row'[s].verified = row[s].verified /\ row'[s].proved = row[s].proved
  BY DEF SameProof

LEMMA SameEdit ==
  ASSUME TypeOK
  PROVE  /\ SameProof(row)
         /\ \A s \in Session : \A p \in Purpose :
              SameProof(Written(s, [row[s] EXCEPT !.purpose = p, !.answered = FALSE]))
         /\ \A s \in Session : SameProof(Taken(s))
         /\ \A s \in Session : SameProof(Written(s, [row[s] EXCEPT !.confirmed = TRUE]))
         /\ \A s \in Session, n \in Nat : SameProof(Written(s, [row[s] EXCEPT !.signed = n, !.born = n]))
<1>1. row \in [Session -> Row] /\ live \subseteq Session
  BY DEF TypeOK
<1>2. ASSUME NEW s \in Session, NEW e, e.verified = row[s].verified, e.proved = row[s].proved
      PROVE  SameProof(Written(s, e))
  BY <1>1, <1>2 DEF SameProof, Written
<1>3. SameProof(row)
  BY DEF SameProof
<1>4. ASSUME NEW s \in Session, NEW p \in Purpose
      PROVE  SameProof(Written(s, [row[s] EXCEPT !.purpose = p, !.answered = FALSE]))
  <2> DEFINE e == [row[s] EXCEPT !.purpose = p, !.answered = FALSE]
  <2>1. e.verified = row[s].verified /\ e.proved = row[s].proved
    BY <1>1 DEF Row
  <2> HIDE DEF e
  <2>2. SameProof(Written(s, e))
    BY <1>2, <2>1
  <2> QED BY <2>2 DEF e
<1>5. ASSUME NEW s \in Session PROVE SameProof(Taken(s))
  <2> DEFINE e == [row[s] EXCEPT !.purpose = "none", !.answered = FALSE]
  <2>1. e.verified = row[s].verified /\ e.proved = row[s].proved
    BY <1>1 DEF Row
  <2> HIDE DEF e
  <2>2. SameProof(Written(s, e))
    BY <1>2, <2>1
  <2> QED BY <2>2 DEF e, Taken
<1>6. ASSUME NEW s \in Session
      PROVE  SameProof(Written(s, [row[s] EXCEPT !.confirmed = TRUE]))
  <2> DEFINE e == [row[s] EXCEPT !.confirmed = TRUE]
  <2>1. e.verified = row[s].verified /\ e.proved = row[s].proved
    BY <1>1 DEF Row
  <2> HIDE DEF e
  <2>2. SameProof(Written(s, e))
    BY <1>2, <2>1
  <2> QED BY <2>2 DEF e
<1>7. ASSUME NEW s \in Session, NEW n \in Nat
      PROVE  SameProof(Written(s, [row[s] EXCEPT !.signed = n, !.born = n]))
  <2> DEFINE e == [row[s] EXCEPT !.signed = n, !.born = n]
  <2>1. e.verified = row[s].verified /\ e.proved = row[s].proved
    BY <1>1 DEF Row
  <2> HIDE DEF e
  <2>2. SameProof(Written(s, e))
    BY <1>2, <2>1
  <2> QED BY <2>2 DEF e
<1> QED BY <1>3, <1>4, <1>5, <1>6, <1>7

LEMMA QuietSessions ==
  ASSUME TypeOK, [Next]_vars
  PROVE  \/ Calm
         \/ \E r \in Request : LoudForm(r)
         \/ Authenticate \/ CreateSession \/ ResetFactors
<1> USE DEF account, guard, sessions, process
<1>1. row \in [Session -> Row] /\ live \subseteq Session /\ SameProof(row)
  BY SameEdit DEF TypeOK
<1>2. ASSUME NEW r \in Request, RequestNext(r) PROVE Calm \/ LoudForm(r)
  <2> USE DEF AnySession, SignedIn, PendingOnly, Confirmed
  <2>1. seen[r].sid # None => seen[r].sid \in Session
    BY DEF TypeOK, Snapshot
  <2>2. Answered(r) \/ Die => \A q \in Request : seen'[q] \in {seen[q], Idle}
    BY DEF TypeOK, Answered, Die
  <2>3. ASSUME \E gone : End(gone, row), HasFactor' <=> HasFactor, UNCHANGED signing,
               \A q \in Request : seen'[q] \in {seen[q], Idle}
        PROVE  Calm
    <3>1. PICK gone : End(gone, row)
      BY <2>3
    <3> QED BY <1>1, <2>3, <3>1, EndCalm DEF Calm
  <2>4. ASSUME NEW changed, SameProof(changed), live' = live, row' = changed,
               UNCHANGED <<totp, keys, signing>>,
               \A q \in Request : seen'[q] \in {seen[q], Idle}
        PROVE  Calm
    BY <2>4, SameCalm DEF Calm, HasFactor
  <2>5. CASE Leave(r)
    BY <1>1, <2>2, <2>4, <2>5 DEF Leave
  <2>6. CASE \E c \in Typed : ConfirmCode(r, c)
    BY <2>1, <2>2, <2>4, <2>6, SameEdit DEF ConfirmCode, MarkConfirmed
  <2>7. CASE MissCode(r)
    <3>1. CASE \E gone : End(gone, row)
      BY <2>2, <2>3, <2>7, <3>1 DEF MissCode, HasFactor
    <3>2. CASE row' = [row EXCEPT ![seen[r].sid].attempts = @ + 1] /\ UNCHANGED live
      <4>1. SameProof([row EXCEPT ![seen[r].sid].attempts = @ + 1])
        BY <1>1, <2>1, <2>7 DEF MissCode, SameProof, Row
      <4> QED BY <2>2, <2>4, <2>7, <3>2, <4>1 DEF MissCode
    <3> QED BY <2>7, <3>1, <3>2 DEF MissCode
  <2>8. CASE MissConfirm(r)
    <3>1. CASE \E gone : End(gone, row)
      BY <2>2, <2>3, <2>8, <3>1 DEF MissConfirm, HasFactor
    <3>2. CASE UNCHANGED sessions
      BY <1>1, <2>2, <2>4, <2>8, <3>2 DEF MissConfirm
    <3> QED BY <2>8, <3>1, <3>2 DEF MissConfirm
  <2>9. CASE LoginOptions(r)
    <3>1. row' = Written(seen[r].sid, [row[seen[r].sid] EXCEPT !.purpose = "login", !.answered = FALSE])
      BY <2>9 DEF LoginOptions, BeginCeremony
    <3>2. SameProof(row')
      BY <2>1, <2>9, <3>1, SameEdit DEF LoginOptions, Purpose
    <3> QED BY <2>2, <2>4, <2>9, <3>2 DEF LoginOptions
  <2>10. CASE FailLogin(r)
    BY <2>1, <2>2, <2>4, <2>10, SameEdit DEF FailLogin
  <2>11. CASE ConfirmOptions(r)
    <3>1. row' = Written(seen[r].sid, [row[seen[r].sid] EXCEPT !.purpose = "confirm", !.answered = FALSE])
      BY <2>11 DEF ConfirmOptions, BeginCeremony
    <3>2. SameProof(row')
      BY <2>1, <2>11, <3>1, SameEdit DEF ConfirmOptions, Purpose
    <3> QED BY <2>2, <2>4, <2>11, <3>2 DEF ConfirmOptions
  <2>12. CASE ConfirmPasskey(r)
    <3>1. SameProof(row')
      BY <1>1, <2>1, <2>12 DEF ConfirmPasskey, SameProof, Row
    <3> QED BY <2>2, <2>4, <2>12, <3>1 DEF ConfirmPasskey
  <2>13. CASE FailConfirm(r)
    BY <2>1, <2>2, <2>4, <2>13, SameEdit DEF FailConfirm
  <2>14. CASE ConfirmPassword(r)
    BY <2>1, <2>2, <2>4, <2>14, SameEdit DEF ConfirmPassword, MarkConfirmed
  <2>15. CASE ChangePassword(r)
    <3> DEFINE changed == Written(seen[r].sid, [row[seen[r].sid] EXCEPT !.signed = password + 1, !.born = password + 1])
    <3>1. SameProof(changed)
      <4>1. password + 1 \in Nat
        BY DEF TypeOK
      <4> QED BY <2>1, <2>15, <4>1, SameEdit DEF ChangePassword
    <3>2. EndOthers("password", r, changed)
      BY <2>15 DEF ChangePassword
    <3> HIDE DEF changed
    <3>3. /\ live' \subseteq live
          /\ \A s \in live' : row'[s].verified = row[s].verified /\ row'[s].proved = row[s].proved
          /\ \A q \in Request : seen'[q] \in {seen[q], Idle}
      BY <2>2, <3>1, <3>2, EndCalm, SameCalm DEF EndOthers
    <3> QED BY <2>15, <3>3 DEF ChangePassword, Calm, HasFactor
  <2>16. CASE BeginTotp(r)
    <3>1. HasFactor' <=> HasFactor
      BY <2>16 DEF BeginTotp, HasFactor
    <3>2. live' = live /\ row' = row /\ signing' = signing
          /\ \A q \in Request : seen'[q] \in {seen[q], Idle}
      BY <2>2, <2>16 DEF BeginTotp
    <3> QED BY <3>1, <3>2 DEF Calm
  <2>17. CASE \E c \in Authenticator : RegenerateByCode(r, c)
    BY <1>1, <2>2, <2>4, <2>17 DEF RegenerateByCode
  <2>18. CASE Regenerate(r)
    BY <1>1, <2>2, <2>4, <2>18 DEF Regenerate
  <2>19. CASE RegisterOptions(r)
    <3>1. row' = Written(seen[r].sid, [row[seen[r].sid] EXCEPT !.purpose = "register", !.answered = FALSE])
      BY <2>19 DEF RegisterOptions, BeginCeremony
    <3>2. SameProof(row')
      BY <2>1, <2>19, <3>1, SameEdit DEF RegisterOptions, Purpose
    <3> QED BY <2>2, <2>4, <2>19, <3>2 DEF RegisterOptions
  <2>20. CASE FailRegister(r)
    <3>1. SameProof(row')
      BY <1>1, <2>1, <2>20 DEF FailRegister, SameProof, Row
    <3> QED BY <2>2, <2>4, <2>20, <3>1 DEF FailRegister
  <2>21. CASE Logout(r)
    BY <2>2, <2>3, <2>21 DEF Logout, HasFactor
  <2>22. CASE RevokeOthers(r)
    BY <2>2, <2>3, <2>22 DEF RevokeOthers, HasFactor
  <2>23. CASE \E t \in Session : RevokeSession(r, t)
    BY <2>2, <2>3, <2>23 DEF RevokeSession, HasFactor
  <2> QED BY <1>2, <2>5, <2>6, <2>7, <2>8, <2>9, <2>10, <2>11, <2>12, <2>13, <2>14, <2>15,
             <2>16, <2>17, <2>18, <2>19, <2>20, <2>21, <2>22, <2>23 DEF RequestNext, LoudForm
<1>3. CASE ResetPassword
  BY <1>1, <1>3, EndCalm DEF ResetPassword, Calm, HasFactor
<1>4. CASE CliUpdate
  BY <1>4 DEF CliUpdate, Calm, HasFactor
<1>5. CASE CliDelete
  BY <1>1, <1>5, EndCalm DEF CliDelete, Calm, HasFactor
<1>6. CASE Tick \/ LockExpires \/ UNCHANGED vars
  BY <1>6 DEF Tick, LockExpires, vars, Calm, HasFactor
<1>7. CASE Crash
  BY <1>7 DEF Crash, Die, Calm, HasFactor
<1>8. CASE \E s \in Session : WindowCloses(s)
  <2>1. live' = live /\ SameProof(row')
    BY <1>1, <1>8 DEF WindowCloses, SameProof, Row
  <2> QED BY <1>8, <2>1, SameCalm DEF WindowCloses, Calm, HasFactor
<1>9. CASE \E s \in Session : Expire(s)
  BY <1>1, <1>9, EndCalm DEF Expire, Calm, HasFactor
<1> QED BY <1>2, <1>3, <1>4, <1>5, <1>6, <1>7, <1>8, <1>9 DEF Next

\* What every session, every sign-in and every snapshot knows of the factors.
SessionInv ==
  /\ CompleteIsProved
  /\ signing.on /\ HasFactor => signing.second
  /\ \A r \in Request :
       seen[r].complete /\ HasFactor /\ seen[r].sid \in live => row[seen[r].sid].verified

Upgrade ==
  \A s \in live \cap live' : ~Complete(s) /\ Complete(s)' => row'[s].proved

\* The handlers that add a factor run to their end.
NoCrash == CrashIn \cap {"enrol", "passkey"} = {}

LEMMA CalmStep ==
  ASSUME TypeOK, SessionInv, Calm
  PROVE  SessionInv' /\ Upgrade
<1>1. CompleteIsProved'
  BY DEF SessionInv, CompleteIsProved, Calm
<1>2. (signing.on /\ HasFactor => signing.second)'
  BY DEF SessionInv, Calm, NotSigning
<1>3. ASSUME NEW r \in Request, seen'[r].complete, HasFactor', seen'[r].sid \in live'
      PROVE  row'[seen'[r].sid].verified
  <2>1. seen'[r] = seen[r]
    BY <1>3 DEF Calm, Idle
  <2> QED BY <1>3, <2>1 DEF Calm, SessionInv
<1>4. Upgrade
  BY DEF Calm, Upgrade, Complete
<1> QED BY <1>1, <1>2, <1>3, <1>4 DEF SessionInv

\* A complete session of a factor just proved replaces a pending one.
LEMMA ReplaceStep ==
  ASSUME TypeOK, SessionInv, NEW s \in live, NEW t \in Session, Replace(s, t),
         UNCHANGED <<totp, keys, signing>>,
         \A r \in Request : seen'[r] \in {seen[r], Idle}
  PROVE  SessionInv' /\ Upgrade
<1>1. /\ t \notin live /\ live' = (live \ {s}) \cup {t} /\ (HasFactor' <=> HasFactor)
      /\ row'[t].proved
      /\ \A u \in live \ {s} : u \in Session /\ row'[u] = row[u]
  BY DEF TypeOK, Replace, Unused, NewRow, HasFactor
<1>2. CompleteIsProved'
  BY <1>1 DEF SessionInv, CompleteIsProved
<1>3. ASSUME NEW r \in Request, seen'[r].complete, HasFactor', seen'[r].sid \in live'
      PROVE  row'[seen'[r].sid].verified
  <2>1. seen'[r] = seen[r]
    BY <1>3 DEF Idle
  <2>2. seen[r].sid # t
    BY DEF Replace, Unused
  <2>3. seen[r].sid \in live \ {s}
    BY <1>1, <1>3, <2>1, <2>2
  <2> QED BY <1>1, <1>3, <2>1, <2>3 DEF SessionInv
<1>4. Upgrade
  BY <1>1 DEF Upgrade, Complete
<1> QED BY <1>1, <1>2, <1>3, <1>4 DEF SessionInv

\* All sessions end but perhaps one, which is proved if it is complete.
LEMMA OthersStep ==
  ASSUME TypeOK, SessionInv, NEW s,
         live' \subseteq live \cap {s},
         s \in live' /\ HasFactor' => row'[s].verified /\ row'[s].proved,
         s \in live' /\ ~Complete(s) => row'[s].proved,
         signing.on /\ HasFactor' => HasFactor, UNCHANGED signing,
         \A r \in Request : seen'[r] \in {seen[r], Idle}
  PROVE  SessionInv' /\ Upgrade
<1>1. CompleteIsProved'
  BY DEF CompleteIsProved
<1>2. (signing.on /\ HasFactor => signing.second)'
  BY DEF SessionInv
<1>3. ASSUME NEW r \in Request, seen'[r].complete, HasFactor', seen'[r].sid \in live'
      PROVE  row'[seen'[r].sid].verified
  BY <1>3
<1>4. Upgrade
  BY DEF Upgrade
<1> QED BY <1>1, <1>2, <1>3, <1>4 DEF SessionInv

LEMMA SessionStep ==
  ASSUME TypeOK, SessionInv, NoCrash, [Next]_vars
  PROVE  SessionInv' /\ Upgrade
<1> USE DEF account, guard, sessions, process
<1>1. row \in [Session -> Row] /\ live \subseteq Session
  BY DEF TypeOK
<1>2. CASE Calm
  BY <1>2, CalmStep
<1>3. ASSUME NEW r \in Request, LoudForm(r) PROVE SessionInv' /\ Upgrade
  <2> USE DEF AnySession, SignedIn, PendingOnly, Confirmed, Serving
  <2>1. seen[r].sid # None => seen[r].sid \in Session
    BY DEF TypeOK, Snapshot
  <2>2. Answered(r) => \A q \in Request : seen'[q] \in {seen[q], Idle}
    BY DEF TypeOK, Answered
  <2>3. SessionInv => (seen[r].complete /\ HasFactor /\ seen[r].sid \in live
                         => row[seen[r].sid].verified)
    BY DEF SessionInv
  <2>4. CASE \E s \in Session : Arrive(r, s)
    <3>1. PICK s \in Session : Arrive(r, s)
      BY <2>4
    <3>2. UNCHANGED <<live, row, totp, keys, signing>>
      BY <3>1 DEF Arrive
    <3>3. \A q \in Request : seen'[q] = seen[q] \/ (seen'[q].sid = s /\ seen'[q].complete = Complete(s))
      BY <3>1 DEF Arrive, TypeOK
    <3>4. (HasFactor' <=> HasFactor) /\ (Complete(s) /\ HasFactor => row[s].verified)
      BY <3>2 DEF HasFactor, Complete
    <3>5. ASSUME NEW q \in Request, seen'[q].complete, HasFactor', seen'[q].sid \in live'
          PROVE  row'[seen'[q].sid].verified
      BY <3>2, <3>3, <3>4, <3>5 DEF SessionInv
    <3>6. CompleteIsProved' /\ (signing.on /\ HasFactor => signing.second)'
      BY <3>2, <3>4 DEF SessionInv, CompleteIsProved
    <3>7. Upgrade
      BY <3>2, <3>4 DEF Upgrade, Complete
    <3> QED BY <3>5, <3>6, <3>7 DEF SessionInv
  <2>5. CASE \E c \in Typed : TypeCode(r, c)
    BY <2>2, <2>5, ReplaceStep DEF TypeCode
  <2>6. CASE PasskeyLogin(r)
    BY <2>2, <2>6, ReplaceStep DEF PasskeyLogin, Pends
  <2>7. CASE \E c \in Typed : DisableTotp(r, c)
    <3> DEFINE s == seen[r].sid
    <3>1. /\ live' \subseteq live \cap {s} /\ UNCHANGED <<keys, signing>> /\ totp = "on"
          /\ ~signing.on /\ Answered(r) /\ seen[r].complete /\ s \in Session
          /\ (s \in live' => row'[s] = row[s])
      BY <1>1, <2>1, <2>7 DEF DisableTotp, End, Others
    <3>2. s \in live => row[s].verified /\ row[s].proved /\ Complete(s)
      BY <2>3, <3>1 DEF SessionInv, CompleteIsProved, Complete, HasFactor
    <3> QED BY <2>2, <3>1, <3>2, OthersStep
  <2>8. CASE \E k \in Key : RemovePasskey(r, k)
    <3> DEFINE s == seen[r].sid
    <3>1. /\ live' \subseteq live \cap {s} /\ UNCHANGED <<totp, signing>> /\ keys # {}
          /\ ~signing.on /\ Answered(r) /\ seen[r].complete /\ s \in Session
          /\ (s \in live' => row'[s] = row[s])
      BY <1>1, <2>1, <2>8 DEF RemovePasskey, End, Others
    <3>2. s \in live => row[s].verified /\ row[s].proved /\ Complete(s)
      BY <2>3, <3>1 DEF SessionInv, CompleteIsProved, Complete, HasFactor
    <3> QED BY <2>2, <3>1, <3>2, OthersStep
  <2>9. CASE \E c \in Enrolling : ConfirmTotp(r, c)
    <3> DEFINE s == seen[r].sid
               verified == [t \in Session |->
                     IF t \in live THEN [row[t] EXCEPT !.verified = TRUE,
                                                       !.proved = @ \/ t = s]
                                   ELSE row[t]]
    <3>1. /\ End(Others(s), verified) /\ Answered(r)
          /\ ~signing.on /\ signing' = signing /\ s \in Session
      BY <2>1, <2>9 DEF ConfirmTotp, EndOthers, NoCrash
    <3>2. s \in live => verified[s].verified /\ verified[s].proved
      BY <1>1, <3>1 DEF Row
    <3> HIDE DEF verified
    <3>3. live' \subseteq live \cap {s} /\ (s \in live' => row'[s] = verified[s])
      BY <1>1, <3>1 DEF End, Others
    <3> QED BY <2>2, <3>1, <3>2, <3>3, OthersStep
  <2>10. CASE \E k \in Key : AddPasskey(r, k)
    <3> DEFINE s == seen[r].sid
               proved == [row EXCEPT ![s].purpose = "none", ![s].answered = FALSE,
                                     ![s].verified = TRUE, ![s].proved = TRUE]
    <3>1. /\ End(Others(s), proved) /\ Answered(r)
          /\ ~signing.on /\ signing' = signing /\ s \in Session
      BY <2>1, <2>10 DEF AddPasskey, NoCrash
    <3>2. proved[s].verified /\ proved[s].proved
      BY <1>1, <3>1 DEF Row
    <3> HIDE DEF proved
    <3>3. live' \subseteq live \cap {s} /\ (s \in live' => row'[s] = proved[s])
      BY <1>1, <3>1 DEF End, Others
    <3> QED BY <2>2, <3>1, <3>2, <3>3, OthersStep
  <2> QED BY <1>3, <2>4, <2>5, <2>6, <2>7, <2>8, <2>9, <2>10 DEF LoudForm
<1>4. CASE Authenticate
  <2>1. UNCHANGED <<live, row, totp, keys, seen>> /\ signing'.second = HasFactor
    BY <1>4 DEF Authenticate
  <2>2. HasFactor' <=> HasFactor
    BY <2>1 DEF HasFactor
  <2> QED BY <2>1, <2>2 DEF SessionInv, CompleteIsProved, Upgrade, Complete
<1>5. CASE CreateSession
  <2>1. PICK s \in Unused : /\ live' = live \cup {s}
                            /\ row' = [row EXCEPT ![s] = NewRow(NeedsNoFactor, FALSE, signing.with, password)]
    BY <1>5 DEF CreateSession
  <2>2. /\ UNCHANGED <<totp, keys, seen>> /\ ~signing'.on /\ signing.on
        /\ s \in Session /\ s \notin live
        /\ \A u \in live : row'[u] = row[u] /\ u \in Session
        /\ row'[s].verified = ~signing.second
    BY <1>1, <1>5, <2>1 DEF CreateSession, NotSigning, Unused, NewRow, NeedsNoFactor
  <2>3. HasFactor' <=> HasFactor
    BY <2>2 DEF HasFactor
  <2>4. CompleteIsProved'
    BY <2>1, <2>2, <2>3 DEF SessionInv, CompleteIsProved
  <2>5. ASSUME NEW r \in Request, seen'[r].complete, HasFactor', seen'[r].sid \in live'
        PROVE  row'[seen'[r].sid].verified
    BY <2>1, <2>2, <2>3, <2>5 DEF SessionInv, Unused
  <2>6. Upgrade
    BY <2>2, <2>3 DEF Upgrade, Complete
  <2> QED BY <2>2, <2>4, <2>5, <2>6 DEF SessionInv
<1>6. CASE ResetFactors
  <2>1. live' = {} /\ ~HasFactor'
    BY <1>6 DEF ResetFactors, End, HasFactor
  <2> QED BY <2>1 DEF SessionInv, CompleteIsProved, Upgrade
<1> QED BY <1>2, <1>3, <1>4, <1>5, <1>6, QuietSessions

LEMMA SessionInvHolds ==
  ASSUME NoCrash
  PROVE  Spec => [](TypeOK /\ SessionInv)
<1>1. Init => SessionInv
  BY DEF Init, SessionInv, CompleteIsProved, HasFactor, NotSigning
<1>2. TypeOK /\ SessionInv /\ [Next]_vars => SessionInv'
  BY SessionStep
<1> QED BY <1>1, <1>2, InitType, TypeStep, PTL DEF Spec

\* With a second factor on the account, no session is complete that did not
\* prove one, provided the process does not die inside the handlers that add
\* one (completeSecondFactor, confirmTotpEnrolment and registerPasskey, each
\* followed by destroyOtherSessions).
THEOREM CompleteIsProvedHolds ==
  ASSUME NoCrash
  PROVE  Spec => []CompleteIsProved
<1>1. SessionInv => CompleteIsProved
  BY DEF SessionInv
<1> QED BY <1>1, SessionInvHolds, PTL

\* A pending session does not become complete without a factor: when the last
\* one goes away, the sessions that were still pending go with it.
THEOREM NoFreeUpgradeHolds ==
  ASSUME NoCrash
  PROVE  Spec => NoFreeUpgrade
<1>1. TypeOK /\ SessionInv /\ [Next]_vars => [Upgrade]_vars
  BY SessionStep
<1>2. [](TypeOK /\ SessionInv) /\ [][Next]_vars => [][Upgrade]_vars
  BY <1>1, PTL
<1>3. [][Upgrade]_vars => NoFreeUpgrade
  BY PTL DEF NoFreeUpgrade, Upgrade
<1> QED BY <1>2, <1>3, SessionInvHolds, PTL DEF Spec


-----------------------------------------------------------------------------
(* Challenges and passwords of the sessions *)

\* What a handler may make of a stored row: its password stays, and so does its
\* challenge unless that is replaced, taken, or one for registering a passkey.
EditOf(new, old) ==
  /\ new.born = old.born
  /\ \/ new.purpose = old.purpose /\ new.answered = old.answered
     \/ new.purpose \notin {"login", "confirm"}
     \/ new.answered = FALSE

Edited(changed) == \A s \in live : EditOf(changed[s], row[s])

\* A session after a step: an edited row, or the row that took a pending one's place.
Fate(s) ==
  \/ s \in live /\ EditOf(row'[s], row[s])
  \/ row'[s].purpose = "none" /\ \E u \in live : row'[s].born = row[u].born

LEMMA EndFate ==
  ASSUME TypeOK, NEW gone, NEW changed, End(gone, changed), Edited(changed)
  PROVE  \A s \in live' : Fate(s)
  BY DEF TypeOK, End, Edited, Fate

LEMMA StayFate ==
  ASSUME TypeOK, NEW changed, live' = live, row' = changed, Edited(changed)
  PROVE  \A s \in live' : Fate(s)
  BY DEF Edited, Fate

LEMMA ReplaceFate ==
  ASSUME TypeOK, NEW s \in live, NEW t \in Session, Replace(s, t)
  PROVE  \A u \in live' : Fate(u)
<1>1. ASSUME NEW u \in live \ {s} PROVE row'[u] = row[u] \/ u = t
  BY <1>1 DEF TypeOK, Replace
<1>2. row'[t].purpose = "none" /\ row'[t].born = row[s].born
  BY DEF Replace, NewRow
<1>3. live' = (live \ {s}) \cup {t}
  BY DEF Replace
<1>4. QED BY <1>1, <1>2, <1>3 DEF Fate, EditOf

\* The edits of the handlers, but for the change of the password.
LEMMA Edits ==
  ASSUME TypeOK
  PROVE  /\ Edited(row)
         /\ \A s \in Session : \A p \in Purpose :
              Edited(Written(s, [row[s] EXCEPT !.purpose = p, !.answered = FALSE]))
         /\ \A s \in Session : Edited(Taken(s))
         /\ \A s \in Session : Edited(Written(s, [row[s] EXCEPT !.confirmed = TRUE]))
<1>1. row \in [Session -> Row] /\ live \subseteq Session
  BY DEF TypeOK
<1>2. Edited(row)
  BY DEF Edited, EditOf
<1>3. ASSUME NEW s \in Session, NEW e, EditOf(e, row[s]) PROVE Edited(Written(s, e))
  BY <1>1, <1>3 DEF Edited, EditOf, Written
<1>4. ASSUME NEW s \in Session, NEW p \in Purpose
      PROVE  Edited(Written(s, [row[s] EXCEPT !.purpose = p, !.answered = FALSE]))
  <2> DEFINE e == [row[s] EXCEPT !.purpose = p, !.answered = FALSE]
  <2>1. EditOf(e, row[s])
    BY <1>1 DEF Row, EditOf
  <2> HIDE DEF e
  <2>2. Edited(Written(s, e))
    BY <1>3, <2>1
  <2> QED BY <2>2 DEF e
<1>5. ASSUME NEW s \in Session PROVE Edited(Taken(s))
  <2> DEFINE e == [row[s] EXCEPT !.purpose = "none", !.answered = FALSE]
  <2>1. EditOf(e, row[s])
    BY <1>1 DEF Row, EditOf
  <2> HIDE DEF e
  <2>2. Edited(Written(s, e))
    BY <1>3, <2>1
  <2> QED BY <2>2 DEF e, Taken
<1>6. ASSUME NEW s \in Session
      PROVE  Edited(Written(s, [row[s] EXCEPT !.confirmed = TRUE]))
  <2> DEFINE e == [row[s] EXCEPT !.confirmed = TRUE]
  <2>1. EditOf(e, row[s])
    BY <1>1 DEF Row, EditOf
  <2> HIDE DEF e
  <2>2. Edited(Written(s, e))
    BY <1>3, <2>1
  <2> QED BY <2>2 DEF e
<1> QED BY <1>2, <1>4, <1>5, <1>6

\* Whose row is written anew: a sign-in's, and that of who changes the password.
LEMMA Fates ==
  ASSUME TypeOK, [Next]_vars
  PROVE  \/ \A s \in live' : Fate(s)
         \/ CreateSession
         \/ \E r \in Request : ChangePassword(r)
<1> USE DEF account, guard, sessions, process
<1>1. row \in [Session -> Row] /\ live \subseteq Session /\ Edited(row)
  BY Edits DEF TypeOK
<1>2. ASSUME NEW r \in Request, RequestNext(r), ~ChangePassword(r)
      PROVE  \A s \in live' : Fate(s)
  <2> USE DEF AnySession, SignedIn, PendingOnly, Confirmed
  <2>1. seen[r].sid # None => seen[r].sid \in Session
    BY DEF TypeOK, Snapshot
  <2>2. ASSUME NEW gone, End(gone, row) PROVE \A s \in live' : Fate(s)
    BY <1>1, <2>2, EndFate
  <2>3. ASSUME live' = live, Edited(row') PROVE \A s \in live' : Fate(s)
    BY <2>3, StayFate
  <2>4. CASE (\E s \in Session : Arrive(r, s)) \/ Leave(r) \/ BeginTotp(r)
             \/ (\E c \in Authenticator : RegenerateByCode(r, c)) \/ Regenerate(r)
    <3>1. live' = live /\ row' = row
      BY <2>4 DEF Arrive, Leave, BeginTotp, RegenerateByCode, Regenerate
    <3> QED BY <1>1, <2>3, <3>1
  <2>5. CASE \E c \in Typed : TypeCode(r, c)
    BY <2>5, ReplaceFate DEF TypeCode
  <2>6. CASE PasskeyLogin(r)
    BY <2>6, ReplaceFate DEF PasskeyLogin, Pends
  <2>7. CASE (\E c \in Typed : DisableTotp(r, c)) \/ (\E k \in Key : RemovePasskey(r, k))
             \/ Logout(r) \/ RevokeOthers(r) \/ (\E t \in Session : RevokeSession(r, t))
    <3>1. \E gone : End(gone, row)
      BY <2>7 DEF DisableTotp, RemovePasskey, Logout, RevokeOthers, RevokeSession
    <3> QED BY <2>2, <3>1
  <2>8. CASE MissCode(r)
    <3>1. CASE \E gone : End(gone, row)
      BY <2>2, <3>1
    <3>2. CASE row' = [row EXCEPT ![seen[r].sid].attempts = @ + 1] /\ UNCHANGED live
      <4>1. Edited([row EXCEPT ![seen[r].sid].attempts = @ + 1])
        BY <1>1, <2>1, <2>8 DEF MissCode, Edited, EditOf, Row
      <4> QED BY <2>3, <3>2, <4>1
    <3> QED BY <2>8, <3>1, <3>2 DEF MissCode
  <2>9. CASE MissConfirm(r)
    <3>1. CASE \E gone : End(gone, row)
      BY <2>2, <3>1
    <3>2. CASE UNCHANGED sessions
      BY <1>1, <2>3, <3>2
    <3> QED BY <2>9, <3>1, <3>2 DEF MissConfirm
  <2>10. CASE LoginOptions(r) \/ ConfirmOptions(r) \/ RegisterOptions(r)
    <3>1. PICK p \in {"login", "confirm", "register"} : BeginCeremony(seen[r].sid, p)
      BY <2>10 DEF LoginOptions, ConfirmOptions, RegisterOptions
    <3>2. live' = live /\ seen[r].sid \in Session
      BY <2>1, <2>10 DEF LoginOptions, ConfirmOptions, RegisterOptions
    <3>3. Edited(row')
      BY <3>1, <3>2, Edits DEF BeginCeremony, Purpose
    <3> QED BY <2>3, <3>2, <3>3
  <2>11. CASE FailLogin(r) \/ FailConfirm(r)
    <3>1. live' = live /\ seen[r].sid \in Session /\ row' = Taken(seen[r].sid)
      BY <2>1, <2>11 DEF FailLogin, FailConfirm
    <3> QED BY <2>3, <3>1, Edits
  <2>12. CASE (\E c \in Typed : ConfirmCode(r, c)) \/ ConfirmPassword(r)
    <3>1. live' = live /\ seen[r].sid \in Session /\ MarkConfirmed(seen[r].sid)
      BY <2>1, <2>12 DEF ConfirmCode, ConfirmPassword
    <3> QED BY <2>3, <3>1, Edits DEF MarkConfirmed
  <2>13. CASE ConfirmPasskey(r)
    <3> DEFINE sid == seen[r].sid
    <3>1. live' = live /\ sid \in Session
      BY <2>1, <2>13 DEF ConfirmPasskey
    <3>2. row' = [row EXCEPT ![sid].purpose = "none", ![sid].answered = FALSE,
                             ![sid].confirmed = TRUE]
      BY <2>13 DEF ConfirmPasskey
    <3> HIDE DEF sid
    <3>3. ASSUME NEW s \in Session PROVE EditOf(row'[s], row[s])
      <4>1. row[s] \in Row
        BY <1>1
      <4>2. CASE s = sid
        <5>1. row'[s].born = row[s].born /\ row'[s].answered = FALSE
          BY <1>1, <3>1, <3>2, <4>1, <4>2 DEF Row
        <5> QED BY <5>1 DEF EditOf
      <4>3. CASE s # sid
        <5>1. row'[s] = row[s]
          BY <1>1, <3>1, <3>2, <4>3
        <5> QED BY <5>1 DEF EditOf
      <4> QED BY <4>2, <4>3
    <3> QED BY <1>1, <2>3, <3>1, <3>3 DEF Edited
  <2>14. CASE \E c \in Enrolling : ConfirmTotp(r, c)
    <3> DEFINE verified == [t \in Session |->
                     IF t \in live THEN [row[t] EXCEPT !.verified = TRUE,
                                                       !.proved = @ \/ t = seen[r].sid]
                                   ELSE row[t]]
    <3>1. EndOthers("enrol", r, verified)
      BY <2>14 DEF ConfirmTotp
    <3>2. Edited(verified)
      BY <1>1 DEF Edited, EditOf, Row
    <3> HIDE DEF verified
    <3> QED BY <3>1, <3>2, EndFate, StayFate DEF EndOthers
  <2>15. CASE \E k \in Key : AddPasskey(r, k)
    <3> DEFINE s == seen[r].sid
               proved == [row EXCEPT ![s].purpose = "none", ![s].answered = FALSE,
                                     ![s].verified = TRUE, ![s].proved = TRUE]
    <3>1. End(Others(s), proved) \/ (live' = live /\ row' = proved)
      BY <2>15 DEF AddPasskey
    <3>2. s \in Session
      BY <2>1, <2>15 DEF AddPasskey
    <3>3. \A t \in Session : t # s => proved[t] = row[t]
      BY <1>1, <3>2
    <3>4. row[s] \in Row
      BY <1>1, <3>2
    <3>5. proved[s] = [row[s] EXCEPT !.purpose = "none", !.answered = FALSE,
                                     !.verified = TRUE, !.proved = TRUE]
      BY <1>1, <3>2
    <3>6. proved[s].purpose = "none" /\ proved[s].born = row[s].born
      <4> HIDE DEF proved
      <4> QED BY <3>4, <3>5 DEF Row
    <3> HIDE DEF proved
    <3>7. Edited(proved)
      BY <1>1, <3>3, <3>6 DEF Edited, EditOf
    <3>8. CASE End(Others(s), proved)
      BY <3>7, <3>8, EndFate
    <3>9. CASE live' = live /\ row' = proved
      BY <3>7, <3>9, StayFate
    <3> QED BY <3>1, <3>8, <3>9
  <2>16. CASE FailRegister(r)
    <3>1. live' = live /\ Edited(row')
      BY <1>1, <2>1, <2>16 DEF FailRegister, Pends, Edited, EditOf, Row
    <3> QED BY <2>3, <3>1
  <2> QED BY <1>2, <2>4, <2>5, <2>6, <2>7, <2>8, <2>9, <2>10, <2>11, <2>12, <2>13, <2>14,
             <2>15, <2>16 DEF RequestNext
<1>3. CASE (\E gone : End(gone, row))
  BY <1>1, <1>3, EndFate
<1>4. CASE ResetPassword \/ ResetFactors \/ CliDelete \/ \E s \in Session : Expire(s)
  BY <1>3, <1>4 DEF ResetPassword, ResetFactors, CliDelete, Expire
<1>5. CASE Authenticate \/ CliUpdate \/ Tick \/ LockExpires \/ Crash \/ UNCHANGED vars
  <2>1. live' = live /\ row' = row
    BY <1>5 DEF Authenticate, CliUpdate, Tick, LockExpires, Crash, vars
  <2> QED BY <1>1, <2>1, StayFate
<1>6. CASE \E s \in Session : WindowCloses(s)
  <2>1. live' = live /\ Edited(row')
    BY <1>1, <1>6 DEF WindowCloses, Edited, EditOf, Row
  <2> QED BY <2>1, StayFate
<1> QED BY <1>2, <1>4, <1>5, <1>6 DEF Next

\* The change of the password edits the session that asked for it.
LEMMA ChangeFate ==
  ASSUME TypeOK, NEW r \in Request, ChangePassword(r)
  PROVE  /\ live' \subseteq live
         /\ \A s \in live' : /\ row'[s].purpose = row[s].purpose
                             /\ row'[s].answered = row[s].answered
         /\ "password" \notin CrashIn =>
              /\ live' \subseteq {seen[r].sid}
              /\ \A s \in live' : row'[s].born = password + 1
<1> DEFINE s == seen[r].sid
           mine == [row[s] EXCEPT !.signed = password + 1, !.born = password + 1]
           changed == Written(s, mine)
<1>1. /\ EndOthers("password", r, changed)
      /\ s \in Session
      /\ row \in [Session -> Row] /\ live \subseteq Session
  BY DEF ChangePassword, SignedIn, AnySession, TypeOK, Snapshot
<1>2. /\ mine.purpose = row[s].purpose
      /\ mine.answered = row[s].answered
      /\ mine.born = password + 1
  BY <1>1 DEF Row
<1> HIDE DEF mine
<1>3. /\ \A t \in live : /\ changed[t].purpose = row[t].purpose
                         /\ changed[t].answered = row[t].answered
      /\ s \in live => changed[s].born = password + 1
  BY <1>1, <1>2 DEF Written
<1> HIDE DEF changed
<1>4. CASE End(Others(s), changed)
  BY <1>1, <1>3, <1>4 DEF End, Others
<1>5. CASE "password" \in CrashIn /\ live' = live /\ row' = changed
  BY <1>1, <1>3, <1>5
<1> QED BY <1>1, <1>4, <1>5 DEF EndOthers

\* A sign-in's row: no challenge is pending, and the account's password is noted.
LEMMA CreateFate ==
  ASSUME TypeOK, CreateSession
  PROVE  \A s \in live' : \/ s \in live /\ row'[s] = row[s]
                          \/ row'[s].purpose = "none" /\ row'[s].born = password
<1>1. PICK s \in Unused : /\ live' = live \cup {s}
                          /\ row' = [row EXCEPT ![s] = NewRow(NeedsNoFactor, FALSE, signing.with, password)]
  BY DEF CreateSession
<1>2. s \in Session /\ row \in [Session -> Row] /\ live \subseteq Session
  BY DEF TypeOK, Unused
<1>3. row'[s].purpose = "none" /\ row'[s].born = password
  BY <1>1, <1>2 DEF NewRow
<1> QED BY <1>1, <1>2, <1>3

\* The first answer to a challenge for signing in or confirming takes it, whether
\* or not it checks out: takeChallenge commits with what comes of the answer, and
\* nothing a handler writes brings an answered challenge back.
THEOREM ChallengeOnceHolds == Spec => []ChallengeOnce
<1>1. Init => ChallengeOnce
  BY DEF Init, ChallengeOnce
<1>2. ASSUME TypeOK, ChallengeOnce, [Next]_vars PROVE ChallengeOnce'
  <2>1. CASE \A s \in live' : Fate(s)
    BY <1>2, <2>1 DEF Fate, EditOf, ChallengeOnce
  <2>2. CASE CreateSession
    BY <1>2, <2>2, CreateFate DEF ChallengeOnce
  <2>3. CASE \E r \in Request : ChangePassword(r)
    BY <1>2, <2>3, ChangeFate DEF ChallengeOnce
  <2> QED BY <1>2, <2>1, <2>2, <2>3, Fates
<1> QED BY <1>1, <1>2, TypeCorrect, PTL DEF Spec

-----------------------------------------------------------------------------
(* A new password *)

\* Who touches the password, or stands between the statements of reset-password.
LEMMA QuietPassword ==
  ASSUME TypeOK, [Next]_vars
  PROVE  \/ /\ password' = password /\ cli' = cli
            /\ ~CreateSession /\ ~\E r \in Request : ChangePassword(r)
         \/ CreateSession \/ ResetPassword \/ CliUpdate \/ CliDelete
         \/ \E r \in Request : ChangePassword(r)
<1> USE DEF account, guard, sessions, process
<1> DEFINE Quiet == password' = password /\ cli' = cli
<1>1. ASSUME NEW r \in Request, RequestNext(r), ~ChangePassword(r) PROVE Quiet
  <2>1. CASE \/ \E s \in Session : Arrive(r, s)
             \/ Leave(r) \/ MissCode(r) \/ MissConfirm(r) \/ LoginOptions(r)
             \/ PasskeyLogin(r) \/ FailLogin(r) \/ ConfirmOptions(r) \/ ConfirmPasskey(r)
    BY <2>1 DEF Arrive, Leave, MissCode, MissConfirm, LoginOptions, PasskeyLogin,
                FailLogin, ConfirmOptions, ConfirmPasskey
  <2>2. CASE \E c \in Typed : TypeCode(r, c) \/ ConfirmCode(r, c) \/ DisableTotp(r, c)
    BY <2>2 DEF TypeCode, ConfirmCode, DisableTotp
  <2>3. CASE \/ FailConfirm(r) \/ ConfirmPassword(r) \/ BeginTotp(r) \/ Regenerate(r)
             \/ RegisterOptions(r) \/ FailRegister(r) \/ Logout(r) \/ RevokeOthers(r)
             \/ \E t \in Session : RevokeSession(r, t)
    BY <2>3 DEF FailConfirm, ConfirmPassword, BeginTotp, Regenerate, RegisterOptions,
                FailRegister, Logout, RevokeOthers, RevokeSession
  <2>4. CASE \/ \E c \in Enrolling : ConfirmTotp(r, c)
             \/ \E c \in Authenticator : RegenerateByCode(r, c)
             \/ \E k \in Key : AddPasskey(r, k) \/ RemovePasskey(r, k)
    BY <2>4 DEF ConfirmTotp, RegenerateByCode, AddPasskey, RemovePasskey
  <2> QED BY <1>1, <2>1, <2>2, <2>3, <2>4 DEF RequestNext
<1>2. ASSUME \/ Authenticate \/ ResetFactors \/ Tick \/ LockExpires \/ Crash \/ UNCHANGED vars
             \/ \E s \in Session : WindowCloses(s) \/ Expire(s)
      PROVE  Quiet
  BY <1>2 DEF Authenticate, ResetFactors, Tick, LockExpires, Crash, vars, WindowCloses, Expire
<1> HIDE DEF Quiet
<1>3. Quiet \/ CreateSession \/ ResetPassword \/ CliUpdate \/ CliDelete
      \/ \E r \in Request : ChangePassword(r)
  BY <1>1, <1>2 DEF Next
<1> QED BY <1>3 DEF Quiet

\* Whoever replaces the password, the sessions that were there go, but the owner's that
\* did it: an edited row keeps the password it was inserted under, the row that takes a
\* pending one's place inherits it, and what is inserted while reset-password stands
\* between its statements goes with the second.  A crash between the two statements of
\* the owner's change would leave them; no command of the command line does.
THEOREM PasswordEndsSessionsHolds ==
  ASSUME "password" \notin CrashIn
  PROVE  Spec => []PasswordEndsSessions
<1>1. Init => PasswordEndsSessions
  BY DEF Init, PasswordEndsSessions
<1>2. ASSUME TypeOK, PasswordEndsSessions, [Next]_vars PROVE PasswordEndsSessions'
  <2>1. CASE ResetPassword
    BY <2>1 DEF ResetPassword, End, PasswordEndsSessions
  <2>2. CASE \E r \in Request : ChangePassword(r)
    <3>1. PICK r \in Request : ChangePassword(r)
      BY <2>2
    <3>2. \A s \in live' : row'[s].born = password'
      BY <1>2, <3>1, ChangeFate DEF ChangePassword
    <3> QED BY <3>2 DEF PasswordEndsSessions
  <2>3. CASE CreateSession
    <3>1. password' = password /\ cli' = cli
      BY <2>3 DEF CreateSession, account
    <3>2. cli = "idle" => \A s \in live' : row'[s].born = password
      BY <1>2, <2>3, CreateFate DEF PasswordEndsSessions
    <3> QED BY <3>1, <3>2 DEF PasswordEndsSessions
  <2>4. CASE CliUpdate
    BY <2>4 DEF CliUpdate, PasswordEndsSessions
  <2>5. CASE CliDelete
    BY <2>5 DEF CliDelete, End, PasswordEndsSessions
  <2>6. CASE /\ password' = password /\ cli' = cli
             /\ ~CreateSession /\ ~\E r \in Request : ChangePassword(r)
    <3>1. \A s \in live' : Fate(s)
      BY <1>2, <2>6, Fates
    <3>2. cli = "idle" => \A s \in live' : row'[s].born = password'
      BY <1>2, <2>6, <3>1 DEF Fate, EditOf, PasswordEndsSessions
    <3> QED BY <2>6, <3>2 DEF PasswordEndsSessions
  <2> QED BY <1>2, <2>1, <2>2, <2>3, <2>4, <2>5, <2>6, QuietPassword
<1> QED BY <1>1, <1>2, TypeCorrect, PTL DEF Spec
=============================================================================
