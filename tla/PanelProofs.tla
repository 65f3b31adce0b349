----------------------------- MODULE PanelProofs -----------------------------
(***************************************************************************)
(* What holds of the panel for any number of accounts, cases and forms.    *)
(***************************************************************************)
EXTENDS Panel, TLAPS

USE DEF Role, FormRole, Exists, ActiveAdmin, SignedIn, Admitted, Manages, Answered,
        AnsweredWithNewWord, Outdated, Outdate, Serving, Target, End, EndAll, Ends

\* A form is answered: its slot is free, the others keep what they saw.
LEMMA AnsweredType ==
  ASSUME TypeOK, NEW r \in Request, Answered(r)
  PROVE  seen' \in [Request -> Snapshot]
  <1>1. Idle \in Snapshot
    BY DEF Idle, Snapshot
  <1> QED
    BY <1>1 DEF TypeOK

\* The same where the forms of an account now hold an old password.
LEMMA NewWordType ==
  ASSUME TypeOK, NEW r \in Request, NEW u, AnsweredWithNewWord(r, u)
  PROVE  seen' \in [Request -> Snapshot]
  <1>1. Idle \in Snapshot
    BY DEF Idle, Snapshot
  <1>2. \A q \in Request : [seen[q] EXCEPT !.knows = FALSE] \in Snapshot
    BY DEF TypeOK, Snapshot
  <1> QED
    BY <1>1, <1>2 DEF TypeOK

\* Whoever a form is from is an account.
LEMMA SenderType ==
  ASSUME TypeOK, NEW r \in Request, SignedIn(r)
  PROVE  seen[r].by \in User
  BY DEF TypeOK, Snapshot

-----------------------------------------------------------------------------
\* Types are kept by every step of every handler (all of services/users.ts).
THEOREM TypeCorrect == Spec => []TypeOK
<1>1. Init => TypeOK
  <2>1. Idle \in Snapshot
    BY DEF Idle, Snapshot
  <2> QED
    BY <2>1, PanelAssumption DEF Init, TypeOK
<1>2. TypeOK /\ [Next]_vars => TypeOK'
  <2> SUFFICES ASSUME TypeOK, [Next]_vars PROVE TypeOK'
    OBVIOUS
  <2>1. CASE Owner
    <3>1. CASE CreateSession \/ \E u \in User : Authenticate(u) \/ SignOut(u)
      BY <3>1 DEF TypeOK, CreateSession, Authenticate, SignOut, accounts, sessions, halfway,
                  cases
    <3>2. CASE \E r \in Request : ChangePassword(r)
      <4> PICK r \in Request : ChangePassword(r)
        BY <3>2
      <4>1. seen' \in [Request -> Snapshot]
        BY NewWordType DEF ChangePassword
      <4> QED
        BY <4>1 DEF TypeOK, ChangePassword, halfway, cases
    <3> QED
      BY <2>1, <3>1, <3>2 DEF Owner
  <2>2. CASE Operator
    <3> PICK u \in User : CreateAdmin(u) \/ CliUpdate(u) \/ CliDelete(u)
      BY <2>2 DEF Operator
    <3>1. CASE CreateAdmin(u)
      BY <3>1 DEF TypeOK, CreateAdmin, New, sessions, halfway, cases
    <3>2. CASE CliUpdate(u)
      <4>1. \A q \in Request : [seen[q] EXCEPT !.knows = FALSE] \in Snapshot
        BY DEF TypeOK, Snapshot
      <4> QED
        BY <3>2, <4>1 DEF TypeOK, CliUpdate, cases
    <3>3. CASE CliDelete(u)
      BY <3>3 DEF TypeOK, CliDelete, accounts, cases
    <3> QED
      BY <3>1, <3>2, <3>3
  <2>3. CASE Accounts
    <3> PICK r \in Request, u \in User :
             \/ \E as \in FormRole : CreateUser(r, u, as) \/ SetUserRole(r, u, as)
             \/ DisableUser(r, u) \/ EnableUser(r, u) \/ DeleteUser(r, u)
             \/ ResetPassword(r, u) \/ ResetFactors(r, u)
      BY <2>3 DEF Accounts
    <3>1. CASE ResetPassword(r, u)
      <4>1. seen' \in [Request -> Snapshot]
        BY <3>1, NewWordType DEF ResetPassword
      <4> QED
        BY <3>1, <4>1 DEF TypeOK, ResetPassword, halfway, cases
    <3>2. CASE ~ResetPassword(r, u)
      <4>1. Answered(r)
        BY <3>2 DEF CreateUser, SetUserRole, DisableUser, EnableUser, DeleteUser, ResetFactors
      <4>2. seen' \in [Request -> Snapshot]
        BY <4>1, AnsweredType
      <4>3. CASE \E as \in FormRole : CreateUser(r, u, as) \/ SetUserRole(r, u, as)
        <5> PICK as \in FormRole : CreateUser(r, u, as) \/ SetUserRole(r, u, as)
          BY <4>3
        <5>1. CASE CreateUser(r, u, as)
          BY <4>2, <5>1 DEF TypeOK, CreateUser, New, sessions, halfway, cases
        <5>2. CASE SetUserRole(r, u, as)
          BY <4>2, <5>2 DEF TypeOK, SetUserRole, sessions, halfway, cases
        <5> QED
          BY <5>1, <5>2
      <4>4. CASE DisableUser(r, u) \/ EnableUser(r, u)
        BY <4>2, <4>4 DEF TypeOK, DisableUser, EnableUser, sessions, halfway, cases
      <4>5. CASE DeleteUser(r, u) \/ ResetFactors(r, u)
        BY <4>2, <4>5 DEF TypeOK, DeleteUser, ResetFactors, accounts, halfway, cases
      <4> QED
        BY <3>2, <4>3, <4>4, <4>5
    <3> QED
      BY <3>1, <3>2
  <2>4. CASE Cases
    <3> PICK r \in Request, c \in Case :
             \/ CreateCase(r, c)
             \/ \E new \in {"open", "closed"} : SetStatus(r, c, new)
             \/ \E u \in User : AddMember(r, c, u) \/ RemoveMember(r, c, u)
      BY <2>4 DEF Cases
    <3>1. Answered(r) /\ SignedIn(r)
      BY DEF CreateCase, SetStatus, AddMember, RemoveMember, WorksOn
    <3>2. seen' \in [Request -> Snapshot]
      BY <3>1, AnsweredType
    <3>3. CASE CreateCase(r, c)
      BY <3>1, <3>2, <3>3, SenderType DEF TypeOK, CreateCase, accounts, sessions, halfway
    <3>4. CASE \E new \in {"open", "closed"} : SetStatus(r, c, new)
      BY <3>2, <3>4 DEF TypeOK, SetStatus, accounts, sessions, halfway
    <3>5. CASE \E u \in User : AddMember(r, c, u) \/ RemoveMember(r, c, u)
      BY <3>2, <3>5 DEF TypeOK, AddMember, RemoveMember, accounts, sessions, halfway
    <3> QED
      BY <3>3, <3>4, <3>5
  <2>5. CASE Traffic
    <3>1. CASE \E r \in Request : Leave(r)
      BY <3>1, AnsweredType DEF TypeOK, Leave, accounts, sessions, halfway, cases
    <3>2. CASE \E r \in Request, u \in User : Arrive(r, u)
      <4> PICK r \in Request, u \in User : Arrive(r, u)
        BY <3>2
      <4>1. [by |-> u, role |-> role[u], temp |-> u \in temp, knows |-> TRUE] \in Snapshot
        BY DEF TypeOK, Snapshot
      <4> QED
        BY <4>1 DEF TypeOK, Arrive, accounts, sessions, halfway, cases
    <3> QED
      BY <2>5, <3>1, <3>2 DEF Traffic
  <2>6. CASE Crash
    <3>1. Idle \in Snapshot
      BY DEF Idle, Snapshot
    <3> QED
      BY <2>6, <3>1 DEF TypeOK, Crash, accounts, sessions, cases
  <2>7. CASE UNCHANGED vars
    BY <2>7 DEF TypeOK, vars, accounts, sessions, halfway, cases
  <2> QED
    BY <2>1, <2>2, <2>3, <2>4, <2>5, <2>6, <2>7 DEF Next
<1> QED
  BY <1>1, <1>2, PTL DEF Spec

-----------------------------------------------------------------------------
\* Only an account that is not the last active administrator stops being one.
LEMMA AdminStays ==
  ASSUME TypeOK, AlwaysAnAdmin, NEW u \in User, KeepsAnAdmin(u)
  PROVE  \E w \in User : w # u /\ ActiveAdmin(w)
  BY DEF AlwaysAnAdmin, KeepsAnAdmin, ActiveAdminsOtherThan

\* There is an active administrator, whatever forms were on their way when.
THEOREM AlwaysAnAdminHolds == Spec => []AlwaysAnAdmin
<1>1. Init => AlwaysAnAdmin
  BY PanelAssumption DEF Init, AlwaysAnAdmin
<1>2. TypeOK /\ AlwaysAnAdmin /\ [Next]_vars => AlwaysAnAdmin'
  <2> SUFFICES ASSUME TypeOK, AlwaysAnAdmin, [Next]_vars PROVE AlwaysAnAdmin'
    OBVIOUS
  <2> PICK w \in User : ActiveAdmin(w)
    BY DEF AlwaysAnAdmin
  <2>1. CASE UNCHANGED <<state, role>>
    BY <2>1 DEF AlwaysAnAdmin
  <2>2. CASE \E u \in User, as \in FormRole, must \in BOOLEAN : New(u, as, must)
    <3>1. state'[w] = "active" /\ role'[w] = "admin"
      BY <2>2 DEF New, TypeOK
    <3> QED
      BY <3>1 DEF AlwaysAnAdmin
  <2>3. CASE \E r \in Request, u \in User, as \in FormRole : SetUserRole(r, u, as)
    <3> PICK r \in Request, u \in User, as \in FormRole : SetUserRole(r, u, as)
      BY <2>3
    <3>1. CASE as = "admin"
      <4>1. state'[w] = "active" /\ role'[w] = "admin"
        BY <3>1 DEF SetUserRole, TypeOK
      <4> QED
        BY <4>1 DEF AlwaysAnAdmin
    <3>2. CASE KeepsAnAdmin(u)
      <4> PICK v \in User : v # u /\ ActiveAdmin(v)
        BY <3>2, AdminStays
      <4>1. state'[v] = "active" /\ role'[v] = "admin"
        BY DEF SetUserRole, TypeOK
      <4> QED
        BY <4>1 DEF AlwaysAnAdmin
    <3> QED
      BY <3>1, <3>2 DEF SetUserRole
  <2>4. CASE \E r \in Request, u \in User : DisableUser(r, u) \/ DeleteUser(r, u)
    <3> PICK r \in Request, u \in User : DisableUser(r, u) \/ DeleteUser(r, u)
      BY <2>4
    <3> PICK v \in User : v # u /\ ActiveAdmin(v)
      BY AdminStays DEF DisableUser, DeleteUser
    <3>1. state'[v] = "active" /\ role'[v] = "admin"
      BY DEF DisableUser, DeleteUser, TypeOK
    <3> QED
      BY <3>1 DEF AlwaysAnAdmin
  <2>5. CASE \E r \in Request, u \in User : EnableUser(r, u)
    <3>1. state'[w] = "active" /\ role'[w] = "admin"
      BY <2>5 DEF EnableUser, TypeOK
    <3> QED
      BY <3>1 DEF AlwaysAnAdmin
  <2>6. \/ UNCHANGED <<state, role>>
        \/ \E u \in User, as \in FormRole, must \in BOOLEAN : New(u, as, must)
        \/ \E r \in Request, u \in User, as \in FormRole : SetUserRole(r, u, as)
        \/ \E r \in Request, u \in User : DisableUser(r, u) \/ DeleteUser(r, u)
        \/ \E r \in Request, u \in User : EnableUser(r, u)
    <3>1. CASE Owner
      BY <3>1 DEF Owner, Authenticate, CreateSession, SignOut, ChangePassword, accounts
    <3>2. CASE Operator
      <4>1. PICK u \in User : CreateAdmin(u) \/ CliUpdate(u) \/ CliDelete(u)
        BY <3>2 DEF Operator
      <4>2. CASE CreateAdmin(u)
        <5>1. New(u, "admin", FALSE)
          BY <4>2 DEF CreateAdmin
        <5> QED
          BY <5>1
      <4> QED
        BY <4>1, <4>2 DEF CliUpdate, CliDelete, accounts
    <3>3. CASE Accounts
      <4> PICK r \in Request, u \in User :
             \/ \E as \in FormRole : CreateUser(r, u, as) \/ SetUserRole(r, u, as)
             \/ DisableUser(r, u) \/ EnableUser(r, u) \/ DeleteUser(r, u)
             \/ ResetPassword(r, u) \/ ResetFactors(r, u)
        BY <3>3 DEF Accounts
      <4>1. CASE \E as \in FormRole : CreateUser(r, u, as)
        <5>1. \E as \in FormRole : New(u, as, TRUE)
          BY <4>1 DEF CreateUser
        <5> QED
          BY <5>1
      <4>2. CASE ResetPassword(r, u) \/ ResetFactors(r, u)
        BY <4>2 DEF ResetPassword, ResetFactors, accounts
      <4> QED
        BY <4>1, <4>2
    <3>4. CASE Cases
      BY <3>4 DEF Cases, CreateCase, SetStatus, AddMember, RemoveMember, accounts
    <3>5. CASE Traffic
      BY <3>5 DEF Traffic, Leave, Arrive, accounts
    <3>6. CASE Crash
      BY <3>6 DEF Crash, accounts
    <3> QED
      BY <3>1, <3>2, <3>3, <3>4, <3>5, <3>6 DEF Next, vars, accounts
  <2> QED
    BY <2>1, <2>2, <2>3, <2>4, <2>5, <2>6
<1> QED
  BY <1>1, <1>2, TypeCorrect, PTL DEF Spec

-----------------------------------------------------------------------------
\* The account behind a sign-in that is under way is active still.
SessionsInv == SessionsInForce /\ (signing # None => state[signing] = "active")

\* Nothing disables an account inside a sign-in: every step but CreateSession leaves
\* the sign-in, and the account behind it, alone or ends it.
THEOREM SessionsInForceHolds == Spec => []SessionsInForce
<1> USE DEF SessionsInv, SessionsInForce
<1>1. Init => SessionsInv
  BY DEF Init
<1>2. TypeOK /\ SessionsInv /\ [Next]_vars => SessionsInv'
  <2> SUFFICES ASSUME TypeOK, SessionsInv, [Next]_vars PROVE SessionsInv'
    OBVIOUS
  <2>1. CASE Owner
    <3>1. CASE CreateSession
      BY <3>1 DEF CreateSession, TypeOK, accounts
    <3>2. CASE \E u \in User : Authenticate(u) \/ SignOut(u)
      BY <3>2 DEF Authenticate, SignOut, TypeOK, accounts, sessions, halfway
    <3>3. CASE \E r \in Request : ChangePassword(r)
      BY <3>3 DEF ChangePassword, TypeOK, halfway
    <3> QED
      BY <2>1, <3>1, <3>2, <3>3 DEF Owner
  <2>2. CASE Operator
    <3> PICK u \in User : CreateAdmin(u) \/ CliUpdate(u) \/ CliDelete(u)
      BY <2>2 DEF Operator
    <3>1. CASE CreateAdmin(u)
      BY <3>1 DEF CreateAdmin, New, TypeOK, sessions, halfway
    <3>2. CASE CliUpdate(u)
      BY <3>2 DEF CliUpdate, TypeOK
    <3>3. CASE CliDelete(u)
      BY <3>3 DEF CliDelete, TypeOK, accounts
    <3> QED
      BY <3>1, <3>2, <3>3
  <2>3. CASE Accounts
    <3> PICK r \in Request, u \in User :
             \/ \E as \in FormRole : CreateUser(r, u, as) \/ SetUserRole(r, u, as)
             \/ DisableUser(r, u) \/ EnableUser(r, u) \/ DeleteUser(r, u)
             \/ ResetPassword(r, u) \/ ResetFactors(r, u)
      BY <2>3 DEF Accounts
    <3>0. signing = None
      BY DEF CreateUser, SetUserRole, DisableUser, EnableUser, DeleteUser, ResetPassword,
             ResetFactors
    <3>1. CASE \E as \in FormRole : CreateUser(r, u, as)
      BY <3>0, <3>1 DEF CreateUser, New, TypeOK, sessions, halfway
    <3>2. CASE \E as \in FormRole : SetUserRole(r, u, as)
      BY <3>0, <3>2 DEF SetUserRole, sessions, halfway
    <3>3. CASE DisableUser(r, u) \/ DeleteUser(r, u)
      BY <3>0, <3>3 DEF DisableUser, DeleteUser, TypeOK, halfway
    <3>4. CASE EnableUser(r, u)
      BY <3>0, <3>4 DEF EnableUser, TypeOK, sessions, halfway
    <3>5. CASE ResetPassword(r, u) \/ ResetFactors(r, u)
      BY <3>0, <3>5 DEF ResetPassword, ResetFactors, accounts, halfway
    <3> QED
      BY <3>1, <3>2, <3>3, <3>4, <3>5
  <2>4. CASE Cases
    BY <2>4 DEF Cases, CreateCase, SetStatus, AddMember, RemoveMember, accounts, sessions,
                halfway
  <2>5. CASE Traffic
    BY <2>5 DEF Traffic, Leave, Arrive, accounts, sessions, halfway
  <2>6. CASE Crash
    BY <2>6 DEF Crash, accounts, sessions
  <2>7. CASE UNCHANGED vars
    BY <2>7 DEF vars, accounts, sessions, halfway
  <2> QED
    BY <2>1, <2>2, <2>3, <2>4, <2>5, <2>6, <2>7 DEF Next
<1>3. SessionsInv => SessionsInForce
  OBVIOUS
<1> QED
  BY <1>1, <1>2, <1>3, TypeCorrect, PTL DEF Spec

-----------------------------------------------------------------------------
\* Taken off a case is out of it, forms already sent included.
THEOREM RemovedIsOutHolds == Spec => RemovedIsOut
<1>1. TypeOK /\ [Next]_vars =>
        \A r \in Request, c \in Case :
          /\ seen[r].by # None /\ seen'[r] = Idle
          /\ seen[r].role = "user" /\ seen[r].by \notin member[c]
          /\ status[c] # "none"
          => status'[c] = status[c] /\ member'[c] = member[c]
  <2> SUFFICES ASSUME TypeOK, [Next]_vars, NEW r \in Request, NEW c \in Case,
                      seen[r].by # None, seen'[r] = Idle,
                      seen[r].role = "user", seen[r].by \notin member[c], status[c] # "none"
               PROVE  status'[c] = status[c] /\ member'[c] = member[c]
    OBVIOUS
  <2>1. seen[r].by \in User /\ Idle.by = None /\ None \notin User
    BY SenderType, PanelAssumption DEF Idle, TypeOK, Snapshot
  <2>2. ASSUME NEW q \in Request, q # r, Answered(q)
        PROVE  FALSE
    BY <2>1, <2>2 DEF TypeOK
  <2>3. ASSUME NEW q \in Request, NEW u, q # r, AnsweredWithNewWord(q, u)
        PROVE  FALSE
    <3>1. seen'[r].by = seen[r].by
      BY <2>3 DEF TypeOK, Snapshot
    <3> QED
      BY <2>1, <3>1
  <2>4. ~CanAccess(seen[r], c)
    BY DEF CanAccess
  <2>5. CASE Owner \/ Operator
    BY <2>5 DEF Owner, Operator, Authenticate, CreateSession, SignOut, ChangePassword,
                CreateAdmin, CliUpdate, CliDelete, cases
  <2>6. CASE Accounts
    <3> PICK q \in Request, u \in User :
             \/ \E as \in FormRole : CreateUser(q, u, as) \/ SetUserRole(q, u, as)
             \/ DisableUser(q, u) \/ EnableUser(q, u) \/ DeleteUser(q, u)
             \/ ResetPassword(q, u) \/ ResetFactors(q, u)
      BY <2>6 DEF Accounts
    <3>1. CASE DeleteUser(q, u)
      <4>1. q # r /\ Answered(q)
        BY <3>1 DEF DeleteUser
      <4> QED
        BY <4>1, <2>2
    <3> QED
      BY <3>1 DEF CreateUser, SetUserRole, DisableUser, EnableUser, ResetPassword, ResetFactors, cases
  <2>7. CASE Cases
    <3> PICK q \in Request, d \in Case :
             \/ CreateCase(q, d)
             \/ \E new \in {"open", "closed"} : SetStatus(q, d, new)
             \/ \E u \in User : AddMember(q, d, u) \/ RemoveMember(q, d, u)
      BY <2>7 DEF Cases
    <3>1. Answered(q)
      BY DEF CreateCase, SetStatus, AddMember, RemoveMember
    <3>2. q = r
      BY <3>1, <2>2
    <3>3. d # c
      BY <3>2, <2>4 DEF CreateCase, SetStatus, AddMember, RemoveMember, WorksOn
    <3> QED
      BY <3>3 DEF CreateCase, SetStatus, AddMember, RemoveMember, TypeOK
  <2>8. CASE Traffic
    BY <2>8 DEF Traffic, Leave, Arrive, cases
  <2>9. CASE Crash \/ UNCHANGED vars
    BY <2>9 DEF Crash, vars, cases
  <2> QED
    BY <2>5, <2>6, <2>7, <2>8, <2>9 DEF Next
<1> QED
  BY <1>1, TypeCorrect, PTL DEF Spec, RemovedIsOut

-----------------------------------------------------------------------------
\* A form that holds a password an administrator issued was marked so at its headers;
\* no account signs in before it exists.
GateInv ==
  \A r \in Request :
    seen[r].by # None =>
      /\ state[seen[r].by] # "free"
      /\ seen[r].by \in temp /\ seen[r].knows => seen[r].temp

\* A snapshot that is left alone, but that its password may be one of before.
Untouched(q) ==
  /\ seen'[q].by = seen[q].by
  /\ seen'[q].temp = seen[q].temp
  /\ seen'[q].knows => seen[q].knows

\* What the answer to a form does to the snapshots of the others: nothing.
LEMMA AnsweredKeeps ==
  ASSUME TypeOK, NEW r \in Request, Answered(r)
  PROVE  seen'[r] = Idle /\ \A q \in Request : q # r => Untouched(q)
  <1>1. seen'[r] = Idle
    BY DEF TypeOK
  <1>2. ASSUME NEW q \in Request, q # r PROVE Untouched(q)
    <2>1. seen'[q] = seen[q]
      BY <1>2 DEF TypeOK
    <2> QED
      BY <2>1 DEF Untouched
  <1> QED
    BY <1>1, <1>2

\* And where an account was given a password: its own forms hold the old one.
LEMMA NewWordKeeps ==
  ASSUME TypeOK, NEW r \in Request, NEW u, AnsweredWithNewWord(r, u)
  PROVE  /\ seen'[r] = Idle
         /\ \A q \in Request : q # r =>
              Untouched(q) /\ (seen'[q].by = u => ~seen'[q].knows)
  <1>1. seen'[r] = Idle
    OBVIOUS
  <1>2. ASSUME NEW q \in Request, q # r
        PROVE  Untouched(q) /\ (seen'[q].by = u => ~seen'[q].knows)
    <2>1. seen'[q] = IF seen[q].by = u THEN [seen[q] EXCEPT !.knows = FALSE] ELSE seen[q]
      BY <1>2
    <2>2. seen[q] \in Snapshot
      BY DEF TypeOK
    <2>3. /\ [seen[q] EXCEPT !.knows = FALSE].by = seen[q].by
          /\ [seen[q] EXCEPT !.knows = FALSE].temp = seen[q].temp
          /\ [seen[q] EXCEPT !.knows = FALSE].knows = FALSE
      BY <2>2 DEF Snapshot
    <2>4. CASE seen[q].by = u
      <3>1. seen'[q] = [seen[q] EXCEPT !.knows = FALSE]
        BY <2>1, <2>4
      <3> QED
        BY <2>3, <3>1 DEF Untouched
    <2>5. CASE seen[q].by # u
      <3>1. seen'[q] = seen[q]
        BY <2>1, <2>5
      <3> QED
        BY <2>5, <3>1 DEF Untouched
    <2> QED
      BY <2>4, <2>5
  <1> QED
    BY <1>1, <1>2

\* The invariant stays where the other forms are left alone and no account with a form
\* that holds its present password is issued another.
LEMMA GateStays ==
  ASSUME TypeOK, GateInv, NEW r \in Request, seen'[r] = Idle,
         \A q \in Request : q # r => Untouched(q),
         \A v \in User : state[v] # "free" => state'[v] # "free",
         \A v \in temp' \ temp :
            state[v] = "free" \/ \A q \in Request : q # r /\ seen'[q].by = v => ~seen'[q].knows
  PROVE  GateInv'
  <1> SUFFICES ASSUME NEW q \in Request, seen'[q].by # None
               PROVE  /\ state'[seen'[q].by] # "free"
                      /\ seen'[q].by \in temp' /\ seen'[q].knows => seen'[q].temp
    BY DEF GateInv
  <1>1. q # r
    BY DEF Idle
  <1>2. Untouched(q)
    BY <1>1
  <1>3. seen'[q].by = seen[q].by /\ seen'[q].temp = seen[q].temp
    BY <1>2 DEF Untouched
  <1>4. seen[q].by \in User
    BY <1>3 DEF TypeOK, Snapshot
  <1>5. /\ state[seen[q].by] # "free"
        /\ seen[q].by \in temp /\ seen[q].knows => seen[q].temp
    BY <1>3 DEF GateInv
  <1>6. state'[seen'[q].by] # "free"
    BY <1>3, <1>4, <1>5
  <1>7. ASSUME seen'[q].by \in temp', seen'[q].knows
        PROVE  seen'[q].temp
    <2>1. seen[q].knows
      BY <1>2, <1>7 DEF Untouched
    <2>2. seen[q].by \in temp
      BY <1>1, <1>3, <1>5, <1>7
    <2> QED
      BY <1>3, <1>5, <2>1, <2>2
  <1> QED
    BY <1>6, <1>7

\* Every step keeps it: Arrive marks the snapshot as the row is, New makes an account no
\* form is of, ResetPassword outdates the forms of the account it issues a password to.
LEMMA GateInvHolds == Spec => []GateInv
<1>1. Init => GateInv
  BY DEF Init, GateInv, Idle
<1>2. TypeOK /\ GateInv /\ [Next]_vars => GateInv'
  <2> SUFFICES ASSUME TypeOK, GateInv, [Next]_vars PROVE GateInv'
    OBVIOUS
  <2>1. CASE Owner
    <3>1. CASE CreateSession \/ \E u \in User : Authenticate(u) \/ SignOut(u)
      BY <3>1 DEF CreateSession, Authenticate, SignOut, accounts, GateInv
    <3>2. CASE \E r \in Request : ChangePassword(r)
      <4> PICK r \in Request : ChangePassword(r)
        BY <3>2
      <4>1. /\ AnsweredWithNewWord(r, seen[r].by)
            /\ UNCHANGED state
            /\ temp' \subseteq temp
        BY DEF ChangePassword
      <4>2. seen'[r] = Idle /\ \A q \in Request : q # r => Untouched(q)
        BY <4>1, NewWordKeeps
      <4> QED
        BY <4>1, <4>2, GateStays
    <3> QED
      BY <2>1, <3>1, <3>2 DEF Owner
  <2>2. CASE Operator
    <3> PICK u \in User : CreateAdmin(u) \/ CliUpdate(u) \/ CliDelete(u)
      BY <2>2 DEF Operator
    <3>1. CASE CreateAdmin(u)
      BY <3>1 DEF CreateAdmin, New, GateInv, TypeOK, Snapshot
    <3>2. CASE CliUpdate(u)
      <4>1. ASSUME NEW q \in Request
            PROVE  seen'[q].by = seen[q].by /\ seen'[q].temp = seen[q].temp
                   /\ (seen'[q].knows => seen[q].knows)
        <5>1. seen'[q] = IF seen[q].by = u THEN [seen[q] EXCEPT !.knows = FALSE] ELSE seen[q]
          BY <3>2 DEF CliUpdate
        <5>2. seen[q] \in Snapshot
          BY DEF TypeOK
        <5>3. /\ [seen[q] EXCEPT !.knows = FALSE].by = seen[q].by
              /\ [seen[q] EXCEPT !.knows = FALSE].temp = seen[q].temp
              /\ [seen[q] EXCEPT !.knows = FALSE].knows = FALSE
          BY <5>2 DEF Snapshot
        <5>4. CASE seen[q].by = u
          <6>1. seen'[q] = [seen[q] EXCEPT !.knows = FALSE]
            BY <5>1, <5>4
          <6> QED
            BY <5>3, <6>1
        <5>5. CASE seen[q].by # u
          BY <5>1, <5>5
        <5> QED
          BY <5>4, <5>5
      <4>2. UNCHANGED state /\ temp' \subseteq temp
        BY <3>2 DEF CliUpdate
      <4> SUFFICES ASSUME NEW q \in Request, seen'[q].by # None
                   PROVE  /\ state'[seen'[q].by] # "free"
                          /\ seen'[q].by \in temp' /\ seen'[q].knows => seen'[q].temp
        BY DEF GateInv
      <4>3. /\ state[seen[q].by] # "free"
            /\ seen[q].by \in temp /\ seen[q].knows => seen[q].temp
        BY <4>1 DEF GateInv
      <4>4. ASSUME seen'[q].by \in temp', seen'[q].knows PROVE seen'[q].temp
        BY <4>1, <4>2, <4>3, <4>4
      <4> QED
        BY <4>1, <4>2, <4>3, <4>4
    <3>3. CASE CliDelete(u)
      BY <3>3 DEF CliDelete, accounts, GateInv
    <3> QED
      BY <3>1, <3>2, <3>3
  <2>3. CASE Accounts
    <3> PICK r \in Request, u \in User :
             \/ \E as \in FormRole : CreateUser(r, u, as) \/ SetUserRole(r, u, as)
             \/ DisableUser(r, u) \/ EnableUser(r, u) \/ DeleteUser(r, u)
             \/ ResetPassword(r, u) \/ ResetFactors(r, u)
      BY <2>3 DEF Accounts
    <3>1. CASE ResetPassword(r, u)
      <4>1. /\ AnsweredWithNewWord(r, u)
            /\ UNCHANGED state
            /\ temp' = temp \cup {u}
        BY <3>1 DEF ResetPassword
      <4>2. /\ seen'[r] = Idle
            /\ \A q \in Request : q # r => Untouched(q) /\ (seen'[q].by = u => ~seen'[q].knows)
        BY <4>1, NewWordKeeps
      <4> QED
        BY <4>1, <4>2, GateStays
    <3>2. CASE ~ResetPassword(r, u)
      <4>1. Answered(r)
        BY <3>2 DEF CreateUser, SetUserRole, DisableUser, EnableUser, DeleteUser, ResetFactors
      <4>2. seen'[r] = Idle /\ \A q \in Request : q # r => Untouched(q)
        BY <4>1, AnsweredKeeps
      <4>3. \A v \in User : state[v] # "free" => state'[v] # "free"
        BY <3>2 DEF CreateUser, New, SetUserRole, DisableUser, EnableUser, DeleteUser,
                    ResetFactors, accounts, TypeOK
      <4>4. \A v \in temp' \ temp : state[v] = "free"
        BY <3>2 DEF CreateUser, New, SetUserRole, DisableUser, EnableUser, DeleteUser,
                    ResetFactors, accounts
      <4> QED
        BY <4>2, <4>3, <4>4, GateStays
    <3> QED
      BY <3>1, <3>2
  <2>4. CASE Cases
    <3> PICK r \in Request, c \in Case :
             \/ CreateCase(r, c)
             \/ \E new \in {"open", "closed"} : SetStatus(r, c, new)
             \/ \E u \in User : AddMember(r, c, u) \/ RemoveMember(r, c, u)
      BY <2>4 DEF Cases
    <3>1. Answered(r) /\ UNCHANGED <<state, temp>>
      BY DEF CreateCase, SetStatus, AddMember, RemoveMember, accounts
    <3>2. seen'[r] = Idle /\ \A q \in Request : q # r => Untouched(q)
      BY <3>1, AnsweredKeeps
    <3> QED
      BY <3>1, <3>2, GateStays
  <2>5. CASE Traffic
    <3>1. CASE \E r \in Request : Leave(r)
      <4> PICK r \in Request : Leave(r)
        BY <3>1
      <4>1. Answered(r) /\ UNCHANGED <<state, temp>>
        BY DEF Leave, accounts
      <4>2. seen'[r] = Idle /\ \A q \in Request : q # r => Untouched(q)
        BY <4>1, AnsweredKeeps
      <4> QED
        BY <4>1, <4>2, GateStays
    <3>2. CASE \E r \in Request, u \in User : Arrive(r, u)
      <4> PICK r \in Request, u \in User : Arrive(r, u)
        BY <3>2
      <4> DEFINE new == [by |-> u, role |-> role[u], temp |-> u \in temp, knows |-> TRUE]
      <4>1. /\ state[u] = "active"
            /\ seen' = [seen EXCEPT ![r] = new]
            /\ UNCHANGED <<state, temp>>
        BY DEF Arrive, accounts
      <4>2. new.by = u /\ (new.temp <=> u \in temp)
        OBVIOUS
      <4>3. seen'[r] = new /\ \A q \in Request : q # r => seen'[q] = seen[q]
        BY <4>1 DEF TypeOK
      <4> HIDE DEF new
      <4> SUFFICES ASSUME NEW q \in Request, seen'[q].by # None
                   PROVE  /\ state'[seen'[q].by] # "free"
                          /\ seen'[q].by \in temp' /\ seen'[q].knows => seen'[q].temp
        BY DEF GateInv
      <4>4. CASE q = r
        BY <4>1, <4>2, <4>3, <4>4
      <4>5. CASE q # r
        BY <4>1, <4>3, <4>5 DEF GateInv
      <4> QED
        BY <4>4, <4>5
    <3> QED
      BY <2>5, <3>1, <3>2 DEF Traffic
  <2>6. CASE Crash
    BY <2>6 DEF Crash, GateInv, Idle
  <2>7. CASE UNCHANGED vars
    BY <2>7 DEF vars, accounts, GateInv
  <2> QED
    BY <2>1, <2>2, <2>3, <2>4, <2>5, <2>6, <2>7 DEF Next
<1> QED
  BY <1>1, <1>2, TypeCorrect, PTL DEF Spec

\* The owner of an issued password changes nothing but the password, whatever was on its
\* way when; and nothing else of the server's sets them free of it.
THEOREM IssuedPasswordGatesHolds == Spec => IssuedPasswordGates
<1>1. TypeOK /\ GateInv /\ [Next]_vars =>
        \A r \in Request :
          seen[r].by \in temp /\ seen[r].knows /\ seen'[r] = Idle =>
            UNCHANGED <<state, role, cases>>
  <2> SUFFICES ASSUME TypeOK, GateInv, [Next]_vars, NEW r \in Request,
                      seen[r].by \in temp, seen[r].knows, seen'[r] = Idle
               PROVE  UNCHANGED <<state, role, cases>>
    OBVIOUS
  <2>1. seen[r].by \in User /\ seen[r].by # None /\ Idle.by = None
    BY PanelAssumption DEF TypeOK, Idle
  <2>2. seen[r].temp
    BY <2>1 DEF GateInv
  <2>3. ~Untouched(r)
    BY <2>1 DEF Untouched
  <2>4. ASSUME NEW q \in Request, Answered(q) PROVE q = r
    BY <2>3, <2>4, AnsweredKeeps
  <2>5. CASE Owner \/ Crash
    BY <2>5 DEF Owner, Authenticate, CreateSession, SignOut, ChangePassword, Crash, accounts, cases
  <2>6. CASE Operator
    <3> PICK u \in User : CreateAdmin(u) \/ CliUpdate(u) \/ CliDelete(u)
      BY <2>6 DEF Operator
    <3>1. ~CreateAdmin(u)
      BY <2>1 DEF CreateAdmin
    <3> QED
      BY <3>1 DEF CliUpdate, CliDelete, accounts, cases
  <2>7. CASE Accounts
    <3> PICK q \in Request, u \in User :
             \/ \E as \in FormRole : CreateUser(q, u, as) \/ SetUserRole(q, u, as)
             \/ DisableUser(q, u) \/ EnableUser(q, u) \/ DeleteUser(q, u)
             \/ ResetPassword(q, u) \/ ResetFactors(q, u)
      BY <2>7 DEF Accounts
    <3>1. CASE ResetPassword(q, u)
      BY <3>1 DEF ResetPassword, cases
    <3>2. CASE ~ResetPassword(q, u)
      <4>1. Answered(q) /\ ~seen[q].temp
        BY <3>2 DEF CreateUser, SetUserRole, DisableUser, EnableUser, DeleteUser, ResetFactors
      <4> QED
        BY <2>2, <2>4, <4>1
    <3> QED
      BY <3>1, <3>2
  <2>8. CASE Cases
    <3> PICK q \in Request, c \in Case :
             \/ CreateCase(q, c)
             \/ \E new \in {"open", "closed"} : SetStatus(q, c, new)
             \/ \E u \in User : AddMember(q, c, u) \/ RemoveMember(q, c, u)
      BY <2>8 DEF Cases
    <3>1. Answered(q) /\ ~seen[q].temp
      BY DEF CreateCase, SetStatus, AddMember, RemoveMember, WorksOn
    <3> QED
      BY <2>2, <2>4, <3>1
  <2>9. CASE Traffic \/ UNCHANGED vars
    BY <2>9 DEF Traffic, Leave, Arrive, vars, accounts, cases
  <2> QED
    BY <2>5, <2>6, <2>7, <2>8, <2>9 DEF Next
<1>2. TypeOK /\ [Next]_vars =>
        \A u \in temp \ temp' :
          \/ \E r \in Request : seen[r].by = u /\ seen[r].knows /\ seen'[r] = Idle
          \/ CliUpdate(u)
          \/ state'[u] = "deleted"
  <2> SUFFICES ASSUME TypeOK, [Next]_vars, NEW u \in temp \ temp'
               PROVE  \/ \E r \in Request : seen[r].by = u /\ seen[r].knows /\ seen'[r] = Idle
                      \/ CliUpdate(u)
                      \/ state'[u] = "deleted"
    OBVIOUS
  <2>1. CASE Owner
    <3> PICK r \in Request : ChangePassword(r)
      BY <2>1 DEF Owner, Authenticate, CreateSession, SignOut, accounts
    <3>1. seen[r].by = u /\ seen[r].knows
      BY DEF ChangePassword, KnowsWord
    <3>2. AnsweredWithNewWord(r, u)
      BY <3>1 DEF ChangePassword
    <3>3. seen'[r] = Idle
      BY <3>2, NewWordKeeps
    <3> QED
      BY <3>1, <3>3
  <2>2. CASE Operator
    <3> PICK v \in User : CreateAdmin(v) \/ CliUpdate(v) \/ CliDelete(v)
      BY <2>2 DEF Operator
    <3>1. CASE CliUpdate(v)
      <4>1. temp' = temp \ {v}
        BY <3>1 DEF CliUpdate
      <4>2. v = u
        BY <4>1
      <4> QED
        BY <3>1, <4>2
    <3> QED
      BY <3>1 DEF CreateAdmin, New, CliDelete, accounts
  <2>3. CASE Accounts
    <3> PICK q \in Request, v \in User :
             \/ \E as \in FormRole : CreateUser(q, v, as) \/ SetUserRole(q, v, as)
             \/ DisableUser(q, v) \/ EnableUser(q, v) \/ DeleteUser(q, v)
             \/ ResetPassword(q, v) \/ ResetFactors(q, v)
      BY <2>3 DEF Accounts
    <3>1. CASE DeleteUser(q, v)
      <4>1. temp' = temp \ {v} /\ state'[v] = "deleted"
        BY <3>1 DEF DeleteUser, TypeOK
      <4> QED
        BY <4>1
    <3> QED
      BY <3>1 DEF CreateUser, New, SetUserRole, DisableUser, EnableUser, ResetPassword,
                  ResetFactors, accounts
  <2>4. CASE Cases
    BY <2>4 DEF Cases, CreateCase, SetStatus, AddMember, RemoveMember, accounts
  <2>5. CASE Traffic \/ Crash \/ UNCHANGED vars
    BY <2>5 DEF Traffic, Leave, Arrive, Crash, vars, accounts
  <2> QED
    BY <2>1, <2>2, <2>3, <2>4, <2>5 DEF Next
<1> QED
  BY <1>1, <1>2, TypeCorrect, GateInvHolds, PTL DEF Spec, IssuedPasswordGates
=============================================================================
