-------------------------------- MODULE Panel --------------------------------
(***************************************************************************)
(* The accounts of the panel, who works on which case, and the forms that  *)
(* change both (services/users.ts, services/cases.ts, the case, members    *)
(* and accounts routes of http/admin.ts), with the command line beside.    *)
(*                                                                         *)
(* sessionMiddleware reads the session and the account when the headers of *)
(* a form arrive; adminsOnly and the temporary-password gate decide on     *)
(* that snapshot, the handler runs when the body is in.  An actor may have *)
(* been demoted, disabled or deleted in between.  Handlers are             *)
(* synchronous; the command line is another process and comes between the  *)
(* two statements of a sign-in, as the server comes between its own two.   *)
(* Of an account's sessions the model keeps two, one from before and one   *)
(* from after its last new password; second factors, and the recent        *)
(* confirmation the accounts page asks for on top, are SignIn's.           *)
(***************************************************************************)
EXTENDS Integers, FiniteSets

CONSTANTS
  User,      \* account ids: newId never gives one out twice
  Case,      \* case ids
  Request,   \* the forms that may be in flight at once
  None,      \* no account
  Resets,    \* the accounts an operator runs reset-password for
  Founder    \* the first account, made on the command line

ASSUME PanelAssumption ==
  /\ IsFiniteSet(User)
  /\ Founder \in User
  /\ Resets \subseteq User
  /\ None \notin User

VARIABLES
  state,     \* of the row: "free" before it exists, "active", "disabled", "deleted"
  role,      \* admins.role
  temp,      \* must_change_password: an administrator issued the password
  session,   \* the accounts that are signed in
  stale,     \* the accounts with a session from before another's hand replaced the password
  signing,   \* a sign-in between authenticate and createSession
  resetting, \* the accounts whose reset-password stands between its statements
  status,    \* of each case: "none" before it exists, "open", "closed"
  member,    \* case_members
  seen       \* the requests in flight: the session as it was at their headers

accounts == <<state, role, temp>>
sessions == <<session, stale>>
halfway == <<signing, resetting>>
cases == <<status, member>>
vars == <<accounts, sessions, halfway, cases, seen>>

Role == {"admin", "user"}
\* knows: the account's password was not replaced since the headers.
Snapshot == [by : User \cup {None}, role : Role, temp : BOOLEAN, knows : BOOLEAN]
Idle == [by |-> None, role |-> "user", temp |-> FALSE, knows |-> FALSE]

TypeOK ==
  /\ state \in [User -> {"free", "active", "disabled", "deleted"}]
  /\ role \in [User -> Role]
  /\ temp \subseteq User
  /\ session \subseteq User
  /\ stale \subseteq User
  /\ signing \in User \cup {None}
  /\ resetting \subseteq User
  /\ status \in [Case -> {"none", "open", "closed"}]
  /\ member \in [Case -> SUBSET User]
  /\ seen \in [Request -> Snapshot]

Init ==
  /\ state = [u \in User |-> IF u = Founder THEN "active" ELSE "free"]
  /\ role = [u \in User |-> IF u = Founder THEN "admin" ELSE "user"]
  /\ temp = {}
  /\ session = {}
  /\ stale = {}
  /\ signing = None
  /\ resetting = {}
  /\ status = [c \in Case |-> "none"]
  /\ member = [c \in Case |-> {}]
  /\ seen = [r \in Request |-> Idle]

-----------------------------------------------------------------------------
(* Accounts *)

Exists(u) == state[u] \in {"active", "disabled"}
ActiveAdmin(u) == state[u] = "active" /\ role[u] = "admin"

\* Mutant: disabled administrators are counted too.
AnyAdminsOtherThan(u) == {v \in User \ {u} : Exists(v) /\ role[v] = "admin"}

ActiveAdminsOtherThan(u) == {v \in User \ {u} : ActiveAdmin(v)}

\* May this account stop being an administrator?
KeepsAnAdmin(u) == role[u] # "admin" \/ ActiveAdminsOtherThan(u) # {}

\* DELETE FROM sessions WHERE admin_id = ?
End(u) ==
  /\ session' = session \ {u}
  /\ stale' = stale \ {u}

\* The sessions there are began with another password now.
Outdate(u) ==
  /\ session' = session \ {u}
  /\ stale' = stale \cup ({u} \cap session)

\* Mutant: a new password leaves the sessions alone.
OutliveWord(u) == Outdate(u)

\* What a password issued by an administrator does to the sessions.
EndAll(u) == End(u)

\* Nobody changes their own account.
Target(r, u) == Exists(u) /\ u # seen[r].by

-----------------------------------------------------------------------------
(* Requests *)

\* Nothing else of the server runs inside a sign-in.
Serving == signing = None

\* sessionMiddleware and requireAdmin, when the headers of a form have arrived.
\* A disabled account's session does not count (getSession).
Arrive(r, u) ==
  /\ Serving
  /\ seen[r] = Idle
  /\ u \in session \cup stale
  /\ state[u] = "active"
  /\ seen' = [seen EXCEPT ![r] =
       [by |-> u, role |-> role[u], temp |-> u \in temp, knows |-> TRUE]]
  /\ UNCHANGED <<accounts, sessions, halfway, cases>>

Answered(r) == seen' = [seen EXCEPT ![r] = Idle]

\* A form of the owner's that is on its way holds the password of before.
Outdated(r, u) ==
  IF seen[r].by = u THEN [seen[r] EXCEPT !.knows = FALSE] ELSE seen[r]
AnsweredWithNewWord(r, u) ==
  seen' = [q \in Request |-> IF q = r THEN Idle ELSE Outdated(q, u)]

SignedIn(r) == Serving /\ seen[r].by # None

\* Behind the gate for passwords an administrator issued.
Admitted(r) == SignedIn(r) /\ ~seen[r].temp

\* adminsOnly
Manages(r) == Admitted(r) /\ seen[r].role = "admin"

\* A refusal, or a body that never comes.
Leave(r) ==
  /\ SignedIn(r)
  /\ Answered(r)
  /\ UNCHANGED <<accounts, sessions, halfway, cases>>

-----------------------------------------------------------------------------
(* The owner's side: signing in, replacing a password *)

\* authenticate: the row is read, the password hashed; a disabled account is refused.
Authenticate(u) ==
  /\ Serving
  /\ state[u] = "active"
  /\ signing' = u
  /\ UNCHANGED <<accounts, sessions, resetting, cases, seen>>

\* createSession, whatever the password is by now.
CreateSession ==
  /\ signing # None
  /\ session' = session \cup {signing}
  /\ signing' = None
  /\ UNCHANGED <<accounts, stale, resetting, cases, seen>>

\* Logout and expiry, of the one session or the other.
SignOut(u) ==
  /\ Serving
  /\ \/ u \in session /\ session' = session \ {u} /\ UNCHANGED stale
     \/ u \in stale /\ stale' = stale \ {u} /\ UNCHANGED session
  /\ UNCHANGED <<accounts, halfway, cases, seen>>

\* Mutant: the current password is judged at the headers.
KnewWord(r) == TRUE

\* verifyPassword of what the form holds, against the row as it is.
KnowsWord(r) == seen[r].knows

\* changeAdminPassword and destroyOtherSessions: the sender's session stays, be it
\* the one or the other.
ChangePassword(r) ==
  LET u == seen[r].by
  IN  /\ SignedIn(r)
      /\ Exists(u)
      /\ KnowsWord(r)
      /\ temp' = temp \ {u}
      /\ \/ stale' = stale \ {u} /\ UNCHANGED session
         \/ session' = session \ {u} /\ UNCHANGED stale
      /\ AnsweredWithNewWord(r, u)
      /\ UNCHANGED <<state, role, halfway, cases>>

-----------------------------------------------------------------------------
(* The accounts page *)

\* isRole
FormRole == {"admin", "user"}

\* A row of createAdmin.
New(u, as, must) ==
  /\ state[u] = "free"
  /\ state' = [state EXCEPT ![u] = "active"]
  /\ role' = [role EXCEPT ![u] = as]
  /\ temp' = IF must THEN temp \cup {u} ELSE temp

\* create-admin on the command line: the operator typed the password.
CreateAdmin(u) ==
  /\ New(u, "admin", FALSE)
  /\ UNCHANGED <<sessions, halfway, cases, seen>>

CreateUser(r, u, as) ==
  /\ Manages(r)
  /\ New(u, as, TRUE)
  /\ Answered(r)
  /\ UNCHANGED <<sessions, halfway, cases>>

\* Assignments are kept, whichever way the role goes.
SetUserRole(r, u, as) ==
  /\ Manages(r)
  /\ Target(r, u)
  /\ as = "admin" \/ KeepsAnAdmin(u)
  /\ role' = [role EXCEPT ![u] = as]
  /\ Answered(r)
  /\ UNCHANGED <<state, temp, sessions, halfway, cases>>

\* What disabling does to the sessions.
Ends(u) == End(u)

DisableUser(r, u) ==
  /\ Manages(r)
  /\ Target(r, u)
  /\ KeepsAnAdmin(u)
  /\ state' = [state EXCEPT ![u] = "disabled"]
  /\ Ends(u)
  /\ Answered(r)
  /\ UNCHANGED <<role, temp, halfway, cases>>

EnableUser(r, u) ==
  /\ Manages(r)
  /\ Target(r, u)
  /\ state' = [state EXCEPT ![u] = "active"]
  /\ Answered(r)
  /\ UNCHANGED <<role, temp, sessions, halfway, cases>>

\* A new temporary password, shown once.
ResetPassword(r, u) ==
  /\ Manages(r)
  /\ Target(r, u)
  /\ temp' = temp \cup {u}
  /\ EndAll(u)
  /\ AnsweredWithNewWord(r, u)
  /\ UNCHANGED <<state, role, halfway, cases>>

\* Every second factor goes, and the sessions with them.
ResetFactors(r, u) ==
  /\ Manages(r)
  /\ Target(r, u)
  /\ End(u)
  /\ Answered(r)
  /\ UNCHANGED <<accounts, halfway, cases>>

\* reset-password on the command line, the first statement of setAdminPassword ...
CliUpdate(u) ==
  /\ u \in Resets
  /\ Exists(u)
  /\ temp' = temp \ {u}
  /\ resetting' = resetting \cup {u}
  /\ Outdate(u)
  /\ seen' = [r \in Request |-> Outdated(r, u)]
  /\ UNCHANGED <<state, role, signing, cases>>

\* ... and the second.
CliDelete(u) ==
  /\ u \in resetting
  /\ resetting' = resetting \ {u}
  /\ End(u)
  /\ UNCHANGED <<accounts, signing, cases, seen>>

\* The sessions and the assignments go with the row (ON DELETE CASCADE).
DeleteUser(r, u) ==
  /\ Manages(r)
  /\ Target(r, u)
  /\ KeepsAnAdmin(u)
  /\ state' = [state EXCEPT ![u] = "deleted"]
  /\ temp' = temp \ {u}
  /\ End(u)
  /\ member' = [c \in Case |-> member[c] \ {u}]
  /\ Answered(r)
  /\ UNCHANGED <<role, halfway, status>>

-----------------------------------------------------------------------------
(* Cases and the people on them *)

\* caseFor: the role as it was at the headers, the assignment as it is.
CanAccess(viewer, c) ==
  /\ status[c] # "none"
  /\ viewer.role = "admin" \/ viewer.by \in member[c]

\* Mutant: any case that exists will do.
AnyWorker(r, c) == Admitted(r) /\ status[c] # "none"

WorksOn(r, c) == Admitted(r) /\ CanAccess(seen[r], c)

\* A user who opens a case works on it.  The row of the case is committed first:
\* an account deleted meanwhile is refused by the foreign key of the second.
CreateCase(r, c) ==
  LET u == seen[r].by
  IN  /\ Admitted(r)
      /\ status[c] = "none"
      /\ status' = [status EXCEPT ![c] = "open"]
      /\ member' = [member EXCEPT ![c] = IF seen[r].role # "admin" /\ Exists(u)
                                         THEN @ \cup {u} ELSE @]
      /\ Answered(r)
      /\ UNCHANGED <<accounts, sessions, halfway>>

\* updateCase through the status form (links and sessions: see Delivery).
SetStatus(r, c, new) ==
  /\ WorksOn(r, c)
  /\ status' = [status EXCEPT ![c] = new]
  /\ Answered(r)
  /\ UNCHANGED <<accounts, sessions, halfway, member>>

\* The handler asks of the account what assignableUsers selects by.
AddMember(r, c, u) ==
  /\ WorksOn(r, c)
  /\ state[u] = "active" /\ role[u] = "user"
  /\ member' = [member EXCEPT ![c] = @ \cup {u}]
  /\ Answered(r)
  /\ UNCHANGED <<accounts, sessions, halfway, status>>

RemoveMember(r, c, u) ==
  /\ WorksOn(r, c)
  /\ u # seen[r].by
  /\ u \in member[c]
  /\ member' = [member EXCEPT ![c] = @ \ {u}]
  /\ Answered(r)
  /\ UNCHANGED <<accounts, sessions, halfway, status>>

-----------------------------------------------------------------------------
(* The next-state relation *)

Owner ==
  \/ \E u \in User : Authenticate(u) \/ SignOut(u)
  \/ CreateSession
  \/ \E r \in Request : ChangePassword(r)

Operator == \E u \in User : CreateAdmin(u) \/ CliUpdate(u) \/ CliDelete(u)

Accounts ==
  \E r \in Request, u \in User :
     \/ \E as \in FormRole : CreateUser(r, u, as) \/ SetUserRole(r, u, as)
     \/ DisableUser(r, u) \/ EnableUser(r, u) \/ DeleteUser(r, u)
     \/ ResetPassword(r, u) \/ ResetFactors(r, u)

Cases ==
  \E r \in Request, c \in Case :
     \/ CreateCase(r, c)
     \/ \E new \in {"open", "closed"} : SetStatus(r, c, new)
     \/ \E u \in User : AddMember(r, c, u) \/ RemoveMember(r, c, u)

Traffic == \E r \in Request : Leave(r) \/ \E u \in User : Arrive(r, u)

\* The server dies, and with it what it had begun.
Crash ==
  /\ signing' = None
  /\ seen' = [r \in Request |-> Idle]
  /\ UNCHANGED <<accounts, sessions, resetting, cases>>

Next == Owner \/ Operator \/ Accounts \/ Cases \/ Traffic \/ Crash

Spec == Init /\ [][Next]_vars

-----------------------------------------------------------------------------
(* Properties *)

\* "The instance always keeps at least one active administrator": whoever
\* demotes, disables or deletes whom, from forms judged by what their senders
\* were when the headers arrived (activeAdminsOtherThan in services/users.ts).
AlwaysAnAdmin == \E u \in User : ActiveAdmin(u)

\* A session is of an active account, and those that were there when another's hand
\* replaced the password are gone, but for a reset-password that stands between
\* its two statements (setUserDisabled, deleteUser, resetUserPassword,
\* setAdminPassword: "existing sessions were revoked").
SessionsInForce ==
  /\ \A u \in session \cup stale : state[u] = "active"
  /\ stale \subseteq resetting

\* Whoever holds a password an administrator issued changes nothing with it but
\* the password itself, and is set free by nothing but a form of their own that
\* holds the issued password, or by the operator: not by one that was on its way
\* when it was issued (the gate before caseFor, changeAdminPassword;
\* docs/security-model.md: "that its owner must replace before they can do
\* anything else").
IssuedPasswordGates ==
  [][/\ \A r \in Request :
          seen[r].by \in temp /\ seen[r].knows /\ seen'[r] = Idle =>
            UNCHANGED <<state, role, cases>>
     /\ \A u \in temp \ temp' :
          \/ \E r \in Request : seen[r].by = u /\ seen[r].knows /\ seen'[r] = Idle
          \/ CliUpdate(u)
          \/ state'[u] = "deleted"]_vars

\* A form that was on its way when its sender was taken off the case, or
\* deleted, changes nothing of the case any more: only an administrator's role
\* is judged as of the headers (canAccessCase).
RemovedIsOut ==
  [][\A r \in Request, c \in Case :
       /\ seen[r].by # None /\ seen'[r] = Idle
       /\ seen[r].role = "user" /\ seen[r].by \notin member[c]
       /\ status[c] # "none"
       => status'[c] = status[c] /\ member'[c] = member[c]]_vars
=============================================================================
