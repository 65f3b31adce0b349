------------------------------- MODULE SignIn -------------------------------
(***************************************************************************)
(* One account of the panel: its password, its second factors (an          *)
(* authenticator app, passkeys, recovery codes), its sessions, and the     *)
(* forms that change them (services/auth.ts, services/passkeys.ts, the     *)
(* sign-in and security pages of http/admin.ts, the two commands of the    *)
(* CLI that reset an account).                                             *)
(*                                                                         *)
(* sessionMiddleware reads the session and the account before the body of  *)
(* a form has arrived; the handler runs after it.  A request in flight is  *)
(* the snapshot taken at its headers, and every handler below acts on that *)
(* snapshot and on whatever it reads itself.  Handlers are synchronous:    *)
(* only the command line, another process, gets between two statements of  *)
(* the server, and only outside a transaction.  That is modelled where the *)
(* gap is wide, between reading the account and inserting the session of a *)
(* sign-in (the password is hashed there), and inside reset-password.      *)
(***************************************************************************)
EXTENDS Integers, FiniteSets

CONSTANTS
  Session,      \* what newSessionId() gives out
  Request,      \* the forms that may be in flight at once
  Key,          \* passkeys the owner may present
  None,         \* no session
  RequireTotp,  \* ADMIN_REQUIRE_TOTP
  MaxAttempts,  \* MAX_TOTP_ATTEMPTS
  LockAfter,    \* TOTP_ACCOUNT_LOCK_THRESHOLD
  MaxKeys,      \* MAX_PASSKEYS
  Batch,        \* recovery codes of one batch, by number
  CliRuns,      \* the commands an operator runs: "password", "factors"
  CrashIn,      \* the handlers the process may die in the middle of
  MaxStep, MaxSecrets, MaxBatches, MaxPasswords   \* bounds of the instance

ASSUME SignInAssumption ==
  /\ None \notin Session
  /\ RequireTotp \in BOOLEAN
  /\ {MaxAttempts, LockAfter} \subseteq Nat \ {0}
  /\ Batch \subseteq Nat
  /\ CliRuns \subseteq {"password", "factors"}
  /\ CrashIn \subseteq {"enrol", "passkey", "password"}
  /\ {MaxKeys, MaxStep, MaxSecrets, MaxBatches, MaxPasswords} \subseteq Nat
  /\ IsFiniteSet(Key)

VARIABLES
  password,   \* which password is the account's
  totp,       \* the authenticator: "off", "pending", "on"
  secret,     \* which totp_secret is stored: the last one generated
  lastStep,   \* totp_last_step
  recovery,   \* the unused rows of admin_recovery_codes
  batch,      \* batches of recovery codes generated so far
  keys,       \* admin_passkeys
  failed,     \* totp_failed_count
  lock,       \* "shut" while totp_locked_until lies ahead
  live,       \* the rows of sessions
  row,        \* what they hold
  seen,       \* the requests in flight: the session as it was at their headers
  signing,    \* a sign-in between authenticate and createSession
  cli,        \* the command line: "idle", "resetting"
  step,       \* totpStep(now)
  used,       \* the codes the program has accepted
  misses      \* wrong codes at sign-in or confirmation since the last right one

account == <<password, totp, secret, lastStep, recovery, batch, keys>>
guard == <<failed, lock, misses>>
sessions == <<live, row>>
process == <<signing, cli, step>>
vars == <<account, guard, sessions, process, seen, used>>

NoStep == -1
Purpose == {"none", "login", "confirm", "register"}

\* The last four are history: was the pending challenge answered before, has this
\* session proved a factor, which password did it start from, and which one was the
\* account's when it was inserted.
Row == [verified : BOOLEAN, attempts : 0..(MaxAttempts - 1), confirmed : BOOLEAN,
        purpose : Purpose, answered : BOOLEAN, proved : BOOLEAN, signed : Nat, born : Nat]
Blank == [verified |-> FALSE, attempts |-> 0, confirmed |-> FALSE,
          purpose |-> "none", answered |-> FALSE, proved |-> FALSE, signed |-> 0, born |-> 0]

Snapshot == [sid : Session \cup {None}, complete : BOOLEAN, totpEnabled : BOOLEAN,
             passkeys : Nat, confirmed : BOOLEAN]
Idle == [sid |-> None, complete |-> FALSE, totpEnabled |-> FALSE, passkeys |-> 0,
         confirmed |-> FALSE]

NotSigning == [on |-> FALSE, with |-> 0, second |-> FALSE]

Code == [kind : {"totp", "recovery"}, of : Nat, n : Int]

TypeOK ==
  /\ password \in Nat
  /\ totp \in {"off", "pending", "on"}
  /\ secret \in Nat
  /\ lastStep \in Int
  /\ recovery \subseteq Code
  /\ batch \in Nat
  /\ keys \subseteq Key
  /\ failed \in Nat
  /\ lock \in {"open", "shut"}
  /\ live \subseteq Session
  /\ row \in [Session -> Row]
  /\ seen \in [Request -> Snapshot]
  /\ signing \in [on : BOOLEAN, with : Nat, second : BOOLEAN]
  /\ cli \in {"idle", "resetting"}
  /\ step \in Nat
  /\ used \subseteq Code
  /\ misses \in Nat

Init ==
  /\ password = 0
  /\ totp = "off"
  /\ secret = 0
  /\ lastStep = NoStep
  /\ recovery = {}
  /\ batch = 0
  /\ keys = {}
  /\ failed = 0
  /\ lock = "open"
  /\ live = {}
  /\ row = [s \in Session |-> Blank]
  /\ seen = [r \in Request |-> Idle]
  /\ signing = NotSigning
  /\ cli = "idle"
  /\ step = 1
  /\ used = {}
  /\ misses = 0

-----------------------------------------------------------------------------
(* Factors and codes *)

HasFactor == totp = "on" \/ keys # {}

\* What getSession calls totpVerified.
Complete(s) == ~HasFactor \/ row[s].verified

Totp(n) == [kind |-> "totp", of |-> secret, n |-> n]
Window == (step - 1)..(step + 1)

\* Mutant: the replay guard is off by one.
AuthenticatorAgain == {Totp(n) : n \in {k \in Window : totp = "on" /\ k >= lastStep}}

\* The codes of the app that sign in, confirm, regenerate and disable.
Authenticator == {Totp(n) : n \in {k \in Window : totp = "on" /\ k > lastStep}}

\* The codes that finish an enrolment.
Enrolling == {Totp(n) : n \in {k \in Window : totp = "pending"}}

FreshCodes == {[kind |-> "recovery", of |-> batch + 1, n |-> n] : n \in Batch}

\* replaceRecoveryCodes
ReplaceCodes ==
  /\ batch < MaxBatches
  /\ batch' = batch + 1
  /\ recovery' = FreshCodes

\* Mutant: recovery codes outlive the last factor.
KeptForever(authenticator, passkeys, codes) == codes

\* dropRecoveryCodesIfUnused
Kept(authenticator, passkeys, codes) ==
  IF authenticator = "on" \/ passkeys # {} THEN codes ELSE {}

\* A code is accepted: the step is remembered, the recovery code is spent.
Accept(c) ==
  /\ used' = used \cup {c}
  /\ IF c.kind = "totp"
     THEN lastStep' = c.n /\ UNCHANGED recovery
     ELSE recovery' = recovery \ {c} /\ UNCHANGED lastStep

-----------------------------------------------------------------------------
(* Sessions *)

\* UPDATE sessions: no row, no effect.
Written(s, r) == IF s \in live THEN [row EXCEPT ![s] = r] ELSE row

\* DELETE FROM sessions, after the rows were changed to r.
End(gone, r) ==
  /\ live' = live \ gone
  /\ row' = [s \in Session |-> IF s \in gone THEN Blank ELSE r[s]]

\* Mutant: only pending sessions are ended.
OtherPending(s) == {t \in live : t # s /\ ~row[t].verified}
\* Mutant: only complete sessions are ended.
OtherComplete(s) == {t \in live : t # s /\ row[t].verified}

\* destroyOtherSessions, endSessions
Others(s) == live \ {s}

Pending == {s \in live : ~row[s].verified}

\* A random id: neither in the table nor in a request's cookie.
Unused == {s \in Session : s \notin live /\ \A r \in Request : seen[r].sid # s}

\* A row of createSession, confirmed by the sign-in that completes it.
NewRow(complete, proved, with, under) ==
  [verified |-> complete, attempts |-> 0, confirmed |-> complete,
   purpose |-> "none", answered |-> FALSE, proved |-> proved, signed |-> with,
   born |-> under]

\* completeSecondFactor and signedIn: the pending row makes room for a new one.
Replace(s, t) ==
  /\ t \in Unused
  /\ live' = (live \ {s}) \cup {t}
  /\ row' = [u \in Session |->
               IF u = t THEN NewRow(TRUE, TRUE, row[s].signed, row[s].born)
               ELSE IF u = s THEN Blank ELSE row[u]]
  /\ failed' = 0
  /\ lock' = "open"
  /\ misses' = 0

\* Mutant: the threshold is compared before the miss is counted.
FailTooLate == failed >= LockAfter

\* Is this the miss that locks the account?
FailLast == failed + 1 >= LockAfter

\* Is this the miss that ends the session?
Spent(s) == row[s].attempts + 1 >= MaxAttempts

\* recordTotpFailure
CountMiss ==
  IF FailLast
  THEN failed' = 0 /\ lock' = "shut" /\ misses' = 0
  ELSE failed' = failed + 1 /\ misses' = misses + 1 /\ UNCHANGED lock

-----------------------------------------------------------------------------
(* Requests *)

\* The server is synchronous: nothing else of it runs inside a sign-in.
Serving == ~signing.on

\* sessionMiddleware, when the headers of a form have arrived.
Arrive(r, s) ==
  /\ Serving
  /\ seen[r] = Idle
  /\ s \in live
  /\ seen' = [seen EXCEPT ![r] =
       [sid |-> s, complete |-> Complete(s), totpEnabled |-> totp = "on",
        passkeys |-> Cardinality(keys), confirmed |-> row[s].confirmed]]
  /\ UNCHANGED <<account, guard, sessions, process, used>>

\* The handlers behind requireAdmin, with and without the second factor.
AnySession(r) == Serving /\ seen[r].sid # None
PendingOnly(r) == AnySession(r) /\ ~seen[r].complete
SignedIn(r) == AnySession(r) /\ seen[r].complete
Confirmed(r) == SignedIn(r) /\ seen[r].confirmed

Answered(r) == seen' = [seen EXCEPT ![r] = Idle]
Die == seen' = [r \in Request |-> Idle]

\* A refusal, a body that never comes, a page that changes nothing.
Leave(r) ==
  /\ AnySession(r)
  /\ Answered(r)
  /\ UNCHANGED <<account, guard, sessions, process, used>>

-----------------------------------------------------------------------------
(* Signing in *)

\* authenticate: the account is read, then the password is hashed.
Authenticate ==
  /\ Serving
  /\ signing' = [on |-> TRUE, with |-> password, second |-> HasFactor]
  /\ UNCHANGED <<account, guard, sessions, cli, step, seen, used>>

\* Mutant: a session is complete whether or not the account has a factor.
CompleteAtOnce == TRUE

\* createSession: without a second factor the session is complete at once.
NeedsNoFactor == ~signing.second

\* createSession, and markConfirmed for a complete one.
CreateSession ==
  /\ signing.on
  /\ \E s \in Unused :
       /\ live' = live \cup {s}
       /\ row' = [row EXCEPT ![s] = NewRow(NeedsNoFactor, FALSE, signing.with, password)]
  /\ signing' = NotSigning
  /\ UNCHANGED <<account, guard, cli, step, seen, used>>

\* A code at sign-in that fits: the session id is rotated.
TypeCode(r, c) ==
  /\ PendingOnly(r)
  /\ seen[r].sid \in live
  /\ HasFactor
  /\ lock = "open"
  /\ Accept(c)
  /\ \E t \in Session : Replace(seen[r].sid, t)
  /\ Answered(r)
  /\ UNCHANGED <<password, totp, secret, batch, keys, process>>

\* One that does not: counted against the account, then against the session.
MissCode(r) ==
  LET s == seen[r].sid
  IN  /\ PendingOnly(r)
      /\ s \in live
      /\ HasFactor
      /\ lock = "open"
      /\ CountMiss
      /\ IF FailLast THEN End(Pending, row)
         ELSE IF Spent(s) THEN End({s}, row)
         ELSE /\ row' = [row EXCEPT ![s].attempts = @ + 1]
              /\ UNCHANGED live
      /\ Answered(r)
      /\ UNCHANGED <<account, process, used>>

\* A challenge replaces the pending one of the session.
BeginCeremony(s, purpose) ==
  row' = Written(s, [row[s] EXCEPT !.purpose = purpose, !.answered = FALSE])

\* The challenge of the session, when it is pending for this purpose.
Pends(s, purpose) == s \in live /\ row[s].purpose = purpose

\* Mutant: a failed answer rolls back, and the challenge with it.
RolledBack(s) == Written(s, [row[s] EXCEPT !.answered = TRUE])

\* takeChallenge, committed with whatever came of it.
Taken(s) == Written(s, [row[s] EXCEPT !.purpose = "none", !.answered = FALSE])

LoginOptions(r) ==
  /\ PendingOnly(r)
  /\ keys # {}
  /\ BeginCeremony(seen[r].sid, "login")
  /\ Answered(r)
  /\ UNCHANGED <<account, guard, live, process, used>>

\* verifyPasskeyLogin with one of the account's passkeys.
PasskeyLogin(r) ==
  /\ PendingOnly(r)
  /\ Pends(seen[r].sid, "login")
  /\ keys # {}
  /\ \E t \in Session : Replace(seen[r].sid, t)
  /\ Answered(r)
  /\ UNCHANGED <<account, process, used>>

\* ... or with anything else.
FailLogin(r) ==
  /\ PendingOnly(r)
  /\ row' = Taken(seen[r].sid)
  /\ Answered(r)
  /\ UNCHANGED <<account, guard, live, process, used>>

Logout(r) ==
  /\ AnySession(r)
  /\ End({seen[r].sid}, row)
  /\ Answered(r)
  /\ UNCHANGED <<account, guard, process, used>>

-----------------------------------------------------------------------------
(* Confirming a sensitive action *)

\* markConfirmed
MarkConfirmed(s) == row' = Written(s, [row[s] EXCEPT !.confirmed = TRUE])

\* verifyConfirmCode: only a code of the app clears the account's counter.
ConfirmCode(r, c) ==
  /\ SignedIn(r)
  /\ lock = "open"
  /\ Accept(c)
  /\ failed' = IF c.kind = "totp" THEN 0 ELSE failed
  /\ misses' = 0
  /\ MarkConfirmed(seen[r].sid)
  /\ Answered(r)
  /\ UNCHANGED <<password, totp, secret, batch, keys, lock, live, process>>

\* The miss that locks ends the account's pending sessions.
MissConfirm(r) ==
  /\ SignedIn(r)
  /\ lock = "open"
  /\ CountMiss
  /\ IF FailLast THEN End(Pending, row) ELSE UNCHANGED sessions
  /\ Answered(r)
  /\ UNCHANGED <<account, process, used>>

\* Only an account that had no factor at the headers confirms with its password.
ConfirmPassword(r) ==
  /\ SignedIn(r)
  /\ ~seen[r].totpEnabled
  /\ seen[r].passkeys = 0
  /\ MarkConfirmed(seen[r].sid)
  /\ Answered(r)
  /\ UNCHANGED <<account, guard, live, process, used>>

ConfirmOptions(r) ==
  /\ SignedIn(r)
  /\ keys # {}
  /\ BeginCeremony(seen[r].sid, "confirm")
  /\ Answered(r)
  /\ UNCHANGED <<account, guard, live, process, used>>

\* verifyPasskeyConfirm, then markConfirmed.
ConfirmPasskey(r) ==
  /\ SignedIn(r)
  /\ Pends(seen[r].sid, "confirm")
  /\ keys # {}
  /\ row' = [row EXCEPT ![seen[r].sid].purpose = "none",
                        ![seen[r].sid].answered = FALSE,
                        ![seen[r].sid].confirmed = TRUE]
  /\ Answered(r)
  /\ UNCHANGED <<account, guard, live, process, used>>

FailConfirm(r) ==
  /\ SignedIn(r)
  /\ row' = Taken(seen[r].sid)
  /\ Answered(r)
  /\ UNCHANGED <<account, guard, live, process, used>>

-----------------------------------------------------------------------------
(* The security page *)

\* The handler runs to its end and is answered, or the process dies before
\* the other sessions have been ended.
EndOthers(handler, r, changed) ==
  \/ End(Others(seen[r].sid), changed) /\ Answered(r)
  \/ handler \in CrashIn /\ live' = live /\ row' = changed /\ Die

\* changeAdminPassword, with the right current password.  The session that
\* asked for it goes on under the new one.
ChangePassword(r) ==
  LET s == seen[r].sid
  IN  /\ SignedIn(r)
      /\ password < MaxPasswords
      /\ password' = password + 1
      /\ EndOthers("password", r,
                   Written(s, [row[s] EXCEPT !.signed = password + 1, !.born = password + 1]))
      /\ UNCHANGED <<totp, secret, lastStep, recovery, batch, keys, guard, process, used>>

BeginTotp(r) ==
  /\ Confirmed(r)
  /\ totp # "on"
  /\ secret < MaxSecrets
  /\ secret' = secret + 1
  /\ totp' = "pending"
  /\ lastStep' = NoStep
  /\ Answered(r)
  /\ UNCHANGED <<password, recovery, batch, keys, guard, sessions, process, used>>

\* confirmTotpEnrolment marks every session of the account as verified; those
\* that did not prove the factor are ended by the next statement.
ConfirmTotp(r, c) ==
  LET s == seen[r].sid
      verified == [t \in Session |->
                     IF t \in live THEN [row[t] EXCEPT !.verified = TRUE,
                                                       !.proved = @ \/ t = s]
                                   ELSE row[t]]
  IN  /\ SignedIn(r)
      /\ c \in Enrolling
      /\ totp' = "on"
      /\ lastStep' = c.n
      /\ used' = used \cup {c}
      /\ ReplaceCodes
      /\ EndOthers("enrol", r, verified)
      /\ UNCHANGED <<password, secret, keys, guard, process>>

\* regenerateRecoveryCodes: by a code of the app.
RegenerateByCode(r, c) ==
  /\ SignedIn(r)
  /\ c \in Authenticator
  /\ lastStep' = c.n
  /\ used' = used \cup {c}
  /\ ReplaceCodes
  /\ Answered(r)
  /\ UNCHANGED <<password, totp, secret, keys, guard, sessions, process>>

\* regenerateRecoveryCodesConfirmed
Regenerate(r) ==
  /\ Confirmed(r)
  /\ HasFactor
  /\ ReplaceCodes
  /\ Answered(r)
  /\ UNCHANGED <<password, totp, secret, lastStep, keys, guard, sessions, process, used>>

\* Does the page allow the authenticator to go?  By the snapshot.
MayDisable(q) == ~(RequireTotp /\ q.passkeys = 0)

\* disableTotp, by a code of the app or a recovery code.
DisableTotp(r, c) ==
  /\ SignedIn(r)
  /\ MayDisable(seen[r])
  /\ totp = "on"
  /\ used' = used \cup {c}
  /\ totp' = "off"
  /\ lastStep' = NoStep
  /\ recovery' = Kept("off", keys, recovery \ {c})
  /\ failed' = 0
  /\ lock' = "open"
  /\ misses' = 0
  /\ End(Others(seen[r].sid), row)
  /\ Answered(r)
  /\ UNCHANGED <<password, secret, batch, keys, process>>

RegisterOptions(r) ==
  /\ Confirmed(r)
  /\ Cardinality(keys) < MaxKeys
  /\ BeginCeremony(seen[r].sid, "register")
  /\ Answered(r)
  /\ UNCHANGED <<account, guard, live, process, used>>

\* registerPasskey, the end of the other sessions, and recovery codes when the
\* snapshot had no factor: three commits.
AddPasskey(r, k) ==
  LET s == seen[r].sid
      proved == [row EXCEPT ![s].purpose = "none", ![s].answered = FALSE,
                            ![s].verified = TRUE, ![s].proved = TRUE]
      first == ~seen[r].totpEnabled /\ seen[r].passkeys = 0
  IN  /\ Confirmed(r)
      /\ Pends(s, "register")
      /\ k \notin keys
      /\ Cardinality(keys) < MaxKeys
      /\ keys' = keys \cup {k}
      /\ \/ /\ End(Others(s), proved)
            /\ IF first THEN ReplaceCodes ELSE UNCHANGED <<batch, recovery>>
            /\ Answered(r)
         \/ /\ "passkey" \in CrashIn
            /\ End(Others(s), proved) \/ (live' = live /\ row' = proved)
            /\ UNCHANGED <<batch, recovery>>
            /\ Die
      /\ UNCHANGED <<password, totp, secret, lastStep, guard, process, used>>

\* An answer that does not check out rolls the transaction back.
FailRegister(r) ==
  /\ Confirmed(r)
  /\ Pends(seen[r].sid, "register")
  /\ row' = [row EXCEPT ![seen[r].sid].answered = TRUE]
  /\ Answered(r)
  /\ UNCHANGED <<account, guard, live, process, used>>

\* Does the page allow a passkey to go?  By the snapshot.
MayRemove(q) == ~(RequireTotp /\ ~q.totpEnabled /\ q.passkeys <= 1)

RemovePasskey(r, k) ==
  /\ Confirmed(r)
  /\ MayRemove(seen[r])
  /\ k \in keys
  /\ keys' = keys \ {k}
  /\ recovery' = Kept(totp, keys \ {k}, recovery)
  /\ End(Others(seen[r].sid), row)
  /\ Answered(r)
  /\ UNCHANGED <<password, totp, secret, lastStep, batch, guard, process, used>>

RevokeOthers(r) ==
  /\ SignedIn(r)
  /\ End(Others(seen[r].sid), row)
  /\ Answered(r)
  /\ UNCHANGED <<account, guard, process, used>>

RevokeSession(r, t) ==
  /\ SignedIn(r)
  /\ t \in Others(seen[r].sid)
  /\ End({t}, row)
  /\ Answered(r)
  /\ UNCHANGED <<account, guard, process, used>>

-----------------------------------------------------------------------------
(* Other administrators and the command line *)

\* resetUserPassword: one transaction.
ResetPassword ==
  /\ Serving
  /\ password < MaxPasswords
  /\ password' = password + 1
  /\ End(live, row)
  /\ UNCHANGED <<totp, secret, lastStep, recovery, batch, keys, guard, process, seen, used>>

\* resetSecondFactors: from the list of users, or disable-totp.
ResetFactors ==
  /\ Serving \/ "factors" \in CliRuns
  /\ totp' = "off"
  /\ lastStep' = NoStep
  /\ keys' = {}
  /\ recovery' = {}
  /\ failed' = 0
  /\ lock' = "open"
  /\ misses' = 0
  /\ End(live, row)
  /\ UNCHANGED <<password, secret, batch, process, seen, used>>

\* reset-password, first statement of setAdminPassword ...
CliUpdate ==
  /\ "password" \in CliRuns
  /\ cli = "idle"
  /\ password < MaxPasswords
  /\ password' = password + 1
  /\ cli' = "resetting"
  /\ UNCHANGED <<totp, secret, lastStep, recovery, batch, keys, guard, sessions,
                 signing, step, seen, used>>

\* ... and the second.
CliDelete ==
  /\ cli = "resetting"
  /\ cli' = "idle"
  /\ End(live, row)
  /\ UNCHANGED <<account, guard, signing, step, seen, used>>

-----------------------------------------------------------------------------
(* Time *)

Tick ==
  /\ step < MaxStep
  /\ step' = step + 1
  /\ UNCHANGED <<account, guard, sessions, signing, cli, seen, used>>

LockExpires ==
  /\ lock = "shut"
  /\ lock' = "open"
  /\ UNCHANGED <<account, failed, misses, sessions, process, seen, used>>

\* REAUTH_WINDOW_MINUTES are over.
WindowCloses(s) ==
  /\ row[s].confirmed
  /\ row' = [row EXCEPT ![s].confirmed = FALSE]
  /\ UNCHANGED <<account, guard, live, process, seen, used>>

\* SESSION_TTL_HOURS are over: getSession or purgeExpiredSessions.
Expire(s) ==
  /\ Serving
  /\ s \in live
  /\ End({s}, row)
  /\ UNCHANGED <<account, guard, process, seen, used>>

Crash ==
  /\ signing' = NotSigning
  /\ Die
  /\ UNCHANGED <<account, guard, sessions, cli, step, used>>

-----------------------------------------------------------------------------

Typed == Authenticator \cup recovery

RequestNext(r) ==
  \/ \E s \in Session : Arrive(r, s)
  \/ Leave(r)
  \/ \E c \in Typed : TypeCode(r, c) \/ ConfirmCode(r, c) \/ DisableTotp(r, c)
  \/ MissCode(r) \/ MissConfirm(r)
  \/ LoginOptions(r) \/ PasskeyLogin(r) \/ FailLogin(r)
  \/ ConfirmOptions(r) \/ ConfirmPasskey(r) \/ FailConfirm(r)
  \/ ConfirmPassword(r) \/ ChangePassword(r)
  \/ BeginTotp(r)
  \/ \E c \in Enrolling : ConfirmTotp(r, c)
  \/ \E c \in Authenticator : RegenerateByCode(r, c)
  \/ Regenerate(r)
  \/ RegisterOptions(r) \/ FailRegister(r)
  \/ \E k \in Key : AddPasskey(r, k) \/ RemovePasskey(r, k)
  \/ Logout(r) \/ RevokeOthers(r)
  \/ \E t \in Session : RevokeSession(r, t)

Next ==
  \/ \E r \in Request : RequestNext(r)
  \/ Authenticate \/ CreateSession
  \/ ResetPassword \/ ResetFactors \/ CliUpdate \/ CliDelete
  \/ Tick \/ LockExpires \/ Crash
  \/ \E s \in Session : WindowCloses(s) \/ Expire(s)

Spec == Init /\ [][Next]_vars

-----------------------------------------------------------------------------
(* What must hold *)

\* A code works once: no code the program accepted, of the app or of a
\* recovery sheet, at sign-in, to confirm, enrol, regenerate or disable,
\* would be accepted again (docs/security-model.md: "a code cannot be
\* replayed").
NoReplay == used \cap (Authenticator \cup Enrolling \cup recovery) = {}

\* While the account has a second factor, every complete session has proved
\* one: adding a factor ends the sessions that did not.
CompleteIsProved ==
  HasFactor => \A s \in live : row[s].verified => row[s].proved

\* A pending session never becomes complete by anything but a factor it
\* proves itself, in particular not by the last factor going away.
NoFreeUpgrade ==
  [][\A s \in live \cap live' :
       ~Complete(s) /\ Complete(s)' => row'[s].proved]_vars

\* A new password ends the sessions there are, but the one that changed it: the
\* owner's change, another administrator's reset and the command line's
\* (setAdminPassword: "Password change invalidates existing sessions of that admin").
PasswordEndsSessions ==
  cli = "idle" => \A s \in live : row[s].born = password

\* What reset-password tells its operator ("existing sessions were revoked"): after it
\* nobody is in on the old password.  A sign-in it overtakes is.
OldPasswordIsOut ==
  cli = "idle" => \A s \in live : row[s].signed = password

\* A challenge for signing in or confirming is gone with the first answer.
ChallengeOnce ==
  \A s \in live : row[s].purpose \in {"login", "confirm"} => ~row[s].answered

\* Recovery codes exist only next to a factor they stand in for.
RecoveryNeedsFactor == recovery # {} => HasFactor

\* The account is locked before LockAfter wrong codes have been let through at
\* sign-in and confirmation without a right one between them.
MissesLock == misses < LockAfter

=============================================================================
