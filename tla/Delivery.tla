------------------------------ MODULE Delivery ------------------------------
(***************************************************************************)
(* The recipient side of outletbox: links, the people on them, one-time    *)
(* codes and the sessions a code opens (services/access.ts, links.ts,      *)
(* http/deliver.ts), together with the administrator's operations that end *)
(* or extend access (http/admin.ts, "links" and "status").                 *)
(*                                                                         *)
(* Every handler below runs without an await between its first database    *)
(* read and its last write, so it is one atomic action of the server.      *)
(* Its statements still commit one by one: Cut lets the process die after  *)
(* any of them, for the handlers named in CrashIn.  A code may be typed at *)
(* any time after it was issued, or never: mail that is slow, lost or      *)
(* rejected has no other effect on this state.                             *)
(***************************************************************************)
EXTENDS Integers, FiniteSets, Functions

CONSTANTS
  Case, Link, Email,
  Browser,         \* the flow cookies: a code is bound to one of them
  Null,            \* SQL NULL
  MaxRecipients,   \* MAX_RECIPIENTS
  MaxAttempts,     \* MAX_CODE_ATTEMPTS
  CodesPerHour,    \* CHALLENGE_LIMIT_PER_LINK_PER_HOUR
  Hour, CodeTtl, SessionTtl,   \* durations in ticks
  CrashIn,         \* the handlers the process may die in the middle of
  Expiries, Limits,            \* the choices of the form that creates a link
  MaxClock, MaxCodes, MaxUrls  \* bounds of the instance

Handlers == {"redeem", "revoke", "reissue", "close", "purge"}

ASSUME DeliveryAssumption ==
  /\ Null \notin Nat
  /\ Null \notin Email
  /\ IsFiniteSet(Email)   \* isEmail takes at most 254 characters
  /\ {MaxRecipients, CodesPerHour, Hour, CodeTtl, SessionTtl} \subseteq Nat
  /\ MaxAttempts \in Nat \ {0}
  /\ Expiries \subseteq Nat \cup {Null}
  /\ Limits \subseteq (Nat \ {0}) \cup {Null}
  /\ {MaxClock, MaxCodes, MaxUrls} \subseteq Nat
  /\ CrashIn \subseteq Handlers

VARIABLES
  clock,        \* now()
  caseOpen,     \* cases.status = 'open'
  links,        \* rows of links; Null before createLink
  roster,       \* link_recipients: the people on each link
  opens,        \* link_recipients.opens
  challenges,   \* rows of challenges
  sessions,     \* rows of access_sessions
  cookie,       \* the access cookie each browser holds
  granted,      \* audit rows 'access.granted' per link
  issued,       \* codes generated so far: the next challenge's name
  mailed,       \* history, which no action reads: every code ever mailed
  opened        \* sessions created so far: the next session's name

vars == <<clock, caseOpen, links, roster, opens, challenges, sessions, cookie,
          granted, issued, mailed, opened>>

LinkRow == [case : Case, expires : Nat \cup {Null}, max : Nat \cup {Null},
            used : Nat, revoked : BOOLEAN, url : Nat]

ASSUME NullIsNoRow == Null \notin LinkRow

\* A challenge is its code: only typing its own id matches code_hash.
ChallengeRow == [id : Nat \ {0}, link : Link, who : Email, flow : Browser,
                 attempts : Nat, created : Nat, expires : Nat, consumed : BOOLEAN]

\* here: the person has been on the link ever since.
Mail == [id : Nat \ {0}, link : Link, who : Email, at : Nat, here : BOOLEAN]

\* code and url are what the row was opened with; the program does not store them.
SessionRow == [id : Nat \ {0}, link : Link, who : Email, expires : Nat,
               code : Nat \ {0}, url : Nat]

TypeOK ==
  /\ clock \in Nat
  /\ caseOpen \in [Case -> BOOLEAN]
  /\ links \in [Link -> LinkRow \cup {Null}]
  /\ roster \in [Link -> SUBSET Email]
  /\ opens \in [Link -> [Email -> Nat]]
  /\ challenges \subseteq ChallengeRow
  /\ sessions \subseteq SessionRow
  /\ cookie \in [Browser -> Nat]
  /\ granted \in [Link -> Nat]
  /\ issued \in Nat
  /\ mailed \subseteq Mail
  /\ opened \in Nat

Init ==
  /\ clock = 0
  /\ caseOpen = [c \in Case |-> TRUE]
  /\ links = [l \in Link |-> Null]
  /\ roster = [l \in Link |-> {}]
  /\ opens = [l \in Link |-> [e \in Email |-> 0]]
  /\ challenges = {}
  /\ sessions = {}
  /\ cookie = [b \in Browser |-> 0]
  /\ granted = [l \in Link |-> 0]
  /\ issued = 0
  /\ mailed = {}
  /\ opened = 0

-----------------------------------------------------------------------------
(* What a request sees *)

\* Statements a handler of n statements commits: all of them, or a prefix.
Cut(handler, n) == IF handler \in CrashIn THEN 1..n ELSE {n}

Created(l) == links[l] # Null
Expired(l) == links[l].expires # Null /\ links[l].expires <= clock
\* Mutant: the limit is compared with > instead of >=.
ExhaustedTooLate(l) == links[l].max # Null /\ links[l].used > links[l].max
Exhausted(l) == links[l].max # Null /\ links[l].used >= links[l].max
Dead(l) == links[l].revoked \/ Expired(l) \/ ~caseOpen[links[l].case]

\* accessMiddleware: the cookie's row is deleted when it has run out.
Seen(b) == {s \in sessions : ~(s.id = cookie[b] /\ s.expires <= clock)}
Mine(b) == {s \in Seen(b) : s.id = cookie[b]}

\* load/unavailable: an exhausted link still answers its own open session.
Reachable(l, b) ==
  /\ Created(l)
  /\ ~Dead(l)
  /\ Exhausted(l) => \E s \in Mine(b) : s.link = l

\* A session that would be served, were its browser to come back now.
Usable(s) == s.expires > clock /\ Created(s.link) /\ ~Dead(s.link)

Live(c) == ~c.consumed /\ c.expires > clock

\* The rows of one person, of one browser, of one link.
CodesOf(l, e) == {c \in challenges : c.link = l /\ c.who = e}
CodesIn(l, b) == {c \in challenges : c.link = l /\ c.flow = b}
CodesOn(l) == {c \in challenges : c.link = l}

\* The codes the hourly limit counts against a person.
Counted(l, e) == {c \in CodesOf(l, e) : c.created + Hour > clock}

\* Mutant: a new code replaces every code of the link.
SupersededOnLink(l, e) == CodesOn(l)
\* Mutant: it replaces none that is still typable.
SupersededExpired(l, e) == {c \in CodesOf(l, e) : ~Live(c)}

\* The codes a new code of this person replaces.
Superseded(l, e) == CodesOf(l, e)

\* The rows verifyChallenge may pick: the newest of this link and browser
\* (any of them when two were created in the same millisecond).
Newest(l, b) ==
  LET pending == {c \in CodesIn(l, b) : Live(c)}
  IN  {c \in pending : \A d \in pending : d.created <= c.created}

\* UPDATE challenges SET consumed_at = now() WHERE ... AND consumed_at IS NULL
Consume(rows) ==
  (challenges \ rows) \cup {[c EXCEPT !.consumed = TRUE] : c \in rows}

\* Mutant: the accepted code stays pending.
SpendNothing(c) == challenges

\* verifyChallenge accepted the code of this row.
Spend(c) == Consume({c})

\* Mutant: one try too many.
BudgetOverrun(attempts) == attempts > MaxAttempts

\* verifyChallenge refused it, for the attempts-th time.
BudgetSpent(attempts) == attempts >= MaxAttempts
Miss(c) ==
  (challenges \ {c}) \cup
    {[c EXCEPT !.attempts = @ + 1, !.consumed = BudgetSpent(c.attempts + 1)]}

-----------------------------------------------------------------------------
(* The recipient's requests *)

\* Any request that stops early, and the page itself.
Visit(b) ==
  /\ Seen(b) # sessions
  /\ sessions' = Seen(b)
  /\ UNCHANGED <<clock, caseOpen, links, roster, opens, challenges, cookie,
                 granted, issued, mailed, opened>>

\* POST /d/:token/email, createChallenge.
RequestCode(l, e, b) ==
  /\ Reachable(l, b)
  /\ e \in roster[l]
  /\ Cardinality(Counted(l, e)) < CodesPerHour
  /\ issued < MaxCodes
  /\ issued' = issued + 1
  /\ mailed' = mailed \cup
       {[id |-> issued + 1, link |-> l, who |-> e, at |-> clock, here |-> TRUE]}
  /\ challenges' = Consume(Superseded(l, e)) \cup
       {[id |-> issued + 1, link |-> l, who |-> e, flow |-> b, attempts |-> 0,
         created |-> clock, expires |-> clock + CodeTtl, consumed |-> FALSE]}
  /\ sessions' = Seen(b)
  /\ UNCHANGED <<clock, caseOpen, links, roster, opens, cookie, granted, opened>>

\* POST /d/:token/code with a code that is not the one verifyChallenge picked.
WrongCode(l, b, typed) ==
  /\ Reachable(l, b)
  /\ \E c \in Newest(l, b) :
       /\ typed # c.id
       /\ challenges' = Miss(c)
  /\ sessions' = Seen(b)
  /\ UNCHANGED <<clock, caseOpen, links, roster, opens, cookie, granted,
                 issued, mailed, opened>>

\* Mutant: the opening is counted after everything it pays for.
RegisterOpenLast == 5

\* The statements of the handler that accepts a code, in their order; the first
\* one consumes the challenge, the last one is the audit row, then the answer.
RegisterOpen == 2
RecordRecipientOpen == 3
CreateAccessSession == 4
Answer == 5

\* POST /d/:token/code with the right code; done is the last statement to commit.
Redeem(l, b, typed, done) ==
  /\ Reachable(l, b)
  /\ ~Exhausted(l)
  /\ \E c \in Newest(l, b) :
       /\ c.id = typed
       /\ challenges' = Spend(c)
       /\ links' = IF done >= RegisterOpen THEN [links EXCEPT ![l].used = @ + 1] ELSE links
       /\ opens' = IF done >= RecordRecipientOpen THEN [opens EXCEPT ![l][c.who] = @ + 1] ELSE opens
       /\ IF done >= CreateAccessSession
          THEN /\ opened' = opened + 1
               /\ sessions' = Seen(b) \cup
                    {[id |-> opened + 1, link |-> l, who |-> c.who,
                      expires |-> clock + SessionTtl, code |-> c.id,
                      url |-> links[l].url]}
          ELSE opened' = opened /\ sessions' = Seen(b)
  /\ granted' = IF done >= Answer THEN [granted EXCEPT ![l] = @ + 1] ELSE granted
  /\ cookie' = IF done >= Answer THEN [cookie EXCEPT ![b] = opened + 1] ELSE cookie
  /\ UNCHANGED <<clock, caseOpen, roster, issued, mailed>>

\* The right code on a link whose last opening went to somebody else meanwhile:
\* registerOpen changes no row, and the code is already consumed.
RedeemTooLate(l, b, typed) ==
  /\ Reachable(l, b)
  /\ Exhausted(l)
  /\ \E c \in Newest(l, b) :
       /\ c.id = typed
       /\ challenges' = Spend(c)
  /\ sessions' = Seen(b)
  /\ UNCHANGED <<clock, caseOpen, links, roster, opens, cookie, granted,
                 issued, mailed, opened>>

\* POST /d/:token/restart.
Restart(l, b) ==
  /\ Reachable(l, b)
  /\ challenges' = Consume(CodesIn(l, b))
  /\ sessions' = Seen(b)
  /\ UNCHANGED <<clock, caseOpen, links, roster, opens, cookie, granted,
                 issued, mailed, opened>>

\* POST /d/:token/close: ends the cookie's session, whichever link it opened.
Close(l, b) ==
  /\ Reachable(l, b)
  /\ sessions' = Seen(b) \ Mine(b)
  /\ cookie' = [cookie EXCEPT ![b] = 0]
  /\ UNCHANGED <<clock, caseOpen, links, roster, opens, challenges, granted,
                 issued, mailed, opened>>

-----------------------------------------------------------------------------
(* The administrator's requests *)

\* POST /cases/:id/links, createLink.
CreateLink(l, c, expires, max, people) ==
  /\ ~Created(l)
  /\ caseOpen[c]
  /\ people # {} /\ Cardinality(people) <= MaxRecipients
  /\ expires # Null => expires > clock
  /\ links' = [links EXCEPT ![l] = [case |-> c, expires |-> expires, max |-> max,
                                    used |-> 0, revoked |-> FALSE, url |-> 0]]
  /\ roster' = [roster EXCEPT ![l] = people]
  /\ UNCHANGED <<clock, caseOpen, opens, challenges, sessions, cookie, granted,
                 issued, mailed, opened>>

\* POST /links/:id/recipients, addRecipients.
AddRecipients(l, people) ==
  /\ Created(l) /\ ~links[l].revoked
  /\ people # {} /\ Cardinality(people) <= MaxRecipients
  /\ Cardinality(roster[l] \cup people) <= MaxRecipients
  /\ roster' = [roster EXCEPT ![l] = @ \cup people]
  /\ UNCHANGED <<clock, caseOpen, links, opens, challenges, sessions, cookie,
                 granted, issued, mailed, opened>>

\* Mutant: access_sessions.recipient_id without the cascade.
SessionsKept(l, e) == sessions

\* What ON DELETE CASCADE leaves of the other tables.
SessionsWithout(l, e) == {s \in sessions : ~(s.link = l /\ s.who = e)}
OpensWithout(l, e) == [opens EXCEPT ![l][e] = 0]

\* The history after the person left the link: none of it was mailed "here".
Gone(l, e) ==
  {IF m.link = l /\ m.who = e THEN [m EXCEPT !.here = FALSE] ELSE m : m \in mailed}

\* POST /links/:id/recipients/:rid/remove, removeRecipient: the person's codes,
\* sessions and counter go with the row (ON DELETE CASCADE).
RemoveRecipient(l, e) ==
  /\ e \in roster[l]
  /\ roster[l] # {e}
  /\ roster' = [roster EXCEPT ![l] = @ \ {e}]
  /\ opens' = OpensWithout(l, e)
  /\ challenges' = challenges \ CodesOf(l, e)
  /\ sessions' = SessionsWithout(l, e)
  /\ mailed' = Gone(l, e)
  /\ UNCHANGED <<clock, caseOpen, links, cookie, granted, issued, opened>>

\* destroyAccessSessionsForLink, whose first statement runs when done >= 2.
SessionsOn(l) == {s \in sessions : s.link = l}
EndLink(l, done) ==
  /\ sessions' = IF done >= 2 THEN sessions \ SessionsOn(l) ELSE sessions
  /\ challenges' = IF done >= 3 THEN Consume(CodesOn(l)) ELSE challenges

\* POST /links/:id/revoke.
Revoke(l, done) ==
  /\ Created(l) /\ ~links[l].revoked
  /\ links' = [links EXCEPT ![l].revoked = TRUE]
  /\ EndLink(l, done)
  /\ UNCHANGED <<clock, caseOpen, roster, opens, cookie, granted, issued, mailed,
                 opened>>

\* POST /links/:id/reissue: a new URL, also for a link that is revoked.
Reissue(l, done) ==
  /\ Created(l)
  /\ links[l].url < MaxUrls
  /\ links' = [links EXCEPT ![l].url = @ + 1]
  /\ EndLink(l, done)
  /\ UNCHANGED <<clock, caseOpen, roster, opens, cookie, granted, issued, mailed,
                 opened>>

\* Mutant: closing a case deletes the sessions of its revoked links only.
SessionsInRevoked(c) ==
  {s \in sessions : links[s.link].case = c /\ links[s.link].revoked}

SessionsIn(c) == {s \in sessions : Created(s.link) /\ links[s.link].case = c}

\* POST /cases/:id/status = closed: updateCase, destroyAccessSessionsForCase.
CloseCase(c, done) ==
  /\ caseOpen' = [caseOpen EXCEPT ![c] = FALSE]
  /\ sessions' = IF done >= 2 THEN sessions \ SessionsIn(c) ELSE sessions
  /\ UNCHANGED <<clock, links, roster, opens, challenges, cookie, granted,
                 issued, mailed, opened>>

\* POST /cases/:id/status = open.
ReopenCase(c) ==
  /\ caseOpen' = [caseOpen EXCEPT ![c] = TRUE]
  /\ UNCHANGED <<clock, links, roster, opens, challenges, sessions, cookie,
                 granted, issued, mailed, opened>>

-----------------------------------------------------------------------------
(* Time and the periodic cleanup *)

\* Mutant: only what can still be typed is kept.
UnpurgedLive == {c \in challenges : c.expires > clock}

\* Spent codes too are kept for an hour, so the limit still sees them.
Unpurged == {c \in challenges : c.created + Hour > clock}

\* purgeExpiredAccess, from the server's timer or from the CLI.
Purge(done) ==
  /\ sessions' = {s \in sessions : s.expires > clock}
  /\ challenges' = IF done >= 2 THEN Unpurged ELSE challenges
  /\ UNCHANGED <<clock, caseOpen, links, roster, opens, cookie, granted,
                 issued, mailed, opened>>

Tick ==
  /\ clock < MaxClock
  /\ clock' = clock + 1
  /\ UNCHANGED <<caseOpen, links, roster, opens, challenges, sessions, cookie,
                 granted, issued, mailed, opened>>

RecipientNext ==
  \E b \in Browser :
    \/ Visit(b)
    \/ \E l \in Link :
         \/ \E e \in Email : RequestCode(l, e, b)
         \/ \E typed \in 0..issued :
              \/ WrongCode(l, b, typed)
              \/ \E done \in Cut("redeem", Answer) : Redeem(l, b, typed, done)
              \/ RedeemTooLate(l, b, typed)
         \/ Restart(l, b)
         \/ Close(l, b)

AdminNext ==
  \/ \E l \in Link :
       \/ \E c \in Case, expires \in Expiries, max \in Limits,
             people \in SUBSET Email :
            CreateLink(l, c, expires, max, people)
       \/ \E people \in SUBSET Email : AddRecipients(l, people)
       \/ \E e \in Email : RemoveRecipient(l, e)
       \/ \E done \in Cut("revoke", 3) : Revoke(l, done)
       \/ \E done \in Cut("reissue", 3) : Reissue(l, done)
  \/ \E c \in Case :
       \/ \E done \in Cut("close", 2) : CloseCase(c, done)
       \/ ReopenCase(c)

Next ==
  \/ RecipientNext
  \/ AdminNext
  \/ \E done \in Cut("purge", 2) : Purge(done)
  \/ Tick

Spec == Init /\ [][Next]_vars

-----------------------------------------------------------------------------
(* State properties *)

\* A person has at most one code that can still open the link, however often
\* and from however many browsers it was asked for ("only their newest code
\* ever works", access.ts).
OneLiveCode ==
  \A c, d \in challenges :
    /\ ~c.consumed /\ ~d.consumed
    /\ c.link = d.link /\ c.who = d.who
    => c = d

\* What was mailed to a person within the hour that ends now.
MailedTo(l, e) == {m \in mailed : m.link = l /\ m.who = e /\ m.at + Hour > clock}

\* Within any hour no more codes than the limit are mailed to a person who stays
\* on the link, whatever became of the rows of the earlier codes: spent, missed,
\* expired or purged (createChallenge counts rows, purgeExpiredAccess keeps them).
\* Not of a person whom removeRecipient took off and addRecipients put back: the rows
\* went with the recipient, and the count starts anew.
HourlyLimit ==
  \A l \in Link, e \in Email :
    Cardinality({m \in MailedTo(l, e) : m.here}) <= CodesPerHour

\* A code still pending has been missed fewer times than the budget allows
\* (verifyChallenge destroys it with the last miss).
GuessBudget ==
  \A c \in challenges :
    /\ c.attempts <= MaxAttempts
    /\ ~c.consumed => c.attempts < MaxAttempts

\* Codes and sessions belong to people who are on the link now, and a link
\* always has somebody who can open it (removeRecipient and its cascade).
RosterBound ==
  /\ \A c \in challenges : c.who \in roster[c.link]
  /\ \A s \in sessions : s.who \in roster[s.link]
  /\ \A l \in Link : Created(l) => roster[l] # {} /\ Cardinality(roster[l]) <= MaxRecipients

\* Openings are paid before anybody is let in: the limit is never passed, the
\* sessions and the audit log never show more openings than were counted, and
\* they agree when no request was cut short; nor do the openings shown per person,
\* of those still on the link (registerOpen, recordRecipientOpen and what follows).
OpensAccount ==
  \A l \in Link : Created(l) =>
    /\ links[l].max # Null => links[l].used <= links[l].max
    /\ Cardinality(SessionsOn(l)) <= links[l].used
    /\ granted[l] <= links[l].used
    /\ SumFunctionOnSet(opens[l], roster[l]) <= links[l].used
    /\ "redeem" \notin CrashIn => granted[l] = links[l].used

\* The code behind an open session cannot be typed again, and no two sessions
\* came from one code (verifyChallenge consumes before anything else).
RedeemedIsSpent ==
  /\ \A s \in sessions, c \in challenges : s.code = c.id => c.consumed
  /\ \A s, t \in sessions : s.code = t.code => s = t

(* Action properties *)

\* A pending code is lost only to its own person asking again, to its own
\* browser, or to an administrator acting on its link: a code requested by one
\* person never cancels another person's (docs/delivery.md).
IsolatedCodes ==
  [][\A c \in challenges :
       Live(c) /\ ~(\E d \in challenges' : d.id = c.id /\ ~d.consumed) =>
         \/ \E b \in Browser : RequestCode(c.link, c.who, b)
         \/ \E typed \in 0..issued :
              \/ WrongCode(c.link, c.flow, typed)
              \/ \E done \in 1..Answer : Redeem(c.link, c.flow, typed, done)
              \/ RedeemTooLate(c.link, c.flow, typed)
         \/ Restart(c.link, c.flow)
         \/ \E done \in 1..3 : Revoke(c.link, done) \/ Reissue(c.link, done)
         \/ RemoveRecipient(c.link, c.who)]_vars

\* A session that would no longer be served never works again: revoking a link
\* or closing its case ends what is open for good, even when the case reopens.
NoRevival ==
  [][\A s \in sessions : ~Usable(s) /\ s \in sessions' => ~Usable(s)']_vars

-----------------------------------------------------------------------------
(* What the link promises, and the state that keeps the promise *)

Promise == INSTANCE Openings WITH
  limit <- [l \in Link |-> IF Created(l) THEN links[l].max ELSE 0],
  used <- [l \in Link |-> IF Created(l) THEN links[l].used ELSE 0],
  inside <- [l \in Link |-> {s.id : s \in {t \in SessionsOn(l) : Usable(t)}}]

\* Every step of the delivery flow is a step the promise allows.
PromiseKept == Promise!Spec
=============================================================================
