------------------------------ MODULE Bindings ------------------------------
(***************************************************************************)
(* Device-bound sessions (services/sessions.ts, dbsc.ts, the /dbsc routes  *)
(* of http/admin.ts, sessionMiddleware): a complete session is offered a   *)
(* binding once, the browser registers a key, and from then on the session *)
(* counts only together with a short-lived cookie that the browser renews  *)
(* by signing a challenge.                                                 *)
(*                                                                         *)
(* The handlers are synchronous: a request is one step of the server.  It  *)
(* may arrive long after the browser has given it up, and its answer may   *)
(* be lost.  The browser is external, modelled from what the routes and    *)
(* test/dbsc.test.ts expect of it: it renews when its bound cookie is gone,*)
(* one request at a time, and waits for no answer longer than Patience.    *)
(* Sessions that wait for a second factor are left to SignIn: offerBinding *)
(* and registerBinding refuse them, and passing the factor replaces them   *)
(* by a new one.                                                           *)
(***************************************************************************)
EXTENDS Integers, Sequences, FiniteSets

CONSTANTS
  CookieTTL,     \* BOUND_COOKIE_TTL_MS
  ChallengeTTL,  \* DBSC_CHALLENGE_TTL_MS
  Grace,         \* GRACE_MS
  SessionTTL,    \* cfg.sessionTtlMs
  Patience,      \* the browser waits for an answer no longer
  MaxSessions,   \* bound: sessions signed in
  MaxTime,       \* bound: the clock stops here
  MaxFaults      \* bound: answers and requests lost or given up

ASSUME BindingsAssumption ==
  /\ CookieTTL \in Nat \ {0} /\ ChallengeTTL \in Nat \ {0} /\ SessionTTL \in Nat \ {0}
  /\ Grace \in Nat /\ Patience \in Nat
  /\ MaxSessions \in Nat /\ MaxTime \in Nat /\ MaxFaults \in Nat
  /\ CookieTTL <= ChallengeTTL
  /\ Patience <= Grace

VARIABLES
  now,
  \* The server.  A cookie is its place in minted, a challenge its number; 0 is neither.
  given,       \* history: how many sessions there have been
  expires,     \* sessions.expires_at, 0 when there is no row
  offered,     \* the sessions with dbsc_offered_at
  asked,       \* sessions.dbsc_challenge
  binding,     \* session_bindings, by session
  minted,      \* history: the cookies, each with its session, its time and the challenge signed for it
  challenges,  \* how many there have been
  \* The browser.
  sid,         \* the session cookie
  jar,         \* the bound cookie and when it goes
  offer,       \* the challenge of a registration header not yet acted on
  config,      \* the bound session it knows: session, cached challenge, does it have the key?
  waiting,     \* the request it waits for, 0 for none, and since when
  \* The network.
  net,         \* requests on their way
  answer,      \* the answer to the request waited for
  faults

server == <<given, expires, offered, asked, binding, minted, challenges>>
browser == <<sid, jar, offer, config, waiting>>
network == <<net, answer, faults>>
vars == <<now, server, browser, network>>

\* Ids are never given out twice; 0 is no session.
Session == 1..MaxSessions
None == 0

Unbound == [cookie |-> 0, until |-> 0, prev |-> 0, prevUntil |-> 0, challenge |-> 0, challengeUntil |-> 0]
Binding == [cookie : Nat, until : Nat, prev : Nat, prevUntil : Nat, challenge : Nat, challengeUntil : Nat]
Cookie == [session : Session, at : Nat, proof : Nat]
Empty == [cookie |-> 0, until |-> 0]
NoConfig == [session |-> None, challenge |-> 0, key |-> FALSE]
Idle == [try |-> 0, since |-> 0]
Tries == 1..(MaxFaults + 1)
Req == [kind : {"register", "refresh"}, session : Session, cookie : Nat, proof : Nat, key : BOOLEAN, try : Tries]
NoAnswer == [kind |-> "none", session |-> None, cookie |-> 0, challenge |-> 0]
Answer == [kind : {"none", "cookie", "challenge", "refused", "ended"},
           session : Session \cup {None}, cookie : Nat, challenge : Nat]

TypeOK ==
  /\ now \in Nat
  /\ given \in 0..MaxSessions
  /\ expires \in [Session -> Nat]
  /\ offered \subseteq Session
  /\ asked \in [Session -> Nat]
  /\ binding \in [Session -> Binding]
  /\ \A s \in Session : binding[s] # Unbound => expires[s] # 0
  /\ minted \in Seq(Cookie)
  /\ challenges \in Nat
  /\ sid \in Session \cup {None}
  /\ jar \in [cookie : Nat, until : Nat]
  /\ offer \in Nat
  /\ config \in [session : Session \cup {None}, challenge : Nat, key : BOOLEAN]
  /\ waiting \in [try : Tries \cup {0}, since : Nat]
  /\ net \subseteq Req
  /\ answer \in Answer
  /\ faults \in 0..MaxFaults

Init ==
  /\ now = 0
  /\ given = 0
  /\ expires = [s \in Session |-> 0]
  /\ offered = {}
  /\ asked = [s \in Session |-> 0]
  /\ binding = [s \in Session |-> Unbound]
  /\ minted = <<>>
  /\ challenges = 0
  /\ sid = None
  /\ jar = Empty
  /\ offer = 0
  /\ config = NoConfig
  /\ waiting = Idle
  /\ net = {}
  /\ answer = NoAnswer
  /\ faults = 0

-----------------------------------------------------------------------------
(* What the server makes of a request's cookies *)

Bound(s) == binding[s] # Unbound

\* getSession
Live(s) == expires[s] > now

\* Mutants: no grace at all; every cookie of the session is as good as its last.
Prompt(s, c) ==
  \/ ~Bound(s)
  \/ c # 0 /\ c = binding[s].cookie /\ binding[s].until > now
  \/ c # 0 /\ c = binding[s].prev /\ binding[s].prevUntil > now

\* checkBoundCookie
Accepts(s, c) ==
  \/ ~Bound(s)
  \/ c # 0 /\ c = binding[s].cookie /\ binding[s].until > now - Grace
  \/ c # 0 /\ c = binding[s].prev /\ binding[s].prevUntil > now - Grace

\* sessionMiddleware
Admitted(s, c) == s # None /\ Live(s) /\ Accepts(s, c)

-----------------------------------------------------------------------------
(* The browser and its user *)

JarLive == jar.until > now
Held == IF JarLive THEN jar.cookie ELSE 0

\* GET and POST /login, shown only to those without a session, and the second factor
\* where the account has one: a new session.  An earlier bound cookie stays in the jar.
SignIn ==
  /\ ~Admitted(sid, Held)
  /\ given < MaxSessions
  /\ given' = given + 1
  /\ expires' = [expires EXCEPT ![given'] = now + SessionTTL]
  /\ sid' = given'
  /\ UNCHANGED <<now, offered, asked, binding, minted, challenges, jar, offer, config, waiting, network>>

\* A page after the second factor: offerBinding, once for a session.  The answer
\* with the header may not reach the browser.
LoadPage(got) ==
  /\ Admitted(sid, Held)
  /\ sid \notin offered /\ ~Bound(sid)
  /\ challenges' = challenges + 1
  /\ asked' = [asked EXCEPT ![sid] = challenges']
  /\ offered' = offered \cup {sid}
  /\ \/ got /\ offer' = challenges' /\ UNCHANGED faults
     \/ ~got /\ faults < MaxFaults /\ faults' = faults + 1 /\ UNCHANGED offer
  /\ UNCHANGED <<now, given, expires, binding, minted, sid, jar, config, waiting, net, answer>>

\* Numbered by the first number that is free.
Send(kind, s, proof, key) ==
  \E t \in Tries :
    /\ t \notin {q.try : q \in net} /\ 1..(t - 1) \subseteq {q.try : q \in net}
    /\ net' = net \cup {[kind |-> kind, session |-> s, cookie |-> Held, proof |-> proof, key |-> key, try |-> t]}
    /\ waiting' = [try |-> t, since |-> now]

SendRegister ==
  /\ waiting = Idle /\ offer # 0 /\ sid # None
  /\ Send("register", sid, offer, TRUE)
  /\ offer' = 0
  /\ UNCHANGED <<now, server, sid, jar, config, answer, faults>>

\* The bound cookie is gone: ask, with a proof over the challenge at hand if there is one.
SendRefresh ==
  /\ waiting = Idle /\ config.session # None /\ ~JarLive
  /\ Send("refresh", config.session, config.challenge, config.key)
  /\ UNCHANGED <<now, server, sid, jar, offer, config, answer, faults>>

\* The answer, in time.  A refusal makes the browser forget the bound session.
Receive ==
  /\ answer # NoAnswer
  /\ now <= waiting.since + Patience
  /\ \/ /\ answer.kind = "cookie"
        /\ jar' = [cookie |-> answer.cookie, until |-> now + CookieTTL]
        /\ config' = [session |-> answer.session, challenge |-> answer.challenge,
                      key |-> answer.session # config.session \/ config.key]
     \/ /\ answer.kind = "challenge"
        /\ config' = [config EXCEPT !.challenge = answer.challenge]
        /\ UNCHANGED jar
     \/ /\ answer.kind = "ended"
        /\ config' = NoConfig
        /\ UNCHANGED jar
     \/ answer.kind = "refused" /\ UNCHANGED <<jar, config>>
  /\ answer' = NoAnswer
  /\ waiting' = Idle
  /\ UNCHANGED <<now, server, sid, offer, net, faults>>

\* The request or the answer is lost, or just late: the request may still arrive.
GiveUp(lost) ==
  /\ waiting # Idle
  /\ answer' = NoAnswer
  /\ waiting' = Idle
  /\ net' = IF lost THEN {q \in net : q.try # waiting.try} ELSE net
  /\ UNCHANGED <<now, server, sid, jar, offer, config>>

Lose(lost) == faults < MaxFaults /\ GiveUp(lost) /\ faults' = faults + 1

TimeOut == now > waiting.since + Patience /\ GiveUp(TRUE) /\ UNCHANGED faults

\* The device forgets the key.
LoseKey ==
  /\ config.key
  /\ config' = [config EXCEPT !.key = FALSE]
  /\ UNCHANGED <<now, server, sid, jar, offer, waiting, network>>

Tick ==
  /\ now < MaxTime
  /\ now' = now + 1
  /\ UNCHANGED <<server, browser, network>>

-----------------------------------------------------------------------------
(* The server *)

Reply(q, a) ==
  /\ net' = net \ {q}
  /\ answer' = IF q.try = waiting.try THEN a ELSE answer
  /\ UNCHANGED faults

Mint(s, proof) == minted' = Append(minted, [session |-> s, at |-> now, proof |-> proof])

\* POST /dbsc/register
Register(q) ==
  /\ q.kind = "register"
  /\ IF /\ Admitted(q.session, q.cookie)
        /\ ~Bound(q.session)
        /\ asked[q.session] # 0 /\ q.proof = asked[q.session]
     THEN LET c == Len(minted) + 1
          IN  /\ Mint(q.session, q.proof)
              /\ binding' = [binding EXCEPT ![q.session] =
                   [Unbound EXCEPT !.cookie = c, !.until = now + CookieTTL]]
              /\ asked' = [asked EXCEPT ![q.session] = 0]
              /\ Reply(q, [kind |-> "cookie", session |-> q.session, cookie |-> c, challenge |-> 0])
     ELSE /\ UNCHANGED <<minted, binding, asked>>
          /\ Reply(q, [kind |-> "refused", session |-> None, cookie |-> 0, challenge |-> 0])
  /\ UNCHANGED <<now, given, expires, offered, challenges, browser>>

\* Mutant: the challenge stays when it has been answered.
KeepChallenge(s, old, next) == old
NextChallenge(s, old, next) == next

\* Mutant: a challenge that is there is asked for again, and never dated.
AskAgain(s) ==
  [id |-> IF binding[s].challenge = 0 THEN challenges + 1 ELSE binding[s].challenge,
   until |-> binding[s].challengeUntil]
Fresh(s) == [id |-> challenges + 1, until |-> now + ChallengeTTL]

\* Does the proof answer the challenge the binding waits for?
Answers(s, proof) ==
  /\ binding[s].challenge # 0 /\ binding[s].challengeUntil > now
  /\ proof = binding[s].challenge

\* Mutant: the previous cookie is given a life of its own.
Renewed(s) == [cookie |-> binding[s].cookie, until |-> now + CookieTTL]
Previous(s) == [cookie |-> binding[s].cookie, until |-> binding[s].until]

\* refreshBinding
RefreshEnded(q) ==
  /\ ~Bound(q.session) \/ ~Live(q.session)
  /\ Reply(q, [kind |-> "ended", session |-> None, cookie |-> 0, challenge |-> 0])
  /\ UNCHANGED <<binding, minted, challenges>>

RefreshAsks(q) ==
  /\ Bound(q.session) /\ Live(q.session)
  /\ q.proof = 0 \/ (q.key /\ ~Answers(q.session, q.proof))
  /\ LET f == Fresh(q.session)
     IN  /\ challenges' = IF f.id > challenges THEN f.id ELSE challenges
         /\ binding' = [binding EXCEPT ![q.session] =
              [@ EXCEPT !.challenge = f.id, !.challengeUntil = f.until]]
         /\ Reply(q, [kind |-> "challenge", session |-> q.session, cookie |-> 0, challenge |-> f.id])
  /\ UNCHANGED minted

\* verifyProof throws: not the key.
RefreshRefused(q) ==
  /\ Bound(q.session) /\ Live(q.session)
  /\ q.proof # 0 /\ ~q.key
  /\ Reply(q, [kind |-> "ended", session |-> None, cookie |-> 0, challenge |-> 0])
  /\ UNCHANGED <<binding, minted, challenges>>

RefreshRenews(q) ==
  /\ Bound(q.session) /\ Live(q.session)
  /\ q.key /\ Answers(q.session, q.proof)
  /\ challenges' = challenges + 1
  /\ Mint(q.session, q.proof)
  /\ binding' = [binding EXCEPT ![q.session] =
       [cookie |-> Len(minted) + 1, until |-> now + CookieTTL,
        prev |-> Previous(q.session).cookie, prevUntil |-> Previous(q.session).until,
        challenge |-> NextChallenge(q.session, @.challenge, challenges'),
        challengeUntil |-> now + ChallengeTTL]]
  /\ Reply(q, [kind |-> "cookie", session |-> q.session, cookie |-> Len(minted) + 1, challenge |-> challenges'])

Refresh(q) ==
  /\ q.kind = "refresh"
  /\ \/ RefreshEnded(q) \/ RefreshAsks(q) \/ RefreshRefused(q) \/ RefreshRenews(q)
  /\ UNCHANGED <<now, given, expires, offered, asked, browser>>

\* The row of a session and, by the cascade, its binding.
Delete(s) ==
  /\ expires' = [expires EXCEPT ![s] = 0]
  /\ asked' = [asked EXCEPT ![s] = 0]
  /\ binding' = [binding EXCEPT ![s] = Unbound]

\* POST /logout clears both cookies.
LogOut ==
  /\ Admitted(sid, Held)
  /\ Delete(sid)
  /\ sid' = None
  /\ jar' = Empty
  /\ UNCHANGED <<now, given, offered, minted, challenges, offer, config, waiting, network>>

\* Ended from another browser, with the account, or as an expired row.
Revoke(s) ==
  /\ expires[s] # 0
  /\ Delete(s)
  /\ UNCHANGED <<now, given, offered, minted, challenges, browser, network>>

-----------------------------------------------------------------------------

Next ==
  \/ Tick
  \/ SignIn
  \/ \E s \in Session : Revoke(s)
  \/ \E b \in BOOLEAN : LoadPage(b) \/ Lose(b)
  \/ SendRegister \/ SendRefresh \/ Receive \/ TimeOut \/ LoseKey \/ LogOut
  \/ \E q \in net : Register(q) \/ Refresh(q)

Spec == Init /\ [][Next]_vars

\* The browser renews a cookie that is gone, requests arrive, the server answers
\* and the browser takes the answer or stops waiting for it.
FairSpec ==
  /\ Spec
  /\ WF_vars(SendRefresh) /\ WF_vars(Receive) /\ WF_vars(TimeOut)
  /\ \A t \in Tries : WF_vars(\E q \in net : q.try = t /\ (Register(q) \/ Refresh(q)))

-----------------------------------------------------------------------------
(* Properties *)

\* A cookie opens a bound session only while the session it was minted for is that
\* one, and no longer than its life and the grace, however often the server has
\* renewed since ("once its lifetime is over (plus grace), a bound cookie is
\* worthless"): checkBoundCookie and what refreshBinding writes.
AcceptedIsFresh ==
  \A s \in Session : \A c \in 1..Len(minted) :
    Bound(s) /\ Accepts(s, c) => /\ minted[c].session = s
                                 /\ now < minted[c].at + CookieTTL + Grace

\* No signature buys two cookies ("a replayed proof does not renew twice"), in
\* whatever order registrations, renewals and their late copies arrive.
EachProofOneCookie ==
  \A c, d \in 1..Len(minted) : minted[c].proof = minted[d].proof => c = d

\* While the browser believes in the bound cookie of a session that has not ended,
\* so does the server: answers lost, requests arriving after they were given up and
\* the delay of the answer never leave it with one that was superseded.
Knows == sid # None /\ config.session = sid
JarAccepted ==
  Knows /\ Live(sid) /\ Bound(sid) /\ JarLive => Accepts(sid, jar.cookie)

\* A browser that holds the key gets back in, or the session is over.
InForce == Knows /\ config.key /\ Live(sid)
StaysIn == InForce ~> (InForce => Admitted(sid, Held))
=============================================================================
