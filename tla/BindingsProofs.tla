--------------------------- MODULE BindingsProofs ---------------------------
(***************************************************************************)
(* Bindings: types, the life of a bound cookie and the use of a challenge, *)
(* for any number of sessions and requests and any lifetimes.              *)
(***************************************************************************)
EXTENDS Bindings, TLAPS

-----------------------------------------------------------------------------
(* Types *)

LEMMA InitTypes == Init => TypeOK
  BY BindingsAssumption DEF Init, TypeOK, Session, None, Unbound, Binding, Empty, NoConfig, Idle, Tries,
     NoAnswer, Answer, Req, Cookie

\* What a minted cookie is, and that it goes to the end of the list.
LEMMA MintTypes ==
  ASSUME TypeOK, NEW s \in Session, NEW p \in Nat,
         minted' = Append(minted, [session |-> s, at |-> now, proof |-> p])
  PROVE  /\ minted' \in Seq(Cookie)
         /\ Len(minted) \in Nat
         /\ Len(minted') = Len(minted) + 1
         /\ minted'[Len(minted) + 1] = [session |-> s, at |-> now, proof |-> p]
         /\ \A c \in 1..Len(minted) : minted'[c] = minted[c]
<1>1. [session |-> s, at |-> now, proof |-> p] \in Cookie
  BY DEF TypeOK, Cookie
<1>2. minted \in Seq(Cookie)
  BY DEF TypeOK
<1> DEFINE e == [session |-> s, at |-> now, proof |-> p]
<1>3. e \in Cookie /\ minted' = Append(minted, e)
  BY <1>1
<1> HIDE DEF e
<1>4. minted' \in Seq(Cookie) /\ Len(minted) \in Nat /\ Len(minted') = Len(minted) + 1
  BY <1>2, <1>3
<1>5. minted'[Len(minted) + 1] = e /\ \A c \in 1..Len(minted) : minted'[c] = minted[c]
  BY <1>2, <1>3
<1> QED
  BY <1>4, <1>5 DEF e

LEMMA ReplyTypes ==
  ASSUME TypeOK, NEW q \in net, NEW a \in Answer, Reply(q, a)
  PROVE  net' \subseteq Req /\ answer' \in Answer /\ faults' \in 0..MaxFaults
  BY DEF TypeOK, Reply

LEMMA SendTypes ==
  ASSUME TypeOK, NEW k \in {"register", "refresh"}, NEW s \in Session, NEW p \in Nat, NEW b \in BOOLEAN,
         Send(k, s, p, b)
  PROVE  net' \subseteq Req /\ waiting' \in [try : Tries \cup {0}, since : Nat]
<1>1. Held \in Nat
  BY DEF Held, TypeOK
<1>2. PICK t \in Tries :
        /\ net' = net \cup {[kind |-> k, session |-> s, cookie |-> Held, proof |-> p, key |-> b, try |-> t]}
        /\ waiting' = [try |-> t, since |-> now]
  BY DEF Send
<1>3. [kind |-> k, session |-> s, cookie |-> Held, proof |-> p, key |-> b, try |-> t] \in Req
  BY <1>1 DEF Req
<1> QED
  BY <1>2, <1>3 DEF TypeOK

LEMMA DeleteTypes ==
  ASSUME TypeOK, NEW s \in Session, Delete(s)
  PROVE  /\ expires' \in [Session -> Nat] /\ asked' \in [Session -> Nat] /\ binding' \in [Session -> Binding]
         /\ \A t \in Session : binding'[t] # Unbound => expires'[t] # 0
<1>1. Unbound \in Binding
  BY DEF Unbound, Binding
<1> QED
  BY <1>1 DEF TypeOK, Delete

LEMMA RegisterTypes ==
  ASSUME TypeOK, NEW q \in net, Register(q)
  PROVE  TypeOK'
<1> DEFINE s == q.session
           won == /\ Admitted(s, q.cookie)
                  /\ ~Bound(s)
                  /\ asked[s] # 0 /\ q.proof = asked[s]
<1>1. s \in Session /\ q.proof \in Nat /\ q \in Req
  BY DEF TypeOK, Req
<1>2. CASE won
  <2> DEFINE c == Len(minted) + 1
             new == [Unbound EXCEPT !.cookie = c, !.until = now + CookieTTL]
  <2>1. /\ Mint(s, q.proof)
        /\ binding' = [binding EXCEPT ![s] = new]
        /\ asked' = [asked EXCEPT ![s] = 0]
        /\ Reply(q, [kind |-> "cookie", session |-> s, cookie |-> c, challenge |-> 0])
        /\ UNCHANGED <<now, given, expires, offered, challenges, browser>>
    BY <1>2 DEF Register
  <2>2. c \in Nat /\ minted' \in Seq(Cookie)
    <3> HIDE DEF s
    <3> QED
      BY <2>1, <1>1, MintTypes DEF Mint
  <2>3. [kind |-> "cookie", session |-> s, cookie |-> c, challenge |-> 0] \in Answer
    BY <1>1, <2>2 DEF Answer
  <2>4. net' \subseteq Req /\ answer' \in Answer /\ faults' \in 0..MaxFaults
    BY <2>1, <2>3, ReplyTypes
  <2>5. new \in Binding
    <3>1. now + CookieTTL \in Nat
      BY BindingsAssumption DEF TypeOK
    <3> HIDE DEF c
    <3> QED
      BY <2>2, <3>1 DEF Unbound, Binding
  <2>6. expires[s] # 0
    BY <1>1, <1>2 DEF Admitted, Live, TypeOK
  <2> HIDE DEF new, c
  <2> QED
    BY <1>1, <2>1, <2>2, <2>4, <2>5, <2>6 DEF TypeOK, browser
<1>3. CASE ~won
  <2>1. /\ UNCHANGED <<minted, binding, asked, now, given, expires, offered, challenges, browser>>
        /\ Reply(q, [kind |-> "refused", session |-> None, cookie |-> 0, challenge |-> 0])
    BY <1>3 DEF Register
  <2>2. [kind |-> "refused", session |-> None, cookie |-> 0, challenge |-> 0] \in Answer
    BY DEF Answer
  <2> QED
    BY <2>1, <2>2, ReplyTypes DEF TypeOK, browser
<1> QED
  BY <1>2, <1>3

LEMMA RefreshTypes ==
  ASSUME TypeOK, NEW q \in net, Refresh(q)
  PROVE  TypeOK'
<1> DEFINE s == q.session
           over == [kind |-> "ended", session |-> None, cookie |-> 0, challenge |-> 0]
<1>1. s \in Session /\ q.proof \in Nat /\ q \in Req
  BY DEF TypeOK, Req
<1>2. UNCHANGED <<now, given, expires, offered, asked, browser>>
  BY DEF Refresh
<1>3. now + ChallengeTTL \in Nat /\ now + CookieTTL \in Nat /\ challenges + 1 \in Nat
  BY BindingsAssumption DEF TypeOK
<1>4. ASSUME Bound(s) PROVE expires[s] # 0
  BY <1>1, <1>4 DEF Bound, TypeOK
<1>5. CASE RefreshEnded(q) \/ RefreshRefused(q)
  <2>1. over \in Answer
    BY DEF Answer
  <2> QED
    BY <1>2, <1>5, <2>1, ReplyTypes DEF TypeOK, browser, RefreshEnded, RefreshRefused
<1>6. CASE RefreshAsks(q)
  <2> DEFINE new == [binding[s] EXCEPT !.challenge = challenges + 1, !.challengeUntil = now + ChallengeTTL]
  <2>1. /\ challenges' = challenges + 1
        /\ binding' = [binding EXCEPT ![s] = new]
        /\ Reply(q, [kind |-> "challenge", session |-> s, cookie |-> 0, challenge |-> challenges + 1])
        /\ UNCHANGED minted
        /\ Bound(s)
    BY <1>6, <1>3, challenges + 1 > challenges DEF RefreshAsks, Fresh, TypeOK
  <2>2. [kind |-> "challenge", session |-> s, cookie |-> 0, challenge |-> challenges + 1] \in Answer
    BY <1>1, <1>3 DEF Answer
  <2>3. new \in Binding
    <3>1. binding[s] \in Binding
      BY <1>1 DEF TypeOK
    <3> QED
      BY <1>3, <3>1 DEF Binding
  <2>4. net' \subseteq Req /\ answer' \in Answer /\ faults' \in 0..MaxFaults
    BY <2>1, <2>2, ReplyTypes
  <2> HIDE DEF new
  <2> QED
    BY <1>1, <1>2, <1>3, <1>4, <2>1, <2>3, <2>4 DEF TypeOK, browser
<1>7. CASE RefreshRenews(q)
  <2> DEFINE c == Len(minted) + 1
             new == [cookie |-> c, until |-> now + CookieTTL,
                     prev |-> binding[s].cookie, prevUntil |-> binding[s].until,
                     challenge |-> challenges + 1, challengeUntil |-> now + ChallengeTTL]
  <2>1. /\ challenges' = challenges + 1
        /\ Mint(s, q.proof)
        /\ binding' = [binding EXCEPT ![s] = new]
        /\ Reply(q, [kind |-> "cookie", session |-> s, cookie |-> c, challenge |-> challenges + 1])
        /\ Bound(s)
    BY <1>7 DEF RefreshRenews, Previous, NextChallenge
  <2>2. c \in Nat /\ minted' \in Seq(Cookie)
    <3> HIDE DEF s
    <3> QED
      BY <2>1, <1>1, MintTypes DEF Mint
  <2>3. [kind |-> "cookie", session |-> s, cookie |-> c, challenge |-> challenges + 1] \in Answer
    BY <1>1, <1>3, <2>2 DEF Answer
  <2>4. net' \subseteq Req /\ answer' \in Answer /\ faults' \in 0..MaxFaults
    BY <2>1, <2>3, ReplyTypes
  <2>5. new \in Binding
    BY <1>1, <1>3, <2>2 DEF Binding, TypeOK
  <2> HIDE DEF new, c
  <2> QED
    BY <1>1, <1>2, <1>3, <1>4, <2>1, <2>2, <2>4, <2>5 DEF TypeOK, browser
<1> QED
  BY <1>5, <1>6, <1>7 DEF Refresh

LEMMA NextTypes == TypeOK /\ [Next]_vars => TypeOK'
<1> SUFFICES ASSUME TypeOK, [Next]_vars PROVE TypeOK'
  OBVIOUS
<1> USE DEF server, browser, network
<1>1. CASE Tick
  BY <1>1 DEF Tick, TypeOK
<1>2. CASE SignIn
  <2>1. given' \in Session /\ now + SessionTTL \in Nat /\ now + SessionTTL # 0
    BY <1>2, BindingsAssumption DEF SignIn, TypeOK, Session
  <2> QED
    BY <1>2, <2>1 DEF SignIn, TypeOK, Session
<1>3. ASSUME NEW s \in Session, Revoke(s) PROVE TypeOK'
  BY <1>3, DeleteTypes DEF Revoke, TypeOK
<1>4. ASSUME NEW b \in BOOLEAN, LoadPage(b) PROVE TypeOK'
  <2>1. sid \in Session
    BY <1>4 DEF LoadPage, Admitted, TypeOK
  <2>2. faults' \in 0..MaxFaults /\ offer' \in Nat
    BY <1>4, BindingsAssumption DEF LoadPage, TypeOK
  <2> QED
    BY <1>4, <2>1, <2>2 DEF LoadPage, TypeOK
<1>5. ASSUME NEW b \in BOOLEAN, Lose(b) \/ (TimeOut /\ b) PROVE TypeOK'
  <2>1. NoAnswer \in Answer /\ Idle \in [try : Tries \cup {0}, since : Nat]
    BY DEF NoAnswer, Answer, Idle, None
  <2>2. net' \subseteq Req
    BY <1>5 DEF Lose, TimeOut, GiveUp, TypeOK
  <2>3. faults' \in 0..MaxFaults
    <3>1. faults \in 0..MaxFaults /\ MaxFaults \in Nat
      BY BindingsAssumption DEF TypeOK
    <3>2. (faults < MaxFaults /\ faults' = faults + 1) \/ faults' = faults
      BY <1>5 DEF Lose, TimeOut
    <3> QED
      BY <3>1, <3>2
  <2> QED
    BY <1>5, <2>1, <2>2, <2>3 DEF Lose, TimeOut, GiveUp, TypeOK
<1>6. CASE SendRegister
  <2>1. sid \in Session /\ Send("register", sid, offer, TRUE)
    BY <1>6 DEF SendRegister, TypeOK
  <2>2. net' \subseteq Req /\ waiting' \in [try : Tries \cup {0}, since : Nat]
    BY <2>1, SendTypes DEF TypeOK
  <2> QED
    BY <1>6, <2>2 DEF SendRegister, TypeOK
<1>7. CASE SendRefresh
  <2>1. Send("refresh", config.session, config.challenge, config.key)
    BY <1>7 DEF SendRefresh
  <2>2. CASE config.session \in Session
    <3>1. net' \subseteq Req /\ waiting' \in [try : Tries \cup {0}, since : Nat]
      BY <2>1, <2>2, SendTypes DEF TypeOK
    <3> QED
      BY <1>7, <3>1 DEF SendRefresh, TypeOK
  <2> QED
    BY <1>7, <2>2 DEF SendRefresh, TypeOK
<1>8. CASE Receive
  <2>1. NoAnswer \in Answer /\ NoConfig \in [session : Session \cup {None}, challenge : Nat, key : BOOLEAN]
        /\ Idle \in [try : Tries \cup {0}, since : Nat]
    BY DEF NoAnswer, Answer, NoConfig, Idle
  <2>2. jar' \in [cookie : Nat, until : Nat]
    <3>1. answer.cookie \in Nat /\ now + CookieTTL \in Nat /\ jar \in [cookie : Nat, until : Nat]
      BY BindingsAssumption DEF TypeOK, Answer
    <3>2. jar' = jar \/ jar' = [cookie |-> answer.cookie, until |-> now + CookieTTL]
      BY <1>8 DEF Receive
    <3> QED
      BY <3>1, <3>2
  <2>3. config' \in [session : Session \cup {None}, challenge : Nat, key : BOOLEAN]
    <3> DEFINE k == answer.session # config.session \/ config.key
    <3>1. /\ answer.session \in Session \cup {None} /\ answer.challenge \in Nat
          /\ config \in [session : Session \cup {None}, challenge : Nat, key : BOOLEAN]
      BY DEF TypeOK, Answer
    <3>2. k \in BOOLEAN
      OBVIOUS
    <3>3. \/ config' = config \/ config' = NoConfig
          \/ config' = [config EXCEPT !.challenge = answer.challenge]
          \/ config' = [session |-> answer.session, challenge |-> answer.challenge, key |-> k]
      BY <1>8 DEF Receive
    <3> HIDE DEF k
    <3> QED
      BY <2>1, <3>1, <3>2, <3>3
  <2> QED
    BY <1>8, <2>1, <2>2, <2>3 DEF Receive, TypeOK
<1>9. CASE LoseKey
  BY <1>9 DEF LoseKey, TypeOK
<1>10. CASE LogOut
  <2>1. sid \in Session /\ Empty \in [cookie : Nat, until : Nat]
    BY <1>10 DEF LogOut, Admitted, TypeOK, Empty
  <2> QED
    BY <1>10, <2>1, DeleteTypes DEF LogOut, TypeOK
<1>11. ASSUME NEW q \in net, Register(q) \/ Refresh(q) PROVE TypeOK'
  BY <1>11, RegisterTypes, RefreshTypes
<1>12. CASE UNCHANGED vars
  BY <1>12 DEF vars, TypeOK
<1> QED
  BY <1>1, <1>2, <1>3, <1>4, <1>5, <1>6, <1>7, <1>8, <1>9, <1>10, <1>11, <1>12 DEF Next

\* Rows, cookies, challenges, the browser and the requests on their way keep their
\* types, and a binding never outlives its session's row.
THEOREM TypeCorrect == Spec => []TypeOK
  BY InitTypes, NextTypes, PTL DEF Spec
-----------------------------------------------------------------------------
(* The life of a cookie *)

\* A cookie a binding holds was minted for its session, and goes when its life is over.
Dated(s, c, u) ==
  c # 0 => /\ c \in 1..Len(minted) /\ minted[c].session = s
           /\ u = minted[c].at + CookieTTL
BindingDated(s) ==
  Dated(s, binding[s].cookie, binding[s].until) /\ Dated(s, binding[s].prev, binding[s].prevUntil)
CookiesDated == \A s \in Session : BindingDated(s)

\* What the handlers do to bindings, cookies and challenges, action by action.
RegisterDoes(q) ==
  /\ asked[q.session] # 0 /\ q.proof = asked[q.session] /\ ~Bound(q.session) /\ Live(q.session)
  /\ minted' = Append(minted, [session |-> q.session, at |-> now, proof |-> q.proof])
  /\ binding' = [binding EXCEPT ![q.session] =
       [Unbound EXCEPT !.cookie = Len(minted) + 1, !.until = now + CookieTTL]]
  /\ asked' = [asked EXCEPT ![q.session] = 0]
  /\ UNCHANGED challenges
AsksDoes(q) ==
  /\ Bound(q.session)
  /\ challenges' = challenges + 1
  /\ binding' = [binding EXCEPT ![q.session] =
       [@ EXCEPT !.challenge = challenges + 1, !.challengeUntil = now + ChallengeTTL]]
  /\ UNCHANGED <<minted, asked>>
RenewDoes(q) ==
  /\ Bound(q.session)
  /\ binding[q.session].challenge # 0 /\ q.proof = binding[q.session].challenge
  /\ challenges' = challenges + 1
  /\ minted' = Append(minted, [session |-> q.session, at |-> now, proof |-> q.proof])
  /\ binding' = [binding EXCEPT ![q.session] =
       [cookie |-> Len(minted) + 1, until |-> now + CookieTTL,
        prev |-> binding[q.session].cookie, prevUntil |-> binding[q.session].until,
        challenge |-> challenges + 1, challengeUntil |-> now + ChallengeTTL]]
  /\ UNCHANGED asked
OfferDoes ==
  /\ sid \in Session /\ sid \notin offered /\ ~Bound(sid)
  /\ challenges' = challenges + 1
  /\ asked' = [asked EXCEPT ![sid] = challenges + 1]
  /\ UNCHANGED <<minted, binding>>
DeleteDoes(s) ==
  /\ asked' = [asked EXCEPT ![s] = 0]
  /\ binding' = [binding EXCEPT ![s] = Unbound]
  /\ UNCHANGED <<minted, challenges>>
Handled(q) ==
  /\ q.session \in Session /\ q.proof \in Nat
  /\ RegisterDoes(q) \/ AsksDoes(q) \/ RenewDoes(q)
Still == UNCHANGED <<minted, binding, asked, challenges>>

LEMMA Handlers ==
  ASSUME TypeOK, [Next]_vars
  PROVE  \/ Still
         \/ OfferDoes
         \/ \E s \in Session : DeleteDoes(s)
         \/ \E q \in net : Handled(q)
<1> USE DEF server, browser, network
<1>1. CASE Tick \/ SignIn \/ SendRegister \/ SendRefresh \/ Receive \/ TimeOut \/ LoseKey \/ UNCHANGED vars
  BY <1>1 DEF Tick, SignIn, SendRegister, SendRefresh, Receive, TimeOut, GiveUp, LoseKey, vars, Still
<1>2. ASSUME NEW b \in BOOLEAN, Lose(b) PROVE Still
  BY <1>2 DEF Lose, GiveUp, Still
<1>3. ASSUME NEW b \in BOOLEAN, LoadPage(b) PROVE OfferDoes
  BY <1>3 DEF LoadPage, Admitted, OfferDoes, TypeOK
<1>4. ASSUME NEW s \in Session, Revoke(s) PROVE DeleteDoes(s)
  BY <1>4 DEF Revoke, Delete, DeleteDoes
<1>5. CASE LogOut
  <2>1. sid \in Session /\ DeleteDoes(sid)
    BY <1>5 DEF LogOut, Admitted, Delete, DeleteDoes, TypeOK
  <2> QED
    BY <2>1
<1>6. ASSUME NEW q \in net, Register(q) PROVE Still \/ RegisterDoes(q)
  BY <1>6 DEF Register, RegisterDoes, Still, Mint, Admitted
<1>7. ASSUME NEW q \in net, Refresh(q) PROVE Still \/ AsksDoes(q) \/ RenewDoes(q)
  <2>1. CASE RefreshEnded(q) \/ RefreshRefused(q)
    BY <1>7, <2>1 DEF Refresh, RefreshEnded, RefreshRefused, Still
  <2>2. CASE RefreshAsks(q)
    <3>1. challenges \in Nat /\ challenges + 1 > challenges
      BY DEF TypeOK
    <3> QED
      BY <1>7, <2>2, <3>1 DEF Refresh, RefreshAsks, Fresh, AsksDoes
  <2>3. CASE RefreshRenews(q)
    BY <1>7, <2>3 DEF Refresh, RefreshRenews, RenewDoes, Mint, Previous, NextChallenge, Answers
  <2> QED
    BY <1>7, <2>1, <2>2, <2>3 DEF Refresh
<1>8. \A q \in net : q.session \in Session /\ q.proof \in Nat
  BY DEF TypeOK, Req
<1> QED
  BY <1>1, <1>2, <1>3, <1>4, <1>5, <1>6, <1>7, <1>8 DEF Next, Handled

LEMMA DatedInductive ==
  ASSUME TypeOK, CookiesDated, [Next]_vars
  PROVE  CookiesDated'
<1> SUFFICES ASSUME NEW t \in Session PROVE BindingDated(t)'
  BY DEF CookiesDated
<1>1. BindingDated(t)
  BY DEF CookiesDated
<1>2. CASE Still \/ OfferDoes
  BY <1>1, <1>2 DEF Still, OfferDoes, BindingDated, Dated
<1>3. ASSUME NEW s \in Session, DeleteDoes(s) PROVE BindingDated(t)'
  BY <1>1, <1>3 DEF DeleteDoes, BindingDated, Dated, Unbound, TypeOK
<1>4. ASSUME NEW q \in net, q.session \in Session, AsksDoes(q) PROVE BindingDated(t)'
  BY <1>1, <1>4 DEF AsksDoes, BindingDated, Dated, TypeOK, Binding
<1>5. ASSUME NEW q \in net, q.session \in Session, q.proof \in Nat, RegisterDoes(q) \/ RenewDoes(q)
      PROVE  BindingDated(t)'
  <2>1. minted' = Append(minted, [session |-> q.session, at |-> now, proof |-> q.proof])
    BY <1>5 DEF RegisterDoes, RenewDoes
  <2>2. /\ Len(minted) \in Nat
        /\ Len(minted') = Len(minted) + 1
        /\ minted'[Len(minted) + 1] = [session |-> q.session, at |-> now, proof |-> q.proof]
        /\ \A c \in 1..Len(minted) : minted'[c] = minted[c]
    BY <1>5, <2>1, MintTypes
  <2>3. \A c, u : Dated(t, c, u) => Dated(t, c, u)'
    BY <2>2 DEF Dated
  <2>4. CASE t # q.session
    <3>1. binding'[t] = binding[t]
      BY <1>5, <2>4 DEF RegisterDoes, RenewDoes, TypeOK
    <3> QED
      BY <1>1, <2>3, <3>1 DEF BindingDated, Dated
  <2>5. CASE t = q.session
    <3> DEFINE k == Len(minted) + 1
    <3>1. k \in 1..Len(minted') /\ minted'[k].session = t /\ now + CookieTTL = minted'[k].at + CookieTTL
      BY <2>2, <2>5
    <3>2. CASE RegisterDoes(q)
      <4>1. binding'[t].cookie = k /\ binding'[t].until = now + CookieTTL /\ binding'[t].prev = 0
        BY <3>2, <2>5 DEF RegisterDoes, TypeOK, Unbound
      <4> QED
        BY <3>1, <4>1 DEF BindingDated, Dated
    <3>3. CASE RenewDoes(q)
      <4>1. /\ binding'[t].cookie = k /\ binding'[t].until = now + CookieTTL
            /\ binding'[t].prev = binding[t].cookie /\ binding'[t].prevUntil = binding[t].until
        BY <3>3, <2>5 DEF RenewDoes, TypeOK
      <4>2. Dated(t, binding[t].cookie, binding[t].until)
        BY <1>1 DEF BindingDated
      <4>3. Dated(t, binding[t].prev, binding[t].prevUntil)'
        BY <2>2, <4>1, <4>2 DEF Dated
      <4>4. Dated(t, binding[t].cookie, binding[t].until)'
        BY <3>1, <4>1 DEF Dated
      <4> QED
        BY <4>3, <4>4 DEF BindingDated
    <3> QED
      BY <1>5, <3>2, <3>3
  <2> QED
    BY <2>4, <2>5
<1>6. \/ Still \/ OfferDoes
      \/ \E s \in Session : DeleteDoes(s)
      \/ \E q \in net : Handled(q)
  BY Handlers
<1>8. ASSUME \E q \in net : Handled(q)
      PROVE  BindingDated(t)'
  <2>1. PICK q \in net : Handled(q)
    BY <1>8
  <2>2. CASE AsksDoes(q)
    BY <2>1, <2>2, <1>4 DEF Handled
  <2>3. CASE RegisterDoes(q) \/ RenewDoes(q)
    BY <2>1, <2>3, <1>5 DEF Handled
  <2> QED
    BY <2>1, <2>2, <2>3 DEF Handled
<1> QED
  BY <1>2, <1>3, <1>6, <1>8

LEMMA DatedFresh == TypeOK /\ CookiesDated => AcceptedIsFresh
<1> SUFFICES ASSUME TypeOK, CookiesDated,
                    NEW s \in Session, NEW c \in 1..Len(minted), Bound(s), Accepts(s, c)
             PROVE  minted[c].session = s /\ now < minted[c].at + CookieTTL + Grace
  BY DEF AcceptedIsFresh
<1>1. PICK u \in {binding[s].until, binding[s].prevUntil} : Dated(s, c, u) /\ u > now - Grace
  BY DEF Accepts, CookiesDated, BindingDated
<1>2. c # 0 /\ minted[c] \in Cookie /\ now \in Nat
  BY DEF TypeOK
<1> QED
  BY <1>1, <1>2, BindingsAssumption DEF Dated, Cookie

\* A cookie opens a bound session only within its life and the grace, whatever is
\* renewed, refused or repeated in between: checkBoundCookie never takes one that
\* refreshBinding let run out.
THEOREM AcceptedIsFreshHolds == Spec => []AcceptedIsFresh
<1>1. Init => CookiesDated
  BY DEF Init, CookiesDated, BindingDated, Dated, Unbound
<1>2. TypeOK /\ CookiesDated /\ [Next]_vars => CookiesDated'
  BY DatedInductive
<1> QED
  BY <1>1, <1>2, TypeCorrect, DatedFresh, PTL DEF Spec

-----------------------------------------------------------------------------
(* The use of a challenge *)

\* The challenges that wait for an answer are numbered, differ, and bought nothing yet.
New(n) == n # 0 => n <= challenges /\ \A c \in 1..Len(minted) : minted[c].proof # n
ChallengesApart ==
  /\ \A s \in Session : New(asked[s]) /\ New(binding[s].challenge)
  /\ \A s, t \in Session : asked[s] # 0 => asked[s] # binding[t].challenge
  /\ \A s, t \in Session : s # t /\ asked[s] # 0 => asked[s] # asked[t]
  /\ \A s, t \in Session : s # t /\ binding[s].challenge # 0 => binding[s].challenge # binding[t].challenge
  /\ \A c \in 1..Len(minted) : minted[c].proof <= challenges
ProofInv == ChallengesApart /\ EachProofOneCookie

LEMMA ApartInductive ==
  ASSUME TypeOK, ProofInv, [Next]_vars
  PROVE  ProofInv'
<1>1. /\ challenges \in Nat /\ challenges + 1 \in Nat /\ Len(minted) \in Nat
      /\ asked \in [Session -> Nat] /\ binding \in [Session -> Binding]
      /\ \A c \in 1..Len(minted) : minted[c].proof \in Nat
      /\ \A s \in Session : binding[s].challenge \in Nat
  <2>1. /\ challenges \in Nat /\ minted \in Seq(Cookie)
        /\ asked \in [Session -> Nat] /\ binding \in [Session -> Binding]
    BY DEF TypeOK
  <2>2. Len(minted) \in Nat /\ \A c \in 1..Len(minted) : minted[c] \in Cookie
    BY <2>1
  <2>3. \A c \in 1..Len(minted) : minted[c].proof \in Nat
    BY <2>2 DEF Cookie
  <2>4. \A s \in Session : binding[s].challenge \in Nat
    BY <2>1 DEF Binding
  <2> QED
    BY <2>1, <2>2, <2>3, <2>4
<1>2. CASE Still
  BY <1>2 DEF Still, ProofInv, ChallengesApart, New, EachProofOneCookie
<1>3. CASE OfferDoes
  <2>1. /\ challenges' = challenges + 1 /\ asked'[sid] = challenges + 1 /\ sid \in Session
        /\ \A s \in Session : s # sid => asked'[s] = asked[s]
        /\ binding' = binding /\ minted' = minted
    BY <1>1, <1>3 DEF OfferDoes
  <2>2. \A s \in Session : New(asked[s])' /\ New(binding[s].challenge)'
    <3> TAKE s \in Session
    <3>1. New(asked[s]) /\ New(binding[s].challenge) /\ \A c \in 1..Len(minted) : minted[c].proof <= challenges
      BY DEF ProofInv, ChallengesApart
    <3> QED
      BY <1>1, <2>1, <3>1 DEF New
  <2>3. \A s \in Session : asked[s] <= challenges /\ binding[s].challenge <= challenges
    BY <1>1 DEF ProofInv, ChallengesApart, New
  <2>4. \A c \in 1..Len(minted) : minted[c].proof <= challenges + 1
    BY <1>1 DEF ProofInv, ChallengesApart
  <2>5. EachProofOneCookie'
    BY <2>1 DEF ProofInv, EachProofOneCookie
  <2>6. \A s, t \in Session : asked'[s] # 0 => asked'[s] # binding'[t].challenge
    BY <1>1, <2>1, <2>3 DEF ProofInv, ChallengesApart
  <2>7. \A s, t \in Session : s # t /\ asked'[s] # 0 => asked'[s] # asked'[t]
    BY <1>1, <2>1, <2>3 DEF ProofInv, ChallengesApart
  <2> QED
    BY <1>1, <2>1, <2>2, <2>4, <2>5, <2>6, <2>7 DEF ProofInv, ChallengesApart
<1>4. ASSUME NEW d \in Session, DeleteDoes(d) PROVE ProofInv'
  <2>1. /\ asked'[d] = 0 /\ binding'[d].challenge = 0
        /\ \A s \in Session : s # d => asked'[s] = asked[s] /\ binding'[s].challenge = binding[s].challenge
        /\ challenges' = challenges /\ minted' = minted
    BY <1>1, <1>4 DEF DeleteDoes, Unbound
  <2>2. \A s \in Session : New(asked[s])' /\ New(binding[s].challenge)'
    <3> TAKE s \in Session
    <3>1. New(asked[s]) /\ New(binding[s].challenge)
      BY DEF ProofInv, ChallengesApart
    <3>2. asked'[s] \in {asked[s], 0} /\ binding'[s].challenge \in {binding[s].challenge, 0}
      BY <2>1
    <3> QED
      BY <2>1, <3>1, <3>2 DEF New
  <2>3. \A c \in 1..Len(minted') : minted'[c].proof <= challenges'
    BY <2>1 DEF ProofInv, ChallengesApart
  <2>4. EachProofOneCookie'
    BY <2>1 DEF ProofInv, EachProofOneCookie
  <2>5. \A s, u \in Session : asked'[s] # 0 => asked'[s] # binding'[u].challenge
    BY <2>1 DEF ProofInv, ChallengesApart
  <2>6. \A s, u \in Session : s # u /\ asked'[s] # 0 => asked'[s] # asked'[u]
    BY <2>1 DEF ProofInv, ChallengesApart
  <2>7. \A s, u \in Session :
          s # u /\ binding'[s].challenge # 0 => binding'[s].challenge # binding'[u].challenge
    BY <2>1 DEF ProofInv, ChallengesApart
  <2> QED
    BY <2>2, <2>3, <2>4, <2>5, <2>6, <2>7 DEF ProofInv, ChallengesApart
<1>5. ASSUME NEW q \in net, q.session \in Session, AsksDoes(q) PROVE ProofInv'
  <2>1. /\ binding'[q.session].challenge = challenges + 1
        /\ \A s \in Session : s # q.session => binding'[s].challenge = binding[s].challenge
        /\ challenges' = challenges + 1 /\ minted' = minted /\ asked' = asked
    BY <1>1, <1>5 DEF AsksDoes, Binding
  <2>2. \A s \in Session : New(asked[s])' /\ New(binding[s].challenge)'
    <3> TAKE s \in Session
    <3>1. New(asked[s]) /\ New(binding[s].challenge) /\ \A c \in 1..Len(minted) : minted[c].proof <= challenges
      BY DEF ProofInv, ChallengesApart
    <3> QED
      BY <1>1, <2>1, <3>1 DEF New
  <2>3. \A s \in Session : asked[s] <= challenges /\ binding[s].challenge <= challenges
    BY <1>1 DEF ProofInv, ChallengesApart, New
  <2>4. \A c \in 1..Len(minted) : minted[c].proof <= challenges + 1
    BY <1>1 DEF ProofInv, ChallengesApart
  <2>5. EachProofOneCookie'
    BY <2>1 DEF ProofInv, EachProofOneCookie
  <2>6. \A s \in Session : asked[s] # 0 => asked[s] # binding'[q.session].challenge
    BY <1>1, <2>1, <2>3
  <2>7. \A s \in Session : s # q.session => binding'[s].challenge # binding'[q.session].challenge
    BY <1>1, <2>1, <2>3
  <2> QED
    BY <1>1, <1>5, <2>1, <2>2, <2>4, <2>5, <2>6, <2>7 DEF ProofInv, ChallengesApart
<1>6. ASSUME NEW q \in net, q.session \in Session, q.proof \in Nat, RegisterDoes(q) \/ RenewDoes(q)
      PROVE  ProofInv'
  <2>1. minted' = Append(minted, [session |-> q.session, at |-> now, proof |-> q.proof])
    BY <1>6 DEF RegisterDoes, RenewDoes
  <2>2. /\ Len(minted') = Len(minted) + 1
        /\ minted'[Len(minted) + 1].proof = q.proof
        /\ \A c \in 1..Len(minted) : minted'[c] = minted[c]
    BY <1>6, <2>1, MintTypes
  <2>3. /\ q.proof # 0 /\ q.proof <= challenges
        /\ \A c \in 1..Len(minted) : minted[c].proof # q.proof
        /\ q.proof \in {asked[q.session], binding[q.session].challenge}
    BY <1>6 DEF RegisterDoes, RenewDoes, ProofInv, ChallengesApart, New
  <2>4. EachProofOneCookie'
    BY <1>1, <2>2, <2>3 DEF ProofInv, EachProofOneCookie
  <2>5. \A c \in 1..Len(minted') : minted'[c].proof <= challenges
    BY <1>1, <2>2, <2>3 DEF ProofInv, ChallengesApart
  <2>6. CASE RegisterDoes(q)
    <3>1. /\ asked'[q.session] = 0 /\ binding'[q.session].challenge = 0 /\ q.proof = asked[q.session]
          /\ \A s \in Session : s # q.session => asked'[s] = asked[s] /\ binding'[s].challenge = binding[s].challenge
          /\ challenges' = challenges
      BY <1>1, <1>6, <2>6 DEF RegisterDoes, Unbound
    <3>2. \A s \in Session : New(asked[s])' /\ New(binding[s].challenge)'
      <4> TAKE s \in Session
      <4>1. /\ New(asked[s]) /\ New(binding[s].challenge)
            /\ s # q.session /\ asked[s] # 0 => asked[s] # q.proof
            /\ binding[s].challenge # 0 => binding[s].challenge # q.proof
        BY <1>6, <2>3, <3>1 DEF ProofInv, ChallengesApart
      <4>2. New(0)'
        BY DEF New
      <4>3. \/ asked'[s] = asked[s] /\ (asked[s] # 0 => asked[s] # q.proof)
            \/ asked'[s] = 0
        BY <3>1, <4>1
      <4>4. binding'[s].challenge \in {binding[s].challenge, 0}
        BY <3>1
      <4>5. New(asked[s])'
        <5>1. CASE asked'[s] = 0
          BY <5>1 DEF New
        <5>2. CASE asked'[s] = asked[s] /\ (asked[s] # 0 => asked[s] # q.proof)
          BY <1>1, <2>2, <3>1, <4>1, <5>2 DEF New
        <5> QED
          BY <4>3, <5>1, <5>2
      <4>6. New(binding[s].challenge)'
        <5>1. CASE binding'[s].challenge = 0
          BY <5>1 DEF New
        <5>2. CASE binding'[s].challenge = binding[s].challenge
          BY <1>1, <2>2, <3>1, <4>1, <5>2 DEF New
        <5> QED
          BY <4>4, <5>1, <5>2
      <4> QED
        BY <4>5, <4>6
    <3> QED
      BY <1>1, <1>6, <2>4, <2>5, <3>1, <3>2 DEF ProofInv, ChallengesApart
  <2>7. CASE RenewDoes(q)
    <3>1. /\ asked' = asked /\ binding'[q.session].challenge = challenges + 1
          /\ q.proof = binding[q.session].challenge
          /\ \A s \in Session : s # q.session => binding'[s].challenge = binding[s].challenge
          /\ challenges' = challenges + 1
      BY <1>1, <1>6, <2>7 DEF RenewDoes
    <3>2. \A s \in Session : New(asked[s])' /\ New(binding[s].challenge)'
      <4> TAKE s \in Session
      <4>1. /\ New(asked[s]) /\ New(binding[s].challenge)
            /\ asked[s] # 0 => asked[s] # q.proof
            /\ s # q.session /\ binding[s].challenge # 0 => binding[s].challenge # q.proof
        BY <1>6, <2>3, <3>1 DEF ProofInv, ChallengesApart
      <4>2. New(asked[s])'
        BY <1>1, <2>2, <3>1, <4>1 DEF New
      <4>3. CASE s # q.session
        <5>1. binding'[s].challenge = binding[s].challenge /\ New(binding[s].challenge)
              /\ (binding[s].challenge # 0 => binding[s].challenge # q.proof)
          BY <3>1, <4>1, <4>3
        <5>2. SUFFICES ASSUME binding[s].challenge # 0 PROVE New(binding[s].challenge)'
          BY <4>2, <5>1 DEF New
        <5>3. binding[s].challenge <= challenges'
          BY <1>1, <3>1, <5>1, <5>2 DEF New
        <5>4. \A c \in 1..Len(minted) : minted'[c].proof # binding[s].challenge
          BY <2>2, <5>1, <5>2 DEF New
        <5>5. minted'[Len(minted) + 1].proof # binding[s].challenge
          BY <2>2, <5>1, <5>2
        <5>6. \A c \in 1..Len(minted') : minted'[c].proof # binding[s].challenge
          <6> Len(minted) \in Nat
            BY <1>1
          <6> QED
            BY <2>2, <5>4, <5>5
        <5> QED
          BY <5>1, <5>3, <5>6 DEF New
      <4>4. CASE s = q.session
        <5>1. \A c \in 1..Len(minted') : minted'[c].proof # challenges + 1
          BY <1>1, <1>6, <2>2, <2>3, <2>5
        <5> QED
          BY <1>1, <3>1, <4>2, <4>4, <5>1 DEF New
      <4> QED
        BY <4>2, <4>3, <4>4
    <3>3. \A s \in Session : asked[s] <= challenges /\ binding[s].challenge <= challenges
      BY <1>1 DEF ProofInv, ChallengesApart, New
    <3>4. \A c \in 1..Len(minted') : minted'[c].proof <= challenges + 1
      <4>1. \A c \in 1..Len(minted') : minted'[c].proof \in Nat
        BY <1>1, <1>6, <2>2
      <4> QED
        BY <1>1, <2>5, <4>1
    <3>5. \A s \in Session : asked[s] # 0 => asked[s] # binding'[q.session].challenge
      BY <1>1, <3>1, <3>3
    <3>6. \A s \in Session : s # q.session => binding'[s].challenge # binding'[q.session].challenge
      BY <1>1, <3>1, <3>3
    <3>7. \A s, t \in Session : asked[s] # 0 => asked[s] # binding'[t].challenge
      BY <1>6, <3>1, <3>5 DEF ProofInv, ChallengesApart
    <3>8. \A s, t \in Session : s # t /\ binding'[s].challenge # 0 => binding'[s].challenge # binding'[t].challenge
      BY <1>6, <3>1, <3>6 DEF ProofInv, ChallengesApart
    <3> QED
      BY <1>1, <2>4, <3>1, <3>2, <3>4, <3>7, <3>8 DEF ProofInv, ChallengesApart
  <2> QED
    BY <1>6, <2>6, <2>7
<1>7. \/ Still \/ OfferDoes
      \/ \E s \in Session : DeleteDoes(s)
      \/ \E q \in net : Handled(q)
  BY Handlers
<1>8. ASSUME \E q \in net : Handled(q)
      PROVE  ProofInv'
  <2>1. PICK q \in net : Handled(q)
    BY <1>8
  <2>2. CASE AsksDoes(q)
    BY <2>1, <2>2, <1>5 DEF Handled
  <2>3. CASE RegisterDoes(q) \/ RenewDoes(q)
    BY <2>1, <2>3, <1>6 DEF Handled
  <2> QED
    BY <2>1, <2>2, <2>3 DEF Handled
<1> QED
  BY <1>2, <1>3, <1>4, <1>7, <1>8

\* No proof buys two cookies, of one session or of two, however its copies arrive:
\* registerBinding and refreshBinding replace the challenge they took.
THEOREM EachProofOneCookieHolds == Spec => []EachProofOneCookie
<1>1. Init => ProofInv
  BY DEF Init, ProofInv, ChallengesApart, New, EachProofOneCookie, Unbound
<1>2. TypeOK /\ ProofInv /\ [Next]_vars => ProofInv'
  BY ApartInductive
<1>3. ProofInv => EachProofOneCookie
  BY DEF ProofInv
<1> QED
  BY <1>1, <1>2, <1>3, TypeCorrect, PTL DEF Spec

-----------------------------------------------------------------------------
(* The cookie in the jar *)

\* A session with a cookie is bound until its row goes, and no row comes back.
Tied(s) == s \in 1..given /\ (Bound(s) \/ expires[s] = 0)

\* The cookie c is the last one of its session, and no request on its way can
\* renew it: none carries a proof over the challenge its binding waits for.
InHand(s, c) ==
  Bound(s) => /\ c # 0 /\ c = binding[s].cookie
              /\ \A q \in net : q.kind = "refresh" /\ q.session = s =>
                   q.proof = 0 \/ q.proof # binding[s].challenge

\* Whatever is answered or to be asked was numbered by the server before.
Counted ==
  /\ \A q \in net : q.proof <= challenges
  /\ config.challenge <= challenges /\ answer.challenge <= challenges /\ offer <= challenges

Known ==
  /\ \A s \in Session : expires[s] # 0 => s <= given
  /\ \A s \in Session : config.session = s => Tied(s)

Waits ==
  /\ waiting.since <= now
  /\ waiting.try = 0 => answer = NoAnswer

\* A cookie on its way was minted after it was asked for ...
AnswerHolds ==
  answer.kind = "cookie" =>
    /\ answer.session # None
    /\ \A s \in Session, c \in Nat : s = answer.session /\ c = answer.cookie =>
         /\ Tied(s) /\ InHand(s, c)
         /\ Bound(s) => waiting.since + CookieTTL <= binding[s].until

\* ... so the one in the jar outlives the server's by the browser's patience at most.
JarHolds ==
  \A s \in Session, c \in Nat : s = config.session /\ c = jar.cookie /\ JarLive =>
    /\ InHand(s, c)
    /\ Bound(s) => jar.until <= binding[s].until + Patience

JarInv == Counted /\ Known /\ Waits /\ AnswerHolds /\ JarHolds

\* What a step that mints no cookie for s may do to its binding.
Keeps(s) ==
  /\ Tied(s) => Tied(s)'
  /\ Bound(s)' => /\ Bound(s)
                  /\ binding'[s].cookie = binding[s].cookie
                  /\ binding'[s].until = binding[s].until
                  /\ binding'[s].challenge \in {binding[s].challenge, challenges + 1}

NoNewRefresh == \A q \in net' : q.kind = "refresh" => q \in net

\* A challenge just numbered is in no request on its way.
LEMMA InHandKept ==
  ASSUME TypeOK, Counted, NEW s \in Session, NEW c \in Nat, InHand(s, c), Keeps(s), NoNewRefresh
  PROVE  InHand(s, c)'
<1> SUFFICES ASSUME Bound(s)'
             PROVE  /\ c # 0 /\ c = binding'[s].cookie
                    /\ \A q \in net' : q.kind = "refresh" /\ q.session = s =>
                         q.proof = 0 \/ q.proof # binding'[s].challenge
  BY DEF InHand
<1>1. /\ c # 0 /\ c = binding[s].cookie
      /\ \A q \in net : q.kind = "refresh" /\ q.session = s =>
           q.proof = 0 \/ q.proof # binding[s].challenge
  BY DEF InHand, Keeps
<1>2. \A q \in net : q.proof # challenges + 1
  BY DEF TypeOK, Counted, Req
<1> QED
  BY <1>1, <1>2 DEF Keeps, NoNewRefresh

LEMMA KeepStep ==
  ASSUME TypeOK, JarInv, \A s \in Session : Keeps(s), NoNewRefresh,
         answer'.kind # "cookie" \/ (answer' = answer /\ waiting' = waiting),
         config'.session # None => config'.session = config.session,
         config'.session # None /\ JarLive' => JarLive /\ jar' = jar
  PROVE  AnswerHolds' /\ JarHolds' /\ (\A s \in Session : config'.session = s => Tied(s)')
<1>1. AnswerHolds'
  <2>1. SUFFICES ASSUME answer'.kind = "cookie", answer' = answer, waiting' = waiting
                 PROVE  AnswerHolds'
    BY DEF AnswerHolds
  <2>2. ASSUME NEW s \in Session, NEW c \in Nat, s = answer.session, c = answer.cookie
        PROVE  /\ Tied(s)' /\ InHand(s, c)'
               /\ Bound(s)' => waiting.since + CookieTTL <= binding'[s].until
    <3>1. Tied(s) /\ InHand(s, c) /\ (Bound(s) => waiting.since + CookieTTL <= binding[s].until)
      BY <2>1, <2>2 DEF JarInv, AnswerHolds
    <3>2. InHand(s, c)'
      BY <3>1, InHandKept DEF JarInv
    <3> QED
      BY <3>1, <3>2 DEF Keeps
  <2> QED
    BY <2>1, <2>2 DEF AnswerHolds, JarInv
<1>2. JarHolds'
  <2>1. ASSUME NEW s \in Session, NEW c \in Nat, s = config'.session, c = jar'.cookie, JarLive'
        PROVE  InHand(s, c)' /\ (Bound(s)' => jar'.until <= binding'[s].until + Patience)
    <3>1. s = config.session /\ JarLive /\ jar' = jar
      BY <2>1 DEF Session, None
    <3>2. InHand(s, c) /\ (Bound(s) => jar.until <= binding[s].until + Patience)
      BY <2>1, <3>1 DEF JarInv, JarHolds
    <3>3. InHand(s, c)'
      BY <3>2, InHandKept DEF JarInv
    <3> QED
      BY <3>1, <3>2, <3>3 DEF Keeps
  <2> QED
    BY <2>1 DEF JarHolds
<1>3. ASSUME NEW s \in Session, config'.session = s PROVE Tied(s)'
  BY <1>3 DEF Session, None, Keeps, JarInv, Known
<1> QED
  BY <1>1, <1>2, <1>3

\* A cookie is minted for a session whose last one is neither in the jar nor on
\* its way there.
LEMMA MintStep ==
  ASSUME TypeOK, JarInv, NEW q \in net, NEW s \in Session, NEW b \in Binding, NEW n,
         q.session = s, b.cookie # 0, b.until = now + CookieTTL,
         b.challenge \in {0, challenges + 1}, expires[s] # 0,
         binding' = [binding EXCEPT ![s] = b],
         UNCHANGED <<now, given, expires, browser>>,
         Reply(q, [kind |-> "cookie", session |-> s, cookie |-> b.cookie, challenge |-> n]),
         ~(answer.kind = "cookie" /\ answer.session = s),
         ~(config.session = s /\ JarLive)
  PROVE  AnswerHolds' /\ JarHolds' /\ (\A t \in Session : config'.session = t => Tied(t)')
<1> USE DEF browser
<1>1. ASSUME NEW t \in Session, t # s PROVE Keeps(t)
  BY <1>1 DEF TypeOK, Keeps, Tied, Bound
<1>2. NoNewRefresh /\ net' \subseteq net
  BY DEF Reply, NoNewRefresh
<1>3. binding'[s] = b /\ Bound(s)' /\ Tied(s)'
  <2>1. binding'[s] = b
    BY DEF TypeOK
  <2>2. b # Unbound
    BY DEF Unbound
  <2> QED
    BY <2>1, <2>2 DEF Bound, Tied, JarInv, Known, TypeOK, Session
<1>4. InHand(s, b.cookie)'
  <2>1. \A p \in net : p.proof # challenges + 1
    BY DEF TypeOK, JarInv, Counted, Req
  <2> QED
    BY <1>2, <1>3, <2>1 DEF InHand
<1>5. AnswerHolds'
  <2>1. CASE answer' = answer
    <3>1. ASSUME NEW t \in Session, NEW c \in Nat, answer.kind = "cookie", t = answer.session, c = answer.cookie
          PROVE  /\ Tied(t)' /\ InHand(t, c)'
                 /\ Bound(t)' => waiting.since + CookieTTL <= binding'[t].until
      <4>1. Tied(t) /\ InHand(t, c) /\ (Bound(t) => waiting.since + CookieTTL <= binding[t].until)
        BY <3>1 DEF JarInv, AnswerHolds
      <4>2. Keeps(t)
        BY <1>1, <3>1
      <4>3. InHand(t, c)'
        BY <1>2, <4>1, <4>2, InHandKept DEF JarInv
      <4> QED
        BY <4>1, <4>2, <4>3 DEF Keeps
    <3> QED
      BY <2>1, <3>1 DEF AnswerHolds, JarInv
  <2>2. CASE answer' = [kind |-> "cookie", session |-> s, cookie |-> b.cookie, challenge |-> n]
    <3>1. waiting.since + CookieTTL <= b.until
      BY BindingsAssumption DEF JarInv, Waits, TypeOK
    <3>2. answer'.session = s /\ answer'.cookie = b.cookie /\ s # None
      BY <2>2 DEF Session, None
    <3> QED
      BY <1>3, <1>4, <3>1, <3>2 DEF AnswerHolds
  <2> QED
    BY <2>1, <2>2 DEF Reply
<1>6. JarHolds'
  <2>1. ASSUME NEW t \in Session, NEW c \in Nat, t = config.session, c = jar.cookie, JarLive
        PROVE  InHand(t, c)' /\ (Bound(t)' => jar.until <= binding'[t].until + Patience)
    <3>1. InHand(t, c) /\ (Bound(t) => jar.until <= binding[t].until + Patience)
      BY <2>1 DEF JarInv, JarHolds
    <3>2. Keeps(t)
      BY <1>1, <2>1
    <3>3. InHand(t, c)'
      BY <1>2, <3>1, <3>2, InHandKept DEF JarInv
    <3> QED
      BY <3>1, <3>2, <3>3 DEF Keeps
  <2> QED
    BY <2>1 DEF JarHolds, JarLive
<1>7. ASSUME NEW t \in Session, config'.session = t PROVE Tied(t)'
  <2>1. Tied(t)
    BY <1>7 DEF JarInv, Known
  <2> QED
    BY <1>1, <1>3, <2>1 DEF Keeps
<1> QED
  BY <1>5, <1>6, <1>7

\* Numbers are given out by the server and passed on.
LEMMA CountedStep ==
  ASSUME TypeOK, Counted, [Next]_vars
  PROVE  Counted'
<1> USE DEF server, browser, network
<1>1. /\ challenges \in Nat /\ offer \in Nat /\ config.challenge \in Nat /\ answer.challenge \in Nat
      /\ NoConfig.challenge = 0 /\ NoAnswer.challenge = 0
  BY DEF TypeOK, NoConfig, NoAnswer, Answer
<1>2. CASE Tick \/ SignIn \/ LoseKey \/ UNCHANGED vars
  <2>1. UNCHANGED <<net, challenges, answer, offer>> /\ config'.challenge = config.challenge
    BY <1>2 DEF Tick, SignIn, LoseKey, vars, TypeOK
  <2> QED
    BY <2>1 DEF Counted
<1>3. ASSUME NEW b \in BOOLEAN, LoadPage(b) PROVE Counted'
  <2>1. challenges' = challenges + 1 /\ UNCHANGED <<net, answer, config>> /\ offer' \in {offer, challenges'}
    BY <1>3 DEF LoadPage
  <2>2. \A q \in net : q.proof \in Nat
    BY DEF TypeOK, Req
  <2> QED
    BY <1>1, <2>1, <2>2 DEF Counted
<1>4. CASE SendRegister
  <2>1. /\ \A q \in net' : q \in net \/ q.proof = offer
        /\ UNCHANGED <<challenges, answer, config>> /\ offer' = 0
    BY <1>4 DEF SendRegister, Send
  <2> QED
    BY <1>1, <2>1 DEF Counted
<1>5. CASE SendRefresh
  <2>1. /\ \A q \in net' : q \in net \/ q.proof = config.challenge
        /\ UNCHANGED <<challenges, answer, config, offer>>
    BY <1>5 DEF SendRefresh, Send
  <2> QED
    BY <1>1, <2>1 DEF Counted
<1>6. CASE Receive
  <2>1. /\ UNCHANGED <<net, challenges, offer>> /\ answer' = NoAnswer
        /\ config'.challenge \in {config.challenge, answer.challenge, 0}
    BY <1>1, <1>6 DEF Receive, TypeOK
  <2> QED
    BY <1>1, <2>1 DEF Counted
<1>7. CASE TimeOut \/ \E b \in BOOLEAN : Lose(b)
  <2>1. net' \subseteq net /\ UNCHANGED <<challenges, offer, config>> /\ answer' = NoAnswer
    BY <1>7 DEF TimeOut, Lose, GiveUp
  <2> QED
    BY <1>1, <2>1 DEF Counted
<1>8. CASE LogOut \/ \E s \in Session : Revoke(s)
  BY <1>8 DEF LogOut, Revoke, Counted
<1>9. ASSUME NEW q \in net, Register(q) PROVE Counted'
  <2>1. net' \subseteq net /\ UNCHANGED <<challenges, offer, config>> /\ answer'.challenge \in {0, answer.challenge}
    BY <1>9 DEF Register, Reply
  <2> QED
    BY <1>1, <2>1 DEF Counted
<1>10. ASSUME NEW q \in net, Refresh(q) PROVE Counted'
  <2>1. /\ net' \subseteq net /\ UNCHANGED <<offer, config>>
        /\ challenges' >= challenges /\ answer'.challenge \in {0, answer.challenge, challenges'}
    <3>1. CASE RefreshEnded(q) \/ RefreshRefused(q)
      BY <1>1, <1>10, <3>1 DEF Refresh, RefreshEnded, RefreshRefused, Reply
    <3>2. CASE RefreshAsks(q)
      <4>1. challenges' = challenges + 1 /\ answer'.challenge \in {challenges', answer.challenge}
        BY <1>1, <3>2 DEF RefreshAsks, Fresh, Reply
      <4> QED
        BY <1>1, <1>10, <3>2, <4>1 DEF Refresh, RefreshAsks, Reply
    <3>3. CASE RefreshRenews(q)
      BY <1>1, <1>10, <3>3 DEF Refresh, RefreshRenews, Reply
    <3> QED
      BY <1>10, <3>1, <3>2, <3>3 DEF Refresh
  <2>2. challenges' \in Nat /\ \A p \in net : p.proof \in Nat
    BY NextTypes DEF TypeOK, Req
  <2> QED
    BY <1>1, <2>1, <2>2 DEF Counted
<1> QED
  BY <1>2, <1>3, <1>4, <1>5, <1>6, <1>7, <1>8, <1>9, <1>10 DEF Next

LEMMA WaitsStep ==
  ASSUME TypeOK, Waits, [Next]_vars
  PROVE  /\ Waits'
         /\ (\A s \in Session : expires[s] # 0 => s <= given)
              => (\A s \in Session : expires'[s] # 0 => s <= given')
<1> USE DEF server, browser, network
<1>1. now \in Nat /\ Idle.since = 0 /\ Idle.try = 0 /\ waiting.try \in Tries \cup {0} /\ waiting.since \in Nat
  BY DEF TypeOK, Idle
<1>2. Waits'
  <2>1. CASE Tick \/ SignIn \/ LoseKey \/ LogOut \/ UNCHANGED vars
             \/ (\E b \in BOOLEAN : LoadPage(b)) \/ \E s \in Session : Revoke(s)
    BY <1>1, <2>1 DEF Tick, SignIn, LoseKey, LogOut, LoadPage, Revoke, vars, Waits
  <2>2. CASE SendRegister \/ SendRefresh
    <3>1. waiting'.try \in Tries /\ waiting'.since = now /\ now' = now
      BY <2>2 DEF SendRegister, SendRefresh, Send
    <3> QED
      BY <1>1, <3>1 DEF Waits, Tries
  <2>3. CASE Receive \/ TimeOut \/ \E b \in BOOLEAN : Lose(b)
    BY <1>1, <2>3 DEF Receive, TimeOut, Lose, GiveUp, Waits
  <2>4. CASE \E q \in net : Register(q) \/ Refresh(q)
    <3>1. PICK q \in net : Register(q) \/ Refresh(q)
      BY <2>4
    <3>2. UNCHANGED <<now, waiting>> /\ \E a : Reply(q, a)
      BY <3>1 DEF Register, Refresh, RefreshEnded, RefreshAsks, RefreshRefused, RefreshRenews
    <3>3. q.try # 0
      BY DEF TypeOK, Req, Tries
    <3> QED
      BY <3>2, <3>3 DEF Waits, Reply
  <2> QED
    BY <2>1, <2>2, <2>3, <2>4 DEF Next
<1>3. ASSUME \A s \in Session : expires[s] # 0 => s <= given
      PROVE  \A s \in Session : expires'[s] # 0 => s <= given'
  <2>1. CASE SignIn
    BY <1>3, <2>1 DEF SignIn, TypeOK, Session
  <2>2. CASE LogOut \/ \E s \in Session : Revoke(s)
    BY <1>3, <2>2 DEF LogOut, Revoke, Delete, TypeOK
  <2>3. CASE ~SignIn /\ ~LogOut /\ ~\E s \in Session : Revoke(s)
    <3>1. UNCHANGED <<expires, given>>
      BY <2>3 DEF Next, vars, Tick, LoadPage, Lose, GiveUp, SendRegister, SendRefresh, Receive,
                  TimeOut, LoseKey, Register, Refresh
    <3> QED
      BY <1>3, <3>1
  <2> QED
    BY <2>1, <2>2, <2>3
<1> QED
  BY <1>2, <1>3

LEMMA JarStep ==
  ASSUME TypeOK, JarInv, [Next]_vars
  PROVE  AnswerHolds' /\ JarHolds' /\ (\A s \in Session : config'.session = s => Tied(s)')
<1> USE DEF server, browser, network
<1>1. ASSUME NEW s \in Session, UNCHANGED <<given, expires, binding>> PROVE Keeps(s)
  BY <1>1 DEF Keeps, Tied, Bound
<1>2. NoAnswer.kind = "none" /\ NoConfig.session = None /\ now \in Nat /\ now < now + 1
  BY DEF NoAnswer, NoConfig, TypeOK
<1>3. now + CookieTTL \in Nat /\ now + ChallengeTTL \in Nat /\ challenges + 1 \in Nat
  BY BindingsAssumption DEF TypeOK
<1>4. net' \subseteq net => NoNewRefresh
  BY DEF NoNewRefresh
<1>5. CASE Tick \/ LoseKey \/ UNCHANGED vars \/ \E b \in BOOLEAN : LoadPage(b)
  <2>1. /\ UNCHANGED <<given, expires, binding, net, answer, waiting, jar>>
        /\ config'.session = config.session /\ (JarLive' => JarLive)
    BY <1>2, <1>5 DEF Tick, LoseKey, LoadPage, vars, JarLive, TypeOK
  <2> QED
    BY <1>1, <1>4, <2>1, KeepStep
<1>6. CASE SignIn
  <2>1. /\ UNCHANGED <<binding, net, answer, waiting, jar, config>> /\ (JarLive' => JarLive)
        /\ given' = given + 1 /\ given \in Nat
        /\ \A s \in Session : s # given' => expires'[s] = expires[s]
    BY <1>6 DEF SignIn, JarLive, TypeOK
  <2>2. ASSUME NEW s \in Session PROVE Keeps(s)
    BY <2>1 DEF Keeps, Tied, Bound, Session
  <2> QED
    BY <1>4, <2>1, <2>2, KeepStep
<1>7. CASE SendRegister
  <2>1. /\ UNCHANGED <<given, expires, binding, answer, jar, config>> /\ waiting = Idle
        /\ NoNewRefresh /\ (JarLive' => JarLive)
    BY <1>7 DEF SendRegister, Send, NoNewRefresh, JarLive
  <2>2. answer'.kind # "cookie"
    BY <1>2, <2>1 DEF JarInv, Waits, Idle
  <2> QED
    BY <1>1, <2>1, <2>2, KeepStep
<1>8. CASE SendRefresh
  <2>1. /\ UNCHANGED <<given, expires, binding, answer, jar, config, now>> /\ waiting = Idle /\ ~JarLive
    BY <1>8 DEF SendRefresh
  <2>2. answer'.kind # "cookie" /\ ~JarLive'
    BY <1>2, <2>1 DEF JarInv, Waits, Idle, JarLive
  <2>3. ASSUME NEW s \in Session, config'.session = s PROVE Tied(s)'
    BY <1>1, <2>1, <2>3 DEF JarInv, Known, Keeps
  <2> QED
    BY <2>2, <2>3 DEF AnswerHolds, JarHolds
<1>9. CASE Receive
  <2>1. UNCHANGED <<given, expires, binding, net, now>> /\ answer'.kind # "cookie"
    BY <1>2, <1>9 DEF Receive
  <2>2. CASE answer.kind # "cookie"
    <3>1. jar' = jar /\ (config'.session # None => config'.session = config.session) /\ (JarLive' => JarLive)
      BY <1>2, <1>9, <2>2 DEF Receive, TypeOK, JarLive
    <3> QED
      BY <1>1, <1>4, <2>1, <3>1, KeepStep
  <2>3. CASE answer.kind = "cookie"
    <3>1. /\ config'.session = answer.session /\ jar'.cookie = answer.cookie
          /\ jar'.until = now + CookieTTL /\ now <= waiting.since + Patience
      BY <1>9, <2>3 DEF Receive
    <3>2. ASSUME NEW s \in Session, NEW c \in Nat, s = config'.session, c = jar'.cookie
          PROVE  Tied(s)' /\ InHand(s, c)' /\ (Bound(s)' => jar'.until <= binding'[s].until + Patience)
      <4>1. Tied(s) /\ InHand(s, c) /\ (Bound(s) => waiting.since + CookieTTL <= binding[s].until)
        BY <2>3, <3>1, <3>2 DEF JarInv, AnswerHolds
      <4>2. InHand(s, c)' /\ Tied(s)' /\ (Bound(s)' <=> Bound(s))
        BY <2>1, <4>1 DEF InHand, Tied, Bound
      <4>3. waiting.since \in Nat /\ binding[s].until \in Nat
        BY DEF TypeOK, Binding
      <4>4. waiting.since + CookieTTL <= binding[s].until => now + CookieTTL <= binding[s].until + Patience
        BY <1>2, <3>1, <4>3, BindingsAssumption
      <4> QED
        BY <2>1, <3>1, <4>1, <4>2, <4>4
    <3>3. jar'.cookie \in Nat
      BY <3>1 DEF TypeOK, Answer
    <3> QED
      BY <2>1, <3>2, <3>3 DEF AnswerHolds, JarHolds
  <2> QED
    BY <2>2, <2>3
<1>10. CASE TimeOut \/ \E b \in BOOLEAN : Lose(b)
  <2>1. /\ UNCHANGED <<given, expires, binding, jar, config, now>> /\ net' \subseteq net
        /\ answer'.kind # "cookie" /\ (JarLive' => JarLive)
    BY <1>2, <1>10 DEF TimeOut, Lose, GiveUp, JarLive
  <2> QED
    BY <1>1, <1>4, <2>1, KeepStep
<1>11. ASSUME NEW s \in Session, expires[s] # 0, Delete(s), UNCHANGED <<given, net, answer, waiting, config, now>>,
              jar' = jar \/ jar' = Empty
       PROVE  AnswerHolds' /\ JarHolds' /\ (\A t \in Session : config'.session = t => Tied(t)')
  <2>1. ASSUME NEW t \in Session PROVE Keeps(t)
    <3>1. CASE t = s
      BY <1>11, <3>1 DEF Delete, Keeps, Tied, Bound, TypeOK
    <3>2. CASE t # s
      BY <1>11, <3>2 DEF Delete, Keeps, Tied, Bound, TypeOK
    <3> QED
      BY <3>1, <3>2
  <2>2. JarLive' => JarLive /\ jar' = jar
    BY <1>2, <1>11 DEF JarLive, Empty
  <2> QED
    BY <1>4, <1>11, <2>1, <2>2, KeepStep
<1>12. CASE LogOut
  <2>1. sid \in Session /\ expires[sid] # 0
    BY <1>12 DEF LogOut, Admitted, Live, TypeOK
  <2>2. PICK s \in Session : s = sid
    BY <2>1
  <2> QED
    BY <1>11, <1>12, <2>1, <2>2 DEF LogOut
<1>13. CASE \E s \in Session : Revoke(s)
  BY <1>11, <1>13 DEF Revoke
<1>14. ASSUME NEW q \in net, Register(q)
       PROVE  AnswerHolds' /\ JarHolds' /\ (\A s \in Session : config'.session = s => Tied(s)')
  <2>1. UNCHANGED <<now, given, expires, browser>> /\ q.session \in Session /\ (JarLive' <=> JarLive)
    BY <1>14 DEF Register, TypeOK, Req, JarLive
  <2>2. CASE UNCHANGED binding /\ Reply(q, [kind |-> "refused", session |-> None, cookie |-> 0, challenge |-> 0])
    <3>1. net' \subseteq net /\ (answer'.kind # "cookie" \/ answer' = answer)
      BY <2>2 DEF Reply
    <3> QED
      BY <1>1, <1>4, <2>1, <2>2, <3>1, KeepStep
  <2>3. CASE ~(UNCHANGED binding /\ Reply(q, [kind |-> "refused", session |-> None, cookie |-> 0, challenge |-> 0]))
    <3> DEFINE s == q.session
               c == Len(minted) + 1
               b == [Unbound EXCEPT !.cookie = c, !.until = now + CookieTTL]
    <3>1. /\ Live(s) /\ ~Bound(s)
          /\ binding' = [binding EXCEPT ![s] = b]
          /\ Reply(q, [kind |-> "cookie", session |-> s, cookie |-> c, challenge |-> 0])
      BY <1>14, <2>3 DEF Register, Admitted
    <3>2. c \in Nat /\ c # 0
      BY MintTypes, <2>1 DEF TypeOK
    <3>3. b \in Binding /\ b.cookie = c /\ b.until = now + CookieTTL /\ b.challenge = 0
      <4> HIDE DEF c
      <4> QED
        BY <1>3, <3>2 DEF Binding, Unbound
    <3>4. expires[s] # 0 /\ ~Tied(s)
      <4>1. expires[s] \in Nat /\ expires[s] > now
        BY <2>1, <3>1 DEF Live, TypeOK
      <4>2. expires[s] # 0
        BY <1>2, <4>1
      <4> QED
        BY <3>1, <4>2 DEF Tied
    <3>5. ~(answer.kind = "cookie" /\ answer.session = s) /\ config.session # s
      <4>1. answer.cookie \in Nat
        BY DEF TypeOK, Answer
      <4> QED
        BY <2>1, <3>4, <4>1 DEF JarInv, Known, AnswerHolds
    <3> HIDE DEF b, c
    <3> QED
      BY <2>1, <3>1, <3>2, <3>3, <3>4, <3>5, MintStep
  <2> QED
    BY <2>2, <2>3
<1>15. ASSUME NEW q \in net, Refresh(q)
       PROVE  AnswerHolds' /\ JarHolds' /\ (\A s \in Session : config'.session = s => Tied(s)')
  <2>1. /\ UNCHANGED <<now, given, expires, browser>> /\ q.session \in Session /\ q.kind = "refresh"
        /\ (JarLive' <=> JarLive)
    BY <1>15 DEF Refresh, TypeOK, Req, JarLive
  <2>2. CASE RefreshEnded(q) \/ RefreshRefused(q)
    <3>1. UNCHANGED binding /\ net' \subseteq net /\ (answer'.kind # "cookie" \/ answer' = answer)
      BY <2>2 DEF RefreshEnded, RefreshRefused, Reply
    <3> QED
      BY <1>1, <1>4, <2>1, <3>1, KeepStep
  <2>3. CASE RefreshAsks(q)
    <3>1. net' \subseteq net /\ (answer'.kind # "cookie" \/ answer' = answer)
      BY <2>3 DEF RefreshAsks, Reply
    <3>2. Bound(q.session) /\ binding' = [binding EXCEPT ![q.session] =
              [@ EXCEPT !.challenge = challenges + 1, !.challengeUntil = now + ChallengeTTL]]
      BY <2>3 DEF RefreshAsks, Fresh
    <3>3. ASSUME NEW s \in Session PROVE Keeps(s)
      <4>1. CASE s = q.session
        <5>1. /\ binding'[s].cookie = binding[s].cookie
              /\ binding'[s].until = binding[s].until
              /\ binding'[s].challenge = challenges + 1
          BY <3>2, <4>1 DEF TypeOK, Binding
        <5>2. binding'[s] # Unbound
          BY <5>1 DEF Unbound, TypeOK
        <5> QED
          BY <2>1, <3>2, <4>1, <5>1, <5>2 DEF Keeps, Tied, Bound
      <4>2. CASE s # q.session
        BY <2>1, <3>2, <4>2 DEF Keeps, Tied, Bound, TypeOK
      <4> QED
        BY <4>1, <4>2
    <3> QED
      BY <1>4, <2>1, <3>1, <3>3, KeepStep
  <2>4. CASE RefreshRenews(q)
    <3> DEFINE s == q.session
               c == Len(minted) + 1
               b == [cookie |-> c, until |-> now + CookieTTL,
                     prev |-> binding[s].cookie, prevUntil |-> binding[s].until,
                     challenge |-> challenges + 1, challengeUntil |-> now + ChallengeTTL]
    <3>1. /\ Live(s) /\ Bound(s) /\ binding[s].challenge # 0 /\ q.proof = binding[s].challenge
          /\ binding' = [binding EXCEPT ![s] = b]
          /\ Reply(q, [kind |-> "cookie", session |-> s, cookie |-> c, challenge |-> challenges'])
      BY <2>4, <2>1 DEF RefreshRenews, Answers, Previous, NextChallenge, TypeOK
    <3>2. c \in Nat /\ c # 0
      BY MintTypes, <2>1 DEF TypeOK
    <3>3. b \in Binding /\ b.cookie = c /\ b.until = now + CookieTTL /\ b.challenge = challenges + 1
      <4>1. binding[s].cookie \in Nat /\ binding[s].until \in Nat
        BY <2>1 DEF TypeOK, Binding
      <4> HIDE DEF c
      <4> QED
        BY <1>3, <3>2, <4>1 DEF Binding
    <3>4. expires[s] # 0
      BY <2>1, <3>1 DEF Bound, TypeOK
    <3>5. \A k \in Nat : ~InHand(s, k)
      BY <2>1, <3>1 DEF InHand
    <3>6. ~(answer.kind = "cookie" /\ answer.session = s) /\ ~(config.session = s /\ JarLive)
      <4>1. answer.cookie \in Nat /\ jar.cookie \in Nat
        BY DEF TypeOK, Answer
      <4> QED
        BY <2>1, <3>5, <4>1 DEF JarInv, JarHolds, AnswerHolds
    <3> HIDE DEF b, c
    <3> QED
      BY <2>1, <3>1, <3>2, <3>3, <3>4, <3>6, MintStep
  <2> QED
    BY <1>15, <2>2, <2>3, <2>4 DEF Refresh
<1> QED
  BY <1>5, <1>6, <1>7, <1>8, <1>9, <1>10, <1>12, <1>13, <1>14, <1>15 DEF Next

\* While the browser believes in a bound cookie, the server accepts it: a cookie is
\* renewed only with the proof over a challenge the browser learns together with the
\* cookie before, and no request that carries it is sent while that cookie lives.  So
\* the cookie in the jar is the server's last, and Grace covers the browser's patience.
THEOREM JarAcceptedHolds == Spec => []JarAccepted
<1>1. Init => JarInv
  <2> SUFFICES ASSUME Init PROVE JarInv
    OBVIOUS
  <2>1. Counted /\ Waits
    BY DEF Init, Counted, Waits, NoConfig, NoAnswer, Idle
  <2>2. Known
    BY DEF Init, Known, NoConfig, Session, None
  <2>3. AnswerHolds /\ JarHolds
    BY DEF Init, AnswerHolds, JarHolds, NoAnswer, JarLive, Empty
  <2> QED
    BY <2>1, <2>2, <2>3 DEF JarInv
<1>2. TypeOK /\ JarInv /\ [Next]_vars => JarInv'
  BY CountedStep, WaitsStep, JarStep DEF JarInv, Known
<1>3. TypeOK /\ JarInv => JarAccepted
  <2> SUFFICES ASSUME TypeOK, JarInv, Knows, Bound(sid), JarLive PROVE Accepts(sid, jar.cookie)
    BY DEF JarAccepted
  <2>1. sid \in Session /\ jar.cookie \in Nat /\ sid = config.session
    BY DEF TypeOK, Knows
  <2>2. InHand(sid, jar.cookie) /\ jar.until <= binding[sid].until + Patience
    BY <2>1 DEF JarInv, JarHolds
  <2>3. binding[sid].until > now - Grace
    <3>1. binding[sid].until \in Nat /\ jar.until \in Nat /\ now \in Nat /\ jar.until > now
      BY <2>1 DEF TypeOK, Binding, JarLive
    <3> QED
      BY <2>2, <3>1, BindingsAssumption
  <2> QED
    BY <2>2, <2>3 DEF InHand, Accepts
<1> QED
  BY <1>1, <1>2, <1>3, TypeCorrect, PTL DEF Spec
=============================================================================
