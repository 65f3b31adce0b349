----------------------------- MODULE AccessProofs -----------------------------
(* What the rows of Delivery say together, for every value of the constants:  *)
(* who is on a link, how many codes and openings there are, what ends a       *)
(* session, and that the delivery flow implements the promise of Openings.    *)
EXTENDS DeliveryProofs, FiniteSetTheorems

-----------------------------------------------------------------------------
(* What one step does to the rows *)

\* The row createChallenge inserts, and the row createAccessSession inserts.
NewCode(l, e, b) ==
  [id |-> issued + 1, link |-> l, who |-> e, flow |-> b, attempts |-> 0,
   created |-> clock, expires |-> clock + CodeTtl, consumed |-> FALSE]

NewSession(l, c) ==
  [id |-> opened + 1, link |-> l, who |-> c.who, expires |-> clock + SessionTtl,
   code |-> c.id, url |-> links[l].url]

\* Two versions of one row: what UPDATE never changes.
SameRow(d, c) ==
  /\ d.id = c.id /\ d.link = c.link /\ d.who = c.who /\ d.flow = c.flow
  /\ d.created = c.created /\ d.expires = c.expires

\* Consuming rows keeps what names and dates them.
LEMMA ConsumeRows ==
  ASSUME TypeOK, NEW rows, rows \subseteq challenges, NEW d \in Consume(rows)
  PROVE  \E c \in challenges : SameRow(d, c)
<1>1. CASE d \in challenges
  BY <1>1 DEF SameRow
<1>2. ASSUME NEW c \in rows, d = [c EXCEPT !.consumed = TRUE]
      PROVE  SameRow(d, c)
  BY <1>2 DEF SameRow, TypeOK, ChallengeRow
<1>3. QED BY <1>1, <1>2 DEF Consume

\* So does recording a miss.
LEMMA MissRows ==
  ASSUME TypeOK, NEW x \in challenges, NEW d \in Miss(x)
  PROVE  \E c \in challenges : SameRow(d, c)
<1>1. CASE d \in challenges
  BY <1>1 DEF SameRow
<1>2. CASE d = [x EXCEPT !.attempts = @ + 1, !.consumed = BudgetSpent(x.attempts + 1)]
  BY <1>2 DEF SameRow, TypeOK, ChallengeRow
<1>3. QED BY <1>1, <1>2 DEF Miss

\* The step of a handler that touches codes without issuing one.
OldCodesOnly == \A d \in challenges' : \E c \in challenges : SameRow(d, c)

LEMMA OldCodes ==
  ASSUME TypeOK, [Next]_vars
  PROVE  \/ OldCodesOnly
         \/ \E l \in Link, e \in Email, b \in Browser : RequestCode(l, e, b)
<1>1. ASSUME challenges' \subseteq challenges PROVE OldCodesOnly
  BY <1>1 DEF OldCodesOnly, SameRow
<1>2. ASSUME NEW rows, rows \subseteq challenges, challenges' = Consume(rows)
      PROVE  OldCodesOnly
  BY <1>2, ConsumeRows DEF OldCodesOnly
<1>3. ASSUME NEW b \in Browser, Visit(b) PROVE OldCodesOnly
  BY <1>1, <1>3 DEF Visit
<1>4. ASSUME NEW b \in Browser, NEW l \in Link, NEW typed, WrongCode(l, b, typed)
      PROVE  OldCodesOnly
  <2>1. PICK c \in Newest(l, b) : challenges' = Miss(c)
    BY <1>4 DEF WrongCode
  <2>2. c \in challenges
    BY NewestIsPending
  <2>3. QED BY <2>1, <2>2, MissRows DEF OldCodesOnly
<1>5. ASSUME NEW b \in Browser, NEW l \in Link, NEW typed, NEW done,
             Redeem(l, b, typed, done) \/ RedeemTooLate(l, b, typed)
      PROVE  OldCodesOnly
  <2>1. PICK c \in Newest(l, b) : challenges' = Consume({c})
    BY <1>5 DEF Redeem, RedeemTooLate, Spend
  <2>2. {c} \subseteq challenges
    BY NewestIsPending
  <2>3. QED BY <1>2, <2>1, <2>2
<1>6. ASSUME NEW b \in Browser, NEW l \in Link, Restart(l, b) PROVE OldCodesOnly
  <2>1. CodesIn(l, b) \subseteq challenges
    BY DEF CodesIn
  <2>2. QED BY <1>2, <1>6, <2>1 DEF Restart
<1>7. ASSUME NEW b \in Browser, NEW l \in Link, Close(l, b) PROVE OldCodesOnly
  BY <1>1, <1>7 DEF Close
<1>8. ASSUME NEW l \in Link, NEW done, Revoke(l, done) \/ Reissue(l, done)
      PROVE  OldCodesOnly
  <2>1. CodesOn(l) \subseteq challenges
    BY DEF CodesOn
  <2>2. challenges' = challenges \/ challenges' = Consume(CodesOn(l))
    BY <1>8 DEF Revoke, Reissue, EndLink
  <2>3. QED BY <1>1, <1>2, <2>1, <2>2
<1>9. CASE AdminNext
  <2>1. ASSUME NEW l \in Link, NEW e, RemoveRecipient(l, e) PROVE OldCodesOnly
    BY <1>1, <2>1 DEF RemoveRecipient
  <2>2. ASSUME challenges' = challenges PROVE OldCodesOnly
    BY <1>1, <2>2
  <2>3. QED BY <1>8, <1>9, <2>1, <2>2
           DEF AdminNext, CreateLink, AddRecipients, CloseCase, ReopenCase
<1>10. CASE RecipientNext
  BY <1>3, <1>4, <1>5, <1>6, <1>7, <1>10 DEF RecipientNext
<1>11. ASSUME NEW done, Purge(done) PROVE OldCodesOnly
  BY <1>1, <1>11 DEF Purge, Unpurged
<1>12. CASE Tick
  BY <1>1, <1>12 DEF Tick
<1>13. CASE UNCHANGED vars
  BY <1>1, <1>13 DEF vars
<1>14. QED BY <1>9, <1>10, <1>11, <1>12, <1>13 DEF Next

\* A request leaves the rows there were and one new one.
LEMMA RequestRows ==
  ASSUME TypeOK, NEW l, NEW e, NEW b, RequestCode(l, e, b), NEW d \in challenges'
  PROVE  d = NewCode(l, e, b) \/ \E c \in challenges : SameRow(d, c)
<1>1. Superseded(l, e) \subseteq challenges
  BY DEF Superseded, CodesOf
<1>2. d \in Consume(Superseded(l, e)) \/ d = NewCode(l, e, b)
  BY DEF RequestCode, NewCode
<1>3. QED BY <1>1, <1>2, ConsumeRows

\* What an accepted code changes; done is the last statement that committed.
LEMMA RedeemRows ==
  ASSUME TypeOK, NEW l \in Link, NEW b \in Browser, NEW typed, NEW done,
         Redeem(l, b, typed, done)
  PROVE  \E c \in Newest(l, b) :
           /\ challenges' = Spend(c)
           /\ links' = IF done >= RegisterOpen
                       THEN [links EXCEPT ![l].used = @ + 1] ELSE links
           /\ opens' = IF done >= RecordRecipientOpen
                       THEN [opens EXCEPT ![l][c.who] = @ + 1] ELSE opens
           /\ \/ /\ done >= CreateAccessSession
                 /\ opened' = opened + 1
                 /\ sessions' = Seen(b) \cup {NewSession(l, c)}
              \/ /\ ~(done >= CreateAccessSession)
                 /\ opened' = opened
                 /\ sessions' = Seen(b)
BY DEF Redeem, NewSession

\* Only an accepted code adds a session.
LEMMA OldSessions ==
  ASSUME [Next]_vars
  PROVE  \/ sessions' \subseteq sessions /\ opened' = opened
         \/ \E l \in Link, b \in Browser, typed \in 0..issued, done \in Cut("redeem", Answer) :
              Redeem(l, b, typed, done)
<1>1. ASSUME NEW b \in Browser, NEW l \in Link,
             \/ Visit(b)
             \/ \E e \in Email : RequestCode(l, e, b)
             \/ \E typed : WrongCode(l, b, typed) \/ RedeemTooLate(l, b, typed)
             \/ Restart(l, b)
             \/ Close(l, b)
      PROVE  sessions' \subseteq sessions /\ opened' = opened
  BY <1>1, SeenIsSubset DEF Visit, RequestCode, WrongCode, RedeemTooLate, Restart, Close
<1>2. ASSUME NEW b \in Browser, Visit(b)
      PROVE  sessions' \subseteq sessions /\ opened' = opened
  BY <1>2, SeenIsSubset DEF Visit
<1>3. CASE RecipientNext
  BY <1>1, <1>2, <1>3 DEF RecipientNext
<1>4. CASE AdminNext
  <2>1. ASSUME NEW l \in Link, NEW c \in Case, NEW expires, NEW max, NEW people,
               CreateLink(l, c, expires, max, people)
        PROVE  sessions' \subseteq sessions /\ opened' = opened
    BY <2>1 DEF CreateLink
  <2>2. ASSUME NEW l \in Link, NEW people, AddRecipients(l, people)
        PROVE  sessions' \subseteq sessions /\ opened' = opened
    BY <2>2 DEF AddRecipients
  <2>3. ASSUME NEW l \in Link, NEW e \in Email, RemoveRecipient(l, e)
        PROVE  sessions' \subseteq sessions /\ opened' = opened
    BY <2>3 DEF RemoveRecipient, SessionsWithout
  <2>4. ASSUME NEW l \in Link, NEW done, Revoke(l, done) \/ Reissue(l, done)
        PROVE  sessions' \subseteq sessions /\ opened' = opened
    BY <2>4 DEF Revoke, Reissue, EndLink
  <2>5. ASSUME NEW c \in Case, NEW done, CloseCase(c, done) \/ ReopenCase(c)
        PROVE  sessions' \subseteq sessions /\ opened' = opened
    BY <2>5 DEF CloseCase, ReopenCase
  <2> QED
    BY <1>4, <2>1, <2>2, <2>3, <2>4, <2>5 DEF AdminNext
<1>5. ASSUME NEW done, Purge(done) PROVE sessions' \subseteq sessions /\ opened' = opened
  BY <1>5 DEF Purge
<1>6. CASE Tick
  BY <1>6 DEF Tick
<1>7. CASE UNCHANGED vars
  BY <1>7 DEF vars
<1>8. QED BY <1>3, <1>4, <1>5, <1>6, <1>7 DEF Next

\* Time passes; a link keeps its case, its expiry and its limit, and what was
\* revoked or counted stays so.
LEMMA Permanent ==
  ASSUME TypeOK, [Next]_vars
  PROVE  /\ clock <= clock'
         /\ \A l \in Link : Created(l) =>
              /\ Created(l)'
              /\ links'[l].case = links[l].case
              /\ links'[l].expires = links[l].expires
              /\ links'[l].max = links[l].max
              /\ links[l].used <= links'[l].used
              /\ links[l].revoked => links'[l].revoked
<1> DEFINE Kept(l) == /\ links'[l] # Null
                      /\ links'[l].case = links[l].case
                      /\ links'[l].expires = links[l].expires
                      /\ links'[l].max = links[l].max
                      /\ links[l].used <= links'[l].used
                      /\ links[l].revoked => links'[l].revoked
<1>1. clock <= clock'
  <2>1. clock \in Nat
    BY DEF TypeOK
  <2>2. clock' = clock \/ clock' = clock + 1
    <3>1. CASE RecipientNext
      BY <3>1 DEF RecipientNext, Visit, RequestCode, WrongCode, Redeem, RedeemTooLate,
                  Restart, Close
    <3>2. CASE AdminNext
      BY <3>2 DEF AdminNext, CreateLink, AddRecipients, RemoveRecipient, Revoke, Reissue,
                  CloseCase, ReopenCase
    <3>3. CASE (\E done : Purge(done)) \/ Tick \/ UNCHANGED vars
      BY <3>3 DEF Purge, Tick, vars
    <3>4. QED BY <3>1, <3>2, <3>3 DEF Next
  <2>3. QED BY <2>1, <2>2
<1>2. ASSUME NEW l \in Link, Created(l) PROVE Kept(l)
  <2>1. links[l] \in LinkRow
    BY <1>2 DEF TypeOK, Created
  <2>2. links[l].used \in Nat
    BY <2>1 DEF LinkRow
  <2>3. ASSUME NEW k \in LinkRow, links'[l] = k,
               k.case = links[l].case, k.expires = links[l].expires, k.max = links[l].max,
               links[l].used <= k.used, links[l].revoked => k.revoked
        PROVE  Kept(l)
    BY <2>3, NullIsNoRow
  <2>4. ASSUME links' = links PROVE Kept(l)
    BY <2>1, <2>2, <2>3, <2>4
  <2>5. ASSUME NEW m \in Link, links' = [links EXCEPT ![m].used = @ + 1] PROVE Kept(l)
    <3>1. CASE m = l
      <4>1. [links[l] EXCEPT !.used = @ + 1] \in LinkRow
        BY <2>1, LinkRowUpdates
      <4>2. links'[l] = [links[l] EXCEPT !.used = @ + 1]
        BY <2>5, <3>1 DEF TypeOK
      <4>3. QED BY <2>1, <2>2, <2>3, <4>1, <4>2 DEF LinkRow
    <3>2. CASE m # l
      <4>1. links'[l] = links[l]
        BY <2>5, <3>2 DEF TypeOK
      <4>2. QED BY <2>1, <2>2, <2>3, <4>1
    <3>3. QED BY <3>1, <3>2
  <2>6. ASSUME NEW m \in Link, NEW done, Revoke(m, done) \/ Reissue(m, done) PROVE Kept(l)
    <3>1. CASE m = l
      <4>1. [links[l] EXCEPT !.revoked = TRUE] \in LinkRow
            /\ [links[l] EXCEPT !.url = @ + 1] \in LinkRow
        BY <2>1, LinkRowUpdates
      <4>2. \/ links'[l] = [links[l] EXCEPT !.revoked = TRUE]
            \/ links'[l] = [links[l] EXCEPT !.url = @ + 1]
        BY <2>6, <3>1 DEF TypeOK, Revoke, Reissue
      <4>3. CASE links'[l] = [links[l] EXCEPT !.revoked = TRUE]
        BY <2>1, <2>2, <2>3, <4>1, <4>3 DEF LinkRow
      <4>4. CASE links'[l] = [links[l] EXCEPT !.url = @ + 1]
        BY <2>1, <2>2, <2>3, <4>1, <4>4 DEF LinkRow
      <4>5. QED BY <4>2, <4>3, <4>4
    <3>2. CASE m # l
      <4>1. links'[l] = links[l]
        BY <2>6, <3>2 DEF TypeOK, Revoke, Reissue
      <4>2. QED BY <2>1, <2>2, <2>3, <4>1
    <3>3. QED BY <3>1, <3>2
  <2>7. ASSUME NEW m \in Link, NEW c, NEW x, NEW n, NEW p, CreateLink(m, c, x, n, p)
        PROVE  Kept(l)
    <3>1. m # l
      BY <1>2, <2>7 DEF CreateLink
    <3>2. links'[l] = links[l]
      BY <2>7, <3>1 DEF TypeOK, CreateLink
    <3>3. QED BY <2>1, <2>2, <2>3, <3>2
  <2>8. ASSUME NEW m \in Link, NEW b \in Browser, NEW typed, NEW done, Redeem(m, b, typed, done)
        PROVE  Kept(l)
    <3>1. links' = links \/ links' = [links EXCEPT ![m].used = @ + 1]
      BY <2>8, RedeemRows
    <3>2. QED BY <2>4, <2>5, <3>1
  <2> HIDE DEF Kept
  <2>9. CASE RecipientNext
    BY <2>4, <2>8, <2>9 DEF RecipientNext, Visit, RequestCode, WrongCode, RedeemTooLate,
                            Restart, Close
  <2>10. CASE AdminNext
    BY <2>4, <2>6, <2>7, <2>10 DEF AdminNext, AddRecipients, RemoveRecipient, CloseCase,
                                   ReopenCase
  <2>11. CASE (\E done : Purge(done)) \/ Tick \/ UNCHANGED vars
    BY <2>4, <2>11 DEF Purge, Tick, vars
  <2>12. QED BY <2>9, <2>10, <2>11 DEF Next
<1>3. QED BY <1>1, <1>2 DEF Created

-----------------------------------------------------------------------------
(* How many rows there are, and whose they are *)

\* Rows told apart by an id are no more than the rows their ids come from.
LEMMA FewerRows ==
  ASSUME NEW S, NEW T, IsFiniteSet(T),
         \A d \in S : \E c \in T : d.id = c.id,
         \A d, e \in S : d.id = e.id => d = e
  PROVE  IsFiniteSet(S) /\ Cardinality(S) <= Cardinality(T)
<1> DEFINE f == [d \in S |-> CHOOSE c \in T : d.id = c.id]
<1>1. \A d \in S : f[d] \in T /\ f[d].id = d.id
  OBVIOUS
<1>2. f \in [S -> T]
  BY <1>1
<1> HIDE DEF f
<1>3. \A d, e \in S : f[d] = f[e] => d = e
  BY <1>1
<1>4. f \in Injection(S, T)
  BY <1>2, <1>3 DEF Injection, IsInjective
<1>5. QED BY <1>4, FS_Injection

\* The tables are finite: each step adds a row or none.
RowsFinite == IsFiniteSet(challenges) /\ IsFiniteSet(sessions)

LEMMA CodesFinite ==
  ASSUME CodeInv, CodeInv', [Next]_vars, IsFiniteSet(challenges)
  PROVE  IsFiniteSet(challenges')
<1>1. \A d, e \in challenges' : d.id = e.id => d = e
  BY DEF CodeInv, CodeIds
<1>2. CASE OldCodesOnly
  BY <1>1, <1>2, FewerRows DEF OldCodesOnly, SameRow
<1>3. ASSUME NEW l \in Link, NEW e \in Email, NEW b \in Browser, RequestCode(l, e, b)
      PROVE  IsFiniteSet(challenges')
  <2>1. \A d \in challenges' \ {NewCode(l, e, b)} : \E c \in challenges : d.id = c.id
    BY <1>3, RequestRows DEF CodeInv, SameRow
  <2>2. IsFiniteSet(challenges' \ {NewCode(l, e, b)})
    BY <1>1, <2>1, FewerRows
  <2>3. IsFiniteSet((challenges' \ {NewCode(l, e, b)}) \cup {NewCode(l, e, b)})
    BY <2>2, FS_AddElement
  <2>4. challenges' \subseteq (challenges' \ {NewCode(l, e, b)}) \cup {NewCode(l, e, b)}
    OBVIOUS
  <2>5. QED BY <2>3, <2>4, FS_Subset
<1>4. QED BY <1>2, <1>3, OldCodes DEF CodeInv

LEMMA SessionsFinite ==
  ASSUME TypeOK, [Next]_vars, IsFiniteSet(sessions)
  PROVE  IsFiniteSet(sessions')
<1>1. CASE sessions' \subseteq sessions
  BY <1>1, FS_Subset
<1>2. ASSUME NEW l \in Link, NEW b \in Browser, NEW typed, NEW done, Redeem(l, b, typed, done)
      PROVE  IsFiniteSet(sessions')
  <2>1. IsFiniteSet(Seen(b))
    BY SeenIsSubset, FS_Subset
  <2>2. PICK c : sessions' = Seen(b) \/ sessions' = Seen(b) \cup {NewSession(l, c)}
    BY <1>2, RedeemRows
  <2>3. QED BY <2>1, <2>2, FS_AddElement
<1>3. QED BY <1>1, <1>2, OldSessions

\* A link that does not exist has nobody on it.
Unborn == \A l \in Link : ~Created(l) => roster[l] = {}

RosterInv == CodeInv /\ RowsFinite /\ Unborn /\ RosterBound

\* The people of the links, after each of the three handlers that change them.
LEMMA RosterChange ==
  ASSUME RosterInv, [Next]_vars
  PROVE  \/ /\ roster' = roster
            /\ \A l \in Link : Created(l)' <=> Created(l)
         \/ \E l \in Link, c \in Case, x \in Expiries, n \in Limits, p \in SUBSET Email :
              CreateLink(l, c, x, n, p)
         \/ \E l \in Link, p \in SUBSET Email : AddRecipients(l, p)
         \/ \E l \in Link, e \in Email : RemoveRecipient(l, e)
<1>1. ASSUME links' = links, roster' = roster
      PROVE  \A l \in Link : Created(l)' <=> Created(l)
  BY <1>1 DEF Created
<1>2. ASSUME NEW l \in Link, links' = [links EXCEPT ![l].used = @ + 1] \/
                             links' = [links EXCEPT ![l].revoked = TRUE] \/
                             links' = [links EXCEPT ![l].url = @ + 1],
             Created(l)
      PROVE  \A m \in Link : Created(m)' <=> Created(m)
  <2>1. Created(l)'
    BY <1>2, Permanent DEF RosterInv, CodeInv
  <2>2. \A m \in Link \ {l} : links'[m] = links[m]
    BY <1>2 DEF RosterInv, CodeInv, TypeOK
  <2>3. QED BY <1>2, <2>1, <2>2 DEF Created
<1>3. ASSUME NEW l \in Link, NEW b \in Browser, NEW typed, NEW done, Redeem(l, b, typed, done)
      PROVE  roster' = roster /\ \A m \in Link : Created(m)' <=> Created(m)
  <2>1. links' = links \/ links' = [links EXCEPT ![l].used = @ + 1]
    BY <1>3, RedeemRows DEF RosterInv, CodeInv
  <2>2. Created(l) /\ roster' = roster
    BY <1>3 DEF Redeem, Reachable
  <2>3. QED BY <1>1, <1>2, <2>1, <2>2
<1>4. CASE RecipientNext
  BY <1>1, <1>3, <1>4 DEF RecipientNext, Visit, RequestCode, WrongCode, RedeemTooLate,
                          Restart, Close
<1>5. ASSUME NEW l \in Link, NEW done, Revoke(l, done) \/ Reissue(l, done)
      PROVE  roster' = roster /\ \A m \in Link : Created(m)' <=> Created(m)
  BY <1>2, <1>5 DEF Revoke, Reissue
<1>6. ASSUME NEW c \in Case, NEW done, CloseCase(c, done) \/ ReopenCase(c)
      PROVE  roster' = roster /\ \A m \in Link : Created(m)' <=> Created(m)
  BY <1>1, <1>6 DEF CloseCase, ReopenCase
<1>7. CASE AdminNext
  BY <1>5, <1>6, <1>7 DEF AdminNext
<1>8. CASE (\E done : Purge(done)) \/ Tick \/ UNCHANGED vars
  BY <1>1, <1>8 DEF Purge, Tick, vars
<1>9. QED BY <1>4, <1>7, <1>8 DEF Next

LEMMA RosterInvInit == Init => RosterInv
<1>1. Init => CodeInv
  BY CodeInvInit
<1>2. Init => RowsFinite /\ Unborn /\ RosterBound
  BY FS_EmptySet DEF Init, RowsFinite, Unborn, RosterBound, Created
<1>3. QED BY <1>1, <1>2 DEF RosterInv

\* Everybody who has a code or a session stays on the link, or loses both.
LEMMA MembersKeepRows ==
  ASSUME RosterInv, [Next]_vars
  PROVE  /\ \A c \in challenges' : c.who \in roster'[c.link]
         /\ \A s \in sessions' : s.who \in roster'[s.link]
<1> USE DEF RosterInv
<1>1. TypeOK
  BY DEF CodeInv
<1>2. \A c \in challenges : c.link \in Link /\ c.who \in Email /\ c.who \in roster[c.link]
  BY <1>1 DEF RosterBound, TypeOK, ChallengeRow
<1>3. \A s \in sessions : s.link \in Link /\ s.who \in Email /\ s.who \in roster[s.link]
  BY <1>1 DEF RosterBound, TypeOK, SessionRow
<1>4. ASSUME NEW l \in Link, NEW e \in Email, RemoveRecipient(l, e)
      PROVE  /\ \A c \in challenges' : c.who \in roster'[c.link]
             /\ \A s \in sessions' : s.who \in roster'[s.link]
  <2>1. /\ roster' = [roster EXCEPT ![l] = @ \ {e}]
        /\ challenges' = challenges \ CodesOf(l, e)
        /\ sessions' = SessionsWithout(l, e)
    BY <1>4 DEF RemoveRecipient
  <2>2. \A m \in Link, x \in Email :
          x \in roster[m] /\ ~(m = l /\ x = e) => x \in roster'[m]
    BY <1>1, <2>1 DEF TypeOK
  <2>3. QED BY <1>2, <1>3, <2>1, <2>2 DEF CodesOf, SessionsWithout
<1>5. ASSUME \A m \in Link : roster[m] \subseteq roster'[m]
      PROVE  /\ \A c \in challenges' : c.who \in roster'[c.link]
             /\ \A s \in sessions' : s.who \in roster'[s.link]
  <2>1. ASSUME NEW d \in challenges' PROVE d.who \in roster'[d.link]
    <3>1. CASE \E c \in challenges : SameRow(d, c)
      BY <1>2, <1>5, <3>1 DEF SameRow
    <3>2. ASSUME NEW l \in Link, NEW e \in Email, NEW b \in Browser, RequestCode(l, e, b)
          PROVE  d.who \in roster'[d.link]
      <4>1. CASE d = NewCode(l, e, b)
        <5>1. d.who = e /\ d.link = l
          BY <4>1 DEF NewCode
        <5>2. e \in roster[l]
          BY <3>2 DEF RequestCode
        <5>3. QED BY <1>5, <5>1, <5>2
      <4>2. QED BY <1>1, <3>1, <3>2, <4>1, RequestRows
    <3>3. QED BY <1>1, <3>1, <3>2, OldCodes DEF OldCodesOnly
  <2>2. ASSUME NEW s \in sessions' PROVE s.who \in roster'[s.link]
    <3>1. CASE s \in sessions
      BY <1>3, <1>5, <3>1
    <3>2. ASSUME NEW l \in Link, NEW b \in Browser, NEW typed, NEW done, Redeem(l, b, typed, done)
          PROVE  s.who \in roster'[s.link]
      <4>1. PICK c \in Newest(l, b) :
              sessions' = Seen(b) \cup {NewSession(l, c)} \/ sessions' = Seen(b)
        BY <1>1, <3>2, RedeemRows
      <4>2. c \in challenges /\ c.link = l
        BY NewestIsPending
      <4>3. CASE s = NewSession(l, c)
        <5>1. s.who = c.who /\ s.link = l
          BY <4>3 DEF NewSession
        <5>2. QED BY <1>2, <1>5, <4>2, <5>1
      <4>4. QED BY <3>1, <4>1, <4>3, SeenIsSubset
    <3>3. QED BY <3>1, <3>2, OldSessions
  <2>3. QED BY <2>1, <2>2
<1>6. ASSUME roster' = roster
      PROVE  \A m \in Link : roster[m] \subseteq roster'[m]
  BY <1>6
<1>7. ASSUME NEW l \in Link, NEW c, NEW x, NEW n, NEW p, CreateLink(l, c, x, n, p)
      PROVE  \A m \in Link : roster[m] \subseteq roster'[m]
  BY <1>1, <1>7 DEF CreateLink, Unborn, TypeOK
<1>8. ASSUME NEW l \in Link, NEW p, AddRecipients(l, p)
      PROVE  \A m \in Link : roster[m] \subseteq roster'[m]
  BY <1>1, <1>8 DEF AddRecipients, TypeOK
<1>9. QED BY <1>4, <1>5, <1>6, <1>7, <1>8, RosterChange

\* A link that exists has between one and MAX_RECIPIENTS people, one that does
\* not has none.
LEMMA RosterSizes ==
  ASSUME RosterInv, [Next]_vars
  PROVE  /\ Unborn'
         /\ \A l \in Link : Created(l)' =>
              roster'[l] # {} /\ Cardinality(roster'[l]) <= MaxRecipients
<1> USE DEF RosterInv
<1> DEFINE Sized(l) == /\ ~Created(l)' => roster'[l] = {}
                       /\ Created(l)' => /\ roster'[l] # {}
                                         /\ Cardinality(roster'[l]) <= MaxRecipients
<1>1. TypeOK
  BY DEF CodeInv
<1>2. \A l \in Link : IsFiniteSet(roster[l])
  <2>1. \A l \in Link : roster[l] \in SUBSET Email
    BY <1>1 DEF TypeOK
  <2>2. QED BY <2>1, DeliveryAssumption, FS_Subset
<1>3. ASSUME NEW l \in Link, roster'[l] = roster[l], Created(l)' <=> Created(l)
      PROVE  Sized(l)
  BY <1>3 DEF Unborn, RosterBound
<1>4. ASSUME NEW m \in Link, NEW c \in Case, NEW x \in Expiries, NEW n \in Limits, NEW p,
             CreateLink(m, c, x, n, p), NEW l \in Link
      PROVE  Sized(l)
  <2>1. CASE l = m
    <3>1. roster'[l] = p /\ p # {} /\ Cardinality(p) <= MaxRecipients
      BY <1>1, <1>4, <2>1 DEF CreateLink, TypeOK
    <3>2. Created(l)'
      <4>1. links'[l] = [case |-> c, expires |-> x, max |-> n, used |-> 0,
                         revoked |-> FALSE, url |-> 0]
        BY <1>1, <1>4, <2>1 DEF CreateLink, TypeOK
      <4>2. links'[l] \in LinkRow
        BY <4>1, DeliveryAssumption DEF LinkRow
      <4>3. QED BY <4>2, NullIsNoRow DEF Created
    <3>3. QED BY <3>1, <3>2
  <2>2. CASE l # m
    BY <1>1, <1>3, <1>4, <2>2 DEF CreateLink, TypeOK, Created
  <2>3. QED BY <2>1, <2>2
<1>5. ASSUME NEW m \in Link, NEW p \in SUBSET Email, AddRecipients(m, p), NEW l \in Link
      PROVE  Sized(l)
  <2>1. links' = links /\ Created(m)
    BY <1>5 DEF AddRecipients
  <2>2. CASE l = m
    <3>1. roster'[l] = roster[l] \cup p /\ p # {} /\ Cardinality(roster[l] \cup p) <= MaxRecipients
      BY <1>1, <1>5, <2>2 DEF AddRecipients, TypeOK
    <3>2. QED BY <2>1, <2>2, <3>1 DEF Created
  <2>3. CASE l # m
    BY <1>1, <1>3, <1>5, <2>3 DEF AddRecipients, TypeOK, Created
  <2>4. QED BY <2>2, <2>3
<1>6. ASSUME NEW m \in Link, NEW e \in Email, RemoveRecipient(m, e), NEW l \in Link
      PROVE  Sized(l)
  <2>1. CASE l = m
    <3>1. /\ roster'[l] = roster[l] \ {e} /\ e \in roster[l] /\ roster[l] # {e}
          /\ links' = links
      BY <1>1, <1>6, <2>1 DEF RemoveRecipient, TypeOK
    <3>2. Created(l)' /\ Created(l)
      BY <3>1 DEF Unborn, Created
    <3>3. Cardinality(roster'[l]) <= Cardinality(roster[l])
          /\ Cardinality(roster[l]) \in Nat /\ Cardinality(roster'[l]) \in Nat
      <4>1. IsFiniteSet(roster[l]) /\ IsFiniteSet(roster'[l])
            /\ Cardinality(roster'[l]) = Cardinality(roster[l]) - 1
        BY <1>2, <3>1, FS_RemoveElement
      <4>2. Cardinality(roster[l]) \in Nat /\ Cardinality(roster'[l]) \in Nat
        BY <4>1, FS_CardinalityType
      <4>3. QED BY <4>1, <4>2
    <3>4. Cardinality(roster[l]) <= MaxRecipients /\ MaxRecipients \in Nat
      BY <3>2, DeliveryAssumption DEF RosterBound
    <3>5. QED BY <3>1, <3>2, <3>3, <3>4
  <2>2. CASE l # m
    BY <1>1, <1>3, <1>6, <2>2 DEF RemoveRecipient, TypeOK, Created
  <2>3. QED BY <2>1, <2>2
<1>7. \A l \in Link : Sized(l)
  <2> HIDE DEF Sized
  <2>1. ASSUME roster' = roster, \A l \in Link : Created(l)' <=> Created(l)
        PROVE  \A l \in Link : Sized(l)
    BY <1>3, <2>1
  <2>2. QED BY <1>4, <1>5, <1>6, <2>1, RosterChange
<1>8. QED BY <1>7 DEF Unborn

LEMMA RosterInvStep == RosterInv /\ [Next]_vars => RosterInv'
<1> SUFFICES ASSUME RosterInv, [Next]_vars PROVE RosterInv'
  OBVIOUS
<1>1. CodeInv'
  BY CodeInvStep DEF RosterInv
<1>2. RowsFinite'
  BY <1>1, CodesFinite, SessionsFinite DEF RosterInv, RowsFinite, CodeInv
<1>3. Unborn' /\ RosterBound'
  BY MembersKeepRows, RosterSizes DEF RosterBound
<1>4. QED BY <1>1, <1>2, <1>3 DEF RosterInv

LEMMA RosterInvHolds == Spec => []RosterInv
<1>1. QED BY RosterInvInit, RosterInvStep, PTL DEF Spec

\* Nobody keeps a code or a session on a link they were taken off, and no link is
\* left without a recipient: removeRecipient refuses the last one and its row's
\* codes and sessions go by ON DELETE CASCADE.
THEOREM RosterBoundHolds == Spec => []RosterBound
<1>1. RosterInv => RosterBound
  BY DEF RosterInv
<1>2. QED BY <1>1, RosterInvHolds, PTL

-----------------------------------------------------------------------------
(* The hourly limit *)

\* Everything mailed within the hour to somebody who stayed on the link is still
\* a row that createChallenge counts: this is what the limit rests on.
MailInv ==
  /\ \A m \in mailed : m.id <= issued
  /\ \A m, n \in mailed : m.id = n.id => m = n
  /\ \A m \in mailed : m.here /\ m.at + Hour > clock =>
       \E c \in challenges : c.id = m.id /\ c.link = m.link /\ c.who = m.who /\ c.created = m.at

LimitInv == RosterInv /\ MailInv /\ HourlyLimit

NewMail(l, e) == [id |-> issued + 1, link |-> l, who |-> e, at |-> clock, here |-> TRUE]

\* Consuming rows, or recording a miss, removes none.
LEMMA RewrittenRows ==
  ASSUME TypeOK, NEW c \in challenges
  PROVE  /\ \A rows : \E d \in Consume(rows) : SameRow(d, c)
         /\ \A x \in challenges : \E d \in Miss(x) : SameRow(d, c)
<1>1. \A x : x = c => SameRow(x, c)
  BY DEF SameRow
<1>2. SameRow([c EXCEPT !.consumed = TRUE], c)
  BY DEF SameRow, TypeOK, ChallengeRow
<1>3. ASSUME NEW rows PROVE \E d \in Consume(rows) : SameRow(d, c)
  <2>1. CASE c \in rows
    BY <1>2, <2>1 DEF Consume
  <2>2. CASE c \notin rows
    BY <1>1, <2>2 DEF Consume
  <2>3. QED BY <2>1, <2>2
<1>4. ASSUME NEW x \in challenges PROVE \E d \in Miss(x) : SameRow(d, c)
  <2>1. CASE c = x
    <3> DEFINE d == [c EXCEPT !.attempts = @ + 1, !.consumed = BudgetSpent(c.attempts + 1)]
    <3>1. SameRow(d, c)
      BY DEF SameRow, TypeOK, ChallengeRow
    <3>2. d \in Miss(x)
      BY <2>1 DEF Miss
    <3>3. QED BY <3>1, <3>2
  <2>2. CASE c # x
    BY <1>1, <2>2 DEF Miss
  <2>3. QED BY <2>1, <2>2
<1>5. QED BY <1>3, <1>4

\* A row of the last hour goes only with its person.
LEMMA RowsOutlast ==
  ASSUME TypeOK, [Next]_vars, NEW c \in challenges, c.created + Hour > clock'
  PROVE  \/ \E d \in challenges' : SameRow(d, c)
         \/ RemoveRecipient(c.link, c.who)
<1>1. ASSUME c \in challenges' PROVE \E d \in challenges' : SameRow(d, c)
  BY <1>1 DEF SameRow
<1>2. ASSUME NEW rows, Consume(rows) \subseteq challenges'
      PROVE  \E d \in challenges' : SameRow(d, c)
  BY <1>2, RewrittenRows
<1>3. ASSUME NEW b \in Browser, NEW l \in Link, NEW e \in Email, RequestCode(l, e, b)
      PROVE  \E d \in challenges' : SameRow(d, c)
  <2>1. Consume(Superseded(l, e)) \subseteq challenges'
    BY <1>3 DEF RequestCode
  <2>2. QED BY <1>2, <2>1
<1>4. ASSUME NEW b \in Browser, NEW l \in Link, NEW typed, WrongCode(l, b, typed)
      PROVE  \E d \in challenges' : SameRow(d, c)
  <2>1. PICK x \in Newest(l, b) : challenges' = Miss(x)
    BY <1>4 DEF WrongCode
  <2>2. x \in challenges
    BY NewestIsPending
  <2>3. QED BY <2>1, <2>2, RewrittenRows
<1>5. ASSUME NEW b \in Browser, NEW l \in Link, NEW typed, NEW done,
             Redeem(l, b, typed, done) \/ RedeemTooLate(l, b, typed)
      PROVE  \E d \in challenges' : SameRow(d, c)
  <2>1. PICK x \in Newest(l, b) : challenges' = Consume({x})
    BY <1>5 DEF Redeem, RedeemTooLate, Spend
  <2>2. QED BY <1>2, <2>1
<1>6. CASE RecipientNext
  <2>1. ASSUME NEW b \in Browser, NEW l \in Link, Restart(l, b)
        PROVE  \E d \in challenges' : SameRow(d, c)
    BY <1>2, <2>1 DEF Restart
  <2>2. ASSUME challenges' = challenges PROVE \E d \in challenges' : SameRow(d, c)
    BY <1>1, <2>2
  <2>3. QED BY <1>3, <1>4, <1>5, <1>6, <2>1, <2>2 DEF RecipientNext, Visit, Close
<1>7. ASSUME NEW l \in Link, NEW done, Revoke(l, done) \/ Reissue(l, done)
      PROVE  \E d \in challenges' : SameRow(d, c)
  <2>1. challenges' = challenges \/ challenges' = Consume(CodesOn(l))
    BY <1>7 DEF Revoke, Reissue, EndLink
  <2>2. QED BY <1>1, <1>2, <2>1
<1>8. ASSUME NEW l \in Link, NEW e \in Email, RemoveRecipient(l, e)
      PROVE  (\E d \in challenges' : SameRow(d, c)) \/ RemoveRecipient(c.link, c.who)
  <2>1. challenges' = challenges \ CodesOf(l, e)
    BY <1>8 DEF RemoveRecipient
  <2>2. CASE c.link = l /\ c.who = e
    BY <1>8, <2>2
  <2>3. CASE ~(c.link = l /\ c.who = e)
    BY <1>1, <2>1, <2>3 DEF CodesOf
  <2>4. QED BY <2>2, <2>3
<1>9. CASE AdminNext
  <2>1. ASSUME challenges' = challenges PROVE \E d \in challenges' : SameRow(d, c)
    BY <1>1, <2>1
  <2>2. QED BY <1>7, <1>8, <1>9, <2>1
           DEF AdminNext, CreateLink, AddRecipients, CloseCase, ReopenCase
<1>10. ASSUME NEW done, Purge(done) PROVE \E d \in challenges' : SameRow(d, c)
  <2>1. clock' = clock
    BY <1>10 DEF Purge
  <2>2. c \in Unpurged
    BY <2>1 DEF Unpurged
  <2>3. QED BY <1>1, <1>10, <2>2 DEF Purge
<1>11. CASE Tick \/ UNCHANGED vars
  BY <1>1, <1>11 DEF Tick, vars
<1>12. QED BY <1>6, <1>9, <1>10, <1>11 DEF Next

\* What the history says now it said before, unless a code was just mailed or
\* somebody was just taken off a link.
LEMMA OldMail ==
  ASSUME [Next]_vars
  PROVE  \/ mailed' = mailed /\ issued' = issued
         \/ \E l \in Link, e \in Email, b \in Browser : RequestCode(l, e, b)
         \/ \E l \in Link, e \in Email : RemoveRecipient(l, e)
<1>1. CASE RecipientNext
  BY <1>1 DEF RecipientNext, Visit, WrongCode, Redeem, RedeemTooLate, Restart, Close
<1>2. CASE AdminNext
  BY <1>2 DEF AdminNext, CreateLink, AddRecipients, Revoke, Reissue, CloseCase, ReopenCase
<1>3. CASE (\E done \in Cut("purge", 2) : Purge(done)) \/ Tick \/ UNCHANGED vars
  BY <1>3 DEF Purge, Tick, vars
<1>4. QED BY <1>1, <1>2, <1>3 DEF Next

\* Taking somebody off a link changes no more of the history than "here".
LEMMA GoneMail ==
  ASSUME TypeOK, NEW l, NEW e, NEW m \in Gone(l, e)
  PROVE  \E n \in mailed : /\ m.id = n.id /\ m.link = n.link /\ m.who = n.who
                           /\ IF n.link = l /\ n.who = e THEN ~m.here ELSE m = n
                           /\ m = IF n.link = l /\ n.who = e
                                  THEN [n EXCEPT !.here = FALSE] ELSE n
<1>1. PICK n \in mailed :
        m = IF n.link = l /\ n.who = e THEN [n EXCEPT !.here = FALSE] ELSE n
  BY DEF Gone
<1>2. n \in Mail
  BY DEF TypeOK
<1>3. CASE n.link = l /\ n.who = e
  <2>1. m = [n EXCEPT !.here = FALSE]
    BY <1>1, <1>3
  <2>2. m.id = n.id /\ m.link = n.link /\ m.who = n.who /\ m.here = FALSE
    BY <1>2, <2>1 DEF Mail
  <2>3. QED BY <1>1, <1>3, <2>2
<1>4. CASE ~(n.link = l /\ n.who = e)
  <2>1. m = n
    BY <1>1, <1>4
  <2>2. QED BY <1>1, <1>4, <2>1
<1>5. QED BY <1>3, <1>4

\* Ids name one message each, and are handed out in order.
LEMMA MailIds ==
  ASSUME TypeOK, MailInv, [Next]_vars
  PROVE  /\ \A m \in mailed' : m.id <= issued'
         /\ \A m, n \in mailed' : m.id = n.id => m = n
<1>1. issued \in Nat /\ \A m \in mailed : m.id \in Nat
  BY DEF TypeOK, Mail
<1>2. CASE mailed' = mailed /\ issued' = issued
  BY <1>2 DEF MailInv
<1>3. ASSUME NEW l, NEW e, NEW b, RequestCode(l, e, b)
      PROVE  /\ \A m \in mailed' : m.id <= issued'
             /\ \A m, n \in mailed' : m.id = n.id => m = n
  <2>1. mailed' = mailed \cup {NewMail(l, e)} /\ issued' = issued + 1
    BY <1>3 DEF RequestCode, NewMail
  <2>2. NewMail(l, e).id = issued + 1
    BY DEF NewMail
  <2>3. QED BY <1>1, <2>1, <2>2 DEF MailInv
<1>4. ASSUME NEW l \in Link, NEW e \in Email, RemoveRecipient(l, e)
      PROVE  /\ \A m \in mailed' : m.id <= issued'
             /\ \A m, n \in mailed' : m.id = n.id => m = n
  <2>1. mailed' = Gone(l, e) /\ issued' = issued
    BY <1>4 DEF RemoveRecipient
  <2>2. ASSUME NEW m \in mailed' PROVE m.id <= issued'
    BY <2>1, <2>2, GoneMail DEF MailInv
  <2>3. ASSUME NEW m \in mailed', NEW n \in mailed', m.id = n.id PROVE m = n
    <3>1. PICK x \in mailed :
            /\ m.id = x.id
            /\ m = IF x.link = l /\ x.who = e THEN [x EXCEPT !.here = FALSE] ELSE x
      BY <2>1, GoneMail
    <3>2. PICK y \in mailed :
            /\ n.id = y.id
            /\ n = IF y.link = l /\ y.who = e THEN [y EXCEPT !.here = FALSE] ELSE y
      BY <2>1, GoneMail
    <3>3. x = y
      BY <2>3, <3>1, <3>2 DEF MailInv
    <3>4. QED BY <3>1, <3>2, <3>3
  <2>4. QED BY <2>2, <2>3
<1>5. QED BY <1>2, <1>3, <1>4, OldMail

\* A code mailed to somebody who has not left since is of an earlier step, or of
\* this request.
LEMMA HereMail ==
  ASSUME TypeOK, [Next]_vars, NEW m \in mailed', m.here
  PROVE  \/ m \in mailed /\ ~RemoveRecipient(m.link, m.who)
         \/ \E l \in Link, e \in Email, b \in Browser :
              RequestCode(l, e, b) /\ m = NewMail(l, e)
<1>1. ~RemoveRecipient(m.link, m.who)
  <2> SUFFICES ASSUME RemoveRecipient(m.link, m.who) PROVE FALSE
    OBVIOUS
  <2>1. m \in Gone(m.link, m.who)
    BY DEF RemoveRecipient
  <2>2. PICK n \in mailed :
          /\ m.link = n.link /\ m.who = n.who
          /\ IF n.link = m.link /\ n.who = m.who THEN ~m.here ELSE m = n
    BY <2>1, GoneMail
  <2>3. QED BY <2>2
<1>2. ASSUME NEW l \in Link, NEW e \in Email, RemoveRecipient(l, e) PROVE m \in mailed
  <2>1. m \in Gone(l, e)
    BY <1>2 DEF RemoveRecipient
  <2>2. PICK n \in mailed : IF n.link = l /\ n.who = e THEN ~m.here ELSE m = n
    BY <2>1, GoneMail
  <2>3. QED BY <2>2
<1>3. ASSUME NEW l \in Link, NEW e \in Email, NEW b \in Browser, RequestCode(l, e, b)
      PROVE  m \in mailed \/ m = NewMail(l, e)
  BY <1>3 DEF RequestCode, NewMail
<1>4. QED BY <1>1, <1>2, <1>3, OldMail

LEMMA MailInvStep == RosterInv /\ MailInv /\ [Next]_vars => MailInv'
<1> SUFFICES ASSUME RosterInv, MailInv, [Next]_vars PROVE MailInv'
  OBVIOUS
<1>1. TypeOK
  BY DEF RosterInv, CodeInv
<1>2. clock <= clock' /\ clock \in Nat /\ clock' \in Nat /\ Hour \in Nat
  BY <1>1, Permanent, TypeStep, DeliveryAssumption DEF TypeOK
<1>3. ASSUME NEW m \in mailed', m.here, m.at + Hour > clock'
      PROVE  \E c \in challenges' :
               c.id = m.id /\ c.link = m.link /\ c.who = m.who /\ c.created = m.at
  <2>1. CASE m \in mailed /\ ~RemoveRecipient(m.link, m.who)
    <3>1. m.at \in Nat
      BY <1>1, <2>1 DEF TypeOK, Mail
    <3>2. m.at + Hour > clock
      BY <1>2, <1>3, <3>1
    <3>3. PICK c \in challenges :
            c.id = m.id /\ c.link = m.link /\ c.who = m.who /\ c.created = m.at
      BY <1>3, <2>1, <3>2 DEF MailInv
    <3>4. PICK d \in challenges' : SameRow(d, c)
      BY <1>1, <1>3, <2>1, <3>3, RowsOutlast
    <3>5. QED BY <3>3, <3>4 DEF SameRow
  <2>2. ASSUME NEW l \in Link, NEW e \in Email, NEW b \in Browser,
               RequestCode(l, e, b), m = NewMail(l, e)
        PROVE  \E c \in challenges' :
                 c.id = m.id /\ c.link = m.link /\ c.who = m.who /\ c.created = m.at
    <3>1. NewCode(l, e, b) \in challenges'
      BY <2>2 DEF RequestCode, NewCode
    <3>2. QED BY <2>2, <3>1 DEF NewCode, NewMail
  <2>3. QED BY <1>1, <1>3, <2>1, <2>2, HereMail
<1>4. QED BY <1>1, <1>3, MailIds DEF MailInv

\* So a person who stayed was mailed no more than the rows that are counted.
LEMMA CountedMail ==
  ASSUME RosterInv, MailInv, NEW l, NEW e
  PROVE  LET stay == {m \in MailedTo(l, e) : m.here}
         IN  /\ IsFiniteSet(stay) /\ Cardinality(stay) <= Cardinality(Counted(l, e))
             /\ Cardinality(Counted(l, e)) \in Nat
<1> DEFINE stay == {m \in MailedTo(l, e) : m.here}
<1>1. \A m \in stay : \E c \in Counted(l, e) : m.id = c.id
  BY DEF MailInv, MailedTo, Counted, CodesOf
<1>2. \A m, n \in stay : m.id = n.id => m = n
  BY DEF MailInv, MailedTo
<1>3. IsFiniteSet(Counted(l, e))
  <2>1. Counted(l, e) \in SUBSET challenges
    BY DEF Counted, CodesOf
  <2>2. QED BY <2>1, FS_Subset DEF RosterInv, RowsFinite
<1> HIDE DEF stay
<1>4. IsFiniteSet(stay) /\ Cardinality(stay) <= Cardinality(Counted(l, e))
  BY <1>1, <1>2, <1>3, FewerRows
<1>5. Cardinality(Counted(l, e)) \in Nat
  BY <1>3, FS_CardinalityType
<1>6. QED BY <1>4, <1>5 DEF stay

LEMMA LimitStep == LimitInv /\ [Next]_vars => LimitInv'
<1> SUFFICES ASSUME LimitInv, [Next]_vars PROVE LimitInv'
  OBVIOUS
<1>1. RosterInv /\ RosterInv' /\ MailInv /\ MailInv' /\ TypeOK
  BY RosterInvStep, MailInvStep DEF LimitInv, RosterInv, CodeInv
<1>2. clock <= clock' /\ clock \in Nat /\ clock' \in Nat /\ Hour \in Nat
  BY <1>1, Permanent, TypeStep, DeliveryAssumption DEF TypeOK
<1> DEFINE Stay(l, e) == {m \in MailedTo(l, e) : m.here}
           StayNext(l, e) == {m \in mailed' : m.link = l /\ m.who = e /\ m.at + Hour > clock' /\ m.here}
<1>3. SUFFICES ASSUME NEW l \in Link, NEW e \in Email
               PROVE  Cardinality(StayNext(l, e)) <= CodesPerHour
  <2>1. \A l \in Link, e \in Email :
          {m \in {x \in mailed' : x.link = l /\ x.who = e /\ x.at + Hour > clock'} : m.here}
            = StayNext(l, e)
    OBVIOUS
  <2>2. QED BY <1>1, <2>1 DEF LimitInv, HourlyLimit, MailedTo
<1>4. /\ IsFiniteSet(Stay(l, e)) /\ Cardinality(Stay(l, e)) <= Cardinality(Counted(l, e))
      /\ Cardinality(Counted(l, e)) \in Nat
      /\ Cardinality(Stay(l, e)) \in Nat
  BY <1>1, CountedMail, FS_CardinalityType
<1>5. Cardinality(Stay(l, e)) <= CodesPerHour
  BY DEF LimitInv, HourlyLimit
<1>6. \A m \in mailed : m.at \in Nat
  BY <1>1 DEF TypeOK, Mail
<1>7. ASSUME StayNext(l, e) \subseteq Stay(l, e)
      PROVE  Cardinality(StayNext(l, e)) <= CodesPerHour
  <2> HIDE DEF Stay, StayNext
  <2>1. /\ Cardinality(StayNext(l, e)) <= Cardinality(Stay(l, e))
        /\ IsFiniteSet(StayNext(l, e))
    BY <1>4, <1>7, FS_Subset
  <2>2. Cardinality(StayNext(l, e)) \in Nat
    BY <2>1, FS_CardinalityType
  <2>3. QED BY <1>4, <1>5, <2>1, <2>2, DeliveryAssumption
<1>8. ASSUME \A m \in StayNext(l, e) : m \in mailed
      PROVE  Cardinality(StayNext(l, e)) <= CodesPerHour
  <2>1. \A m \in StayNext(l, e) : m \in Stay(l, e)
    BY <1>2, <1>6, <1>8 DEF MailedTo
  <2>2. QED BY <1>7, <2>1
<1>9. ASSUME NEW x \in Link, NEW y \in Email, NEW b \in Browser, RequestCode(x, y, b)
      PROVE  Cardinality(StayNext(l, e)) <= CodesPerHour
  <2>1. mailed' = mailed \cup {NewMail(x, y)} /\ clock' = clock
    BY <1>9 DEF RequestCode, NewMail
  <2>2. NewMail(x, y).link = x /\ NewMail(x, y).who = y
    BY DEF NewMail
  <2>3. CASE l = x /\ e = y
    <3>1. Cardinality(Counted(l, e)) < CodesPerHour
      BY <1>9, <2>3 DEF RequestCode
    <3>2. StayNext(l, e) \in SUBSET (Stay(l, e) \cup {NewMail(x, y)})
      BY <2>1 DEF MailedTo
    <3> HIDE DEF Stay, StayNext
    <3>3. /\ IsFiniteSet(Stay(l, e) \cup {NewMail(x, y)})
          /\ Cardinality(Stay(l, e) \cup {NewMail(x, y)}) <= Cardinality(Stay(l, e)) + 1
      BY <1>4, FS_AddElement
    <3>4. /\ Cardinality(StayNext(l, e)) <= Cardinality(Stay(l, e) \cup {NewMail(x, y)})
          /\ IsFiniteSet(StayNext(l, e))
      BY <3>3, <3>2, FS_Subset
    <3>5. Cardinality(StayNext(l, e)) \in Nat
          /\ Cardinality(Stay(l, e) \cup {NewMail(x, y)}) \in Nat
      BY <3>3, <3>4, FS_CardinalityType
    <3>6. QED BY <1>4, <3>1, <3>3, <3>4, <3>5, DeliveryAssumption
  <2>4. CASE ~(l = x /\ e = y)
    <3>1. \A m \in StayNext(l, e) : m \in mailed
      BY <2>1, <2>2, <2>4
    <3>2. QED BY <1>8, <3>1
  <2>5. QED BY <2>3, <2>4
<1>10. CASE ~ \E x \in Link, y \in Email, b \in Browser : RequestCode(x, y, b)
  <2>1. \A m \in StayNext(l, e) : m \in mailed
    BY <1>1, <1>10, HereMail
  <2>2. QED BY <1>8, <2>1
<1>11. QED BY <1>9, <1>10

\* No more than CHALLENGE_LIMIT_PER_LINK_PER_HOUR codes are mailed in an hour to a
\* person who stays on the link, although the rows createChallenge counts are
\* spent, missed, expired and purged: each message of the hour still has its row.
THEOREM HourlyLimitHolds == Spec => []HourlyLimit
<1>1. Init => LimitInv
  <2>1. ASSUME Init PROVE HourlyLimit /\ MailInv
    <3>1. \A l \in Link, e \in Email : {m \in MailedTo(l, e) : m.here} = {}
      BY <2>1 DEF Init, MailedTo
    <3>2. CodesPerHour \in Nat
      BY DeliveryAssumption
    <3>3. HourlyLimit
      BY <3>1, <3>2, FS_EmptySet DEF HourlyLimit
    <3>4. QED BY <2>1, <3>3 DEF MailInv, Init
  <2>2. QED BY <2>1, RosterInvInit DEF LimitInv
<1>2. LimitInv => HourlyLimit
  BY DEF LimitInv
<1>3. QED BY <1>1, <1>2, LimitStep, PTL DEF Spec

-----------------------------------------------------------------------------
(* What ends a pending code *)

\* A code's lifetime starts when it is created.
CodeTimes == \A c \in challenges : c.expires = c.created + CodeTtl

LEMMA CodeTimesStep == RosterInv /\ CodeTimes /\ [Next]_vars => CodeTimes'
<1> SUFFICES ASSUME RosterInv, CodeTimes, [Next]_vars, NEW d \in challenges'
             PROVE  d.expires = d.created + CodeTtl
  BY DEF CodeTimes
<1>1. CASE \E c \in challenges : SameRow(d, c)
  BY <1>1 DEF CodeTimes, SameRow
<1>2. ASSUME NEW l, NEW e, NEW b, RequestCode(l, e, b), d = NewCode(l, e, b)
      PROVE  d.expires = d.created + CodeTtl
  BY <1>2 DEF NewCode
<1>3. TypeOK
  BY DEF RosterInv, CodeInv
<1>4. QED BY <1>1, <1>2, <1>3, OldCodes, RequestRows DEF OldCodesOnly

LEMMA CodeTimesHolds == Spec => [](RosterInv /\ CodeTimes)
<1>1. Init => CodeTimes
  BY DEF Init, CodeTimes
<1>2. QED BY <1>1, RosterInvInit, RosterInvStep, CodeTimesStep, PTL DEF Spec

\* Who may end the code c.
Entitled(c) ==
  \/ \E b \in Browser : RequestCode(c.link, c.who, b)
  \/ \E typed \in 0..issued :
       \/ WrongCode(c.link, c.flow, typed)
       \/ \E done \in 1..Answer : Redeem(c.link, c.flow, typed, done)
       \/ RedeemTooLate(c.link, c.flow, typed)
  \/ Restart(c.link, c.flow)
  \/ \E done \in 1..3 : Revoke(c.link, done) \/ Reissue(c.link, done)
  \/ RemoveRecipient(c.link, c.who)

LEMMA CutRange ==
  ASSUME NEW h, NEW n \in Nat \ {0}, NEW done \in Cut(h, n)
  PROVE  done \in 1..n
BY DEF Cut

LEMMA ByItsRecipient ==
  ASSUME TypeOK, NEW c \in challenges, RecipientNext
  PROVE  c \in challenges' \/ Entitled(c)
<1>1. PICK b \in Browser :
        \/ Visit(b)
        \/ \E l \in Link :
             \/ \E e \in Email : RequestCode(l, e, b)
             \/ \E typed \in 0..issued :
                  \/ WrongCode(l, b, typed)
                  \/ \E done \in Cut("redeem", Answer) : Redeem(l, b, typed, done)
                  \/ RedeemTooLate(l, b, typed)
             \/ Restart(l, b)
             \/ Close(l, b)
  BY DEF RecipientNext
<1>2. CASE Visit(b)
  BY <1>2 DEF Visit
<1>3. ASSUME NEW l \in Link, NEW e \in Email, RequestCode(l, e, b)
      PROVE  c \in challenges' \/ Entitled(c)
  <2>1. CASE c.link = l /\ c.who = e
    BY <1>3, <2>1 DEF Entitled
  <2>2. CASE ~(c.link = l /\ c.who = e)
    BY <1>3, <2>2 DEF RequestCode, Consume, Superseded, CodesOf
  <2>3. QED BY <2>1, <2>2
<1>4. ASSUME NEW l \in Link, NEW typed \in 0..issued,
             \/ WrongCode(l, b, typed)
             \/ \E done \in Cut("redeem", Answer) : Redeem(l, b, typed, done)
             \/ RedeemTooLate(l, b, typed)
      PROVE  c \in challenges' \/ Entitled(c)
  <2>1. CASE c.link = l /\ c.flow = b
    <3>1. \A done \in Cut("redeem", Answer) : done \in 1..Answer
      BY CutRange DEF Answer
    <3>2. QED BY <1>4, <2>1, <3>1 DEF Entitled
  <2>2. CASE ~(c.link = l /\ c.flow = b)
    <3>1. PICK x \in Newest(l, b) : challenges' = Miss(x) \/ challenges' = Consume({x})
      BY <1>4 DEF WrongCode, Redeem, RedeemTooLate, Spend
    <3>2. x # c
      BY <2>2, NewestIsPending
    <3>3. QED BY <3>1, <3>2 DEF Miss, Consume
  <2>3. QED BY <2>1, <2>2
<1>5. ASSUME NEW l \in Link, Restart(l, b)
      PROVE  c \in challenges' \/ Entitled(c)
  <2>1. CASE c.link = l /\ c.flow = b
    BY <1>5, <2>1 DEF Entitled
  <2>2. CASE ~(c.link = l /\ c.flow = b)
    BY <1>5, <2>2 DEF Restart, Consume, CodesIn
  <2>3. QED BY <2>1, <2>2
<1>6. ASSUME NEW l \in Link, Close(l, b)
      PROVE  c \in challenges' \/ Entitled(c)
  BY <1>6 DEF Close
<1>7. QED BY <1>1, <1>2, <1>3, <1>4, <1>5, <1>6

LEMMA ByAnAdministrator ==
  ASSUME TypeOK, NEW c \in challenges, AdminNext
  PROVE  c \in challenges' \/ Entitled(c)
<1>1. ASSUME NEW l \in Link, NEW e \in Email, RemoveRecipient(l, e)
      PROVE  c \in challenges' \/ Entitled(c)
  <2>1. CASE c.link = l /\ c.who = e
    BY <1>1, <2>1 DEF Entitled
  <2>2. CASE ~(c.link = l /\ c.who = e)
    BY <1>1, <2>2 DEF RemoveRecipient, CodesOf
  <2>3. QED BY <2>1, <2>2
<1>2. ASSUME NEW l \in Link, NEW done \in 1..3, Revoke(l, done) \/ Reissue(l, done)
      PROVE  c \in challenges' \/ Entitled(c)
  <2>1. CASE c.link = l
    BY <1>2, <2>1 DEF Entitled
  <2>2. CASE c.link # l
    BY <1>2, <2>2 DEF Revoke, Reissue, EndLink, Consume, CodesOn
  <2>3. QED BY <2>1, <2>2
<1>3. \A done : done \in Cut("revoke", 3) \/ done \in Cut("reissue", 3) => done \in 1..3
  BY CutRange
<1>4. ASSUME challenges' = challenges PROVE c \in challenges' \/ Entitled(c)
  BY <1>4
<1>5. QED BY <1>1, <1>2, <1>3, <1>4
         DEF AdminNext, CreateLink, AddRecipients, CloseCase, ReopenCase

\* "A code requested by one person never cancels another person's"
\* (docs/delivery.md): while the purge's hour is not shorter than a code's life, a
\* code that can still be typed is lost to its own person asking again, to its own
\* browser, or to an administrator acting on its link, and to nothing else.
THEOREM IsolatedCodesHolds == CodeTtl <= Hour => (Spec => IsolatedCodes)
<1> SUFFICES ASSUME CodeTtl <= Hour PROVE Spec => IsolatedCodes
  OBVIOUS
<1> DEFINE Step == \A c \in challenges :
                     Live(c) /\ ~(\E d \in challenges' : d.id = c.id /\ ~d.consumed)
                       => Entitled(c)
<1>1. RosterInv /\ CodeTimes /\ [Next]_vars => [Step]_vars
  <2> SUFFICES ASSUME RosterInv, CodeTimes, [Next]_vars, NEW c \in challenges, Live(c)
               PROVE  UNCHANGED vars \/ c \in challenges' \/ Entitled(c)
    BY DEF Live
  <2>1. TypeOK
    BY DEF RosterInv, CodeInv
  <2>2. ASSUME NEW done, Purge(done) PROVE c \in challenges'
    <3>1. /\ clock \in Nat /\ c.created \in Nat
          /\ c.expires = c.created + CodeTtl /\ c.expires > clock
      BY <2>1 DEF TypeOK, ChallengeRow, CodeTimes, Live
    <3>2. c.created + Hour > clock
      BY <3>1, DeliveryAssumption
    <3>3. QED BY <2>2, <3>2 DEF Purge, Unpurged
  <2>3. CASE Tick
    BY <2>3 DEF Tick
  <2>4. QED BY <2>1, <2>2, <2>3, ByItsRecipient, ByAnAdministrator DEF Next
<1>2. QED BY <1>1, CodeTimesHolds, PTL DEF Spec, IsolatedCodes, Entitled

-----------------------------------------------------------------------------
(* What ends a session *)

LEMMA SessionLinks ==
  ASSUME RosterInv, NEW s \in sessions
  PROVE  s \in SessionRow /\ s.link \in Link /\ s.who \in Email /\ Created(s.link)
BY DEF RosterInv, CodeInv, TypeOK, SessionRow, RosterBound, Unborn

\* Closing a case deletes the sessions of its links, unless it is cut short.
OpenCases == \A s \in sessions : caseOpen[links[s.link].case]

LEMMA OpenCasesStep ==
  ASSUME "close" \notin CrashIn, RosterInv, OpenCases, [Next]_vars
  PROVE  OpenCases'
<1>1. TypeOK
  BY DEF RosterInv, CodeInv
<1>2. SUFFICES ASSUME NEW s \in sessions' PROVE caseOpen'[links'[s.link].case]
  BY DEF OpenCases
<1>3. ASSUME NEW l \in Link, Created(l), caseOpen[links[l].case],
             ~ \E c \in Case : CloseCase(c, 2) /\ links[l].case = c
      PROVE  caseOpen'[links'[l].case]
  <2>1. links'[l].case = links[l].case /\ links[l].case \in Case
    BY <1>1, <1>3, Permanent DEF TypeOK, LinkRow, Created
  <2>2. ASSUME NEW c \in Case, NEW done \in Cut("close", 2), CloseCase(c, done)
        PROVE  caseOpen'[links[l].case]
    <3>1. done = 2
      BY DEF Cut
    <3>2. links[l].case # c
      BY <1>3, <2>2, <3>1
    <3>3. QED BY <1>1, <1>3, <2>1, <2>2, <3>2 DEF CloseCase, TypeOK
  <2>3. ASSUME NEW c \in Case, ReopenCase(c) PROVE caseOpen'[links[l].case]
    BY <1>1, <1>3, <2>1, <2>3 DEF ReopenCase, TypeOK
  <2>4. ASSUME caseOpen' = caseOpen PROVE caseOpen'[links[l].case]
    BY <1>3, <2>4
  <2>5. CASE AdminNext
    <3>1. \/ caseOpen' = caseOpen
          \/ \E c \in Case : ReopenCase(c) \/ \E done \in Cut("close", 2) : CloseCase(c, done)
      BY <2>5 DEF AdminNext, CreateLink, AddRecipients, RemoveRecipient, Revoke, Reissue
    <3>2. QED BY <2>1, <2>2, <2>3, <2>4, <3>1
  <2>6. CASE RecipientNext
    <3>1. caseOpen' = caseOpen
      BY <2>6 DEF RecipientNext, Visit, RequestCode, WrongCode, Redeem, RedeemTooLate,
                  Restart, Close
    <3>2. QED BY <2>1, <2>4, <3>1
  <2>7. CASE (\E done : Purge(done)) \/ Tick \/ UNCHANGED vars
    BY <2>4, <2>7 DEF Purge, Tick, vars
  <2>8. QED BY <2>1, <2>5, <2>6, <2>7 DEF Next
<1>4. CASE s \in sessions
  <2>1. s.link \in Link /\ Created(s.link) /\ caseOpen[links[s.link].case]
    BY <1>4, SessionLinks DEF OpenCases
  <2>2. ASSUME NEW c \in Case, CloseCase(c, 2), links[s.link].case = c PROVE FALSE
    <3>1. sessions' = sessions \ SessionsIn(c)
      BY <2>2 DEF CloseCase
    <3>2. s \in SessionsIn(c)
      BY <1>4, <2>1, <2>2 DEF SessionsIn
    <3>3. QED BY <1>2, <3>1, <3>2
  <2>3. QED BY <1>3, <2>1, <2>2
<1>5. ASSUME NEW l \in Link, NEW b \in Browser, NEW typed, NEW done, Redeem(l, b, typed, done)
      PROVE  caseOpen'[links'[s.link].case]
  <2>1. PICK c : sessions' = Seen(b) \cup {NewSession(l, c)} \/ sessions' = Seen(b)
    BY <1>1, <1>5, RedeemRows
  <2>2. CASE s = NewSession(l, c)
    <3>1. s.link = l
      BY <2>2 DEF NewSession
    <3>2. Created(l) /\ caseOpen[links[l].case] /\ caseOpen' = caseOpen
      BY <1>5 DEF Redeem, Reachable, Dead
    <3>3. links'[l].case = links[l].case
      BY <1>1, <3>2, Permanent
    <3>4. QED BY <3>1, <3>2, <3>3
  <2>3. QED BY <1>4, <2>1, <2>2, SeenIsSubset
<1>6. QED BY <1>4, <1>5, OldSessions

LEMMA OpenCasesHolds ==
  "close" \notin CrashIn => (Spec => [](RosterInv /\ OpenCases))
<1> SUFFICES ASSUME "close" \notin CrashIn PROVE Spec => [](RosterInv /\ OpenCases)
  OBVIOUS
<1>1. Init => OpenCases
  BY DEF Init, OpenCases
<1>2. RosterInv /\ OpenCases /\ [Next]_vars => OpenCases'
  BY OpenCasesStep
<1>3. QED BY <1>1, <1>2, RosterInvInit, RosterInvStep, PTL DEF Spec

\* A session that would be served after a step would have been served before it.
LEMMA NoWayBack ==
  ASSUME "close" \notin CrashIn, RosterInv, OpenCases, [Next]_vars,
         NEW s \in sessions, Usable(s)'
  PROVE  Usable(s)
<1>1. TypeOK /\ TypeOK'
  BY RosterInvStep DEF RosterInv, CodeInv
<1>2. s.link \in Link /\ Created(s.link) /\ s.expires \in Nat
  BY SessionLinks DEF SessionRow
<1>3. /\ clock <= clock' /\ clock \in Nat /\ clock' \in Nat
      /\ links'[s.link].expires = links[s.link].expires
      /\ links[s.link].revoked => links'[s.link].revoked
  BY <1>1, <1>2, Permanent DEF TypeOK
<1>4. links[s.link].expires \in Nat \cup {Null}
  BY <1>1, <1>2 DEF TypeOK, LinkRow, Created
<1>5. /\ s.expires > clock'
      /\ ~links'[s.link].revoked
      /\ ~(links'[s.link].expires # Null /\ links'[s.link].expires <= clock')
  BY DEF Usable, Dead, Expired
<1>6. s.expires > clock
  BY <1>2, <1>3, <1>5
<1>7. ~Expired(s.link)
  BY <1>3, <1>4, <1>5 DEF Expired
<1>8. caseOpen[links[s.link].case]
  BY DEF OpenCases
<1>9. QED BY <1>2, <1>3, <1>5, <1>6, <1>7, <1>8 DEF Usable, Dead

\* What ends a session ends it for good: a link is not unrevoked, an expiry is not
\* moved, and reopening a case brings nothing back, because closing it deleted the
\* sessions; that deletion is a statement of its own, so the request that closes
\* the case must not be one the process may die in.
THEOREM NoRevivalHolds == "close" \notin CrashIn => (Spec => NoRevival)
<1> SUFFICES ASSUME "close" \notin CrashIn PROVE Spec => NoRevival
  OBVIOUS
<1> DEFINE Step == \A s \in sessions : ~Usable(s) /\ s \in sessions' => ~Usable(s)'
<1>1. RosterInv /\ OpenCases /\ [Next]_vars => [Step]_vars
  BY NoWayBack
<1>2. QED BY <1>1, OpenCasesHolds, PTL DEF Spec, NoRevival

-----------------------------------------------------------------------------
(* The promise of a link *)

\* The counters of the links change where a link is created or a code accepted.
CountersKept ==
  /\ \A l \in Link : Created(l)' <=> Created(l)
  /\ \A l \in Link : Created(l) => links'[l].used = links[l].used
  /\ granted' = granted
  /\ sessions' \subseteq sessions

LEMMA CounterChange ==
  ASSUME RosterInv, [Next]_vars
  PROVE  \/ CountersKept
         \/ \E l \in Link, c \in Case, x \in Expiries, n \in Limits, p \in SUBSET Email :
              CreateLink(l, c, x, n, p)
         \/ \E l \in Link, b \in Browser, typed \in 0..issued, done \in Cut("redeem", Answer) :
              Redeem(l, b, typed, done)
<1>1. TypeOK
  BY DEF RosterInv, CodeInv
<1>2. ASSUME links' = links, granted' = granted, sessions' \subseteq sessions
      PROVE  CountersKept
  BY <1>2 DEF CountersKept, Created
<1>3. ASSUME NEW l \in Link, NEW done, Revoke(l, done) \/ Reissue(l, done)
      PROVE  CountersKept
  <2>1. links[l] \in LinkRow /\ Created(l)
    BY <1>1, <1>3 DEF Revoke, Reissue, Created, TypeOK
  <2>2. \/ links' = [links EXCEPT ![l].revoked = TRUE]
        \/ links' = [links EXCEPT ![l].url = @ + 1]
    BY <1>3 DEF Revoke, Reissue
  <2>3. links'[l].used = links[l].used /\ Created(l)'
    <3>1. links'[l].used = links[l].used
      BY <1>1, <2>1, <2>2 DEF TypeOK, LinkRow
    <3>2. QED BY <1>1, <2>1, <3>1, Permanent
  <2>4. \A m \in Link \ {l} : links'[m] = links[m]
    BY <1>1, <2>2 DEF TypeOK
  <2>5. granted' = granted /\ sessions' \subseteq sessions
    BY <1>3 DEF Revoke, Reissue, EndLink
  <2>6. QED BY <2>1, <2>3, <2>4, <2>5 DEF CountersKept, Created
<1>4. ASSUME NEW b \in Browser, Visit(b) PROVE CountersKept
  BY <1>2, <1>4, SeenIsSubset DEF Visit
<1>5. ASSUME NEW b \in Browser, NEW l \in Link,
             \/ \E e \in Email : RequestCode(l, e, b)
             \/ \E typed : WrongCode(l, b, typed) \/ RedeemTooLate(l, b, typed)
             \/ Restart(l, b)
             \/ Close(l, b)
      PROVE  CountersKept
  <2>1. links' = links /\ granted' = granted /\ sessions' \subseteq sessions
    BY <1>5, SeenIsSubset DEF RequestCode, WrongCode, RedeemTooLate, Restart, Close
  <2>2. QED BY <1>2, <2>1
<1>6. CASE RecipientNext
  BY <1>4, <1>5, <1>6 DEF RecipientNext
<1>7. CASE AdminNext
  <2>1. ASSUME NEW l \in Link, NEW p, AddRecipients(l, p) PROVE CountersKept
    BY <1>2, <2>1 DEF AddRecipients
  <2>2. ASSUME NEW l \in Link, NEW e, RemoveRecipient(l, e) PROVE CountersKept
    BY <1>2, <2>2 DEF RemoveRecipient, SessionsWithout
  <2>3. ASSUME NEW c, NEW done, CloseCase(c, done) PROVE CountersKept
    BY <1>2, <2>3 DEF CloseCase
  <2>4. ASSUME NEW c, ReopenCase(c) PROVE CountersKept
    BY <1>2, <2>4 DEF ReopenCase
  <2>5. QED BY <1>3, <1>7, <2>1, <2>2, <2>3, <2>4 DEF AdminNext
<1>8. CASE (\E done : Purge(done)) \/ Tick \/ UNCHANGED vars
  BY <1>2, <1>8 DEF Purge, Tick, vars
<1>9. QED BY <1>6, <1>7, <1>8 DEF Next

\* Session ids are not reused.
SessionIds == \A s \in sessions : s.id <= opened

LEMMA SessionIdsStep == RosterInv /\ SessionIds /\ [Next]_vars => SessionIds'
<1> SUFFICES ASSUME RosterInv, SessionIds, [Next]_vars, NEW s \in sessions'
             PROVE  s.id <= opened'
  BY DEF SessionIds
<1>1. TypeOK
  BY DEF RosterInv, CodeInv
<1>2. CASE sessions' \subseteq sessions /\ opened' = opened
  BY <1>2 DEF SessionIds
<1>3. ASSUME NEW l \in Link, NEW b \in Browser, NEW typed, NEW done, Redeem(l, b, typed, done)
      PROVE  s.id <= opened'
  <2>1. PICK c : \/ opened' = opened + 1 /\ sessions' = Seen(b) \cup {NewSession(l, c)}
                 \/ opened' = opened /\ sessions' = Seen(b)
    BY <1>1, <1>3, RedeemRows
  <2>2. CASE s \in sessions
    <3>1. s.id <= opened /\ s.id \in Nat /\ opened \in Nat
      BY <1>1, <2>2 DEF SessionIds, TypeOK, SessionRow
    <3>2. QED BY <2>1, <3>1
  <2>3. CASE opened' = opened + 1 /\ s = NewSession(l, c)
    BY <1>1, <2>3 DEF NewSession, TypeOK
  <2>4. QED BY <2>1, <2>2, <2>3, SeenIsSubset
<1>4. QED BY <1>2, <1>3, OldSessions

PromiseInv == RosterInv /\ OpenCases /\ SessionIds

LEMMA PromiseInvHolds == "close" \notin CrashIn => (Spec => []PromiseInv)
<1>1. Init => SessionIds
  BY DEF Init, SessionIds
<1>2. Spec => [](RosterInv /\ SessionIds)
  BY <1>1, RosterInvInit, RosterInvStep, SessionIdsStep, PTL DEF Spec
<1>3. QED BY <1>2, OpenCasesHolds, PTL DEF PromiseInv

\* The state of Openings that a state of Delivery stands for.
limitBar == [l \in Link |-> IF Created(l) THEN links[l].max ELSE 0]
usedBar == [l \in Link |-> IF Created(l) THEN links[l].used ELSE 0]
insideBar == [l \in Link |-> {s.id : s \in {t \in SessionsOn(l) : Usable(t)}}]

\* Whether a session would be served depends on the clock, its link's row and
\* its case.
LEMMA UsableSame ==
  ASSUME clock' = clock, caseOpen' = caseOpen, NEW s,
         Created(s.link) /\ Created(s.link)',
         links'[s.link].case = links[s.link].case,
         links'[s.link].expires = links[s.link].expires,
         links'[s.link].revoked = links[s.link].revoked
  PROVE  Usable(s)' <=> Usable(s)
BY DEF Usable, Dead, Expired

\* Creating a link offers it.
LEMMA CreateOffers ==
  ASSUME PromiseInv, NEW l \in Link, NEW c \in Case, NEW x \in Expiries, NEW n \in Limits,
         NEW p \in SUBSET Email, CreateLink(l, c, x, n, p)
  PROVE  Promise!Offer(l)
<1> DEFINE row == [case |-> c, expires |-> x, max |-> n, used |-> 0, revoked |-> FALSE, url |-> 0]
<1>1. RosterInv /\ TypeOK
  BY DEF PromiseInv, RosterInv, CodeInv
<1>2. /\ links' = [links EXCEPT ![l] = row] /\ ~Created(l)
      /\ clock' = clock /\ caseOpen' = caseOpen /\ sessions' = sessions
  BY DEF CreateLink
<1>3. row \in LinkRow /\ row.max = n /\ row.used = 0
  BY DeliveryAssumption DEF LinkRow
<1> HIDE DEF row
<1>4. links'[l] = row /\ Created(l)'
  BY <1>1, <1>2, <1>3, NullIsNoRow DEF TypeOK, Created
<1>5. \A m \in Link \ {l} : links'[m] = links[m] /\ (Created(m)' <=> Created(m))
  BY <1>1, <1>2 DEF TypeOK, Created
<1>6. \A s \in sessions : Usable(s)' <=> Usable(s)
  <2> SUFFICES ASSUME NEW s \in sessions PROVE Usable(s)' <=> Usable(s)
    OBVIOUS
  <2>1. s.link \in Link /\ Created(s.link)
    BY <1>1, SessionLinks
  <2>2. links'[s.link] = links[s.link] /\ Created(s.link)'
    BY <1>2, <1>5, <2>1
  <2>3. QED BY <1>2, <2>1, <2>2, UsableSame
<1>7. insideBar' = insideBar
  <2>1. \A m \in Link : insideBar'[m] = insideBar[m]
    BY <1>2, <1>6 DEF insideBar, SessionsOn
  <2>2. QED BY <2>1 DEF insideBar
<1>8. usedBar' = usedBar /\ usedBar[l] = 0
  <2>1. \A m \in Link : usedBar'[m] = usedBar[m]
    BY <1>2, <1>3, <1>4, <1>5 DEF usedBar
  <2>2. QED BY <1>2, <2>1 DEF usedBar
<1>9. limitBar[l] = 0 /\ limitBar'[l] = n
  BY <1>2, <1>3, <1>4 DEF limitBar
<1>10. limitBar' = [limitBar EXCEPT ![l] = limitBar'[l]]
  <2>1. \A m \in Link \ {l} : limitBar'[m] = limitBar[m]
    BY <1>5 DEF limitBar
  <2>2. QED BY <2>1 DEF limitBar
<1>11. n \in (Nat \ {0}) \cup {Null}
  BY DeliveryAssumption
<1>12. QED BY <1>7, <1>8, <1>9, <1>10, <1>11 DEF Promise!Offer, limitBar, usedBar, insideBar

\* A step that keeps the counters and adds no session lets people leave at most.
LEMMA OthersLeave ==
  ASSUME "close" \notin CrashIn, PromiseInv, [Next]_vars, CountersKept
  PROVE  Promise!Leave
<1>1. RosterInv /\ OpenCases /\ TypeOK
  BY DEF PromiseInv, RosterInv, CodeInv
<1>2. limitBar' = limitBar
  <2>1. \A l \in Link : Created(l) => links'[l].max = links[l].max
    BY <1>1, Permanent
  <2>2. QED BY <2>1 DEF limitBar, CountersKept
<1>3. usedBar' = usedBar
  BY DEF usedBar, CountersKept
<1>4. \A l \in Link : insideBar'[l] \subseteq insideBar[l]
  BY <1>1, NoWayBack DEF insideBar, SessionsOn, CountersKept
<1>5. DOMAIN insideBar' = Link
  BY DEF insideBar
<1>6. QED BY <1>2, <1>3, <1>4, <1>5 DEF Promise!Leave, limitBar, usedBar, insideBar

\* An accepted code enters, is lost after it was counted, or was not counted yet.
LEMMA RedeemEnters ==
  ASSUME "close" \notin CrashIn, PromiseInv, [Next]_vars, NEW l \in Link, NEW b \in Browser,
         NEW typed, NEW done \in 1..Answer, Redeem(l, b, typed, done)
  PROVE  Promise!Next
<1>1. RosterInv /\ OpenCases /\ SessionIds /\ TypeOK
  BY DEF PromiseInv, RosterInv, CodeInv
<1>2. PICK c \in Newest(l, b) :
        /\ links' = IF done >= RegisterOpen THEN [links EXCEPT ![l].used = @ + 1] ELSE links
        /\ \/ /\ done >= CreateAccessSession
              /\ opened' = opened + 1
              /\ sessions' = Seen(b) \cup {NewSession(l, c)}
           \/ /\ ~(done >= CreateAccessSession)
              /\ opened' = opened
              /\ sessions' = Seen(b)
  BY <1>1, RedeemRows
<1>3. Created(l) /\ ~Exhausted(l) /\ clock' = clock /\ caseOpen' = caseOpen
  BY DEF Redeem, Reachable
<1>4. links[l] \in LinkRow /\ links[l].used \in Nat /\ links[l].max \in Nat \cup {Null}
  BY <1>1, <1>3 DEF TypeOK, Created, LinkRow
<1>5. \A m \in Link : Created(m) =>
        /\ Created(m)'
        /\ links'[m].case = links[m].case
        /\ links'[m].expires = links[m].expires
        /\ links'[m].max = links[m].max
  BY <1>1, Permanent
<1>6. \A m \in Link \ {l} : links'[m] = links[m]
  BY <1>1, <1>2 DEF TypeOK
<1>7. /\ links'[l].revoked = links[l].revoked
      /\ done >= RegisterOpen => links'[l].used = links[l].used + 1
      /\ ~(done >= RegisterOpen) => links'[l].used = links[l].used
  <2>1. CASE done >= RegisterOpen
    <3>1. links'[l] = [links[l] EXCEPT !.used = @ + 1]
      BY <1>1, <1>2, <2>1 DEF TypeOK
    <3>2. QED BY <1>4, <2>1, <3>1 DEF LinkRow
  <2>2. CASE ~(done >= RegisterOpen)
    BY <1>2, <2>2
  <2>3. QED BY <2>1, <2>2
<1>8. \A m \in Link : Created(m)' <=> Created(m)
  BY <1>3, <1>5, <1>6 DEF Created
<1>9. \A s \in sessions : Usable(s)' <=> Usable(s)
  <2> SUFFICES ASSUME NEW s \in sessions PROVE Usable(s)' <=> Usable(s)
    OBVIOUS
  <2>1. s.link \in Link /\ Created(s.link)
    BY <1>1, SessionLinks
  <2>2. links'[s.link].revoked = links[s.link].revoked
    BY <1>6, <1>7, <2>1
  <2>3. QED BY <1>3, <1>5, <2>1, <2>2, UsableSame
<1>10. \A s \in sessions : Usable(s) => s \in Seen(b)
  <2> SUFFICES ASSUME NEW s \in sessions, Usable(s) PROVE s \in Seen(b)
    OBVIOUS
  <2>1. s.expires \in Nat /\ clock \in Nat /\ s.expires > clock
    BY <1>1 DEF TypeOK, SessionRow, Usable
  <2>2. QED BY <2>1 DEF Seen
<1>11. limitBar' = limitBar
  BY <1>5, <1>8 DEF limitBar
<1>12. Promise!Allowed(l)
  <2>1. links[l].max = Null \/ links[l].used < links[l].max
    BY <1>3, <1>4, DeliveryAssumption DEF Exhausted
  <2>2. QED BY <1>3, <2>1 DEF Promise!Allowed
<1>13. ASSUME done >= RegisterOpen PROVE usedBar' = [usedBar EXCEPT ![l] = @ + 1]
  <2>1. \A m \in Link \ {l} : usedBar'[m] = usedBar[m]
    BY <1>6, <1>8 DEF usedBar
  <2>2. usedBar'[l] = usedBar[l] + 1
    BY <1>3, <1>7, <1>8, <1>13 DEF usedBar
  <2>3. QED BY <2>1, <2>2 DEF usedBar
<1>14. ASSUME sessions' = Seen(b) PROVE insideBar' = insideBar
  <2>1. \A m \in Link : insideBar'[m] = insideBar[m]
    BY <1>9, <1>10, <1>14, SeenIsSubset DEF insideBar, SessionsOn
  <2>2. QED BY <2>1 DEF insideBar
<1>15. CASE done < RegisterOpen
  <2>1. links' = links /\ sessions' = Seen(b)
    BY <1>2, <1>15 DEF RegisterOpen, CreateAccessSession
  <2>2. usedBar' = usedBar
    BY <1>8, <2>1 DEF usedBar
  <2>3. insideBar' = insideBar
    BY <1>14, <2>1
  <2>4. Promise!Leave
    BY <1>11, <2>2, <2>3 DEF Promise!Leave, limitBar, usedBar, insideBar
  <2>5. QED BY <2>4 DEF Promise!Next
<1>16. CASE done >= RegisterOpen /\ done < CreateAccessSession
  <2>1. sessions' = Seen(b)
    BY <1>2, <1>16 DEF RegisterOpen, CreateAccessSession
  <2>2. Promise!Lose(l)
    BY <1>11, <1>12, <1>13, <1>14, <1>16, <2>1 DEF Promise!Lose, limitBar, usedBar, insideBar
  <2>3. QED BY <2>2 DEF Promise!Next
<1>17. CASE done >= CreateAccessSession
  <2>1. PICK n : n = NewSession(l, c) /\ sessions' = Seen(b) \cup {n}
    BY <1>2, <1>17
  <2>2. n.link = l /\ n.id = opened + 1 /\ done >= RegisterOpen
    BY <1>17, <2>1 DEF NewSession, RegisterOpen, CreateAccessSession
  <2>3. \A m \in Link \ {l} : insideBar'[m] = insideBar[m]
    BY <1>9, <1>10, <2>1, <2>2, SeenIsSubset DEF insideBar, SessionsOn
  <2>4. CASE Usable(n)'
    <3>1. insideBar'[l] = insideBar[l] \cup {opened + 1}
      BY <1>9, <1>10, <2>1, <2>2, <2>4, SeenIsSubset DEF insideBar, SessionsOn
    <3>2. opened + 1 \notin insideBar[l]
      <4>1. \A s \in sessions : s.id # opened + 1
        BY <1>1 DEF SessionIds, TypeOK, SessionRow
      <4>2. QED BY <4>1 DEF insideBar, SessionsOn
    <3>3. insideBar' = [insideBar EXCEPT ![l] = @ \cup {opened + 1}]
      BY <2>3, <3>1 DEF insideBar
    <3>4. Promise!Enter(l)
      BY <1>11, <1>12, <1>13, <2>2, <3>1, <3>2, <3>3
         DEF Promise!Enter, limitBar, usedBar, insideBar
    <3>5. QED BY <3>4 DEF Promise!Next
  <2>5. CASE ~Usable(n)'
    <3>1. insideBar'[l] = insideBar[l]
      BY <1>9, <1>10, <2>1, <2>2, <2>5, SeenIsSubset DEF insideBar, SessionsOn
    <3>2. insideBar' = insideBar
      BY <2>3, <3>1 DEF insideBar
    <3>3. Promise!Lose(l)
      BY <1>11, <1>12, <1>13, <2>2, <3>2 DEF Promise!Lose, limitBar, usedBar, insideBar
    <3>4. QED BY <3>3 DEF Promise!Next
  <2>6. QED BY <2>4, <2>5
<1>18. done \in Nat
  BY DEF Answer
<1>19. QED BY <1>15, <1>16, <1>17, <1>18 DEF RegisterOpen, CreateAccessSession

\* The delivery flow implements the promise of a link: nobody gets inside except
\* by an opening counted against the limit in the same request, every opening is
\* counted whatever becomes of it, and whoever is out stays out until another
\* opening.  What is inside is what would be served, so the theorem needs what
\* NoRevival needs.
THEOREM PromiseKeptHolds == "close" \notin CrashIn => (Spec => PromiseKept)
<1> SUFFICES ASSUME "close" \notin CrashIn PROVE Spec => PromiseKept
  OBVIOUS
<1>1. Init => Promise!Init
  <2> SUFFICES ASSUME Init PROVE Promise!Init
    OBVIOUS
  <2>1. \A l \in Link : ~Created(l)
    BY DEF Init, Created
  <2>2. limitBar = [l \in Link |-> 0] /\ usedBar = [l \in Link |-> 0]
    BY <2>1 DEF limitBar, usedBar
  <2>3. insideBar = [l \in Link |-> {}]
    BY DEF Init, insideBar, SessionsOn
  <2>4. QED BY <2>2, <2>3 DEF Promise!Init, limitBar, usedBar, insideBar
<1>2. PromiseInv /\ [Next]_vars => [Promise!Next]_(Promise!ovars)
  <2> SUFFICES ASSUME PromiseInv, [Next]_vars PROVE Promise!Next
    OBVIOUS
  <2>1. RosterInv
    BY DEF PromiseInv
  <2>2. CASE CountersKept
    BY <2>2, OthersLeave DEF Promise!Next
  <2>3. ASSUME NEW l \in Link, NEW c \in Case, NEW x \in Expiries, NEW n \in Limits,
               NEW p \in SUBSET Email, CreateLink(l, c, x, n, p)
        PROVE  Promise!Next
    BY <2>3, CreateOffers DEF Promise!Next
  <2>4. ASSUME NEW l \in Link, NEW b \in Browser, NEW typed, NEW done \in Cut("redeem", Answer),
               Redeem(l, b, typed, done)
        PROVE  Promise!Next
    <3>1. done \in 1..Answer
      BY CutRange DEF Answer
    <3>2. QED BY <2>4, <3>1, RedeemEnters
  <2>5. QED BY <2>1, <2>2, <2>3, <2>4, CounterChange
<1>3. QED BY <1>1, <1>2, PromiseInvHolds, PTL DEF Spec, PromiseKept, Promise!Spec

-----------------------------------------------------------------------------
(* Sums of counters *)

\* A sum is the number of unit steps under the graph: a pile per element.
Pile(f, S) == {p \in S \X Nat : p[2] < f[p[1]]}

LEMMA PileFinite ==
  ASSUME NEW f, NEW S, IsFiniteSet(S), \A x \in S : f[x] \in Nat
  PROVE  IsFiniteSet(Pile(f, S))
<1> DEFINE C == [x \in S |-> {x} \X (0 .. f[x] - 1)]
           T == {C[x] : x \in S}
<1>1. IsFiniteSet(T)
  <2>1. C \in Surjection(S, T)
    BY DEF Surjection
  <2>2. QED BY <2>1, FS_Surjection
<1>2. \A U \in T : IsFiniteSet(U)
  <2> SUFFICES ASSUME NEW x \in S PROVE IsFiniteSet({x} \X (0 .. f[x] - 1))
    OBVIOUS
  <2>1. IsFiniteSet({x})
    BY FS_Singleton
  <2>2. f[x] - 1 \in Int
    OBVIOUS
  <2>3. IsFiniteSet(0 .. f[x] - 1)
    BY <2>2, FS_Interval
  <2>4. QED BY <2>1, <2>3, FS_Product
<1>3. IsFiniteSet(UNION T)
  BY <1>1, <1>2, FS_UNION
<1>4. Pile(f, S) \in SUBSET UNION T
  <2> SUFFICES ASSUME NEW p \in Pile(f, S) PROVE p \in UNION T
    OBVIOUS
  <2>1. PICK x \in S, n \in Nat : p = <<x, n>> /\ n < f[x]
    BY DEF Pile
  <2>2. p \in C[x]
    BY <2>1
  <2>3. QED BY <2>2
<1>5. QED BY <1>3, <1>4, FS_Subset

\* Taking an element away takes its pile away.
LEMMA PileSplit ==
  ASSUME NEW f, NEW S, IsFiniteSet(S), \A x \in S : f[x] \in Nat, NEW x \in S
  PROVE  /\ Cardinality(Pile(f, S)) \in Nat
         /\ Cardinality(Pile(f, S \ {x})) \in Nat
         /\ Cardinality(Pile(f, S)) = f[x] + Cardinality(Pile(f, S \ {x}))
<1> DEFINE A == Pile(f, S \ {x})
           B == {x} \X (0 .. f[x] - 1)
<1>1. Pile(f, S) = A \cup B
  <2>1. ASSUME NEW p \in Pile(f, S) PROVE p \in A \cup B
    <3>1. PICK y \in S, n \in Nat : p = <<y, n>> /\ n < f[y]
      BY DEF Pile
    <3>2. QED BY <3>1 DEF Pile
  <2>2. A \subseteq Pile(f, S)
    BY DEF Pile
  <2>3. B \subseteq Pile(f, S)
    BY DEF Pile
  <2>4. QED BY <2>1, <2>2, <2>3
<1>2. A \cap B = {}
  BY DEF Pile
<1>3. IsFiniteSet(S \ {x})
  BY FS_RemoveElement
<1>4. IsFiniteSet(A) /\ Cardinality(A) \in Nat
  BY <1>3, PileFinite, FS_CardinalityType
<1>5. IsFiniteSet(B) /\ Cardinality(B) = f[x]
  <2>1. ASSUME NEW m \in Nat PROVE IsFiniteSet(0 .. m - 1) /\ Cardinality(0 .. m - 1) = m
    <3>1. m - 1 \in Int
      OBVIOUS
    <3>2. /\ IsFiniteSet(0 .. m - 1)
          /\ Cardinality(0 .. m - 1) = IF 0 > m - 1 THEN 0 ELSE (m - 1) - 0 + 1
      BY <3>1, FS_Interval
    <3>3. (IF 0 > m - 1 THEN 0 ELSE (m - 1) - 0 + 1) = m
      OBVIOUS
    <3>4. QED BY <3>2, <3>3
  <2>2. f[x] \in Nat /\ IsFiniteSet(0 .. f[x] - 1) /\ Cardinality(0 .. f[x] - 1) = f[x]
    BY <2>1
  <2>3. IsFiniteSet({x}) /\ Cardinality({x}) = 1
    BY FS_Singleton
  <2> DEFINE below == 0 .. f[x] - 1
  <2>4. IsFiniteSet(below) /\ Cardinality(below) = f[x]
    BY <2>2
  <2>5. B = {x} \X below
    OBVIOUS
  <2> HIDE DEF below, B
  <2>6. IsFiniteSet(B) /\ Cardinality(B) = Cardinality({x}) * Cardinality(below)
    BY <2>3, <2>4, <2>5, FS_Product
  <2>7. QED BY <2>2, <2>3, <2>4, <2>6
<1> HIDE DEF A, B
<1>6. Cardinality(A \cup B) = Cardinality(A) + Cardinality(B) - Cardinality({})
  BY <1>2, <1>4, <1>5, FS_Union
<1>7. QED BY <1>1, <1>4, <1>5, <1>6, FS_EmptySet DEF A

\* What the community modules' sum computes, in whatever order it adds.
LEMMA SumIsPile ==
  ASSUME NEW f, NEW S, IsFiniteSet(S), \A x \in S : f[x] \in Nat
  PROVE  SumFunctionOnSet(f, S) = Cardinality(Pile(f, S))
<1> DEFINE pick(s) == CHOOSE x \in s : TRUE
           Sums(g) == g = [s \in SUBSET S |->
                             IF s = {} THEN 0 ELSE f[pick(s)] + g[s \ {pick(s)}]]
<1>1. SumFunctionOnSet(f, S) = (CHOOSE g : Sums(g))[S]
  BY DEF SumFunctionOnSet, FoldFunctionOnSet, MapThenFoldSet
<1>2. \A s \in SUBSET S : IsFiniteSet(s) /\ (s # {} => pick(s) \in s)
  BY FS_Subset
<1>3. \A s \in SUBSET S : s # {} =>
        /\ f[pick(s)] \in Nat
        /\ Cardinality(Pile(f, s)) = f[pick(s)] + Cardinality(Pile(f, s \ {pick(s)}))
  <2> SUFFICES ASSUME NEW s \in SUBSET S, s # {}
               PROVE  /\ f[pick(s)] \in Nat
                      /\ Cardinality(Pile(f, s))
                           = f[pick(s)] + Cardinality(Pile(f, s \ {pick(s)}))
    OBVIOUS
  <2>1. IsFiniteSet(s) /\ pick(s) \in s /\ \A x \in s : f[x] \in Nat
    BY <1>2
  <2> HIDE DEF pick
  <2>2. QED BY <2>1, PileSplit
<1> HIDE DEF pick
<1>4. Cardinality(Pile(f, {})) = 0
  <2>1. Pile(f, {}) = {}
    BY DEF Pile
  <2>2. QED BY <2>1, FS_EmptySet
<1>5. Sums([s \in SUBSET S |-> Cardinality(Pile(f, s))])
  <2> DEFINE h == [s \in SUBSET S |-> Cardinality(Pile(f, s))]
  <2>1. \A s \in SUBSET S :
          h[s] = IF s = {} THEN 0 ELSE f[pick(s)] + h[s \ {pick(s)}]
    BY <1>3, <1>4
  <2>2. QED BY <2>1
<1>6. ASSUME NEW g, Sums(g)
      PROVE  \A s \in SUBSET S : g[s] = Cardinality(Pile(f, s))
  <2> DEFINE Wrong == {s \in SUBSET S : g[s] # Cardinality(Pile(f, s))}
  <2> SUFFICES ASSUME Wrong # {} PROVE FALSE
    OBVIOUS
  <2>1. IsWellFoundedOn(StrictSubsetOrdering(S), SUBSET S)
    BY FS_StrictSubsetOrderingWellFounded, FS_FiniteSubsetsOfFinite
  <2>2. PICK s \in Wrong : \A t \in Wrong : ~(<<t, s>> \in StrictSubsetOrdering(S))
    <3>1. Wrong \subseteq SUBSET S
      OBVIOUS
    <3> HIDE DEF Wrong
    <3>2. QED BY <2>1, <3>1, WFMin
  <2>3. g[s] = IF s = {} THEN 0 ELSE f[pick(s)] + g[s \ {pick(s)}]
    BY <1>6
  <2>4. s # {}
    BY <1>4, <2>3
  <2>5. pick(s) \in s
    BY <1>2, <2>4
  <2>6. g[s \ {pick(s)}] = Cardinality(Pile(f, s \ {pick(s)}))
    <3>1. s \ {pick(s)} \in SUBSET S /\ s \ {pick(s)} # s
      BY <2>5
    <3>2. <<s \ {pick(s)}, s>> \in StrictSubsetOrdering(S)
      BY <3>1 DEF StrictSubsetOrdering
    <3>3. QED BY <2>2, <3>1, <3>2
  <2>7. QED BY <1>3, <2>3, <2>4, <2>6
<1> HIDE DEF Sums
<1>7. Sums(CHOOSE g : Sums(g))
  BY <1>5
<1>8. QED BY <1>1, <1>6, <1>7
-----------------------------------------------------------------------------
(* The openings a link accounts for *)

\* The openings shown per person, as a number of unit steps.
LEMMA ShownIsPile ==
  ASSUME NEW f \in [Email -> Nat], NEW S \in SUBSET Email
  PROVE  /\ IsFiniteSet(Pile(f, S))
         /\ Cardinality(Pile(f, S)) \in Nat
         /\ SumFunctionOnSet(f, S) = Cardinality(Pile(f, S))
<1>1. IsFiniteSet(S) /\ \A x \in S : f[x] \in Nat
  BY DeliveryAssumption, FS_Subset
<1>2. IsFiniteSet(Pile(f, S))
  BY <1>1, PileFinite
<1>3. QED BY <1>1, <1>2, SumIsPile, FS_CardinalityType

\* A smaller pile is a smaller sum, and one more unit is one more.
LEMMA ShownAtMost ==
  ASSUME NEW f \in [Email -> Nat], NEW S \in SUBSET Email,
         NEW g \in [Email -> Nat], NEW T \in SUBSET Email,
         Pile(g, T) \subseteq Pile(f, S)
  PROVE  /\ SumFunctionOnSet(g, T) <= SumFunctionOnSet(f, S)
         /\ SumFunctionOnSet(g, T) \in Nat /\ SumFunctionOnSet(f, S) \in Nat
<1>1. Pile(g, T) \in SUBSET Pile(f, S) /\ IsFiniteSet(Pile(f, S))
  BY ShownIsPile
<1>2. Cardinality(Pile(g, T)) <= Cardinality(Pile(f, S))
  BY <1>1, FS_Subset
<1>3. QED BY <1>2, ShownIsPile

LEMMA ShownOneMore ==
  ASSUME NEW f \in [Email -> Nat], NEW S \in SUBSET Email, NEW e \in Email
  PROVE  LET g == [f EXCEPT ![e] = @ + 1] IN
           /\ SumFunctionOnSet(g, S) <= SumFunctionOnSet(f, S) + 1
           /\ SumFunctionOnSet(g, S) \in Nat /\ SumFunctionOnSet(f, S) \in Nat
<1> DEFINE g == [f EXCEPT ![e] = @ + 1]
           A == Pile(f, S)
           B == A \cup {<<e, f[e]>>}
<1>1. g \in [Email -> Nat]
  OBVIOUS
<1>2. Pile(g, S) \in SUBSET B
  <2> SUFFICES ASSUME NEW p \in Pile(g, S) PROVE p \in B
    OBVIOUS
  <2>1. PICK y \in S, n \in Nat : p = <<y, n>> /\ n < g[y]
    BY DEF Pile
  <2>2. CASE y # e
    BY <2>1, <2>2 DEF Pile
  <2>3. CASE y = e
    <3>1. g[y] = f[y] + 1 /\ f[y] \in Nat
      BY <2>3
    <3>2. n < f[y] \/ n = f[y]
      BY <2>1, <3>1
    <3>3. QED BY <2>1, <2>3, <3>2 DEF Pile
  <2>4. QED BY <2>2, <2>3
<1>3. IsFiniteSet(A) /\ Cardinality(A) \in Nat /\ SumFunctionOnSet(f, S) = Cardinality(A)
  BY ShownIsPile
<1> HIDE DEF g, A
<1>4. IsFiniteSet(B) /\ Cardinality(B) <= Cardinality(A) + 1
  <2>1. /\ IsFiniteSet(B)
        /\ Cardinality(B) = IF <<e, f[e]>> \in A THEN Cardinality(A) ELSE Cardinality(A) + 1
    BY <1>3, FS_AddElement
  <2>2. QED BY <1>3, <2>1
<1> HIDE DEF B
<1>5. Cardinality(Pile(g, S)) <= Cardinality(B) /\ Cardinality(B) \in Nat
  BY <1>2, <1>4, FS_Subset, FS_CardinalityType
<1>6. Cardinality(Pile(g, S)) \in Nat /\ SumFunctionOnSet(g, S) = Cardinality(Pile(g, S))
  BY <1>1, ShownIsPile
<1>7. SumFunctionOnSet(g, S) <= SumFunctionOnSet(f, S) + 1
  BY <1>3, <1>4, <1>5, <1>6
<1>8. QED BY <1>3, <1>6, <1>7 DEF g

\* Who is not on a link has no openings there (ON DELETE CASCADE).
Forgotten == \A l \in Link : \A e \in Email \ roster[l] : opens[l][e] = 0

\* Nothing was granted on a link that does not exist.
Ungranted == \A l \in Link : ~Created(l) => granted[l] = 0

AccountInv == RosterInv /\ Forgotten /\ Ungranted /\ OpensAccount

\* The openings shown change where a code is accepted or the people change.
LEMMA OpensChange ==
  ASSUME [Next]_vars
  PROVE  \/ opens' = opens /\ roster' = roster
         \/ \E l \in Link, c \in Case, x \in Expiries, n \in Limits, p \in SUBSET Email :
              CreateLink(l, c, x, n, p)
         \/ \E l \in Link, p \in SUBSET Email : AddRecipients(l, p)
         \/ \E l \in Link, e \in Email : RemoveRecipient(l, e)
         \/ \E l \in Link, b \in Browser, typed \in 0..issued, done \in Cut("redeem", Answer) :
              Redeem(l, b, typed, done)
<1>1. ASSUME NEW b \in Browser, NEW l \in Link,
             \/ Visit(b)
             \/ \E e \in Email : RequestCode(l, e, b)
             \/ \E typed : WrongCode(l, b, typed) \/ RedeemTooLate(l, b, typed)
             \/ Restart(l, b)
             \/ Close(l, b)
      PROVE  opens' = opens /\ roster' = roster
  BY <1>1 DEF Visit, RequestCode, WrongCode, RedeemTooLate, Restart, Close
<1>2. ASSUME NEW b \in Browser, Visit(b) PROVE opens' = opens /\ roster' = roster
  BY <1>2 DEF Visit
<1>3. ASSUME NEW l, NEW done, Revoke(l, done) \/ Reissue(l, done)
      PROVE  opens' = opens /\ roster' = roster
  BY <1>3 DEF Revoke, Reissue
<1>4. ASSUME NEW c, NEW done, CloseCase(c, done) \/ ReopenCase(c)
      PROVE  opens' = opens /\ roster' = roster
  BY <1>4 DEF CloseCase, ReopenCase
<1>5. CASE RecipientNext
  BY <1>1, <1>2, <1>5 DEF RecipientNext
<1>6. CASE AdminNext
  BY <1>3, <1>4, <1>6 DEF AdminNext
<1>7. CASE (\E done : Purge(done)) \/ Tick \/ UNCHANGED vars
  BY <1>7 DEF Purge, Tick, vars
<1>8. QED BY <1>5, <1>6, <1>7 DEF Next

LEMMA ForgottenStep ==
  ASSUME AccountInv, [Next]_vars
  PROVE  Forgotten' /\ Ungranted'
<1>1. RosterInv /\ TypeOK
  BY DEF AccountInv, RosterInv, CodeInv
<1>2. Forgotten'
  <2> SUFFICES ASSUME NEW l \in Link, NEW e \in Email, e \notin roster'[l]
               PROVE  opens'[l][e] = 0
    BY DEF Forgotten
  <2>1. ASSUME opens' = opens, roster[l] \subseteq roster'[l] PROVE opens'[l][e] = 0
    BY <2>1 DEF AccountInv, Forgotten
  <2>2. ASSUME NEW m \in Link, NEW c, NEW x, NEW n, NEW p, CreateLink(m, c, x, n, p)
        PROVE  opens'[l][e] = 0
    <3>1. opens' = opens /\ roster' = [roster EXCEPT ![m] = p] /\ roster[m] = {}
      BY <1>1, <2>2 DEF CreateLink, RosterInv, Unborn
    <3>2. roster[l] \subseteq roster'[l]
      BY <1>1, <3>1 DEF TypeOK
    <3>3. QED BY <2>1, <3>1, <3>2
  <2>3. ASSUME NEW m \in Link, NEW p, AddRecipients(m, p) PROVE opens'[l][e] = 0
    BY <1>1, <2>1, <2>3 DEF AddRecipients, TypeOK
  <2>4. ASSUME NEW m \in Link, NEW x \in Email, RemoveRecipient(m, x) PROVE opens'[l][e] = 0
    <3>1. opens' = [opens EXCEPT ![m][x] = 0] /\ roster' = [roster EXCEPT ![m] = @ \ {x}]
      BY <2>4 DEF RemoveRecipient, OpensWithout
    <3>2. CASE l = m /\ e = x
      BY <1>1, <3>1, <3>2 DEF TypeOK
    <3>3. CASE ~(l = m /\ e = x)
      <4>1. opens'[l][e] = opens[l][e]
        BY <1>1, <3>1, <3>3 DEF TypeOK
      <4>2. e \notin roster[l]
        BY <1>1, <3>1, <3>3 DEF TypeOK
      <4>3. QED BY <4>1, <4>2 DEF AccountInv, Forgotten
    <3>4. QED BY <3>2, <3>3
  <2>5. ASSUME NEW m \in Link, NEW b \in Browser, NEW typed, NEW done, Redeem(m, b, typed, done)
        PROVE  opens'[l][e] = 0
    <3>1. PICK c \in Newest(m, b) : opens' = opens \/ opens' = [opens EXCEPT ![m][c.who] = @ + 1]
      BY <1>1, <2>5, RedeemRows
    <3>2. c \in challenges /\ c.link = m /\ c.who \in roster[m] /\ roster' = roster
      BY <1>1, <2>5, NewestIsPending DEF Redeem, RosterInv, RosterBound
    <3>3. opens'[l][e] = opens[l][e]
      BY <1>1, <3>1, <3>2 DEF TypeOK
    <3>4. QED BY <3>2, <3>3 DEF AccountInv, Forgotten
  <2>6. QED BY <2>1, <2>2, <2>3, <2>4, <2>5, OpensChange
<1>3. Ungranted'
  <2> SUFFICES ASSUME NEW l \in Link, ~Created(l)' PROVE granted'[l] = 0
    BY DEF Ungranted
  <2>1. ~Created(l) /\ granted[l] = 0
    BY <1>1, Permanent DEF AccountInv, Ungranted
  <2>2. CASE granted' = granted
    BY <2>1, <2>2
  <2>3. ASSUME NEW m \in Link, NEW b, NEW typed, NEW done, Redeem(m, b, typed, done)
        PROVE  granted'[l] = 0
    <3>1. m # l
      BY <2>1, <2>3 DEF Redeem, Reachable
    <3>2. QED BY <1>1, <2>1, <2>3, <3>1 DEF Redeem, TypeOK
  <2>4. QED BY <1>1, <2>2, <2>3, CounterChange DEF CountersKept, CreateLink
<1>4. QED BY <1>2, <1>3

\* The account of one link.
Balanced(l) ==
  /\ links[l].max # Null => links[l].used <= links[l].max
  /\ Cardinality(SessionsOn(l)) <= links[l].used
  /\ granted[l] <= links[l].used
  /\ SumFunctionOnSet(opens[l], roster[l]) <= links[l].used
  /\ "redeem" \notin CrashIn => granted[l] = links[l].used

\* The numbers of the account are numbers.
LEMMA AccountTypes ==
  ASSUME RosterInv, NEW l \in Link
  PROVE  /\ IsFiniteSet(SessionsOn(l)) /\ Cardinality(SessionsOn(l)) \in Nat
         /\ granted[l] \in Nat
         /\ opens[l] \in [Email -> Nat] /\ roster[l] \in SUBSET Email
         /\ SumFunctionOnSet(opens[l], roster[l]) \in Nat
         /\ Created(l) => links[l] \in LinkRow /\ links[l].used \in Nat
                          /\ links[l].max \in Nat \cup {Null}
<1>1. TypeOK
  BY DEF RosterInv, CodeInv
<1>2. SessionsOn(l) \in SUBSET sessions
  BY DEF SessionsOn
<1>3. IsFiniteSet(SessionsOn(l)) /\ Cardinality(SessionsOn(l)) \in Nat
  BY <1>2, FS_Subset, FS_CardinalityType DEF RosterInv, RowsFinite
<1>4. /\ granted[l] \in Nat /\ opens[l] \in [Email -> Nat] /\ roster[l] \in SUBSET Email
  BY <1>1 DEF TypeOK
<1>5. SumFunctionOnSet(opens[l], roster[l]) \in Nat
  BY <1>4, ShownIsPile
<1>6. Created(l) => links[l] \in LinkRow /\ links[l].used \in Nat
                    /\ links[l].max \in Nat \cup {Null}
  BY <1>1 DEF TypeOK, Created, LinkRow
<1>7. QED BY <1>3, <1>4, <1>5, <1>6

\* Where nothing is counted, sessions may end and people may go.
LEMMA KeptBalanced ==
  ASSUME RosterInv, RosterInv', [Next]_vars, NEW l \in Link, Created(l), Balanced(l),
         links'[l].used = links[l].used, granted'[l] = granted[l],
         {s \in sessions' : s.link = l} \subseteq SessionsOn(l),
         SumFunctionOnSet(opens'[l], roster'[l]) <= SumFunctionOnSet(opens[l], roster[l])
  PROVE  Balanced(l)'
<1>1. TypeOK
  BY DEF RosterInv, CodeInv
<1>2. links'[l].max = links[l].max /\ Created(l)'
  BY <1>1, Permanent
<1>3. /\ SumFunctionOnSet(opens'[l], roster'[l]) \in Nat
      /\ SumFunctionOnSet(opens[l], roster[l]) \in Nat
      /\ links[l].used \in Nat
      /\ IsFiniteSet(SessionsOn(l)) /\ Cardinality(SessionsOn(l)) \in Nat
      /\ Cardinality({s \in sessions' : s.link = l}) \in Nat
  <2>1. IsFiniteSet(SessionsOn(l)) /\ {s \in sessions' : s.link = l} \in SUBSET SessionsOn(l)
    BY AccountTypes
  <2>2. Cardinality({s \in sessions' : s.link = l}) \in Nat
    BY <2>1, FS_Subset, FS_CardinalityType
  <2>3. opens'[l] \in [Email -> Nat] /\ roster'[l] \in SUBSET Email
    BY DEF RosterInv, CodeInv, TypeOK
  <2>4. SumFunctionOnSet(opens'[l], roster'[l]) \in Nat
    BY <2>3, ShownIsPile
  <2>5. QED BY <2>2, <2>4, AccountTypes
<1>4. Cardinality({s \in sessions' : s.link = l}) <= Cardinality(SessionsOn(l))
  <2>1. {s \in sessions' : s.link = l} \in SUBSET SessionsOn(l)
    OBVIOUS
  <2>2. QED BY <1>3, <2>1, FS_Subset
<1>5. Cardinality({s \in sessions' : s.link = l}) <= links'[l].used
  BY <1>3, <1>4 DEF Balanced
<1>6. SumFunctionOnSet(opens'[l], roster'[l]) <= links'[l].used
  BY <1>3 DEF Balanced
<1>7. QED BY <1>2, <1>5, <1>6 DEF Balanced, SessionsOn

\* A link starts with nothing counted, and nothing to count.
LEMMA CreateBalances ==
  ASSUME AccountInv, NEW l \in Link, NEW c \in Case, NEW x \in Expiries, NEW n \in Limits,
         NEW p \in SUBSET Email, CreateLink(l, c, x, n, p)
  PROVE  Balanced(l)'
<1>1. RosterInv /\ TypeOK
  BY DEF AccountInv, RosterInv, CodeInv
<1>2. /\ links'[l].used = 0 /\ links'[l].max = n /\ ~Created(l)
      /\ sessions' = sessions /\ granted' = granted /\ opens' = opens
      /\ roster'[l] = p
  BY <1>1 DEF CreateLink, TypeOK
<1>3. Cardinality(SessionsOn(l)') = 0
  <2>1. SessionsOn(l)' = {}
    BY <1>1, <1>2, SessionLinks DEF SessionsOn
  <2>2. QED BY <2>1, FS_EmptySet
<1>4. SumFunctionOnSet(opens'[l], roster'[l]) = 0
  <2>1. \A e \in Email : opens[l][e] = 0
    BY <1>1, <1>2 DEF AccountInv, Forgotten, RosterInv, Unborn
  <2>2. Pile(opens[l], p) = {}
    BY <2>1 DEF Pile
  <2>3. opens[l] \in [Email -> Nat]
    BY <1>1 DEF TypeOK
  <2>4. QED BY <1>2, <2>2, <2>3, ShownIsPile, FS_EmptySet
<1>5. granted'[l] = 0
  BY <1>2 DEF AccountInv, Ungranted
<1>6. n # Null => 0 <= n
  BY DeliveryAssumption
<1>7. QED BY <1>2, <1>3, <1>4, <1>5, <1>6 DEF Balanced

\* An accepted code counts before it opens, before it lets in and before it logs.
LEMMA RedeemBalances ==
  ASSUME AccountInv, RosterInv', [Next]_vars, NEW l \in Link, NEW b \in Browser, NEW typed,
         NEW done \in Cut("redeem", Answer), Redeem(l, b, typed, done)
  PROVE  Balanced(l)'
<1>1. RosterInv /\ TypeOK
  BY DEF AccountInv, RosterInv, CodeInv
<1>2. PICK c \in Newest(l, b) :
        /\ links' = IF done >= RegisterOpen THEN [links EXCEPT ![l].used = @ + 1] ELSE links
        /\ opens' = IF done >= RecordRecipientOpen
                    THEN [opens EXCEPT ![l][c.who] = @ + 1] ELSE opens
        /\ \/ /\ done >= CreateAccessSession
              /\ opened' = opened + 1
              /\ sessions' = Seen(b) \cup {NewSession(l, c)}
           \/ /\ ~(done >= CreateAccessSession)
              /\ opened' = opened
              /\ sessions' = Seen(b)
  BY <1>1, RedeemRows
<1>3. /\ Created(l) /\ ~Exhausted(l) /\ roster' = roster
      /\ granted' = IF done >= Answer THEN [granted EXCEPT ![l] = @ + 1] ELSE granted
  BY DEF Redeem, Reachable
<1>4. Balanced(l)
  BY <1>3 DEF AccountInv, OpensAccount, Balanced
<1>5. /\ IsFiniteSet(SessionsOn(l)) /\ Cardinality(SessionsOn(l)) \in Nat
      /\ granted[l] \in Nat
      /\ opens[l] \in [Email -> Nat] /\ roster[l] \in SUBSET Email
      /\ SumFunctionOnSet(opens[l], roster[l]) \in Nat
      /\ links[l] \in LinkRow /\ links[l].used \in Nat /\ links[l].max \in Nat \cup {Null}
  BY <1>1, <1>3, AccountTypes
<1>6. done \in 1..5 /\ ("redeem" \notin CrashIn => done = 5)
  BY DEF Cut, Answer
<1>7. CASE done < RegisterOpen
  <2>1. links' = links /\ opens' = opens /\ granted' = granted /\ sessions' = Seen(b)
    BY <1>2, <1>3, <1>6, <1>7
       DEF RegisterOpen, RecordRecipientOpen, CreateAccessSession, Answer
  <2>2. {s \in sessions' : s.link = l} \subseteq SessionsOn(l)
    BY <2>1, SeenIsSubset DEF SessionsOn
  <2>3. SumFunctionOnSet(opens'[l], roster'[l]) <= SumFunctionOnSet(opens[l], roster[l])
    BY <1>3, <1>5, <2>1
  <2>4. QED BY <1>1, <1>3, <1>4, <2>1, <2>2, <2>3, KeptBalanced
<1>8. CASE done >= RegisterOpen
  <2>1. links'[l] = [links[l] EXCEPT !.used = @ + 1]
    BY <1>1, <1>2, <1>8 DEF TypeOK
  <2>2. links'[l].used = links[l].used + 1 /\ links'[l].max = links[l].max
    BY <1>5, <2>1 DEF LinkRow
  <2>3. links[l].max # Null => links[l].used + 1 <= links[l].max
    BY <1>3, <1>5 DEF Exhausted
  <2>4. Cardinality(SessionsOn(l)') <= links[l].used + 1
    <3> DEFINE A == SessionsOn(l)
               B == A \cup {NewSession(l, c)}
    <3>1. SessionsOn(l)' \in SUBSET B
      BY <1>2, SeenIsSubset DEF SessionsOn
    <3>2. IsFiniteSet(A) /\ Cardinality(A) \in Nat /\ Cardinality(A) <= links[l].used
      BY <1>4, <1>5 DEF Balanced
    <3> HIDE DEF A
    <3>3. IsFiniteSet(B) /\ Cardinality(B) <= Cardinality(A) + 1
      <4>1. /\ IsFiniteSet(B)
            /\ Cardinality(B) = IF NewSession(l, c) \in A THEN Cardinality(A)
                                ELSE Cardinality(A) + 1
        BY <3>2, FS_AddElement
      <4>2. QED BY <3>2, <4>1
    <3> HIDE DEF B
    <3>4. /\ IsFiniteSet(SessionsOn(l)') /\ Cardinality(SessionsOn(l)') <= Cardinality(B)
          /\ Cardinality(B) \in Nat
      BY <3>1, <3>3, FS_Subset, FS_CardinalityType
    <3>5. Cardinality(SessionsOn(l)') \in Nat
      BY <3>4, FS_CardinalityType
    <3>6. QED BY <1>5, <3>2, <3>3, <3>4, <3>5
  <2>5. /\ granted'[l] <= links[l].used + 1
        /\ "redeem" \notin CrashIn => granted'[l] = links[l].used + 1
    <3>1. granted'[l] = IF done >= Answer THEN granted[l] + 1 ELSE granted[l]
      BY <1>1, <1>3 DEF TypeOK
    <3>2. granted[l] <= links[l].used /\ ("redeem" \notin CrashIn => granted[l] = links[l].used)
      BY <1>4 DEF Balanced
    <3>3. QED BY <1>5, <1>6, <3>1, <3>2 DEF Answer
  <2>6. SumFunctionOnSet(opens'[l], roster'[l]) <= links[l].used + 1
    <3>1. SumFunctionOnSet(opens[l], roster[l]) <= links[l].used
      BY <1>4 DEF Balanced
    <3>2. CASE opens' = opens
      BY <1>3, <1>5, <3>1, <3>2
    <3>3. CASE opens' = [opens EXCEPT ![l][c.who] = @ + 1]
      <4>1. c.who \in Email
        BY <1>1, NewestIsPending DEF TypeOK, ChallengeRow
      <4>2. opens'[l] = [opens[l] EXCEPT ![c.who] = @ + 1]
        BY <1>1, <3>3 DEF TypeOK
      <4>3. /\ SumFunctionOnSet(opens'[l], roster[l]) <= SumFunctionOnSet(opens[l], roster[l]) + 1
            /\ SumFunctionOnSet(opens'[l], roster[l]) \in Nat
        BY <1>5, <4>1, <4>2, ShownOneMore
      <4>4. QED BY <1>3, <1>5, <3>1, <4>3
    <3>4. QED BY <1>2, <3>2, <3>3
  <2>7. QED BY <2>2, <2>3, <2>4, <2>5, <2>6 DEF Balanced
<1>9. QED BY <1>6, <1>7, <1>8 DEF RegisterOpen

LEMMA AccountStep == AccountInv /\ [Next]_vars => AccountInv'
<1> SUFFICES ASSUME AccountInv, [Next]_vars PROVE AccountInv'
  OBVIOUS
<1>1. RosterInv /\ RosterInv' /\ TypeOK
  BY RosterInvStep DEF AccountInv, RosterInv, CodeInv
<1>2. SUFFICES ASSUME NEW l \in Link, Created(l)' PROVE Balanced(l)'
  BY <1>1, ForgottenStep DEF AccountInv, OpensAccount, Balanced
<1>3. /\ opens[l] \in [Email -> Nat] /\ roster[l] \in SUBSET Email
      /\ opens'[l] \in [Email -> Nat] /\ roster'[l] \in SUBSET Email
  BY <1>1 DEF RosterInv, CodeInv, TypeOK
<1>4. ASSUME Created(l), links'[l].used = links[l].used, granted'[l] = granted[l],
             {s \in sessions' : s.link = l} \subseteq SessionsOn(l),
             Pile(opens'[l], roster'[l]) \subseteq Pile(opens[l], roster[l])
      PROVE  Balanced(l)'
  <2>1. SumFunctionOnSet(opens'[l], roster'[l]) <= SumFunctionOnSet(opens[l], roster[l])
    BY <1>3, <1>4, ShownAtMost
  <2>2. Balanced(l)
    BY <1>4 DEF AccountInv, OpensAccount, Balanced
  <2>3. QED BY <1>1, <1>4, <2>1, <2>2, KeptBalanced
<1>5. ASSUME NEW m \in Link, NEW c \in Case, NEW x \in Expiries, NEW n \in Limits,
             NEW p \in SUBSET Email, CreateLink(m, c, x, n, p)
      PROVE  Balanced(l)'
  <2>1. CASE l = m
    BY <1>5, <2>1, CreateBalances
  <2>2. CASE l # m
    <3>1. /\ links'[l] = links[l] /\ granted' = granted /\ sessions' = sessions
          /\ opens' = opens /\ roster'[l] = roster[l]
      BY <1>1, <1>5, <2>2 DEF CreateLink, TypeOK
    <3>2. Created(l)
      BY <1>2, <3>1 DEF Created
    <3>3. QED BY <1>4, <3>1, <3>2 DEF SessionsOn
  <2>3. QED BY <2>1, <2>2
<1>6. ASSUME NEW m \in Link, NEW b \in Browser, NEW typed, NEW done \in Cut("redeem", Answer),
             Redeem(m, b, typed, done)
      PROVE  Balanced(l)'
  <2>1. CASE l = m
    BY <1>1, <1>6, <2>1, RedeemBalances
  <2>2. CASE l # m
    <3>1. PICK c \in Newest(m, b) :
            /\ links' = links \/ links' = [links EXCEPT ![m].used = @ + 1]
            /\ opens' = opens \/ opens' = [opens EXCEPT ![m][c.who] = @ + 1]
            /\ sessions' = Seen(b) \/ sessions' = Seen(b) \cup {NewSession(m, c)}
      BY <1>1, <1>6, RedeemRows
    <3>2. links'[l] = links[l] /\ opens'[l] = opens[l]
      BY <1>1, <2>2, <3>1 DEF TypeOK
    <3>3. granted'[l] = granted[l] /\ roster' = roster
      BY <1>1, <1>6, <2>2 DEF Redeem, TypeOK
    <3>4. {s \in sessions' : s.link = l} \subseteq SessionsOn(l)
      <4>1. NewSession(m, c).link = m
        BY DEF NewSession
      <4>2. QED BY <2>2, <3>1, <4>1, SeenIsSubset DEF SessionsOn
    <3>5. Created(l)
      BY <1>2, <3>2 DEF Created
    <3>6. QED BY <1>4, <3>2, <3>3, <3>4, <3>5
  <2>3. QED BY <2>1, <2>2
<1>7. ASSUME NEW m \in Link, NEW p \in SUBSET Email, AddRecipients(m, p)
      PROVE  Balanced(l)'
  <2>1. /\ links' = links /\ granted' = granted /\ sessions' = sessions /\ opens' = opens
    BY <1>7 DEF AddRecipients
  <2>2. \A e \in roster'[l] \ roster[l] : opens[l][e] = 0
    BY <1>3 DEF AccountInv, Forgotten
  <2>3. Pile(opens'[l], roster'[l]) \subseteq Pile(opens[l], roster[l])
    BY <1>3, <2>1, <2>2 DEF Pile
  <2>4. Created(l)
    BY <1>2, <2>1 DEF Created
  <2>5. QED BY <1>4, <2>1, <2>3, <2>4 DEF SessionsOn
<1>8. ASSUME NEW m \in Link, NEW e \in Email, RemoveRecipient(m, e)
      PROVE  Balanced(l)'
  <2>1. /\ links' = links /\ granted' = granted /\ sessions' \subseteq sessions
        /\ opens' = [opens EXCEPT ![m][e] = 0] /\ roster' = [roster EXCEPT ![m] = @ \ {e}]
    BY <1>8 DEF RemoveRecipient, SessionsWithout, OpensWithout
  <2>2. roster'[l] \subseteq roster[l] /\ \A x \in roster'[l] : opens'[l][x] = opens[l][x]
    <3>1. CASE l # m
      BY <1>1, <2>1, <3>1 DEF TypeOK
    <3>2. CASE l = m
      <4>1. roster'[l] = roster[l] \ {e} /\ opens'[l] = [opens[l] EXCEPT ![e] = 0]
        BY <1>1, <2>1, <3>2 DEF TypeOK
      <4>2. QED BY <1>3, <4>1
    <3>3. QED BY <3>1, <3>2
  <2>3. Pile(opens'[l], roster'[l]) \subseteq Pile(opens[l], roster[l])
    BY <2>2 DEF Pile
  <2>4. Created(l)
    BY <1>2, <2>1 DEF Created
  <2>5. QED BY <1>4, <2>1, <2>3, <2>4 DEF SessionsOn
<1>9. ASSUME opens' = opens, roster' = roster, CountersKept PROVE Balanced(l)'
  BY <1>2, <1>4, <1>9 DEF CountersKept, SessionsOn
<1>10. QED BY <1>1, <1>5, <1>6, <1>7, <1>8, <1>9, OpensChange, CounterChange

\* The openings of a link add up: registerOpen counts before the recipient's
\* counter, the session and the audit row are written, and refuses an exhausted
\* link, so none of them ever shows more than was counted and no limit is passed,
\* wherever a crash cuts the handler; with no crash the audit log agrees exactly.
THEOREM OpensAccountHolds == Spec => []OpensAccount
<1>1. Init => AccountInv
  <2>1. ASSUME Init
        PROVE  Forgotten /\ Ungranted /\ OpensAccount
    BY <2>1 DEF Init, Forgotten, Ungranted, OpensAccount, Created
  <2>2. QED BY <2>1, RosterInvInit DEF AccountInv
<1>2. AccountInv => OpensAccount
  BY DEF AccountInv
<1>3. QED BY <1>1, <1>2, AccountStep, PTL DEF Spec
=============================================================================
