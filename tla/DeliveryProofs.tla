--------------------------- MODULE DeliveryProofs ---------------------------
(* What holds of Delivery for every number of cases, links, people and      *)
(* browsers, every limit and every set of handlers a crash may interrupt.   *)
EXTENDS Delivery, TLAPS

-----------------------------------------------------------------------------
(* The rows an UPDATE or a DELETE leaves behind *)

\* Consuming rows leaves rows.
LEMMA ConsumeType ==
  ASSUME challenges \subseteq ChallengeRow, NEW rows, rows \subseteq challenges
  PROVE  Consume(rows) \subseteq ChallengeRow
BY DEF Consume, ChallengeRow

\* So does recording a miss.
LEMMA MissType ==
  ASSUME challenges \subseteq ChallengeRow, NEW c \in challenges
  PROVE  Miss(c) \subseteq ChallengeRow
<1>1. \A d \in ChallengeRow : [d EXCEPT !.attempts = @ + 1] \in ChallengeRow
  BY DEF ChallengeRow
<1>2. \A d \in ChallengeRow : [d EXCEPT !.consumed = TRUE] \in ChallengeRow
  BY DEF ChallengeRow
<1>3. \A d \in ChallengeRow : [d EXCEPT !.consumed = FALSE] \in ChallengeRow
  BY DEF ChallengeRow
<1>4. BudgetSpent(c.attempts + 1) \in BOOLEAN
  BY DEF BudgetSpent
<1>5. [c EXCEPT !.attempts = @ + 1, !.consumed = BudgetSpent(c.attempts + 1)]
        \in ChallengeRow
  <2>1. CASE BudgetSpent(c.attempts + 1) = TRUE
    BY <1>1, <1>2, <2>1, Zenon
  <2>2. CASE BudgetSpent(c.attempts + 1) = FALSE
    BY <1>1, <1>3, <2>2, Zenon
  <2>3. QED BY <1>4, <2>1, <2>2
<1>6. QED BY <1>5 DEF Miss

\* The counters and flags of a link row change within their types.
LEMMA LinkRowUpdates ==
  ASSUME NEW k \in LinkRow
  PROVE  /\ [k EXCEPT !.revoked = TRUE] \in LinkRow
         /\ [k EXCEPT !.url = @ + 1] \in LinkRow
         /\ [k EXCEPT !.used = @ + 1] \in LinkRow
<1>1. [k EXCEPT !.revoked = TRUE] \in LinkRow
  BY DEF LinkRow
<1>2. [k EXCEPT !.url = @ + 1] \in LinkRow
  BY DEF LinkRow
<1>3. [k EXCEPT !.used = @ + 1] \in LinkRow
  BY DEF LinkRow
<1>4. QED BY <1>1, <1>2, <1>3

\* accessMiddleware and the filters of a request only take sessions away.
LEMMA SeenIsSubset ==
  ASSUME NEW b PROVE Seen(b) \subseteq sessions
BY DEF Seen

\* The row a typed code is compared with is a pending row of that link and
\* that browser.
LEMMA NewestIsPending ==
  ASSUME NEW l, NEW b, NEW c \in Newest(l, b)
  PROVE  c \in challenges /\ c.link = l /\ c.flow = b /\ ~c.consumed /\ c.expires > clock
BY DEF Newest, CodesIn, Live

-----------------------------------------------------------------------------
(* Type correctness *)

LEMMA TypeInit == Init => TypeOK
BY DeliveryAssumption DEF Init, TypeOK

LEMMA TypeRecipient == TypeOK /\ RecipientNext => TypeOK'
<1> SUFFICES ASSUME TypeOK, NEW b \in Browser, NEW l \in Link,
                    \/ Visit(b)
                    \/ \E e \in Email : RequestCode(l, e, b)
                    \/ \E typed \in 0..issued :
                         \/ WrongCode(l, b, typed)
                         \/ \E done \in Cut("redeem", Answer) : Redeem(l, b, typed, done)
                         \/ RedeemTooLate(l, b, typed)
                    \/ Restart(l, b)
                    \/ Close(l, b)
             PROVE  TypeOK'
  <2>1. ASSUME TypeOK, NEW b \in Browser, Visit(b) PROVE TypeOK'
    BY <2>1, SeenIsSubset DEF Visit, TypeOK
  <2>2. QED BY <2>1 DEF RecipientNext
<1> USE DEF TypeOK
<1>1. Seen(b) \subseteq SessionRow
  BY SeenIsSubset
<1>2. CASE Visit(b)
  BY <1>1, <1>2 DEF Visit
<1>3. ASSUME NEW e \in Email, RequestCode(l, e, b) PROVE TypeOK'
  <2>1. Consume(Superseded(l, e)) \subseteq ChallengeRow
    BY ConsumeType DEF Superseded, CodesOf
  <2>2. [id |-> issued + 1, link |-> l, who |-> e, flow |-> b, attempts |-> 0,
         created |-> clock, expires |-> clock + CodeTtl, consumed |-> FALSE]
          \in ChallengeRow
    BY DeliveryAssumption DEF ChallengeRow
  <2>3. challenges' \subseteq ChallengeRow
    BY <1>3, <2>1, <2>2 DEF RequestCode
  <2>4. mailed' \subseteq Mail
    <3>1. [id |-> issued + 1, link |-> l, who |-> e, at |-> clock, here |-> TRUE] \in Mail
      BY DEF Mail
    <3>2. QED BY <1>3, <3>1 DEF RequestCode
  <2>5. QED BY <1>1, <1>3, <2>3, <2>4 DEF RequestCode
<1>4. ASSUME NEW typed \in 0..issued, WrongCode(l, b, typed) PROVE TypeOK'
  BY <1>1, <1>4, MissType, NewestIsPending DEF WrongCode
<1>5. ASSUME NEW typed \in 0..issued, NEW done \in Cut("redeem", Answer),
             Redeem(l, b, typed, done)
      PROVE  TypeOK'
  <2>1. PICK c \in Newest(l, b) :
          /\ challenges' = Spend(c)
          /\ links' = IF done >= RegisterOpen THEN [links EXCEPT ![l].used = @ + 1] ELSE links
          /\ opens' = IF done >= RecordRecipientOpen
                      THEN [opens EXCEPT ![l][c.who] = @ + 1] ELSE opens
          /\ IF done >= CreateAccessSession
             THEN /\ opened' = opened + 1
                  /\ sessions' = Seen(b) \cup
                       {[id |-> opened + 1, link |-> l, who |-> c.who,
                         expires |-> clock + SessionTtl, code |-> c.id,
                         url |-> links[l].url]}
             ELSE opened' = opened /\ sessions' = Seen(b)
    BY <1>5 DEF Redeem
  <2>2. c \in ChallengeRow /\ c \in challenges
    BY NewestIsPending
  <2>3. links[l] \in LinkRow
    BY <1>5 DEF Redeem, Reachable, Created
  <2>4. challenges' \subseteq ChallengeRow
    BY <2>1, <2>2, ConsumeType DEF Spend
  <2>5. links' \in [Link -> LinkRow \cup {Null}]
    BY <2>1, <2>3, LinkRowUpdates
  <2>6. opens' \in [Link -> [Email -> Nat]]
    BY <2>1, <2>2 DEF ChallengeRow
  <2>7. opened' \in Nat /\ sessions' \subseteq SessionRow
    <3>1. [id |-> opened + 1, link |-> l, who |-> c.who, expires |-> clock + SessionTtl,
           code |-> c.id, url |-> links[l].url] \in SessionRow
      BY <2>2, <2>3, DeliveryAssumption DEF SessionRow, ChallengeRow, LinkRow
    <3>2. QED BY <1>1, <2>1, <3>1
  <2>8. granted' \in [Link -> Nat] /\ cookie' \in [Browser -> Nat]
    BY <1>5 DEF Redeem
  <2>9. QED BY <1>5, <2>4, <2>5, <2>6, <2>7, <2>8 DEF Redeem
<1>6. ASSUME NEW typed \in 0..issued, RedeemTooLate(l, b, typed) PROVE TypeOK'
  BY <1>1, <1>6, ConsumeType, NewestIsPending DEF RedeemTooLate, Spend
<1>7. CASE Restart(l, b)
  BY <1>1, <1>7, ConsumeType DEF Restart, CodesIn
<1>8. CASE Close(l, b)
  BY <1>1, <1>8 DEF Close
<1>9. QED BY <1>2, <1>3, <1>4, <1>5, <1>6, <1>7, <1>8

LEMMA EndLinkType ==
  ASSUME TypeOK, NEW l, NEW done, EndLink(l, done)
  PROVE  challenges' \subseteq ChallengeRow /\ sessions' \subseteq SessionRow
BY ConsumeType DEF EndLink, TypeOK, CodesOn

LEMMA TypeAdmin == TypeOK /\ AdminNext => TypeOK'
<1> SUFFICES ASSUME TypeOK, AdminNext PROVE TypeOK'
  OBVIOUS
<1> USE DEF TypeOK
<1>1. ASSUME NEW l \in Link, NEW c \in Case, NEW expires \in Expiries, NEW max \in Limits,
             NEW people \in SUBSET Email, CreateLink(l, c, expires, max, people)
      PROVE  TypeOK'
  BY <1>1, DeliveryAssumption DEF CreateLink, LinkRow
<1>2. ASSUME NEW l \in Link, NEW people \in SUBSET Email, AddRecipients(l, people)
      PROVE  TypeOK'
  BY <1>2 DEF AddRecipients
<1>3. ASSUME NEW l \in Link, NEW e \in Email, RemoveRecipient(l, e)
      PROVE  TypeOK'
  <2>1. opens' \in [Link -> [Email -> Nat]]
    BY <1>3 DEF RemoveRecipient, OpensWithout
  <2>2. challenges' \subseteq challenges /\ sessions' \subseteq sessions
    BY <1>3 DEF RemoveRecipient, SessionsWithout
  <2>3. mailed' \subseteq Mail
    <3>1. mailed' = Gone(l, e)
      BY <1>3 DEF RemoveRecipient
    <3>2. \A m \in Mail : [m EXCEPT !.here = FALSE] \in Mail
      BY DEF Mail
    <3>3. QED BY <3>1, <3>2 DEF Gone
  <2>4. QED BY <1>3, <2>1, <2>2, <2>3 DEF RemoveRecipient
<1>4. ASSUME NEW l \in Link, NEW done, Revoke(l, done) \/ Reissue(l, done)
      PROVE  TypeOK'
  <2>1. links[l] \in LinkRow
    BY <1>4 DEF Revoke, Reissue, Created
  <2>2. links' \in [Link -> LinkRow \cup {Null}]
    BY <1>4, <2>1, LinkRowUpdates DEF Revoke, Reissue
  <2>3. QED BY <1>4, <2>2, EndLinkType DEF Revoke, Reissue
<1>5. ASSUME NEW c \in Case, NEW done, CloseCase(c, done) PROVE TypeOK'
  BY <1>5 DEF CloseCase
<1>6. ASSUME NEW c \in Case, ReopenCase(c) PROVE TypeOK'
  BY <1>6 DEF ReopenCase
<1>7. QED BY <1>1, <1>2, <1>3, <1>4, <1>5, <1>6 DEF AdminNext

LEMMA TypeStep == TypeOK /\ [Next]_vars => TypeOK'
<1> SUFFICES ASSUME TypeOK, [Next]_vars PROVE TypeOK'
  OBVIOUS
<1>1. ASSUME NEW done, Purge(done) PROVE TypeOK'
  BY <1>1 DEF Purge, Unpurged, TypeOK
<1>2. CASE Tick
  BY <1>2 DEF Tick, TypeOK
<1>3. CASE UNCHANGED vars
  BY <1>3 DEF vars, TypeOK
<1>4. QED BY <1>1, <1>2, <1>3, TypeRecipient, TypeAdmin DEF Next

\* Every row the handlers write is a row the schema allows: counters never go
\* below zero and no column holds a value the next handler cannot read.
THEOREM TypeCorrect == Spec => []TypeOK
<1>1. QED BY TypeInit, TypeStep, PTL DEF Spec

-----------------------------------------------------------------------------
(* Codes: one per person, a bounded number of tries, one session each *)

\* Rows are told apart by their id, and ids are not reused.
CodeIds ==
  /\ \A c \in challenges : c.id <= issued
  /\ \A c, d \in challenges : c.id = d.id => c = d

\* What a session remembers of its code.
SessionCodes == \A s \in sessions : s.code <= issued

CodeInv == TypeOK /\ CodeIds /\ SessionCodes /\ OneLiveCode /\ GuessBudget /\ RedeemedIsSpent

\* A step that consumes or deletes rows, and adds no session, keeps CodeInv.
LEMMA ConsumeKeepsCodeInv ==
  ASSUME CodeInv, TypeOK', NEW rows, rows \subseteq challenges,
         challenges' \subseteq Consume(rows), sessions' \subseteq sessions,
         issued' = issued
  PROVE  CodeInv'
<1>1. \A d \in challenges' : \E c \in challenges :
        /\ d.id = c.id /\ d.link = c.link /\ d.who = c.who /\ d.attempts = c.attempts
        /\ c.consumed => d.consumed
        /\ c \in rows => d = [c EXCEPT !.consumed = TRUE]
        /\ c \notin rows => d = c
        /\ ~d.consumed => d = c
  <2> SUFFICES ASSUME NEW d \in challenges'
               PROVE  \E c \in challenges :
                        /\ d.id = c.id /\ d.link = c.link /\ d.who = c.who
                        /\ d.attempts = c.attempts
                        /\ c.consumed => d.consumed
                        /\ c \in rows => d = [c EXCEPT !.consumed = TRUE]
                        /\ c \notin rows => d = c
                        /\ ~d.consumed => d = c
    OBVIOUS
  <2>1. CASE d \in challenges \ rows
    BY <2>1
  <2>2. ASSUME NEW c \in rows, d = [c EXCEPT !.consumed = TRUE]
        PROVE  /\ d.id = c.id /\ d.link = c.link /\ d.who = c.who
               /\ d.attempts = c.attempts /\ d.consumed = TRUE
    BY <2>2 DEF CodeInv, TypeOK, ChallengeRow
  <2>3. QED BY <2>1, <2>2 DEF Consume
<1>2. CodeIds'
  <2>1. \A d \in challenges' : d.id <= issued'
    BY <1>1 DEF CodeInv, CodeIds
  <2>2. ASSUME NEW d \in challenges', NEW e \in challenges', d.id = e.id
        PROVE  d = e
    <3>1. PICK c \in challenges : /\ d.id = c.id
                                  /\ c \in rows => d = [c EXCEPT !.consumed = TRUE]
                                  /\ c \notin rows => d = c
      BY <1>1
    <3>2. PICK f \in challenges : /\ e.id = f.id
                                  /\ f \in rows => e = [f EXCEPT !.consumed = TRUE]
                                  /\ f \notin rows => e = f
      BY <1>1
    <3>3. c = f
      BY <2>2, <3>1, <3>2 DEF CodeInv, CodeIds
    <3>4. QED BY <3>1, <3>2, <3>3
  <2>3. QED BY <2>1, <2>2 DEF CodeIds
<1>3. SessionCodes'
  BY DEF CodeInv, SessionCodes
<1>4. OneLiveCode'
  BY <1>1 DEF CodeInv, OneLiveCode
<1>5. GuessBudget'
  <2> SUFFICES ASSUME NEW d \in challenges'
               PROVE  d.attempts <= MaxAttempts /\ (~d.consumed => d.attempts < MaxAttempts)
    BY DEF GuessBudget
  <2>1. PICK c \in challenges : /\ d.attempts = c.attempts
                                /\ ~d.consumed => d = c
    BY <1>1
  <2>2. QED BY <2>1 DEF CodeInv, GuessBudget
<1>6. RedeemedIsSpent'
  BY <1>1 DEF CodeInv, RedeemedIsSpent
<1>7. QED BY <1>2, <1>3, <1>4, <1>5, <1>6 DEF CodeInv

\* A miss keeps it: the row only loses a try, and its last try consumes it.
LEMMA MissKeepsCodeInv ==
  ASSUME CodeInv, TypeOK', NEW c \in challenges, ~c.consumed,
         challenges' = Miss(c), sessions' \subseteq sessions, issued' = issued
  PROVE  CodeInv'
<1> DEFINE n == [c EXCEPT !.attempts = @ + 1, !.consumed = BudgetSpent(c.attempts + 1)]
<1>1. c \in ChallengeRow
  BY DEF CodeInv, TypeOK
<1>2. /\ n.id = c.id /\ n.link = c.link /\ n.who = c.who
      /\ n.attempts = c.attempts + 1
      /\ n.consumed = BudgetSpent(c.attempts + 1)
  <2>1. /\ n.id = c.id /\ n.link = c.link /\ n.who = c.who
        /\ n.attempts = c.attempts + 1
    BY <1>1 DEF ChallengeRow
  <2>2. n.consumed = BudgetSpent(c.attempts + 1)
    BY <1>1, Zenon DEF ChallengeRow
  <2>3. QED BY <2>1, <2>2, Zenon
<1>3. challenges' = (challenges \ {c}) \cup {n}
  BY DEF Miss
<1> HIDE DEF n
<1>4. CodeIds'
  BY <1>2, <1>3 DEF CodeInv, CodeIds
<1>5. SessionCodes'
  BY DEF CodeInv, SessionCodes
<1>6. OneLiveCode'
  BY <1>2, <1>3 DEF CodeInv, OneLiveCode
<1>7. GuessBudget'
  <2>1. c.attempts < MaxAttempts /\ c.attempts \in Nat
    BY <1>1 DEF CodeInv, GuessBudget, ChallengeRow
  <2>2. n.attempts <= MaxAttempts
    BY <1>2, <2>1, DeliveryAssumption
  <2>3. ~n.consumed => n.attempts < MaxAttempts
    <3>1. BudgetSpent(c.attempts + 1) \/ c.attempts + 1 < MaxAttempts
      BY <2>1, DeliveryAssumption DEF BudgetSpent
    <3>2. QED BY <1>2, <3>1, Zenon
  <2>4. QED BY <1>3, <2>2, <2>3 DEF CodeInv, GuessBudget
<1>8. RedeemedIsSpent'
  BY <1>2, <1>3 DEF CodeInv, RedeemedIsSpent
<1>9. QED BY <1>4, <1>5, <1>6, <1>7, <1>8 DEF CodeInv

\* Issuing a code keeps it: the person's earlier codes are consumed first.
LEMMA RequestKeepsCodeInv ==
  ASSUME CodeInv, TypeOK', NEW l \in Link, NEW e \in Email, NEW b \in Browser,
         RequestCode(l, e, b)
  PROVE  CodeInv'
<1> DEFINE n == [id |-> issued + 1, link |-> l, who |-> e, flow |-> b, attempts |-> 0,
                 created |-> clock, expires |-> clock + CodeTtl, consumed |-> FALSE]
           old == Consume(Superseded(l, e))
<1>1. /\ challenges' = old \cup {n}
      /\ sessions' = Seen(b) /\ issued' = issued + 1
  BY DEF RequestCode
<1>2. /\ n.id = issued + 1 /\ n.link = l /\ n.who = e /\ n.attempts = 0 /\ n.consumed = FALSE
  OBVIOUS
<1>3. \A d \in old : \E c \in challenges :
        /\ d.id = c.id /\ d.link = c.link /\ d.who = c.who /\ d.attempts = c.attempts
        /\ c.consumed => d.consumed
        /\ c \in Superseded(l, e) => d = [c EXCEPT !.consumed = TRUE] /\ d.consumed
        /\ c \notin Superseded(l, e) => d = c
  <2>1. ASSUME NEW c \in Superseded(l, e)
        PROVE  LET d == [c EXCEPT !.consumed = TRUE] IN
                 /\ c \in challenges
                 /\ d.id = c.id /\ d.link = c.link /\ d.who = c.who
                 /\ d.attempts = c.attempts /\ d.consumed
    BY <2>1 DEF Superseded, CodesOf, CodeInv, TypeOK, ChallengeRow
  <2>2. QED BY <2>1 DEF Consume
<1>4. \A d \in old : ~d.consumed => ~(d.link = l /\ d.who = e) /\ d \in challenges
  BY <1>3 DEF Superseded, CodesOf
<1> HIDE DEF n, old
<1>5. sessions' \subseteq sessions
  BY <1>1, SeenIsSubset
<1>6. CodeIds'
  <2>1. issued \in Nat
    BY DEF CodeInv, TypeOK
  <2>2. \A d \in old : d.id <= issued /\ d.id \in Nat
    BY <1>3 DEF CodeInv, CodeIds, TypeOK, ChallengeRow
  <2>3. \A d, f \in old : d.id = f.id => d = f
    <3> SUFFICES ASSUME NEW d \in old, NEW f \in old, d.id = f.id PROVE d = f
      OBVIOUS
    <3>1. PICK c \in challenges :
            /\ d.id = c.id
            /\ c \in Superseded(l, e) => d = [c EXCEPT !.consumed = TRUE]
            /\ c \notin Superseded(l, e) => d = c
      BY <1>3
    <3>2. PICK g \in challenges :
            /\ f.id = g.id
            /\ g \in Superseded(l, e) => f = [g EXCEPT !.consumed = TRUE]
            /\ g \notin Superseded(l, e) => f = g
      BY <1>3
    <3>3. c = g
      BY <3>1, <3>2 DEF CodeInv, CodeIds
    <3>4. QED BY <3>1, <3>2, <3>3
  <2>4. QED BY <1>1, <1>2, <2>1, <2>2, <2>3 DEF CodeIds
<1>7. SessionCodes'
  BY <1>1, <1>5 DEF CodeInv, SessionCodes, TypeOK, SessionRow
<1>8. OneLiveCode'
  BY <1>1, <1>2, <1>4 DEF CodeInv, OneLiveCode
<1>9. GuessBudget'
  <2>1. n.attempts < MaxAttempts /\ n.attempts <= MaxAttempts
    BY <1>2, DeliveryAssumption
  <2>2. \A d \in old : d.attempts <= MaxAttempts /\ (~d.consumed => d.attempts < MaxAttempts)
    BY <1>3, <1>4 DEF CodeInv, GuessBudget
  <2>3. QED BY <1>1, <2>1, <2>2 DEF GuessBudget
<1>10. RedeemedIsSpent'
  <2>1. \A s \in sessions, d \in old : s.code = d.id => d.consumed
    BY <1>3 DEF CodeInv, RedeemedIsSpent
  <2>2. \A s \in sessions : s.code # n.id
    BY <1>2 DEF CodeInv, SessionCodes, TypeOK, SessionRow
  <2>3. QED BY <1>1, <1>5, <2>1, <2>2 DEF CodeInv, RedeemedIsSpent
<1>11. QED BY <1>6, <1>7, <1>8, <1>9, <1>10 DEF CodeInv

\* Redeeming keeps it: the code was pending, so no session has it already.
LEMMA RedeemKeepsCodeInv ==
  ASSUME CodeInv, TypeOK', NEW l \in Link, NEW b \in Browser, NEW typed, NEW done,
         Redeem(l, b, typed, done)
  PROVE  CodeInv'
<1>1. PICK c \in Newest(l, b) :
        /\ challenges' = Spend(c)
        /\ \/ sessions' = Seen(b)
           \/ sessions' = Seen(b) \cup
                {[id |-> opened + 1, link |-> l, who |-> c.who,
                  expires |-> clock + SessionTtl, code |-> c.id, url |-> links[l].url]}
  <2>1. PICK c \in Newest(l, b) :
          /\ challenges' = Spend(c)
          /\ IF done >= CreateAccessSession
             THEN /\ opened' = opened + 1
                  /\ sessions' = Seen(b) \cup
                       {[id |-> opened + 1, link |-> l, who |-> c.who,
                         expires |-> clock + SessionTtl, code |-> c.id,
                         url |-> links[l].url]}
             ELSE opened' = opened /\ sessions' = Seen(b)
    BY DEF Redeem
  <2>2. QED BY <2>1
<1> DEFINE n == [id |-> opened + 1, link |-> l, who |-> c.who,
                 expires |-> clock + SessionTtl, code |-> c.id, url |-> links[l].url]
<1>2. c \in challenges /\ ~c.consumed
  BY NewestIsPending
<1>3. issued' = issued
  BY DEF Redeem
<1>4. Seen(b) \subseteq sessions
  BY SeenIsSubset
<1>5. n.code = c.id
  OBVIOUS
<1>6. sessions' \subseteq sessions \cup {n}
  BY <1>1, <1>4
<1> HIDE DEF n
<1>7. \A d \in challenges' : \E f \in challenges :
        d.id = f.id /\ (f.consumed => d.consumed) /\ (f = c => d.consumed)
  <2>1. [c EXCEPT !.consumed = TRUE].id = c.id /\ [c EXCEPT !.consumed = TRUE].consumed
    BY <1>2 DEF CodeInv, TypeOK, ChallengeRow
  <2>2. QED BY <1>1, <1>2, <2>1 DEF Spend, Consume
<1>8. CodeIds' /\ OneLiveCode' /\ GuessBudget'
  <2>1. CodeInv /\ challenges' \subseteq Consume({c}) /\ {c} \subseteq challenges
    BY <1>1, <1>2 DEF Spend
  <2>2. \A d \in challenges' : \E f \in challenges :
          /\ d.id = f.id /\ d.link = f.link /\ d.who = f.who /\ d.attempts = f.attempts
          /\ f = c => d = [c EXCEPT !.consumed = TRUE] /\ d.consumed
          /\ f # c => d = f
    <3>1. LET d == [c EXCEPT !.consumed = TRUE] IN
            /\ d.id = c.id /\ d.link = c.link /\ d.who = c.who
            /\ d.attempts = c.attempts /\ d.consumed
      BY <1>2 DEF CodeInv, TypeOK, ChallengeRow
    <3>2. QED BY <1>1, <1>2, <3>1 DEF Spend, Consume
  <2>3. \A d \in challenges' : ~d.consumed => d \in challenges
    BY <2>2
  <2>4. CodeIds'
    <3>1. \A d \in challenges' : d.id <= issued'
      BY <1>3, <2>2 DEF CodeInv, CodeIds
    <3>2. \A d, f \in challenges' : d.id = f.id => d = f
      <4> SUFFICES ASSUME NEW d \in challenges', NEW f \in challenges', d.id = f.id
                   PROVE  d = f
        OBVIOUS
      <4>1. PICK x \in challenges : /\ d.id = x.id
                                    /\ x = c => d = [c EXCEPT !.consumed = TRUE]
                                    /\ x # c => d = x
        BY <2>2
      <4>2. PICK y \in challenges : /\ f.id = y.id
                                    /\ y = c => f = [c EXCEPT !.consumed = TRUE]
                                    /\ y # c => f = y
        BY <2>2
      <4>3. x = y
        BY <4>1, <4>2 DEF CodeInv, CodeIds
      <4>4. QED BY <4>1, <4>2, <4>3
    <3>3. QED BY <3>1, <3>2 DEF CodeIds
  <2>5. OneLiveCode'
    BY <2>3 DEF CodeInv, OneLiveCode
  <2>6. GuessBudget'
    BY <2>2, <2>3 DEF CodeInv, GuessBudget
  <2>7. QED BY <2>4, <2>5, <2>6
<1>9. SessionCodes'
  BY <1>2, <1>3, <1>5, <1>6 DEF CodeInv, SessionCodes, CodeIds
<1>10. RedeemedIsSpent'
  <2>1. \A s \in sessions : s.code # n.code
    BY <1>2, <1>5 DEF CodeInv, RedeemedIsSpent
  <2>2. \A s, t \in sessions' : s.code = t.code => s = t
    BY <1>6, <2>1 DEF CodeInv, RedeemedIsSpent
  <2>3. \A s \in sessions', d \in challenges' : s.code = d.id => d.consumed
    <3> SUFFICES ASSUME NEW s \in sessions', NEW d \in challenges', s.code = d.id
                 PROVE  d.consumed
      OBVIOUS
    <3>1. PICK f \in challenges :
            d.id = f.id /\ (f.consumed => d.consumed) /\ (f = c => d.consumed)
      BY <1>7
    <3>2. CASE s \in sessions
      BY <3>1, <3>2 DEF CodeInv, RedeemedIsSpent
    <3>3. CASE s = n
      BY <1>2, <1>5, <3>1, <3>3 DEF CodeInv, CodeIds
    <3>4. QED BY <1>6, <3>2, <3>3
  <2>4. QED BY <2>2, <2>3 DEF RedeemedIsSpent
<1>11. QED BY <1>8, <1>9, <1>10 DEF CodeInv

LEMMA CodeInvInit == Init => CodeInv
BY TypeInit DEF Init, CodeInv, CodeIds, SessionCodes, OneLiveCode, GuessBudget, RedeemedIsSpent

LEMMA CodeInvStep == CodeInv /\ [Next]_vars => CodeInv'
<1> SUFFICES ASSUME CodeInv, [Next]_vars PROVE CodeInv'
  OBVIOUS
<1>1. TypeOK'
  BY TypeStep DEF CodeInv
<1>2. ASSUME challenges' \subseteq challenges, sessions' \subseteq sessions, issued' = issued
      PROVE  CodeInv'
  <2>1. challenges = Consume({})
    BY DEF Consume
  <2>2. QED BY <1>1, <1>2, <2>1, ConsumeKeepsCodeInv
<1>3. ASSUME NEW b \in Browser, Visit(b) PROVE CodeInv'
  BY <1>2, <1>3, SeenIsSubset DEF Visit
<1>4. ASSUME NEW b \in Browser, NEW l \in Link, NEW typed, WrongCode(l, b, typed)
      PROVE  CodeInv'
  BY <1>1, <1>4, SeenIsSubset, NewestIsPending, MissKeepsCodeInv DEF WrongCode
<1>5. ASSUME NEW b \in Browser, NEW l \in Link, NEW typed, RedeemTooLate(l, b, typed)
      PROVE  CodeInv'
  <2>1. PICK c \in Newest(l, b) : challenges' = Consume({c})
    BY <1>5 DEF RedeemTooLate, Spend
  <2>2. {c} \subseteq challenges /\ sessions' \subseteq sessions /\ issued' = issued
    BY <1>5, SeenIsSubset, NewestIsPending DEF RedeemTooLate
  <2>3. QED BY <1>1, <2>1, <2>2, ConsumeKeepsCodeInv
<1>6. ASSUME NEW b \in Browser, NEW l \in Link, Restart(l, b) PROVE CodeInv'
  <2>1. CodesIn(l, b) \subseteq challenges
    BY DEF CodesIn
  <2>2. sessions' \subseteq sessions /\ challenges' = Consume(CodesIn(l, b)) /\ issued' = issued
    BY <1>6, SeenIsSubset DEF Restart
  <2>3. QED BY <1>1, <2>1, <2>2, ConsumeKeepsCodeInv
<1>7. ASSUME NEW b \in Browser, NEW l \in Link, Close(l, b) PROVE CodeInv'
  BY <1>2, <1>7, SeenIsSubset DEF Close
<1>8. CASE RecipientNext
  BY <1>1, <1>3, <1>4, <1>5, <1>6, <1>7, <1>8, RequestKeepsCodeInv, RedeemKeepsCodeInv
     DEF RecipientNext
<1>9. ASSUME NEW l \in Link, NEW done, Revoke(l, done) \/ Reissue(l, done)
      PROVE  CodeInv'
  <2>1. EndLink(l, done) /\ issued' = issued
    BY <1>9 DEF Revoke, Reissue
  <2>2. sessions' \subseteq sessions /\ CodesOn(l) \subseteq challenges
    BY <2>1 DEF EndLink, CodesOn
  <2>3. CASE challenges' = Consume(CodesOn(l))
    BY <1>1, <2>1, <2>2, <2>3, ConsumeKeepsCodeInv
  <2>4. CASE challenges' = challenges
    BY <1>2, <2>1, <2>2, <2>4
  <2>5. QED BY <2>1, <2>3, <2>4 DEF EndLink
<1>10. CASE AdminNext
  <2>1. ASSUME NEW l \in Link, NEW c \in Case, NEW expires, NEW max, NEW people,
               CreateLink(l, c, expires, max, people)
        PROVE  CodeInv'
    BY <1>2, <2>1 DEF CreateLink
  <2>2. ASSUME NEW l \in Link, NEW people, AddRecipients(l, people) PROVE CodeInv'
    BY <1>2, <2>2 DEF AddRecipients
  <2>3. ASSUME NEW l \in Link, NEW e, RemoveRecipient(l, e) PROVE CodeInv'
    BY <1>2, <2>3 DEF RemoveRecipient, SessionsWithout
  <2>4. ASSUME NEW c \in Case, NEW done, CloseCase(c, done) PROVE CodeInv'
    BY <1>2, <2>4 DEF CloseCase
  <2>5. ASSUME NEW c \in Case, ReopenCase(c) PROVE CodeInv'
    BY <1>2, <2>5 DEF ReopenCase
  <2>6. QED BY <1>9, <1>10, <2>1, <2>2, <2>3, <2>4, <2>5 DEF AdminNext
<1>11. ASSUME NEW done, Purge(done) PROVE CodeInv'
  BY <1>2, <1>11 DEF Purge, Unpurged
<1>12. CASE Tick
  BY <1>2, <1>12 DEF Tick
<1>13. CASE UNCHANGED vars
  BY <1>2, <1>13 DEF vars
<1>14. QED BY <1>8, <1>10, <1>11, <1>12, <1>13 DEF Next

LEMMA CodeInvHolds == Spec => []CodeInv
<1>1. QED BY CodeInvInit, CodeInvStep, PTL DEF Spec

\* Only the newest code of a person can open the link: createChallenge consumes
\* the earlier ones in the transaction that adds it.
THEOREM OneLiveCodeHolds == Spec => []OneLiveCode
<1>1. CodeInv => OneLiveCode
  BY DEF CodeInv
<1>2. QED BY <1>1, CodeInvHolds, PTL

\* No code survives MAX_CODE_ATTEMPTS misses (verifyChallenge).
THEOREM GuessBudgetHolds == Spec => []GuessBudget
<1>1. CodeInv => GuessBudget
  BY DEF CodeInv
<1>2. QED BY <1>1, CodeInvHolds, PTL

\* One accepted code is one session: whatever the handler had committed when
\* the process died, the code of a session is spent.
THEOREM RedeemedIsSpentHolds == Spec => []RedeemedIsSpent
<1>1. CodeInv => RedeemedIsSpent
  BY DEF CodeInv
<1>2. QED BY <1>1, CodeInvHolds, PTL
=============================================================================
