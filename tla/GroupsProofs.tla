---------------------------- MODULE GroupsProofs ----------------------------
(* Theorems about Groups, for any accounts, people, languages, lists and      *)
(* bounds.                                                                    *)
EXTENDS Groups, FiniteSetTheorems, WellFoundedInduction, TLAPS

-----------------------------------------------------------------------------
(* Loops over a list *)

\* Induction, for a set of numbers: the initial segments of the numbers up to n
\* have no infinite descent.
LEMMA NatInduct ==
  ASSUME NEW G, 0 \in G, \A n \in Nat : n \in G => n + 1 \in G
  PROVE  Nat \subseteq G
<1> SUFFICES ASSUME NEW N \in Nat, N \notin G PROVE FALSE
  OBVIOUS
<1> DEFINE Bad == {1..n : n \in (0..N) \ G}
<1>1. Bad \subseteq SUBSET (1..N) /\ Bad # {}
  OBVIOUS
<1>2. IsWellFoundedOn(StrictSubsetOrdering(1..N), SUBSET (1..N))
  <2>1. IsFiniteSet(1..N)
    BY FS_Interval
  <2> QED BY <2>1, FS_StrictSubsetOrderingWellFounded, FS_FiniteSubsetsOfFinite
<1>3. PICK t \in Bad : \A u \in Bad : ~(<<u, t>> \in StrictSubsetOrdering(1..N))
  <2> HIDE DEF Bad
  <2> QED BY <1>1, <1>2, WFMin
<1>4. PICK n \in (0..N) \ G : t = 1..n
  BY <1>3
<1>5. n # 0 /\ n - 1 \in 0..N /\ n - 1 \in Nat /\ (n - 1) + 1 = n
  BY <1>4
<1>6. n - 1 \notin G
  BY <1>4, <1>5
<1>7. 1..(n - 1) \in Bad
  BY <1>5, <1>6
<1>8. 1..(n - 1) \subseteq t /\ 1..(n - 1) # t /\ t \subseteq 1..N
  <2>1. n \in 1..n /\ n \notin 1..(n - 1)
    BY <1>4, <1>5
  <2> QED BY <1>4, <1>5, <2>1
<1>9. <<1..(n - 1), t>> \in StrictSubsetOrdering(1..N)
  BY <1>8 DEF StrictSubsetOrdering
<1> QED BY <1>3, <1>7, <1>9

LEMMA MaxLast ==
  ASSUME NEW n \in Nat, NEW t \in SUBSET (1..(n + 1)), n + 1 \in t
  PROVE  Max(t) = n + 1
<1>1. \A y \in t : n + 1 >= y
  OBVIOUS
<1>2. \A x \in t : (\A y \in t : x >= y) => x = n + 1
  OBVIOUS
<1> QED BY <1>1, <1>2 DEF Max

\* A set of numbers up to n has its greatest one.
LEMMA MaxIn ==
  ASSUME NEW n \in Nat, NEW t \in SUBSET (1..n), t # {}
  PROVE  Max(t) \in t
<1> DEFINE G == {k \in Nat : \A u \in SUBSET (1..k) : u # {} => Max(u) \in u}
<1>1. 0 \in G
  <2>1. 1..0 = {}
    OBVIOUS
  <2> QED BY <2>1
<1>2. ASSUME NEW k \in Nat, k \in G PROVE k + 1 \in G
  <2> SUFFICES ASSUME NEW u \in SUBSET (1..(k + 1)), u # {} PROVE Max(u) \in u
    OBVIOUS
  <2>1. CASE k + 1 \in u
    BY <2>1, MaxLast
  <2>2. CASE k + 1 \notin u
    <3>1. \A i \in 1..(k + 1) : i # k + 1 => i \in 1..k
      OBVIOUS
    <3> QED BY <1>2, <2>2, <3>1
  <2> QED BY <2>1, <2>2
<1>3. Nat \subseteq G
  <2> HIDE DEF G
  <2> QED BY <1>1, <1>2, NatInduct
<1> QED BY <1>3

\* The equation of a fold over the first n elements of a list.
FoldsTo(g, n, b, F, s) ==
  \A t \in SUBSET (1..n) : g[t] = IF t = {} THEN b ELSE F[<<g[t \ {Max(t)}], s[Max(t)]>>]

\* It has a solution.
LEMMA FoldExists ==
  ASSUME NEW S, NEW Q, NEW s \in Seq(S), NEW b \in Q, NEW F \in [Q \X S -> Q]
  PROVE  \E g \in [SUBSET (1..Len(s)) -> Q] : FoldsTo(g, Len(s), b, F, s)
<1> DEFINE Has(n) == \E g \in [SUBSET (1..n) -> Q] : FoldsTo(g, n, b, F, s)
           G == {n \in Nat : n <= Len(s) => Has(n)}
<1>1. Len(s) \in Nat /\ \A i \in 1..Len(s) : s[i] \in S
  OBVIOUS
<1>2. 0 \in G
  <2> DEFINE g == [t \in SUBSET (1..0) |-> b]
  <2>1. g \in [SUBSET (1..0) -> Q] /\ \A t \in SUBSET (1..0) : t = {}
    <3>1. 1..0 = {}
      OBVIOUS
    <3> QED BY <3>1
  <2>2. FoldsTo(g, 0, b, F, s)
    BY <2>1 DEF FoldsTo
  <2> QED BY <2>1, <2>2
<1>3. ASSUME NEW n \in Nat, n \in G PROVE n + 1 \in G
  <2> HIDE DEF Has
  <2>0. n + 1 \in Nat /\ (n + 1 <= Len(s) => n <= Len(s) /\ n + 1 \in 1..Len(s))
    BY <1>1
  <2> SUFFICES ASSUME n + 1 <= Len(s) PROVE Has(n + 1)
    BY <2>0
  <2>1. PICK g \in [SUBSET (1..n) -> Q] : FoldsTo(g, n, b, F, s)
    <3>1. Has(n)
      BY <1>3, <2>0
    <3> QED BY <3>1 DEF Has
  <2> DEFINE h == [t \in SUBSET (1..(n + 1)) |->
                     IF n + 1 \in t THEN F[<<g[t \ {n + 1}], s[n + 1]>>] ELSE g[t]]
  <2>2. \A t \in SUBSET (1..(n + 1)) :
          /\ t \ {n + 1} \in SUBSET (1..n)
          /\ n + 1 \notin t => t \in SUBSET (1..n) /\ t \ {Max(t)} \in SUBSET (1..n)
    <3>1. \A i \in 1..(n + 1) : i # n + 1 => i \in 1..n
      OBVIOUS
    <3> QED BY <3>1
  <2>3. s[n + 1] \in S
    BY <1>1, <2>0
  <2>4. h \in [SUBSET (1..(n + 1)) -> Q]
    BY <2>2, <2>3
  <2>5. \A t \in SUBSET (1..n) : t \in SUBSET (1..(n + 1)) /\ n + 1 \notin t /\ h[t] = g[t]
    OBVIOUS
  <2>6. ASSUME NEW t \in SUBSET (1..(n + 1))
        PROVE  h[t] = IF t = {} THEN b ELSE F[<<h[t \ {Max(t)}], s[Max(t)]>>]
    <3>1. CASE n + 1 \in t
      <4>1. Max(t) = n + 1 /\ t # {}
        BY <3>1, MaxLast
      <4>2. h[t \ {n + 1}] = g[t \ {n + 1}]
        BY <2>2, <2>5
      <4>3. h[t] = F[<<g[t \ {n + 1}], s[n + 1]>>]
        BY <3>1
      <4> HIDE DEF h
      <4> QED BY <4>1, <4>2, <4>3
    <3>2. CASE n + 1 \notin t
      <4>1. g[t] = IF t = {} THEN b ELSE F[<<g[t \ {Max(t)}], s[Max(t)]>>]
        BY <2>1, <2>2, <3>2 DEF FoldsTo
      <4>2. h[t] = g[t] /\ h[t \ {Max(t)}] = g[t \ {Max(t)}]
        BY <2>2, <2>5, <3>2
      <4> HIDE DEF h
      <4> QED BY <4>1, <4>2
    <3> QED BY <3>1, <3>2
  <2> HIDE DEF h
  <2>7. FoldsTo(h, n + 1, b, F, s)
    BY <2>6 DEF FoldsTo
  <2> QED BY <2>4, <2>7 DEF Has
<1>4. Nat \subseteq G
  <2> HIDE DEF G
  <2> QED BY <1>2, <1>3, NatInduct
<1>5. Has(Len(s))
  <2> HIDE DEF Has
  <2> QED BY <1>1, <1>4
<1> QED BY <1>5


\* The first elements of a list, taken one by one.
LEMMA Segments ==
  ASSUME NEW n \in Nat
  PROVE  /\ {} \in SUBSET (1..n) /\ 1..0 = {} /\ 1..n \in SUBSET (1..n)
         /\ \A i \in 1..n : /\ 1..i \in SUBSET (1..n) /\ 1..i # {}
                            /\ Max(1..i) = i /\ (1..i) \ {i} = 1..(i - 1)
                            /\ 1..(i - 1) \in SUBSET (1..n)
<1>1. {} \in SUBSET (1..n) /\ 1..0 = {} /\ 1..n \in SUBSET (1..n)
  OBVIOUS
<1>2. ASSUME NEW i \in 1..n
      PROVE  /\ 1..i \in SUBSET (1..n) /\ 1..i # {}
             /\ Max(1..i) = i /\ (1..i) \ {i} = 1..(i - 1)
             /\ 1..(i - 1) \in SUBSET (1..n)
  <2>1. i - 1 \in Nat /\ i = (i - 1) + 1 /\ i \in 1..i
    OBVIOUS
  <2>2. Max(1..((i - 1) + 1)) = (i - 1) + 1
    BY <2>1, MaxLast
  <2> QED BY <2>1, <2>2
<1> QED BY <1>1, <1>2

\* A solution, as the fold chooses it, and what it makes of the first elements of a
\* list, step by step.
Solves(c, Q, b, F, s) ==
  /\ c[{}] = b
  /\ \A t \in SUBSET (1..Len(s)) : t # {} /\ c[t \ {Max(t)}] \in Q =>
       c[t] = F[<<c[t \ {Max(t)}], s[Max(t)]>>]
Looped(c, Q, b, F, s) ==
  \E h \in [0..Len(s) -> Q] :
    /\ h[0] = b /\ c[DOMAIN s] = h[Len(s)]
    /\ \A i \in 1..Len(s) : h[i] = F[<<h[i - 1], s[i]>>]

LEMMA Loop ==
  ASSUME NEW S, NEW Q, NEW s \in Seq(S), NEW b \in Q, NEW F \in [Q \X S -> Q], NEW c,
         Solves(c, Q, b, F, s)
  PROVE  Looped(c, Q, b, F, s)
<1>0. /\ c[{}] = b
      /\ \A t \in SUBSET (1..Len(s)) : t # {} /\ c[t \ {Max(t)}] \in Q =>
           c[t] = F[<<c[t \ {Max(t)}], s[Max(t)]>>]
  BY DEF Solves
<1>1. Len(s) \in Nat /\ DOMAIN s = 1..Len(s) /\ \A i \in 1..Len(s) : s[i] \in S
  OBVIOUS
<1>2. ASSUME NEW i \in 1..Len(s), c[1..(i - 1)] \in Q
      PROVE  c[1..i] = F[<<c[1..(i - 1)], s[i]>>] /\ c[1..i] \in Q
  <2>1. /\ 1..i \in SUBSET (1..Len(s)) /\ 1..i # {}
        /\ Max(1..i) = i /\ (1..i) \ {i} = 1..(i - 1)
    BY <1>1, Segments
  <2>2. c[1..i] = F[<<c[(1..i) \ {Max(1..i)}], s[Max(1..i)]>>]
    BY <1>0, <1>2, <2>1
  <2> QED BY <1>1, <1>2, <2>1, <2>2
<1> DEFINE G == {i \in Nat : i <= Len(s) => c[1..i] \in Q}
<1>3. 0 \in G
  BY <1>0, <1>1, Segments
<1>4. ASSUME NEW i \in Nat, i \in G PROVE i + 1 \in G
  <2> SUFFICES ASSUME i + 1 <= Len(s) PROVE c[1..(i + 1)] \in Q
    OBVIOUS
  <2>1. i + 1 \in 1..Len(s) /\ (i + 1) - 1 = i /\ c[1..i] \in Q
    BY <1>1, <1>4
  <2> QED BY <1>2, <2>1
<1>5. Nat \subseteq G
  <2> HIDE DEF G
  <2> QED BY <1>3, <1>4, NatInduct
<1> DEFINE h == [i \in 0..Len(s) |-> c[1..i]]
<1>6. h \in [0..Len(s) -> Q]
  BY <1>5
<1>7. h[0] = b /\ c[DOMAIN s] = h[Len(s)]
  BY <1>0, <1>1, Segments
<1>8. ASSUME NEW i \in 1..Len(s) PROVE h[i] = F[<<h[i - 1], s[i]>>]
  <2>1. i - 1 \in 0..Len(s) /\ i \in 0..Len(s)
    BY <1>1
  <2>2. c[1..(i - 1)] \in Q
    BY <1>6, <2>1
  <2> QED BY <1>2, <2>1, <2>2
<1> HIDE DEF h
<1> QED BY <1>6, <1>7, <1>8 DEF Looped

\* Within, step by step.
WithinSteps(h, s, W) ==
  /\ h[0] = <<>> /\ Within(s, W) = h[Len(s)]
  /\ \A i \in 1..Len(s) : h[i] = IF s[i] \in W THEN Append(h[i - 1], s[i]) ELSE h[i - 1]

LEMMA WithinLoop ==
  ASSUME NEW S, NEW s \in Seq(S), NEW W
  PROVE  \E h \in [0..Len(s) -> Seq(S)] : WithinSteps(h, s, W)
<1> DEFINE Body(out, x) == IF x \in W THEN Append(out, x) ELSE out
           F == [p \in Seq(S) \X S |-> Body(p[1], p[2])]
           Sol(g) == g = [t \in SUBSET DOMAIN s |->
                            IF t = {} THEN <<>> ELSE Body(g[t \ {Max(t)}], s[Max(t)])]
           c == CHOOSE g : Sol(g)
<1>1. Len(s) \in Nat /\ DOMAIN s = 1..Len(s) /\ (\A i \in 1..Len(s) : s[i] \in S) /\ <<>> \in Seq(S)
  OBVIOUS
<1>2. Within(s, W) = c[DOMAIN s]
  BY DEF Within, FoldLeft, MapThenFoldSet
<1>3. \A q \in Seq(S), x \in S : Body(q, x) \in Seq(S) /\ F[<<q, x>>] = Body(q, x)
  OBVIOUS
<1>4. F \in [Seq(S) \X S -> Seq(S)]
  BY <1>3
<1>5. \A q \in Seq(S), i \in 1..Len(s) : F[<<q, s[i]>>] = Body(q, s[i])
  BY <1>1, <1>3
<1> HIDE DEF F
<1>6. \E h \in [0..Len(s) -> Seq(S)] :
        /\ h[0] = <<>> /\ c[DOMAIN s] = h[Len(s)]
        /\ \A i \in 1..Len(s) : h[i] = F[<<h[i - 1], s[i]>>]
  <2> HIDE DEF Body
  <2>1. PICK g \in [SUBSET (1..Len(s)) -> Seq(S)] : FoldsTo(g, Len(s), <<>>, F, s)
    BY <1>1, <1>4, FoldExists
  <2>2. ASSUME NEW t \in SUBSET (1..Len(s)), t # {} PROVE g[t] = Body(g[t \ {Max(t)}], s[Max(t)])
    <3>1. g[t] = F[<<g[t \ {Max(t)}], s[Max(t)]>>]
      BY <2>1, <2>2 DEF FoldsTo
    <3>2. g[t \ {Max(t)}] \in Seq(S)
      BY <2>1
    <3>3. Max(t) \in 1..Len(s)
      BY <1>1, <2>2, MaxIn
    <3> QED BY <1>5, <3>1, <3>2, <3>3
  <2>3. Sol(g)
    <3>1. g[{}] = <<>>
      BY <2>1 DEF FoldsTo
    <3> QED BY <1>1, <2>1, <2>2, <3>1
  <2>4. Sol(c)
    <3> HIDE DEF Sol
    <3> QED BY <2>3
  <2> HIDE DEF c
  <2>5. \A t \in SUBSET (1..Len(s)) :
          c[t] = IF t = {} THEN <<>> ELSE Body(c[t \ {Max(t)}], s[Max(t)])
    BY <1>1, <2>4
  <2> HIDE DEF Sol
  <2>6. c[{}] = <<>>
    BY <1>1, <2>5, Segments
  <2>7. ASSUME NEW t \in SUBSET (1..Len(s)), t # {}, c[t \ {Max(t)}] \in Seq(S)
        PROVE  c[t] = F[<<c[t \ {Max(t)}], s[Max(t)]>>]
    <3>1. Max(t) \in 1..Len(s)
      BY <1>1, <2>7, MaxIn
    <3> QED BY <1>5, <2>5, <2>7, <3>1
  <2>8. Solves(c, Seq(S), <<>>, F, s)
    BY <2>6, <2>7 DEF Solves
  <2>9. Looped(c, Seq(S), <<>>, F, s)
    BY <1>1, <1>4, <2>8, Loop
  <2> QED BY <2>9 DEF Looped
<1>7. PICK h \in [0..Len(s) -> Seq(S)] :
        /\ h[0] = <<>> /\ c[DOMAIN s] = h[Len(s)]
        /\ \A i \in 1..Len(s) : h[i] = F[<<h[i - 1], s[i]>>]
  BY <1>6
<1>8. \A i \in 1..Len(s) : h[i] = Body(h[i - 1], s[i])
  <2>1. \A i \in 1..Len(s) : i - 1 \in 0..Len(s)
    BY <1>1
  <2> HIDE DEF Body
  <2> QED BY <1>5, <1>7, <2>1
<1> QED BY <1>2, <1>7, <1>8 DEF WithinSteps

\* mergeRecipients, step by step.
MergeSteps(h, s) ==
  /\ h[0] = <<>> /\ mergeRecipients(s) = h[Len(s)]
  /\ \A i \in 1..Len(s) :
       h[i] = IF s[i].email \in Emails(h[i - 1]) THEN h[i - 1] ELSE Append(h[i - 1], s[i])

LEMMA MergeLoop ==
  ASSUME NEW S, NEW s \in Seq(S)
  PROVE  \E h \in [0..Len(s) -> Seq(S)] : MergeSteps(h, s)
<1> DEFINE Body(out, x) == IF x.email \in Emails(out) THEN out ELSE Append(out, x)
           F == [p \in Seq(S) \X S |-> Body(p[1], p[2])]
           Sol(g) == g = [t \in SUBSET DOMAIN s |->
                            IF t = {} THEN <<>> ELSE Body(g[t \ {Max(t)}], s[Max(t)])]
           c == CHOOSE g : Sol(g)
<1>1. Len(s) \in Nat /\ DOMAIN s = 1..Len(s) /\ (\A i \in 1..Len(s) : s[i] \in S) /\ <<>> \in Seq(S)
  OBVIOUS
<1>2. mergeRecipients(s) = c[DOMAIN s]
  BY DEF mergeRecipients, FoldLeft, MapThenFoldSet
<1>3. \A q \in Seq(S), x \in S : Body(q, x) \in Seq(S) /\ F[<<q, x>>] = Body(q, x)
  OBVIOUS
<1>4. F \in [Seq(S) \X S -> Seq(S)]
  BY <1>3
<1>5. \A q \in Seq(S), i \in 1..Len(s) : F[<<q, s[i]>>] = Body(q, s[i])
  BY <1>1, <1>3
<1> HIDE DEF F
<1>6. \E h \in [0..Len(s) -> Seq(S)] :
        /\ h[0] = <<>> /\ c[DOMAIN s] = h[Len(s)]
        /\ \A i \in 1..Len(s) : h[i] = F[<<h[i - 1], s[i]>>]
  <2> HIDE DEF Body
  <2>1. PICK g \in [SUBSET (1..Len(s)) -> Seq(S)] : FoldsTo(g, Len(s), <<>>, F, s)
    BY <1>1, <1>4, FoldExists
  <2>2. ASSUME NEW t \in SUBSET (1..Len(s)), t # {} PROVE g[t] = Body(g[t \ {Max(t)}], s[Max(t)])
    <3>1. g[t] = F[<<g[t \ {Max(t)}], s[Max(t)]>>]
      BY <2>1, <2>2 DEF FoldsTo
    <3>2. g[t \ {Max(t)}] \in Seq(S)
      BY <2>1
    <3>3. Max(t) \in 1..Len(s)
      BY <1>1, <2>2, MaxIn
    <3> QED BY <1>5, <3>1, <3>2, <3>3
  <2>3. Sol(g)
    <3>1. g[{}] = <<>>
      BY <2>1 DEF FoldsTo
    <3> QED BY <1>1, <2>1, <2>2, <3>1
  <2>4. Sol(c)
    <3> HIDE DEF Sol
    <3> QED BY <2>3
  <2> HIDE DEF c
  <2>5. \A t \in SUBSET (1..Len(s)) :
          c[t] = IF t = {} THEN <<>> ELSE Body(c[t \ {Max(t)}], s[Max(t)])
    BY <1>1, <2>4
  <2> HIDE DEF Sol
  <2>6. c[{}] = <<>>
    BY <1>1, <2>5, Segments
  <2>7. ASSUME NEW t \in SUBSET (1..Len(s)), t # {}, c[t \ {Max(t)}] \in Seq(S)
        PROVE  c[t] = F[<<c[t \ {Max(t)}], s[Max(t)]>>]
    <3>1. Max(t) \in 1..Len(s)
      BY <1>1, <2>7, MaxIn
    <3> QED BY <1>5, <2>5, <2>7, <3>1
  <2>8. Solves(c, Seq(S), <<>>, F, s)
    BY <2>6, <2>7 DEF Solves
  <2>9. Looped(c, Seq(S), <<>>, F, s)
    BY <1>1, <1>4, <2>8, Loop
  <2> QED BY <2>9 DEF Looped
<1>7. PICK h \in [0..Len(s) -> Seq(S)] :
        /\ h[0] = <<>> /\ c[DOMAIN s] = h[Len(s)]
        /\ \A i \in 1..Len(s) : h[i] = F[<<h[i - 1], s[i]>>]
  BY <1>6
<1>8. \A i \in 1..Len(s) : h[i] = Body(h[i - 1], s[i])
  <2>1. \A i \in 1..Len(s) : i - 1 \in 0..Len(s)
    BY <1>1
  <2> HIDE DEF Body
  <2> QED BY <1>5, <1>7, <2>1
<1> QED BY <1>2, <1>7, <1>8 DEF MergeSteps

-----------------------------------------------------------------------------
(* What the loops make of a list *)

Taken(s, n) == {s[j] : j \in 1..n}

\* x is the first of the first n elements that is in X.
Leads(s, n, x, X) == \E i \in 1..n : s[i] = x /\ x \in X /\ \A j \in 1..(i - 1) : s[j] \notin X
Lead(s, x, X) == Leads(s, Len(s), x, X)

LEMMA SetIsTaken ==
  ASSUME NEW S, NEW s \in Seq(S)
  PROVE  ToSet(s) = Taken(s, Len(s)) /\ ToSet(s) \subseteq S
BY DEF ToSet, Taken

LEMMA TakenNext ==
  ASSUME NEW s, NEW n \in Nat
  PROVE  Taken(s, n + 1) = Taken(s, n) \cup {s[n + 1]}
<1>1. 1..(n + 1) = (1..n) \cup {n + 1}
  OBVIOUS
<1> QED BY <1>1 DEF Taken

LEMMA LeadsNext ==
  ASSUME NEW s, NEW n \in Nat, NEW x, NEW X
  PROVE  Leads(s, n + 1, x, X) <=>
           \/ Leads(s, n, x, X)
           \/ s[n + 1] = x /\ x \in X /\ Taken(s, n) \cap X = {}
<1>1. 1..(n + 1) = (1..n) \cup {n + 1} /\ (n + 1) - 1 = n
  OBVIOUS
<1>2. Taken(s, n) \cap X = {} <=> \A j \in 1..n : s[j] \notin X
  BY DEF Taken
<1> QED BY <1>1, <1>2 DEF Leads

LEMMA SetAppend ==
  ASSUME NEW S, NEW s \in Seq(S), NEW y \in S
  PROVE  ToSet(Append(s, y)) = ToSet(s) \cup {y}
<1>1. /\ Append(s, y) \in Seq(S) /\ Len(Append(s, y)) = Len(s) + 1 /\ Append(s, y)[Len(s) + 1] = y
      /\ Len(s) \in Nat /\ \A j \in 1..Len(s) : Append(s, y)[j] = s[j]
  OBVIOUS
<1> DEFINE t == Append(s, y)
<1>2. Taken(t, Len(s)) = Taken(s, Len(s))
  BY <1>1 DEF Taken
<1>3. ToSet(t) = Taken(t, Len(s) + 1) /\ t[Len(s) + 1] = y /\ Len(s) \in Nat
  BY <1>1, SetIsTaken
<1>4. Taken(t, Len(s) + 1) = Taken(t, Len(s)) \cup {t[Len(s) + 1]}
  BY <1>3, TakenNext
<1>5. ToSet(s) = Taken(s, Len(s))
  BY SetIsTaken
<1> HIDE DEF t
<1>6. ToSet(t) = ToSet(s) \cup {y}
  BY <1>2, <1>3, <1>4, <1>5
<1> QED BY <1>6 DEF t

LEMMA LeadAppend ==
  ASSUME NEW S, NEW s \in Seq(S), NEW y \in S, NEW x, NEW X
  PROVE  Lead(Append(s, y), x, X) <=>
           \/ Lead(s, x, X)
           \/ y = x /\ x \in X /\ ToSet(s) \cap X = {}
<1> DEFINE t == Append(s, y)
<1>1. /\ t \in Seq(S) /\ Len(t) = Len(s) + 1 /\ t[Len(s) + 1] = y
      /\ Len(s) \in Nat /\ \A j \in 1..Len(s) : t[j] = s[j]
  OBVIOUS
<1> HIDE DEF t
<1>2. Taken(t, Len(s)) = ToSet(s)
  BY <1>1, SetIsTaken DEF Taken
<1>3. Leads(t, Len(s), x, X) <=> Leads(s, Len(s), x, X)
  <2>1. \A i \in 1..Len(s) : \A j \in 1..(i - 1) : j \in 1..Len(s)
    BY <1>1
  <2>2. \A i \in 1..Len(s) : (\A j \in 1..(i - 1) : t[j] \notin X) <=> (\A j \in 1..(i - 1) : s[j] \notin X)
    BY <1>1, <2>1
  <2> QED BY <1>1, <2>2 DEF Leads
<1>4. Lead(t, x, X) <=> \/ Lead(s, x, X)
                        \/ y = x /\ x \in X /\ ToSet(s) \cap X = {}
  BY <1>1, <1>2, <1>3, LeadsNext DEF Lead
<1> QED BY <1>4 DEF t

LEMMA LeadIn ==
  ASSUME NEW S, NEW s \in Seq(S), NEW x, NEW X, Lead(s, x, X)
  PROVE  x \in ToSet(s) /\ x \in X
BY DEF Lead, Leads, ToSet

LEMMA LeadOne ==
  ASSUME NEW S, NEW s \in Seq(S), NEW x, NEW y, NEW X, Lead(s, x, X), Lead(s, y, X)
  PROVE  x = y
<1>1. PICK i \in 1..Len(s) : s[i] = x /\ x \in X /\ \A j \in 1..(i - 1) : s[j] \notin X
  BY DEF Lead, Leads
<1>2. PICK k \in 1..Len(s) : s[k] = y /\ y \in X /\ \A j \in 1..(k - 1) : s[j] \notin X
  BY DEF Lead, Leads
<1>3. Len(s) \in Nat
  OBVIOUS
<1>4. ~(i < k) /\ ~(k < i)
  <2>1. i < k => i \in 1..(k - 1)
    BY <1>3
  <2>2. k < i => k \in 1..(i - 1)
    BY <1>3
  <2> QED BY <1>1, <1>2, <2>1, <2>2
<1>5. i = k
  BY <1>3, <1>4
<1> QED BY <1>1, <1>2, <1>5

\* A list with an element in X has a first one.
LEMMA LeadThere ==
  ASSUME NEW S, NEW s \in Seq(S), NEW X, ToSet(s) \cap X # {}
  PROVE  \E x \in X : Lead(s, x, X)
<1> DEFINE G == {n \in Nat : n <= Len(s) /\ Taken(s, n) \cap X # {} => \E x \in X : Leads(s, n, x, X)}
<1>1. Len(s) \in Nat /\ ToSet(s) = Taken(s, Len(s))
  BY SetIsTaken
<1>2. 0 \in G
  <2>1. Taken(s, 0) = {}
    BY DEF Taken
  <2> QED BY <2>1
<1>3. ASSUME NEW n \in Nat, n \in G PROVE n + 1 \in G
  <2>1. Taken(s, n + 1) = Taken(s, n) \cup {s[n + 1]}
    BY TakenNext
  <2>2. \A x : Leads(s, n + 1, x, X) <=>
           \/ Leads(s, n, x, X)
           \/ s[n + 1] = x /\ x \in X /\ Taken(s, n) \cap X = {}
    BY LeadsNext
  <2> SUFFICES ASSUME n + 1 <= Len(s), Taken(s, n + 1) \cap X # {}
               PROVE  \E x \in X : Leads(s, n + 1, x, X)
    OBVIOUS
  <2>3. n <= Len(s)
    BY <1>1
  <2> QED BY <1>3, <2>1, <2>2, <2>3
<1>4. Nat \subseteq G
  <2> HIDE DEF G
  <2> QED BY <1>2, <1>3, NatInduct
<1> QED BY <1>1, <1>4 DEF Lead

LEMMA ConcatIs ==
  ASSUME NEW S, NEW s \in Seq(S), NEW t \in Seq(S)
  PROVE  /\ s \o t \in Seq(S) /\ Len(s \o t) = Len(s) + Len(t)
         /\ Len(s) \in Nat /\ Len(t) \in Nat
         /\ \A i \in 1..Len(s) : (s \o t)[i] = s[i]
         /\ \A i \in 1..Len(t) : (s \o t)[Len(s) + i] = t[i]
OBVIOUS

LEMMA SetConcat ==
  ASSUME NEW S, NEW s \in Seq(S), NEW t \in Seq(S)
  PROVE  ToSet(s \o t) = ToSet(s) \cup ToSet(t)
<1> DEFINE u == s \o t
<1>1. /\ u \in Seq(S) /\ Len(u) = Len(s) + Len(t) /\ Len(s) \in Nat /\ Len(t) \in Nat
      /\ \A i \in 1..Len(s) : u[i] = s[i]
      /\ \A i \in 1..Len(t) : u[Len(s) + i] = t[i]
  BY ConcatIs
<1> HIDE DEF u
<1>2. \A i \in 1..Len(u) : i \in 1..Len(s) \/ (i - Len(s) \in 1..Len(t) /\ Len(s) + (i - Len(s)) = i)
  BY <1>1
<1>3. (\A i \in 1..Len(s) : i \in 1..Len(u)) /\ (\A i \in 1..Len(t) : Len(s) + i \in 1..Len(u))
  BY <1>1
<1>4. ToSet(u) = Taken(u, Len(u)) /\ ToSet(s) = Taken(s, Len(s)) /\ ToSet(t) = Taken(t, Len(t))
  BY <1>1, SetIsTaken
<1>5. ASSUME NEW i \in 1..Len(u) PROVE u[i] \in Taken(s, Len(s)) \cup Taken(t, Len(t))
  <2>1. CASE i \in 1..Len(s)
    BY <1>1, <2>1 DEF Taken
  <2>2. CASE i - Len(s) \in 1..Len(t) /\ Len(s) + (i - Len(s)) = i
    <3>1. u[Len(s) + (i - Len(s))] = t[i - Len(s)]
      BY <1>1, <2>2
    <3> QED BY <2>2, <3>1 DEF Taken
  <2> QED BY <1>2, <2>1, <2>2
<1>6. \A i \in 1..Len(s) : s[i] \in Taken(u, Len(u))
  BY <1>1, <1>3 DEF Taken
<1>7. \A i \in 1..Len(t) : t[i] \in Taken(u, Len(u))
  BY <1>1, <1>3 DEF Taken
<1>8. ToSet(u) = ToSet(s) \cup ToSet(t)
  BY <1>4, <1>5, <1>6, <1>7 DEF Taken
<1> QED BY <1>8 DEF u

\* The first of two lists, one after the other.
LEMMA LeadConcat ==
  ASSUME NEW S, NEW s \in Seq(S), NEW t \in Seq(S), NEW x, NEW X
  PROVE  /\ Lead(s, x, X) => Lead(s \o t, x, X)
         /\ ToSet(s) \cap X = {} /\ Lead(t, x, X) => Lead(s \o t, x, X)
<1> DEFINE u == s \o t
<1>1. /\ Len(u) = Len(s) + Len(t) /\ Len(s) \in Nat /\ Len(t) \in Nat
      /\ \A i \in 1..Len(s) : u[i] = s[i]
      /\ \A i \in 1..Len(t) : u[Len(s) + i] = t[i]
  BY ConcatIs
<1> HIDE DEF u
<1>2. ASSUME Lead(s, x, X) PROVE Lead(u, x, X)
  <2>1. PICK i \in 1..Len(s) : s[i] = x /\ x \in X /\ \A j \in 1..(i - 1) : s[j] \notin X
    BY <1>2 DEF Lead, Leads
  <2>2. i \in 1..Len(u) /\ \A j \in 1..(i - 1) : j \in 1..Len(s)
    BY <1>1
  <2>3. u[i] = x /\ \A j \in 1..(i - 1) : u[j] \notin X
    BY <1>1, <2>1, <2>2
  <2> QED BY <2>1, <2>2, <2>3 DEF Lead, Leads
<1>3. ASSUME ToSet(s) \cap X = {}, Lead(t, x, X) PROVE Lead(u, x, X)
  <2>1. PICK i \in 1..Len(t) : t[i] = x /\ x \in X /\ \A j \in 1..(i - 1) : t[j] \notin X
    BY <1>3 DEF Lead, Leads
  <2>2. \A j \in 1..Len(s) : s[j] \notin X
    BY <1>3, SetIsTaken DEF Taken
  <2> DEFINE k == Len(s) + i
  <2>3. k \in 1..Len(u) /\ u[k] = x
    BY <1>1, <2>1
  <2>4. ASSUME NEW j \in 1..(k - 1) PROVE u[j] \notin X
    <3>1. CASE j \in 1..Len(s)
      BY <1>1, <2>2, <3>1
    <3>2. CASE j \notin 1..Len(s)
      <4>1. j - Len(s) \in 1..(i - 1) /\ j - Len(s) \in 1..Len(t) /\ Len(s) + (j - Len(s)) = j
        BY <1>1, <3>2
      <4>2. t[j - Len(s)] \notin X /\ u[Len(s) + (j - Len(s))] = t[j - Len(s)]
        BY <1>1, <2>1, <4>1
      <4> QED BY <4>1, <4>2
    <3> QED BY <3>1, <3>2
  <2> HIDE DEF k
  <2> QED BY <2>1, <2>3, <2>4 DEF Lead, Leads
<1> QED BY <1>2, <1>3 DEF u

\* What is kept of a list, and in the same order.
LEMMA WithinIs ==
  ASSUME NEW S, NEW s \in Seq(S), NEW W
  PROVE  /\ Within(s, W) \in Seq(S) /\ ToSet(Within(s, W)) = ToSet(s) \cap W
         /\ \A x, X : Lead(Within(s, W), x, X) <=> Lead(s, x, X \cap W)
<1>0. PICK h \in [0..Len(s) -> Seq(S)] : WithinSteps(h, s, W)
  BY WithinLoop
<1>1. /\ h[0] = <<>> /\ Within(s, W) = h[Len(s)]
      /\ \A i \in 1..Len(s) : h[i] = IF s[i] \in W THEN Append(h[i - 1], s[i]) ELSE h[i - 1]
  BY <1>0 DEF WithinSteps
<1>2. Len(s) \in Nat /\ \A i \in 1..Len(s) : s[i] \in S
  OBVIOUS
<1> DEFINE P(i) == /\ ToSet(h[i]) = Taken(s, i) \cap W
                   /\ \A x, X : Lead(h[i], x, X) <=> Leads(s, i, x, X \cap W)
           G == {i \in Nat : i <= Len(s) => P(i)}
<1>3. 0 \in G
  <2>1. ToSet(<<>>) = {} /\ Taken(s, 0) = {}
    BY DEF ToSet, Taken
  <2>2. \A x, X : ~Lead(<<>>, x, X) /\ ~Leads(s, 0, x, X \cap W)
    BY DEF Lead, Leads
  <2> QED BY <1>1, <2>1, <2>2
<1>4. ASSUME NEW i \in Nat, i \in G PROVE i + 1 \in G
  <2> SUFFICES ASSUME i + 1 <= Len(s) PROVE P(i + 1)
    OBVIOUS
  <2>1. P(i) /\ i + 1 \in 1..Len(s) /\ (i + 1) - 1 = i /\ i \in 0..Len(s)
    BY <1>2, <1>4
  <2>2. h[i] \in Seq(S) /\ s[i + 1] \in S
    BY <1>1, <1>2, <2>1
  <2>3. h[i + 1] = IF s[i + 1] \in W THEN Append(h[i], s[i + 1]) ELSE h[i]
    BY <1>1, <2>1
  <2>4. Taken(s, i + 1) = Taken(s, i) \cup {s[i + 1]}
    BY TakenNext
  <2>5. ToSet(Append(h[i], s[i + 1])) = ToSet(h[i]) \cup {s[i + 1]}
    BY <2>2, SetAppend
  <2>6. ToSet(h[i + 1]) = Taken(s, i + 1) \cap W
    BY <2>1, <2>3, <2>4, <2>5
  <2>7. ASSUME NEW x, NEW X PROVE Lead(h[i + 1], x, X) <=> Leads(s, i + 1, x, X \cap W)
    <3>1. Leads(s, i + 1, x, X \cap W) <=>
            \/ Leads(s, i, x, X \cap W)
            \/ s[i + 1] = x /\ x \in X \cap W /\ Taken(s, i) \cap (X \cap W) = {}
      BY LeadsNext
    <3>2. Lead(Append(h[i], s[i + 1]), x, X) <=>
            \/ Lead(h[i], x, X)
            \/ s[i + 1] = x /\ x \in X /\ ToSet(h[i]) \cap X = {}
      BY <2>2, LeadAppend
    <3>3. ToSet(h[i]) \cap X = Taken(s, i) \cap (X \cap W)
      BY <2>1
    <3>4. Lead(h[i], x, X) <=> Leads(s, i, x, X \cap W)
      BY <2>1
    <3> QED BY <2>3, <3>1, <3>2, <3>3, <3>4
  <2> QED BY <2>6, <2>7
<1>5. P(Len(s)) /\ h[Len(s)] \in Seq(S)
  <2>1. Nat \subseteq G
    <3> HIDE DEF G
    <3> QED BY <1>3, <1>4, NatInduct
  <2> HIDE DEF P
  <2> QED BY <1>2, <2>1
<1> QED BY <1>1, <1>5, SetIsTaken DEF Lead

-----------------------------------------------------------------------------
(* Lists of people *)

By(e) == {r \in Recipient : r.email = e}

LEMMA EmailsAre ==
  ASSUME NEW s \in Seq(Recipient)
  PROVE  \A e : e \in Emails(s) <=> ToSet(s) \cap By(e) # {}
<1>1. ToSet(s) \subseteq Recipient
  BY SetIsTaken
<1> QED BY <1>1 DEF Emails, By

LEMMA EmailsTyped ==
  ASSUME NEW s \in Seq(Recipient)
  PROVE  Emails(s) \subseteq Email
<1>1. ToSet(s) \subseteq Recipient
  BY SetIsTaken
<1> QED BY <1>1 DEF Emails, Recipient

LEMMA DistinctAppend ==
  ASSUME NEW s \in Seq(Recipient), NEW y \in Recipient, Distinct(s), y.email \notin Emails(s)
  PROVE  Distinct(Append(s, y))
<1> DEFINE t == Append(s, y)
<1>1. /\ Len(s) \in Nat /\ DOMAIN s = 1..Len(s) /\ DOMAIN t = 1..(Len(s) + 1)
      /\ t[Len(s) + 1] = y /\ \A j \in 1..Len(s) : t[j] = s[j]
  OBVIOUS
<1> HIDE DEF t
<1>2. \A j \in 1..Len(s) : t[j].email # y.email
  <2>1. \A j \in 1..Len(s) : s[j] \in ToSet(s)
    BY SetIsTaken DEF Taken
  <2> QED BY <1>1, <2>1 DEF Emails
<1>3. \A j \in DOMAIN t : j \in 1..Len(s) \/ j = Len(s) + 1
  BY <1>1
<1>4. \A i, j \in 1..Len(s) : t[i].email = t[j].email => i = j
  BY <1>1 DEF Distinct
<1>5. Distinct(t)
  BY <1>1, <1>2, <1>3, <1>4 DEF Distinct
<1> QED BY <1>5 DEF t

\* mergeRecipients keeps the first of every address and nobody else.
LEMMA MergeIs ==
  ASSUME NEW s \in Seq(Recipient)
  PROVE  /\ mergeRecipients(s) \in Seq(Recipient) /\ Distinct(mergeRecipients(s))
         /\ Emails(mergeRecipients(s)) = Emails(s)
         /\ \A x, e : Lead(mergeRecipients(s), x, By(e)) <=> Lead(s, x, By(e))
<1>0. PICK h \in [0..Len(s) -> Seq(Recipient)] : MergeSteps(h, s)
  BY MergeLoop
<1>1. /\ h[0] = <<>> /\ mergeRecipients(s) = h[Len(s)]
      /\ \A i \in 1..Len(s) :
           h[i] = IF s[i].email \in Emails(h[i - 1]) THEN h[i - 1] ELSE Append(h[i - 1], s[i])
  BY <1>0 DEF MergeSteps
<1>2. Len(s) \in Nat /\ \A i \in 1..Len(s) : s[i] \in Recipient
  OBVIOUS
<1> DEFINE P(i) == /\ \A e : ToSet(h[i]) \cap By(e) = {} <=> Taken(s, i) \cap By(e) = {}
                   /\ Distinct(h[i])
                   /\ \A x, e : Lead(h[i], x, By(e)) <=> Leads(s, i, x, By(e))
           G == {i \in Nat : i <= Len(s) => P(i)}
<1>3. 0 \in G
  <2>1. ToSet(<<>>) = {} /\ Taken(s, 0) = {} /\ Distinct(<<>>)
    BY DEF ToSet, Taken, Distinct
  <2>2. \A x, X : ~Lead(<<>>, x, X) /\ ~Leads(s, 0, x, X)
    BY DEF Lead, Leads
  <2> QED BY <1>1, <2>1, <2>2
<1>4. ASSUME NEW i \in Nat, i \in G PROVE i + 1 \in G
  <2> SUFFICES ASSUME i + 1 <= Len(s) PROVE P(i + 1)
    OBVIOUS
  <2>1. P(i) /\ i + 1 \in 1..Len(s) /\ (i + 1) - 1 = i /\ i \in 0..Len(s)
    BY <1>2, <1>4
  <2>2. h[i] \in Seq(Recipient) /\ s[i + 1] \in Recipient
    BY <1>0, <1>2, <2>1
  <2>3. h[i + 1] = IF s[i + 1].email \in Emails(h[i]) THEN h[i] ELSE Append(h[i], s[i + 1])
    BY <1>1, <2>1
  <2>4. Taken(s, i + 1) = Taken(s, i) \cup {s[i + 1]}
    BY TakenNext
  <2>5. ToSet(Append(h[i], s[i + 1])) = ToSet(h[i]) \cup {s[i + 1]}
    BY <2>2, SetAppend
  <2>6. \A e : s[i + 1] \in By(e) <=> e = s[i + 1].email
    BY <2>2 DEF By
  <2>7. \A e : e \in Emails(h[i]) <=> ToSet(h[i]) \cap By(e) # {}
    BY <2>2, EmailsAre
  <2>8. \A e : ToSet(h[i + 1]) \cap By(e) = {} <=> Taken(s, i + 1) \cap By(e) = {}
    BY <2>1, <2>3, <2>4, <2>5, <2>6, <2>7
  <2>9. Distinct(h[i + 1])
    BY <2>1, <2>2, <2>3, DistinctAppend
  <2>10. ASSUME NEW x, NEW e PROVE Lead(h[i + 1], x, By(e)) <=> Leads(s, i + 1, x, By(e))
    <3>1. Leads(s, i + 1, x, By(e)) <=>
            \/ Leads(s, i, x, By(e))
            \/ s[i + 1] = x /\ x \in By(e) /\ Taken(s, i) \cap By(e) = {}
      BY LeadsNext
    <3>2. Lead(Append(h[i], s[i + 1]), x, By(e)) <=>
            \/ Lead(h[i], x, By(e))
            \/ s[i + 1] = x /\ x \in By(e) /\ ToSet(h[i]) \cap By(e) = {}
      BY <2>2, LeadAppend
    <3>3. Lead(h[i], x, By(e)) <=> Leads(s, i, x, By(e))
      BY <2>1
    <3>4. ToSet(h[i]) \cap By(e) = {} <=> Taken(s, i) \cap By(e) = {}
      BY <2>1
    <3> QED BY <2>3, <2>6, <2>7, <3>1, <3>2, <3>3, <3>4
  <2> QED BY <2>8, <2>9, <2>10
<1>5. P(Len(s)) /\ h[Len(s)] \in Seq(Recipient)
  <2>1. Nat \subseteq G
    <3> HIDE DEF G
    <3> QED BY <1>3, <1>4, NatInduct
  <2> HIDE DEF P
  <2> QED BY <1>0, <1>2, <2>1
<1>6. \A e : e \in Emails(h[Len(s)]) <=> e \in Emails(s)
  BY <1>5, EmailsAre, SetIsTaken
<1> QED BY <1>1, <1>5, <1>6 DEF Lead

\* A list in which nobody is there twice is left as it is.
LEMMA MergeSame ==
  ASSUME NEW s \in Seq(Recipient), Distinct(s)
  PROVE  mergeRecipients(s) = s
<1>0. PICK h \in [0..Len(s) -> Seq(Recipient)] : MergeSteps(h, s)
  BY MergeLoop
<1>1. /\ h[0] = <<>> /\ mergeRecipients(s) = h[Len(s)]
      /\ \A i \in 1..Len(s) :
           h[i] = IF s[i].email \in Emails(h[i - 1]) THEN h[i - 1] ELSE Append(h[i - 1], s[i])
  BY <1>0 DEF MergeSteps
<1>2. Len(s) \in Nat /\ DOMAIN s = 1..Len(s) /\ \A i \in 1..Len(s) : s[i] \in Recipient
  OBVIOUS
<1> DEFINE P(i) == Len(h[i]) = i /\ \A j \in 1..i : h[i][j] = s[j]
           G == {i \in Nat : i <= Len(s) => P(i)}
<1>3. 0 \in G
  BY <1>1
<1>4. ASSUME NEW i \in Nat, i \in G PROVE i + 1 \in G
  <2> SUFFICES ASSUME i + 1 <= Len(s) PROVE P(i + 1)
    OBVIOUS
  <2>1. P(i) /\ i + 1 \in 1..Len(s) /\ (i + 1) - 1 = i /\ i \in 0..Len(s)
    BY <1>2, <1>4
  <2>2. h[i] \in Seq(Recipient) /\ s[i + 1] \in Recipient
    BY <1>0, <1>2, <2>1
  <2>3. s[i + 1].email \notin Emails(h[i])
    <3>1. \A r \in ToSet(h[i]) : \E j \in 1..i : r = s[j]
      BY <2>1, <2>2, SetIsTaken DEF Taken
    <3>2. \A j \in 1..i : j \in DOMAIN s /\ j # i + 1
      BY <1>2, <2>1
    <3>3. \A j \in 1..i : s[j].email # s[i + 1].email
      BY <1>2, <2>1, <3>2 DEF Distinct
    <3> QED BY <3>1, <3>3 DEF Emails
  <2>4. h[i + 1] = Append(h[i], s[i + 1])
    BY <1>1, <2>1, <2>3
  <2>5. 1..(i + 1) = (1..i) \cup {i + 1}
    OBVIOUS
  <2> QED BY <2>1, <2>2, <2>4, <2>5
<1>5. P(Len(s)) /\ h[Len(s)] \in Seq(Recipient)
  <2>1. Nat \subseteq G
    <3> HIDE DEF G
    <3> QED BY <1>3, <1>4, NatInduct
  <2> HIDE DEF P
  <2> QED BY <1>0, <1>2, <2>1
<1>6. h[Len(s)] = s
  BY <1>2, <1>5
<1> QED BY <1>1, <1>6

\* The first of an address.
LEMMA FirstIs ==
  ASSUME NEW s \in Seq(Recipient), NEW e, NEW x, Lead(s, x, By(e))
  PROVE  First(s, e) = x
<1>1. Len(s) \in Nat /\ DOMAIN s = 1..Len(s) /\ \A j \in 1..Len(s) : s[j] \in Recipient
  OBVIOUS
<1>2. PICK i \in 1..Len(s) : s[i] = x /\ x \in By(e) /\ \A j \in 1..(i - 1) : s[j] \notin By(e)
  BY DEF Lead, Leads
<1> DEFINE Is == {j \in DOMAIN s : s[j].email = e}
<1>3. i \in Is
  BY <1>1, <1>2 DEF By
<1>4. \A j \in Is : i <= j
  <2> SUFFICES ASSUME NEW j \in Is, j < i PROVE FALSE
    BY <1>1
  <2>1. j \in 1..(i - 1) /\ s[j] \in By(e)
    BY <1>1 DEF By
  <2> QED BY <1>2, <2>1
<1>5. \A k \in Is : (\A j \in Is : k <= j) => k = i
  BY <1>1, <1>3, <1>4
<1>6. Min(Is) = i
  <2> HIDE DEF Is
  <2> QED BY <1>3, <1>4, <1>5 DEF Min
<1> QED BY <1>2, <1>6 DEF First

-----------------------------------------------------------------------------
(* The invariant *)

\* Lists as they are stored and picked: nobody is there twice.
Lists == {list \in Seq(Recipient) : Distinct(list)}

\* With the script nothing is left to be sent beside the text, and the form of a group
\* knows that group.
PageOK(p) ==
  /\ p \in [kind : {"case", "group"}, group : Nat, script : BOOLEAN, text : Seq(Line), picked : Nat,
            lang : Lang, meant : Lists, known : {p.known}]
  /\ \A g \in DOMAIN p.known : p.known[g] \in Lists
  /\ p.script => p.picked = 0
  /\ p.kind = "group" /\ p.group # 0 => p.group \in DOMAIN p.known

TypeInv ==
  /\ accounts \subseteq Account
  /\ made \in Nat
  /\ groups = [g \in DOMAIN groups |-> groups[g]] /\ DOMAIN groups \subseteq 1..made
  /\ \A g \in DOMAIN groups : groups[g] \in [owner : Account \cup {None}, members : Lists]
  /\ link \in Seq(Recipient)
  /\ page = [a \in Account |-> page[a]]
  /\ \A a \in Account : page[a] = NoPage \/ PageOK(page[a])

\* The lines that give an address.
LinesOf(e) == {l \in Line : l.email = e /\ l.lang # "?"}

\* The text says whom its reader means: the first line of each gives the language, but
\* for those the script took to be present already.
Overlooked(p, e) ==
  p.script /\ \E l \in ToSet(p.text) : e \in l.aside \/ (l.email = e /\ l.lang = "?")
Followed(p) ==
  /\ \A l \in ToSet(p.text) : l.lang # "?" => l.email \in Emails(p.meant)
  /\ \A e \in Emails(p.meant) :
       \/ Overlooked(p, e)
       \/ \E x \in LinesOf(e) : Lead(p.text, x, LinesOf(e)) /\ Lead(p.meant, Read(x, p.lang), By(e))
TextInv == \A a \in Account : page[a] # NoPage /\ page[a].kind = "case" => Followed(page[a])

-----------------------------------------------------------------------------
(* The lines of a text area *)

LEMMA LeadOwn ==
  ASSUME NEW S, NEW s \in Seq(S), NEW x, NEW X, NEW Y, X \cap ToSet(s) = Y \cap ToSet(s)
  PROVE  Lead(s, x, X) <=> Lead(s, x, Y)
<1>1. Len(s) \in Nat /\ \A j \in 1..Len(s) : s[j] \in ToSet(s)
  BY SetIsTaken DEF Taken
<1>2. \A j \in 1..Len(s) : s[j] \in X <=> s[j] \in Y
  BY <1>1
<1>3. \A i \in 1..Len(s) : \A j \in 1..(i - 1) : j \in 1..Len(s)
  BY <1>1
<1>4. \A i \in 1..Len(s) : (\A j \in 1..(i - 1) : s[j] \notin X) <=> (\A j \in 1..(i - 1) : s[j] \notin Y)
  BY <1>2, <1>3
<1> QED BY <1>2, <1>4 DEF Lead, Leads

LEMMA ReadTyped ==
  ASSUME NEW l \in Line, l.lang # "?", NEW d \in Lang
  PROVE  Read(l, d) \in Recipient /\ Read(l, d).email = l.email
BY DEF Read, Line, Recipient

LEMMA FormatIs ==
  ASSUME NEW s \in Seq(Recipient), NEW d \in Lang
  PROVE  /\ formatRecipients(s) \in Seq(Line) /\ DOMAIN formatRecipients(s) = DOMAIN s
         /\ Len(formatRecipients(s)) = Len(s)
         /\ \A i \in DOMAIN s : /\ formatRecipients(s)[i].email = s[i].email
                                /\ formatRecipients(s)[i].lang # "?"
                                /\ Read(formatRecipients(s)[i], d) = s[i]
<1>0. Len(s) \in Nat /\ DOMAIN s = 1..Len(s) /\ \A i \in DOMAIN s : s[i] \in Recipient
  OBVIOUS
<1>1. \A i \in DOMAIN s : s[i] \in [email : Email, lang : Lang]
  BY <1>0 DEF Recipient
<1>2. \A i \in DOMAIN s : [email |-> s[i].email, lang |-> s[i].lang, aside |-> {}] \in Line
  BY <1>1 DEF Line
<1> DEFINE f == [i \in DOMAIN s |-> [email |-> s[i].email, lang |-> s[i].lang, aside |-> {}]]
<1>3. f \in Seq(Line) /\ DOMAIN f = DOMAIN s /\ Len(f) = Len(s)
  BY <1>0, <1>2
<1>4. \A i \in DOMAIN s : f[i].email = s[i].email /\ f[i].lang = s[i].lang
  OBVIOUS
<1>5. \A i \in DOMAIN s : s[i].lang # "?" /\ s[i].lang # None
  BY <1>1, GroupsAssumption
<1>6. ASSUME NEW i \in DOMAIN s PROVE Read(f[i], d) = s[i]
  <2>1. Read(f[i], d) = [email |-> s[i].email, lang |-> s[i].lang]
    BY <1>4, <1>5 DEF Read
  <2> QED BY <1>1, <2>1
<1>7. f = formatRecipients(s)
  BY DEF formatRecipients
<1> HIDE DEF f
<1> QED BY <1>3, <1>4, <1>5, <1>6, <1>7

LEMMA RemoveIs ==
  ASSUME NEW S, NEW s \in Seq(S), NEW i \in DOMAIN s
  PROVE  RemoveAt(s, i) \in Seq(S)
<1>1. i \in 1..Len(s) /\ Len(s) \in Nat
  OBVIOUS
<1>2. SubSeq(s, 1, i - 1) \in Seq(S) /\ SubSeq(s, i + 1, Len(s)) \in Seq(S)
  BY <1>1
<1> QED BY <1>2 DEF RemoveAt

LEMMA WithoutIs ==
  ASSUME NEW S, NEW s \in Seq(S), NEW E
  PROVE  /\ Without(s, E) \in Seq(S)
         /\ ToSet(Without(s, E)) = {x \in ToSet(s) : x.email \notin E}
         /\ \A x, X : Lead(Without(s, E), x, X) <=> Lead(s, x, X \cap {y \in ToSet(s) : y.email \notin E})
BY WithinIs DEF Without

LEMMA ReadableIs ==
  ASSUME NEW s \in Seq(Line)
  PROVE  /\ Readable(s) \in Seq(Line)
         /\ ToSet(Readable(s)) = {l \in ToSet(s) : l.lang # "?"}
         /\ \A x, e : Lead(Readable(s), x, LinesOf(e)) <=> Lead(s, x, LinesOf(e))
<1> DEFINE W == {l \in ToSet(s) : l.lang # "?"}
<1>1. /\ Readable(s) \in Seq(Line) /\ ToSet(Readable(s)) = ToSet(s) \cap W
      /\ \A x, X : Lead(Readable(s), x, X) <=> Lead(s, x, X \cap W)
  BY WithinIs DEF Readable
<1>2. ASSUME NEW e PROVE (LinesOf(e) \cap W) \cap ToSet(s) = LinesOf(e) \cap ToSet(s)
  BY DEF LinesOf
<1>3. \A x, e : Lead(s, x, LinesOf(e) \cap W) <=> Lead(s, x, LinesOf(e))
  <2> HIDE DEF W
  <2> QED BY <1>2, LeadOwn
<1> QED BY <1>1, <1>3

\* What is read from lines that can all be read.
LEMMA ParseIs ==
  ASSUME NEW s \in Seq(Line), NEW d \in Lang, \A l \in ToSet(s) : l.lang # "?"
  PROVE  /\ parseRecipients(s, d) \in Lists
         /\ \A e : e \in Emails(parseRecipients(s, d)) <=> e \in Emails(s)
         /\ \A x, e : Lead(s, x, LinesOf(e)) => Lead(parseRecipients(s, d), Read(x, d), By(e))
<1> DEFINE f == [i \in DOMAIN s |-> Read(s[i], d)]
<1>1. /\ Len(s) \in Nat /\ DOMAIN s = 1..Len(s)
      /\ \A i \in 1..Len(s) : s[i] \in Line /\ s[i].lang # "?"
  BY SetIsTaken DEF Taken
<1>2. \A i \in 1..Len(s) : Read(s[i], d) \in Recipient /\ Read(s[i], d).email = s[i].email
  BY <1>1, ReadTyped
<1>3. /\ f \in Seq(Recipient) /\ Len(f) = Len(s)
      /\ \A i \in 1..Len(s) : f[i] = Read(s[i], d)
  BY <1>1, <1>2
<1>4. parseRecipients(s, d) = mergeRecipients(f)
  BY DEF parseRecipients
<1> HIDE DEF f
<1>5. \A e : e \in Emails(f) <=> e \in Emails(s)
  <2>1. ToSet(f) = Taken(f, Len(s)) /\ ToSet(s) = Taken(s, Len(s))
    BY <1>3, SetIsTaken
  <2>2. \A i \in 1..Len(s) : f[i].email = s[i].email
    BY <1>2, <1>3
  <2> QED BY <2>1, <2>2 DEF Emails, Taken
<1>6. ASSUME NEW x, NEW e, Lead(s, x, LinesOf(e)) PROVE Lead(f, Read(x, d), By(e))
  <2>1. PICK i \in 1..Len(s) : s[i] = x /\ x \in LinesOf(e) /\ \A j \in 1..(i - 1) : s[j] \notin LinesOf(e)
    BY <1>6 DEF Lead, Leads
  <2>2. \A j \in 1..Len(s) : f[j] \in By(e) <=> s[j] \in LinesOf(e)
    BY <1>1, <1>2, <1>3 DEF By, LinesOf
  <2>3. f[i] = Read(x, d) /\ Read(x, d) \in By(e)
    BY <1>3, <2>1, <2>2
  <2>4. \A j \in 1..(i - 1) : j \in 1..Len(s) /\ f[j] \notin By(e)
    BY <1>1, <2>1, <2>2
  <2> QED BY <1>3, <2>3, <2>4 DEF Lead, Leads
<1> QED BY <1>3, <1>4, <1>5, <1>6, MergeIs DEF Lists

-----------------------------------------------------------------------------
(* Types *)

LEMMA UnionIs ==
  ASSUME NEW s \in Seq(Recipient), NEW t \in Seq(Recipient)
  PROVE  /\ s \o t \in Seq(Recipient)
         /\ Union(s, t) \in Lists
         /\ \A e : e \in Emails(Union(s, t)) <=> e \in Emails(s) \cup Emails(t)
         /\ \A x, e : Lead(s \o t, x, By(e)) => Lead(Union(s, t), x, By(e))
<1>1. s \o t \in Seq(Recipient) /\ ToSet(s \o t) = ToSet(s) \cup ToSet(t)
  BY ConcatIs, SetConcat
<1>2. \A e : e \in Emails(s \o t) <=> e \in Emails(s) \cup Emails(t)
  BY <1>1 DEF Emails
<1> QED BY <1>1, <1>2, MergeIs DEF Union, Lists

LEMMA ValidLines ==
  ASSUME NEW s \in Seq(Line), ~Invalid(s)
  PROVE  \A l \in ToSet(s) : l.lang # "?"
BY DEF Invalid

LEMMA GroupMembersIs ==
  ASSUME TypeInv, NEW g
  PROVE  groupMembers(g) \in Lists
<1>1. <<>> \in Lists
  BY DEF Lists, Distinct
<1>2. \A h \in DOMAIN groups : groups[h].members \in Lists
  BY DEF TypeInv
<1> QED BY <1>1, <1>2 DEF groupMembers

\* The list of a form that is accepted.
LEMMA RequireIs ==
  ASSUME NEW s \in Seq(Line), NEW d \in Lang, NEW t \in Lists, Accepted(s, d, t)
  PROVE  /\ requireRecipients(s, d, t) \in Lists
         /\ \A e : e \in Emails(requireRecipients(s, d, t)) <=> e \in Emails(s) \cup Emails(t)
<1>1. ~Invalid(s)
  BY DEF Accepted
<1>2. /\ parseRecipients(s, d) \in Lists
      /\ \A e : e \in Emails(parseRecipients(s, d)) <=> e \in Emails(s)
  BY <1>1, ValidLines, ParseIs
<1> QED BY <1>2, UnionIs DEF requireRecipients, Lists

LEMMA Without2 ==
  ASSUME NEW s \in Seq(Recipient), NEW t \in Seq(Recipient), NEW E
  PROVE  s \o Without(t, E) \in Seq(Recipient)
<1>1. Without(t, E) \in Seq(Recipient)
  BY WithoutIs
<1> QED BY <1>1, ConcatIs

\* What an accepted form adds to the link.
LEMMA LinkGrows ==
  ASSUME TypeInv, NEW a \in Account, AddPeople(a), link' # link
  PROVE  LET p == page[a]
             list == requireRecipients(p.text, p.lang, groupMembers(p.picked))
         IN  /\ PageOK(p) /\ p.kind = "case"
             /\ Accepted(p.text, p.lang, groupMembers(p.picked))
             /\ list \in Lists
             /\ link' = link \o Without(list, Emails(link))
             /\ link' \in Seq(Recipient)
<1> DEFINE p == page[a]
           extra == groupMembers(p.picked)
           list == requireRecipients(p.text, p.lang, extra)
<1>1. p.kind = "case" /\ link' = IF /\ Accepted(p.text, p.lang, extra)
                                    /\ Len(link) + Len(Without(list, Emails(link))) <= MaxRecipients
                                 THEN link \o Without(list, Emails(link)) ELSE link
  BY DEF AddPeople, Received
<1>2. Accepted(p.text, p.lang, extra) /\ link' = link \o Without(list, Emails(link))
  <2> HIDE DEF p, extra, list
  <2> QED BY <1>1
<1>3. PageOK(p) /\ link \in Seq(Recipient)
  <2>1. NoPage.kind # "case"
    BY DEF NoPage
  <2> QED BY <1>1, <2>1 DEF TypeInv
<1>4. extra \in Lists
  BY GroupMembersIs
<1>5. p.text \in Seq(Line) /\ p.lang \in Lang
  <2> HIDE DEF p
  <2> QED BY <1>3 DEF PageOK
<1> HIDE DEF p, extra
<1>6. list \in Lists
  BY <1>2, <1>4, <1>5, RequireIs
<1>7. link' \in Seq(Recipient)
  <2> HIDE DEF list
  <2> QED BY <1>2, <1>3, <1>6, Without2 DEF Lists
<1> QED BY <1>1, <1>2, <1>3, <1>6, <1>7 DEF p, extra

LEMMA PagesKept ==
  ASSUME TypeInv, NEW a \in Account, NEW q, q = NoPage \/ PageOK(q),
         page' = [page EXCEPT ![a] = q]
  PROVE  /\ page' = [b \in Account |-> page'[b]] /\ page'[a] = q
         /\ \A b \in Account : b # a => page'[b] = page[b]
         /\ \A b \in Account : page'[b] = NoPage \/ PageOK(page'[b])
<1>1. DOMAIN page = Account
  BY DEF TypeInv
<1>2. page' = [b \in Account |-> page'[b]] /\ page'[a] = q
      /\ \A b \in Account : b # a => page'[b] = page[b]
  BY <1>1
<1>3. \A b \in Account : page[b] = NoPage \/ PageOK(page[b])
  BY DEF TypeInv
<1> HIDE DEF PageOK, NoPage
<1> QED BY <1>2, <1>3

\* A page whose text has been changed.
Rewritten(p, t, m) == [p EXCEPT !.text = t, !.meant = m]
LEMMA PageText ==
  ASSUME NEW p, PageOK(p), NEW t \in Seq(Line), NEW m \in Lists
  PROVE  LET q == Rewritten(p, t, m)
         IN  /\ PageOK(q) /\ q.text = t /\ q.meant = m
             /\ q.kind = p.kind /\ q.group = p.group /\ q.script = p.script /\ q.picked = p.picked
             /\ q.lang = p.lang /\ q.known = p.known
<1> DEFINE q == [p EXCEPT !.text = t, !.meant = m]
<1>1. p \in [kind : {"case", "group"}, group : Nat, script : BOOLEAN, text : Seq(Line), picked : Nat,
             lang : Lang, meant : Lists, known : {p.known}]
  BY DEF PageOK
<1>2. /\ q.text = t /\ q.meant = m
      /\ q.kind = p.kind /\ q.group = p.group /\ q.script = p.script /\ q.picked = p.picked
      /\ q.lang = p.lang /\ q.known = p.known
  BY <1>1, Zenon
<1>3. q \in [kind : {"case", "group"}, group : Nat, script : BOOLEAN, text : Seq(Line), picked : Nat,
             lang : Lang, meant : Lists, known : {p.known}]
  BY <1>1
<1> HIDE DEF q
<1>4. /\ q.script => q.picked = 0
      /\ q.kind = "group" /\ q.group # 0 => q.group \in DOMAIN q.known
      /\ \A g \in DOMAIN q.known : q.known[g] \in Lists
  BY <1>2, Zenon DEF PageOK
<1>5. PageOK(q)
  BY <1>2, <1>3, <1>4 DEF PageOK
<1>6. q = Rewritten(p, t, m)
  BY DEF q, Rewritten
<1> QED BY <1>2, <1>5, <1>6

LEMMA NoPageIs ==
  ASSUME NEW p, PageOK(p)
  PROVE  p # NoPage
BY DEF PageOK, NoPage

LEMMA PageIs ==
  ASSUME TypeInv, NEW a \in Account, page[a] # NoPage
  PROVE  /\ PageOK(page[a]) /\ page[a].text \in Seq(Line) /\ page[a].lang \in Lang
         /\ page[a].meant \in Lists /\ page[a].kind \in {"case", "group"}
<1>1. PageOK(page[a])
  BY DEF TypeInv
<1> QED BY <1>1 DEF PageOK

\* A page as it is opened.
LEMMA PageOpened ==
  ASSUME TypeInv, NEW k \in {"case", "group"}, NEW g \in Nat, NEW b \in BOOLEAN,
         NEW t \in Seq(Line), NEW d \in Lang, k = "group" /\ g # 0 => g \in DOMAIN groups
  PROVE  /\ PageOK(PageOf(k, g, b, t, d))
         /\ PageOf(k, g, b, t, d).text = t /\ PageOf(k, g, b, t, d).meant = <<>>
         /\ PageOf(k, g, b, t, d).kind = k
<1> DEFINE K == [h \in IF k = "case" THEN DOMAIN groups ELSE DOMAIN groups \cap {g} |-> groups[h].members]
           q == [kind |-> k, group |-> g, script |-> b, text |-> t, picked |-> 0, lang |-> d, meant |-> <<>>,
                 known |-> K]
<1>1. \A h \in DOMAIN groups : groups[h].members \in Lists
  BY DEF TypeInv
<1>2. \A h \in DOMAIN K : K[h] \in Lists
  BY <1>1
<1>3. k = "group" /\ g # 0 => g \in DOMAIN K
  OBVIOUS
<1>4. <<>> \in Lists
  BY DEF Lists, Distinct
<1> HIDE DEF K
<1>5. /\ q.kind = k /\ q.group = g /\ q.picked = 0 /\ q.known = K /\ q.text = t /\ q.meant = <<>>
  OBVIOUS
<1>6. q \in [kind : {"case", "group"}, group : Nat, script : BOOLEAN, text : Seq(Line), picked : Nat,
             lang : Lang, meant : Lists, known : {K}]
  BY <1>4
<1>7. q = PageOf(k, g, b, t, d)
  BY DEF PageOf, K
<1> HIDE DEF q
<1>8. PageOK(q)
  BY <1>2, <1>3, <1>5, <1>6 DEF PageOK
<1> QED BY <1>5, <1>7, <1>8

Chosen(p, n) == [p EXCEPT !.picked = n]
LEMMA PagePicked ==
  ASSUME NEW p, PageOK(p), NEW n \in Nat, p.script => n = 0
  PROVE  LET q == Chosen(p, n)
         IN  /\ PageOK(q) /\ q.text = p.text /\ q.meant = p.meant /\ q.picked = n
             /\ q.kind = p.kind /\ q.group = p.group /\ q.script = p.script
             /\ q.lang = p.lang /\ q.known = p.known
<1> DEFINE q == [p EXCEPT !.picked = n]
<1>1. p \in [kind : {"case", "group"}, group : Nat, script : BOOLEAN, text : Seq(Line), picked : Nat,
             lang : Lang, meant : Lists, known : {p.known}]
  BY DEF PageOK
<1>2. /\ q.text = p.text /\ q.meant = p.meant /\ q.picked = n
      /\ q.kind = p.kind /\ q.group = p.group /\ q.script = p.script
      /\ q.lang = p.lang /\ q.known = p.known
  BY <1>1, Zenon
<1>3. q \in [kind : {"case", "group"}, group : Nat, script : BOOLEAN, text : Seq(Line), picked : Nat,
             lang : Lang, meant : Lists, known : {p.known}]
  BY <1>1
<1> HIDE DEF q
<1>4. /\ q.script => q.picked = 0
      /\ q.kind = "group" /\ q.group # 0 => q.group \in DOMAIN q.known
      /\ \A g \in DOMAIN q.known : q.known[g] \in Lists
  BY <1>2, Zenon DEF PageOK
<1>5. PageOK(q)
  BY <1>2, <1>3, <1>4 DEF PageOK
<1>6. q = Chosen(p, n)
  BY DEF q, Chosen
<1> QED BY <1>2, <1>5, <1>6

Filled(p, t, m) == [p EXCEPT !.text = t, !.meant = m, !.picked = 0]
LEMMA PageFilled ==
  ASSUME NEW p, PageOK(p), NEW t \in Seq(Line), NEW m \in Lists
  PROVE  LET q == Filled(p, t, m)
         IN  /\ PageOK(q) /\ q.text = t /\ q.meant = m
             /\ q.kind = p.kind /\ q.script = p.script /\ q.lang = p.lang
<1>1. Filled(p, t, m) = Chosen(Rewritten(p, t, m), 0)
  BY DEF Filled, Chosen, Rewritten
<1> DEFINE r == Rewritten(p, t, m)
<1>2. /\ PageOK(r) /\ r.text = t /\ r.meant = m
      /\ r.kind = p.kind /\ r.script = p.script /\ r.lang = p.lang
  BY PageText
<1> HIDE DEF r
<1> DEFINE q == Chosen(r, 0)
<1>3. PageOK(q) /\ q.text = r.text /\ q.meant = r.meant /\ q.kind = r.kind /\ q.script = r.script /\ q.lang = r.lang
  BY <1>2, PagePicked
<1> HIDE DEF q
<1>4. PageOK(q) /\ q.text = t /\ q.meant = m /\ q.kind = p.kind /\ q.script = p.script /\ q.lang = p.lang
  BY <1>2, <1>3, Zenon
<1> QED BY <1>1, <1>4, Zenon DEF q, r

-----------------------------------------------------------------------------
(* The steps of a page *)

\* What Type, Strike and Pick make of the text and of whom it means.
LEMMA TypeIs ==
  ASSUME TypeInv, NEW a \in Account, NEW l \in Typed, Type(a, l)
  PROVE  LET p == page[a]
             m == IF l.lang = "?" \/ p.kind = "group" THEN p.meant
                  ELSE mergeRecipients(Append(p.meant, Read(l, p.lang)))
         IN  /\ PageOK(p) /\ l \in Line /\ m \in Lists /\ Append(p.text, l) \in Seq(Line)
             /\ page' = [page EXCEPT ![a] = Rewritten(p, Append(p.text, l), m)]
<1> DEFINE p == page[a]
           m == IF l.lang = "?" \/ p.kind = "group" THEN p.meant
                ELSE mergeRecipients(Append(p.meant, Read(l, p.lang)))
<1>1. page[a] # NoPage
  BY DEF Type
<1>2. PageOK(p) /\ p.text \in Seq(Line) /\ p.lang \in Lang /\ p.meant \in Lists
  BY <1>1, PageIs
<1>3. l \in Line
  BY GroupsAssumption
<1>4. page' = [page EXCEPT ![a] = Rewritten(p, Append(p.text, l), m)]
  BY DEF Type, Rewritten
<1> HIDE DEF p
<1>5. m \in Lists
  <2>1. ASSUME l.lang # "?" PROVE mergeRecipients(Append(p.meant, Read(l, p.lang))) \in Lists
    <3>1. Read(l, p.lang) \in Recipient
      BY <1>2, <1>3, <2>1, ReadTyped
    <3>2. Append(p.meant, Read(l, p.lang)) \in Seq(Recipient)
      BY <1>2, <3>1 DEF Lists
    <3> QED BY <3>2, MergeIs DEF Lists
  <2> QED BY <1>2, <2>1
<1>6. Append(p.text, l) \in Seq(Line)
  BY <1>2, <1>3
<1> QED BY <1>2, <1>3, <1>4, <1>5, <1>6 DEF p

LEMMA StrikeIs ==
  ASSUME TypeInv, NEW a \in Account, NEW i, Strike(a, i)
  PROVE  LET p == page[a]
             t == RemoveAt(p.text, i)
             m == IF p.kind = "group" THEN p.meant ELSE parseRecipients(Readable(t), p.lang)
         IN  /\ PageOK(p) /\ t \in Seq(Line) /\ m \in Lists
             /\ page' = [page EXCEPT ![a] = Rewritten(p, t, m)]
<1> DEFINE p == page[a]
           t == RemoveAt(p.text, i)
           m == IF p.kind = "group" THEN p.meant ELSE parseRecipients(Readable(t), p.lang)
<1>1. page[a] # NoPage /\ i \in DOMAIN page[a].text
  BY DEF Strike
<1>2. PageOK(p) /\ p.text \in Seq(Line) /\ p.lang \in Lang /\ p.meant \in Lists
  BY <1>1, PageIs
<1>3. page' = [page EXCEPT ![a] = Rewritten(p, t, m)]
  BY DEF Strike, Rewritten
<1>4. t \in Seq(Line)
  BY <1>1, <1>2, RemoveIs
<1> HIDE DEF p, t
<1>5. parseRecipients(Readable(t), p.lang) \in Lists
  <2>1. Readable(t) \in Seq(Line) /\ \A l \in ToSet(Readable(t)) : l.lang # "?"
    BY <1>4, ReadableIs
  <2> QED BY <1>2, <2>1, ParseIs
<1> QED BY <1>2, <1>3, <1>4, <1>5 DEF p, t

LEMMA PickIs ==
  ASSUME TypeInv, NEW a \in Account, NEW g \in Group, Pick(a, g)
  PROVE  LET p == page[a]
             t == p.text \o Without(formatRecipients(p.known[g]), Present(p.text))
             m == mergeRecipients(p.meant \o p.known[g])
         IN  /\ PageOK(p) /\ p.kind = "case" /\ p.known[g] \in Lists /\ t \in Seq(Line) /\ m \in Lists
             /\ page' = [page EXCEPT ![a] = IF p.script THEN Filled(p, t, m)
                                            ELSE Chosen(p, g)]
<1> DEFINE p == page[a]
           t == p.text \o Without(formatRecipients(p.known[g]), Present(p.text))
           m == mergeRecipients(p.meant \o p.known[g])
<1>1. p.kind = "case" /\ g \in DOMAIN p.known
  BY DEF Pick
<1>2. PageOK(p) /\ p.text \in Seq(Line) /\ p.lang \in Lang /\ p.meant \in Lists
  <2>1. NoPage.kind # "case"
    BY DEF NoPage
  <2>2. page[a] # NoPage
    <3> HIDE DEF NoPage
    <3> QED BY <1>1, <2>1
  <2> QED BY <2>2, PageIs
<1>3. page' = [page EXCEPT ![a] = IF p.script THEN Filled(p, t, m)
                                  ELSE Chosen(p, g)]
  <2>1. page' = [page EXCEPT ![a] = IF p.script THEN [p EXCEPT !.text = t, !.meant = m, !.picked = Cleared(g)]
                                    ELSE Chosen(p, g)]
    BY DEF Pick, Chosen
  <2> HIDE DEF p, t, m
  <2> QED BY <2>1 DEF Cleared, Filled
<1> HIDE DEF p
<1>4. p.known[g] \in Lists
  BY <1>1, <1>2 DEF PageOK
<1>5. t \in Seq(Line)
  <2>1. formatRecipients(p.known[g]) \in Seq(Line)
    BY <1>2, <1>4, FormatIs DEF Lists
  <2>2. Without(formatRecipients(p.known[g]), Present(p.text)) \in Seq(Line)
    BY <2>1, WithoutIs
  <2> QED BY <1>2, <2>2, ConcatIs
<1>6. m \in Lists
  <2>1. p.meant \o p.known[g] \in Seq(Recipient)
    BY <1>2, <1>4, ConcatIs DEF Lists
  <2> QED BY <2>1, MergeIs DEF Lists
<1> QED BY <1>1, <1>2, <1>3, <1>4, <1>5, <1>6 DEF p

LEMMA OpenGroupIs ==
  ASSUME TypeInv, NEW a \in Account, NEW g \in Group \cup {0}, NEW d \in Lang, OpenGroup(a, g, d)
  PROVE  LET t == IF g = 0 THEN <<>> ELSE formatRecipients(groups[g].members)
             q == PageOf("group", g, FALSE, t, d)
         IN  PageOK(q) /\ q.kind = "group" /\ page' = [page EXCEPT ![a] = q]
<1> DEFINE t == IF g = 0 THEN <<>> ELSE formatRecipients(groups[g].members)
           q == PageOf("group", g, FALSE, t, d)
<1>1. (g = 0 \/ g \in DOMAIN groups) /\ page' = [page EXCEPT ![a] = q]
  BY DEF OpenGroup
<1>2. t \in Seq(Line)
  <2>1. <<>> \in Seq(Line)
    OBVIOUS
  <2>2. ASSUME g \in DOMAIN groups PROVE formatRecipients(groups[g].members) \in Seq(Line)
    <3>1. groups[g].members \in Lists
      BY <2>2 DEF TypeInv
    <3> QED BY <3>1, FormatIs DEF Lists
  <2> QED BY <1>1, <2>1, <2>2
<1> HIDE DEF t
<1>3. PageOK(q) /\ q.kind = "group"
  <2> DEFINE k == "group"
             b == FALSE
  <2>1. g \in Nat /\ (k = "group" /\ g # 0 => g \in DOMAIN groups) /\ b \in BOOLEAN
    BY <1>1, GroupsAssumption DEF Group
  <2>2. k \in {"case", "group"}
    OBVIOUS
  <2>3. PageOK(PageOf(k, g, b, t, d)) /\ PageOf(k, g, b, t, d).kind = k
    <3> HIDE DEF k, b
    <3> QED BY <1>2, <2>1, <2>2, PageOpened
  <2> QED BY <2>3
<1> QED BY <1>1, <1>3 DEF t

LEMMA OpenCaseIs ==
  ASSUME TypeInv, NEW a \in Account, NEW b \in BOOLEAN, NEW d \in Lang, OpenCase(a, b, d)
  PROVE  LET q == PageOf("case", 0, b, <<>>, d)
         IN  /\ PageOK(q) /\ q.kind = "case" /\ q.text = <<>> /\ q.meant = <<>>
             /\ page' = [page EXCEPT ![a] = q]
<1>1. <<>> \in Seq(Line) /\ 0 \in Nat /\ "case" \in {"case", "group"} /\ ~("case" = "group" /\ 0 # 0)
  OBVIOUS
<1> DEFINE t == <<>>
           q == PageOf("case", 0, b, t, d)
<1>2. page' = [page EXCEPT ![a] = q]
  BY DEF OpenCase
<1>3. t \in Seq(Line)
  OBVIOUS
<1> HIDE DEF t
<1>4. PageOK(q) /\ q.kind = "case" /\ q.text = t /\ q.meant = <<>>
  BY <1>1, <1>3, PageOpened
<1> QED BY <1>2, <1>4 DEF t

\* A step that leaves the lists alone, with what it puts before the account.
LEMMA PageStep ==
  ASSUME TypeInv, NEW a \in Account, NEW q, q = NoPage \/ PageOK(q),
         page' = [page EXCEPT ![a] = q], UNCHANGED <<accounts, groups, made, link>>
  PROVE  TypeInv'
<1>1. /\ page' = [b \in Account |-> page'[b]]
      /\ \A b \in Account : page'[b] = NoPage \/ PageOK(page'[b])
  BY PagesKept
<1> QED BY <1>1 DEF TypeInv

LEMMA AddPeopleTypes ==
  ASSUME TypeInv, NEW a \in Account, AddPeople(a)
  PROVE  TypeInv'
<1>1. UNCHANGED <<accounts, groups, made>> /\ page' = [page EXCEPT ![a] = NoPage]
  BY DEF AddPeople, Answered, Close, people
<1>2. /\ page' = [b \in Account |-> page'[b]]
      /\ \A b \in Account : page'[b] = NoPage \/ PageOK(page'[b])
  BY <1>1, PagesKept
<1>3. link' \in Seq(Recipient)
  <2>1. CASE link' = link
    BY <2>1 DEF TypeInv
  <2>2. CASE link' # link
    BY <2>2, LinkGrows
  <2> QED BY <2>1, <2>2
<1> QED BY <1>1, <1>2, <1>3 DEF TypeInv

\* The list that the form of a group stores.
LEMMA FormIs ==
  ASSUME TypeInv, NEW a \in Account, page[a] # NoPage, Accepted(page[a].text, page[a].lang, <<>>)
  PROVE  parseRecipients(page[a].text, page[a].lang) \in Lists
<1>1. ~Invalid(page[a].text)
  BY DEF Accepted
<1>2. page[a].text \in Seq(Line) /\ page[a].lang \in Lang
  BY PageIs
<1> QED BY <1>1, <1>2, ValidLines, ParseIs

LEMMA GroupForm ==
  ASSUME NEW a, page[a].kind = "group"
  PROVE  page[a] # NoPage
<1>1. NoPage.kind # "group"
  BY DEF NoPage
<1> QED
  <2> HIDE DEF NoPage
  <2> QED BY <1>1

LEMMA CreateTypes ==
  ASSUME TypeInv, NEW a \in Account, createGroup(a)
  PROVE  TypeInv'
<1> DEFINE ms == parseRecipients(page[a].text, page[a].lang)
<1>1. /\ page[a].kind = "group" /\ Accepted(page[a].text, page[a].lang, <<>>)
      /\ UNCHANGED <<accounts, link>> /\ page' = [page EXCEPT ![a] = NoPage]
      /\ made' = made + 1
      /\ groups' = [g \in DOMAIN groups \cup {made'} |->
                      IF g = made' THEN [owner |-> a, members |-> ms] ELSE groups[g]]
  BY DEF createGroup, Received, Answered, Close, people
<1>2. ms \in Lists
  BY <1>1, GroupForm, FormIs
<1>3. /\ page' = [b \in Account |-> page'[b]]
      /\ \A b \in Account : page'[b] = NoPage \/ PageOK(page'[b])
  BY <1>1, PagesKept
<1> HIDE DEF ms
<1>4. made' \in Nat /\ \A g \in DOMAIN groups : g \in 1..made'
  BY <1>1 DEF TypeInv
<1>5. groups' = [g \in DOMAIN groups' |-> groups'[g]] /\ DOMAIN groups' \subseteq 1..made'
  <2>1. made' \in 1..made'
    BY <1>1, <1>4 DEF TypeInv
  <2> QED BY <1>1, <1>4, <2>1
<1>6. \A g \in DOMAIN groups' : groups'[g] \in [owner : Account \cup {None}, members : Lists]
  <2>1. [owner |-> a, members |-> ms] \in [owner : Account \cup {None}, members : Lists]
    BY <1>2
  <2>2. \A g \in DOMAIN groups : groups[g] \in [owner : Account \cup {None}, members : Lists]
    BY DEF TypeInv
  <2> HIDE DEF Lists
  <2> QED BY <1>1, <2>1, <2>2
<1> QED BY <1>1, <1>3, <1>4, <1>5, <1>6 DEF TypeInv

LEMMA UpdateTypes ==
  ASSUME TypeInv, NEW a \in Account, updateGroup(a)
  PROVE  TypeInv'
<1> DEFINE ms == parseRecipients(page[a].text, page[a].lang)
<1>0. PICK k : k = page[a].group
  OBVIOUS
<1>1. /\ page[a].kind = "group" /\ Accepted(page[a].text, page[a].lang, <<>>)
      /\ UNCHANGED <<accounts, link, made>> /\ page' = [page EXCEPT ![a] = NoPage]
      /\ k \in DOMAIN groups /\ groups' = [groups EXCEPT ![k].members = ms]
  BY <1>0 DEF updateGroup, Received, Editable, Answered, Close, people
<1>2. ms \in Lists
  BY <1>1, GroupForm, FormIs
<1>3. /\ page' = [b \in Account |-> page'[b]]
      /\ \A b \in Account : page'[b] = NoPage \/ PageOK(page'[b])
  BY <1>1, PagesKept
<1> HIDE DEF ms
<1>4. /\ DOMAIN groups' = DOMAIN groups /\ groups' = [g \in DOMAIN groups' |-> groups'[g]]
      /\ groups'[k] = [groups[k] EXCEPT !.members = ms]
      /\ \A g \in DOMAIN groups : g # k => groups'[g] = groups[g]
  BY <1>1 DEF TypeInv
<1>5. \A g \in DOMAIN groups : groups[g] \in [owner : Account \cup {None}, members : Lists]
  BY DEF TypeInv
<1>6. groups'[k] \in [owner : Account \cup {None}, members : Lists]
  BY <1>1, <1>2, <1>4, <1>5
<1>7. \A g \in DOMAIN groups' : groups'[g] \in [owner : Account \cup {None}, members : Lists]
  BY <1>4, <1>5, <1>6
<1> QED BY <1>1, <1>3, <1>4, <1>7 DEF TypeInv

LEMMA DeleteGroupTypes ==
  ASSUME TypeInv, NEW a \in Account, deleteGroup(a)
  PROVE  TypeInv'
<1>0. PICK k : k = page[a].group
  OBVIOUS
<1>1. /\ UNCHANGED <<accounts, link, made>> /\ page' = [page EXCEPT ![a] = NoPage]
      /\ groups' = [h \in DOMAIN groups \ {k} |-> groups[h]]
  BY <1>0 DEF deleteGroup, Answered, Close, people
<1>2. /\ page' = [b \in Account |-> page'[b]]
      /\ \A b \in Account : page'[b] = NoPage \/ PageOK(page'[b])
  BY <1>1, PagesKept
<1>3. /\ DOMAIN groups' = DOMAIN groups \ {k} /\ groups' = [g \in DOMAIN groups' |-> groups'[g]]
      /\ \A g \in DOMAIN groups' : groups'[g] = groups[g]
  BY <1>1
<1> QED BY <1>1, <1>2, <1>3 DEF TypeInv

\* A form that is in goes on, without its account.
LEMMA DeleteAccountIs ==
  ASSUME TypeInv, NEW a \in Account, DeleteAccount(a)
  PROVE  page' = [page EXCEPT ![a] = IF sent[a] = "no" THEN NoPage ELSE page[a]]
<1>1. CASE sent[a] = "no"
  BY <1>1 DEF DeleteAccount, Close
<1>2. CASE sent[a] # "no"
  BY <1>2 DEF DeleteAccount, TypeInv
<1> QED BY <1>1, <1>2

LEMMA DeleteAccountTypes ==
  ASSUME TypeInv, NEW a \in Account, DeleteAccount(a)
  PROVE  TypeInv'
<1>0. PICK q : q = IF sent[a] = "no" THEN NoPage ELSE page[a]
  OBVIOUS
<1>1. /\ UNCHANGED <<link, made>> /\ accounts' = accounts \ {a}
      /\ groups' = [g \in DOMAIN groups |->
                      [groups[g] EXCEPT !.owner = IF groups[g].owner = a THEN None ELSE groups[g].owner]]
  BY DEF DeleteAccount
<1>2. /\ page' = [b \in Account |-> page'[b]]
      /\ \A b \in Account : page'[b] = NoPage \/ PageOK(page'[b])
  <2>1. q = NoPage \/ PageOK(q)
    <3> HIDE DEF NoPage
    <3> QED BY <1>0 DEF TypeInv
  <2> QED BY <1>0, <2>1, DeleteAccountIs, PagesKept
<1>3. DOMAIN groups' = DOMAIN groups /\ groups' = [g \in DOMAIN groups' |-> groups'[g]]
  BY <1>1
<1>4. \A g \in DOMAIN groups : groups[g] \in [owner : Account \cup {None}, members : Lists]
  BY DEF TypeInv
<1>5. \A g \in DOMAIN groups' : groups'[g] \in [owner : Account \cup {None}, members : Lists]
  BY <1>1, <1>3, <1>4
<1> QED BY <1>1, <1>2, <1>3, <1>5 DEF TypeInv

LEMMA TypeInit == Init => TypeInv
<1> SUFFICES ASSUME Init PROVE TypeInv
  OBVIOUS
<1>1. /\ accounts = Account /\ link = <<>> /\ page = [a \in Account |-> NoPage]
      /\ \/ groups = <<>> /\ made = 0
         \/ /\ \E o \in Account \cup {None}, ms \in Groups0 : groups = <<[owner |-> o, members |-> ms]>>
            /\ made = 1
  BY DEF Init
<1>2. page = [a \in Account |-> page[a]] /\ \A a \in Account : page[a] = NoPage
  <2> HIDE DEF NoPage
  <2> QED BY <1>1
<1>3. CASE groups = <<>> /\ made = 0
  BY <1>1, <1>2, <1>3 DEF TypeInv
<1>4. ASSUME NEW o \in Account \cup {None}, NEW ms \in Groups0,
             groups = <<[owner |-> o, members |-> ms]>>, made = 1
      PROVE  TypeInv
  <2>1. ms \in Lists
    BY GroupsAssumption DEF Lists
  <2>2. DOMAIN groups = 1..1 /\ groups[1] = [owner |-> o, members |-> ms]
    BY <1>4
  <2>3. groups = [g \in DOMAIN groups |-> groups[g]]
    BY <1>4
  <2>4. \A g \in DOMAIN groups : groups[g] \in [owner : Account \cup {None}, members : Lists]
    BY <2>1, <2>2
  <2> QED BY <1>1, <1>2, <1>4, <2>2, <2>3, <2>4 DEF TypeInv
<1> QED BY <1>1, <1>3, <1>4

LEMMA TypeStep == TypeInv /\ [Next]_vars => TypeInv'
<1> SUFFICES ASSUME TypeInv, [Next]_vars PROVE TypeInv'
  OBVIOUS
<1>1. ASSUME NEW a \in Account, NEW d \in Lang, NEW b \in BOOLEAN, OpenCase(a, b, d) PROVE TypeInv'
  <2>1. UNCHANGED <<accounts, groups, made, link>>
    BY <1>1 DEF OpenCase, people
  <2> QED BY <1>1, <2>1, OpenCaseIs, PageStep
<1>2. ASSUME NEW a \in Account, NEW d \in Lang, NEW g \in Group \cup {0}, OpenGroup(a, g, d) PROVE TypeInv'
  <2>1. UNCHANGED <<accounts, groups, made, link>>
    BY <1>2 DEF OpenGroup, people
  <2> QED BY <1>2, <2>1, OpenGroupIs, PageStep
<1>3. ASSUME NEW a \in Account, NEW l \in Typed, Type(a, l) PROVE TypeInv'
  <2>1. UNCHANGED <<accounts, groups, made, link>>
    BY <1>3 DEF Type, people
  <2>2. PICK t \in Seq(Line), m \in Lists : PageOK(page[a]) /\ page' = [page EXCEPT ![a] = Rewritten(page[a], t, m)]
    BY <1>3, <2>1, TypeIs
  <2> QED BY <2>1, <2>2, PageText, PageStep
<1>4. ASSUME NEW a \in Account, NEW i, Strike(a, i) PROVE TypeInv'
  <2>1. UNCHANGED <<accounts, groups, made, link>>
    BY <1>4 DEF Strike, people
  <2>2. PICK t \in Seq(Line), m \in Lists : PageOK(page[a]) /\ page' = [page EXCEPT ![a] = Rewritten(page[a], t, m)]
    BY <1>4, <2>1, StrikeIs
  <2> QED BY <2>1, <2>2, PageText, PageStep
<1>5. ASSUME NEW a \in Account, NEW g \in Group, Pick(a, g) PROVE TypeInv'
  <2>1. UNCHANGED <<accounts, groups, made, link>> /\ g \in Nat
    BY <1>5, GroupsAssumption DEF Pick, Group, people
  <2>2. PICK t \in Seq(Line), m \in Lists :
          /\ PageOK(page[a])
          /\ page' = [page EXCEPT ![a] = IF page[a].script THEN Filled(page[a], t, m) ELSE Chosen(page[a], g)]
    <3> DEFINE tt == page[a].text \o Without(formatRecipients(page[a].known[g]), Present(page[a].text))
               mm == mergeRecipients(page[a].meant \o page[a].known[g])
    <3>1. /\ PageOK(page[a]) /\ tt \in Seq(Line) /\ mm \in Lists
          /\ page' = [page EXCEPT ![a] = IF page[a].script THEN Filled(page[a], tt, mm) ELSE Chosen(page[a], g)]
      BY <1>5, <2>1, PickIs
    <3> HIDE DEF tt, mm
    <3> QED BY <3>1
  <2>3. CASE page[a].script
    BY <2>1, <2>2, <2>3, PageFilled, PageStep
  <2>4. CASE ~page[a].script
    BY <2>1, <2>2, <2>4, PagePicked, PageStep
  <2> QED BY <2>3, <2>4
<1>6. ASSUME NEW a \in Account, Leave(a) PROVE TypeInv'
  <2>1. UNCHANGED <<accounts, groups, made, link>> /\ page' = [page EXCEPT ![a] = NoPage]
    BY <1>6 DEF Leave, Answered, Close, people
  <2> QED BY <2>1, PageStep
<1>7. ASSUME NEW a \in Account, AddPeople(a) \/ createGroup(a) \/ updateGroup(a) \/ deleteGroup(a) PROVE TypeInv'
  BY <1>7, AddPeopleTypes, CreateTypes, UpdateTypes, DeleteGroupTypes
<1>8. ASSUME NEW a \in Account, Send(a) \/ SetUserRole(a) PROVE TypeInv'
  <2>1. UNCHANGED <<accounts, groups, made, link, page>>
    BY <1>8 DEF Send, SetUserRole, people
  <2> QED BY <2>1 DEF TypeInv
<1>9. CASE UNCHANGED vars
  BY <1>9 DEF vars, people, TypeInv
<1> QED BY <1>1, <1>2, <1>3, <1>4, <1>5, <1>6, <1>7, <1>8, <1>9, DeleteAccountTypes DEF Next, Step

\* The groups, the link and what the accounts look at are always what the code takes
\* them for; in particular no list that is stored or picked names anybody twice, and
\* with the script a choice is never left beside the text it was copied into.
THEOREM GroupsTypes == Spec => []TypeInv
BY TypeInit, TypeStep, PTL DEF Spec

-----------------------------------------------------------------------------
(* Who gets access, and who changes a group *)

LEMMA NobodyUnseenStep ==
  ASSUME TypeInv, NEW a \in Account, AddPeople(a)
  PROVE  Emails(link') \ Emails(link) \subseteq Shown(a)
<1> DEFINE p == page[a]
           extra == groupMembers(p.picked)
           list == requireRecipients(p.text, p.lang, extra)
<1>1. CASE link' = link
  BY <1>1
<1>2. CASE link' # link
  <2>1. /\ PageOK(p) /\ Accepted(p.text, p.lang, extra) /\ list \in Lists
        /\ link' = link \o Without(list, Emails(link))
    BY <1>2, LinkGrows
  <2>2. p.text \in Seq(Line) /\ p.lang \in Lang /\ (p.script => p.picked = 0)
    <3> HIDE DEF p
    <3> QED BY <2>1 DEF PageOK
  <2>3. extra \in Lists
    BY GroupMembersIs
  <2>4. p.script => Emails(extra) = {}
    <3>1. 0 \notin DOMAIN groups
      BY DEF TypeInv
    <3>2. p.script => extra = <<>>
      BY <2>2, <3>1 DEF groupMembers
    <3> QED BY <3>2 DEF Emails, ToSet
  <2>5. link \in Seq(Recipient)
    BY DEF TypeInv
  <2>6. Shown(a) = Emails(p.text) \cup IF p.script THEN {} ELSE Emails(extra)
    BY DEF Shown
  <2> HIDE DEF p, extra
  <2>7. \A e : e \in Emails(list) <=> e \in Emails(p.text) \cup Emails(extra)
    BY <2>1, <2>2, <2>3, RequireIs
  <2> HIDE DEF list
  <2>8. Without(list, Emails(link)) \in Seq(Recipient) /\ ToSet(Without(list, Emails(link))) \subseteq ToSet(list)
    BY <2>1, WithoutIs DEF Lists
  <2>9. ToSet(link') = ToSet(link) \cup ToSet(Without(list, Emails(link)))
    BY <2>1, <2>5, <2>8, SetConcat
  <2>10. \A e \in Emails(link') : e \in Emails(link) \/ e \in Emails(list)
    BY <2>8, <2>9 DEF Emails
  <2> QED BY <2>4, <2>6, <2>7, <2>10
<1> QED BY <1>1, <1>2

\* The form for people shows whom it adds: with the script of the page nobody is given
\* access whose address is not in the text, whatever has become of the group that was
\* picked; without it, whom the group holds when the form arrives (admin.js,
\* requireRecipients).
THEOREM NobodyUnseenHolds == Spec => NobodyUnseen
<1>1. TypeInv => [\A a \in Account : AddPeople(a) => Emails(link') \ Emails(link) \subseteq Shown(a)]_vars
  BY NobodyUnseenStep
<1> QED BY <1>1, GroupsTypes, PTL DEF NobodyUnseen

\* What the sender of a form may change, or could as an administrator when its headers
\* arrived, is among what the history has noted; the forms of groups are of groups made.
KeepInv ==
  /\ sent \in [Account -> {"no", "user", "admin"}]
  /\ \A a \in Account : page[a] # NoPage => page[a].group <= made
  /\ \A a \in Account : sent[a] # "no" => MayChange(a) \subseteq could[a]
  /\ \A a \in Account :
       sent[a] = "admin" /\ page[a].kind = "group" /\ page[a].group \in DOMAIN groups => page[a].group \in could[a]

\* A step that touches the form of one account.
LEMMA KeepOne ==
  ASSUME TypeInv, KeepInv, Noted, NEW b \in Account,
         sent' \in [Account -> {"no", "user", "admin"}],
         \A a \in Account : a # b => page'[a] = page[a] /\ sent'[a] = sent[a],
         page'[b] = NoPage \/ page'[b].group <= made',
         made' \in Nat, made <= made',
         \A h \in DOMAIN groups' : h \in DOMAIN groups \/ h > made,
         \/ sent'[b] = "no"
         \/ page'[b] = page[b] /\ sent'[b] = sent[b]
         \/ sent'[b] = "admin" => b \in admins'
  PROVE  KeepInv'
<1> HIDE DEF NoPage
<1>1. \A a \in Account : could'[a] = IF sent'[a] = "no" THEN {} ELSE could[a] \cup MayChange(a)'
  BY DEF Noted
<1>2. \A a \in Account : sent'[a] # "no" => MayChange(a)' \subseteq could'[a]
  BY <1>1
<1>3. made \in Nat /\ \A a \in Account : page[a] # NoPage => page[a].group \in Nat /\ page[a].group <= made
  <2>1. \A a \in Account : page[a] # NoPage => page[a].group \in Nat
    BY DEF TypeInv, PageOK
  <2> QED BY <2>1 DEF TypeInv, KeepInv
<1>4. \A a \in Account : page'[a] # NoPage => page'[a].group <= made'
  <2>1. ASSUME NEW a \in Account, a # b, page'[a] # NoPage PROVE page'[a].group <= made'
    <3>1. page'[a] = page[a] /\ page[a].group \in Nat /\ page[a].group <= made
      BY <1>3, <2>1
    <3> QED BY <1>3, <3>1
  <2> QED BY <2>1
<1>5. ASSUME NEW a \in Account, sent'[a] = "admin", page'[a].kind = "group", page'[a].group \in DOMAIN groups'
      PROVE  page'[a].group \in could'[a]
  <2>1. PICK h : h = page'[a].group
    OBVIOUS
  <2>2. CASE a \in admins'
    <3>1. h \in MayChange(a)'
      BY <1>5, <2>1, <2>2 DEF MayChange
    <3> QED BY <1>2, <1>5, <2>1, <3>1
  <2>3. CASE a \notin admins'
    <3>1. page'[a] = page[a] /\ sent'[a] = sent[a]
      BY <1>5, <2>3
    <3>2. page[a] # NoPage
      BY <1>5, <3>1, GroupForm
    <3>3. h \in DOMAIN groups
      <4>1. ~(h > made)
        BY <1>3, <2>1, <3>1, <3>2
      <4> QED BY <1>5, <2>1, <4>1
    <3>4. h \in could[a]
      BY <1>5, <2>1, <3>1, <3>3 DEF KeepInv
    <3> QED BY <1>1, <1>5, <2>1, <3>4
  <2> QED BY <2>2, <2>3
<1> QED BY <1>2, <1>4, <1>5 DEF KeepInv

LEMMA KeepInit == Init => KeepInv
<1> SUFFICES ASSUME Init PROVE KeepInv
  OBVIOUS
<1>1. \A a \in Account : page[a] = NoPage /\ sent[a] = "no"
  <2> HIDE DEF NoPage
  <2> QED BY DEF Init
<1>2. sent \in [Account -> {"no", "user", "admin"}]
  BY DEF Init
<1> QED BY <1>1, <1>2 DEF KeepInv

\* A step after which the account looks at page q; none makes a group but createGroup.
LEMMA KeepPage ==
  ASSUME TypeInv, KeepInv, Noted, NEW b \in Account, NEW q, q = NoPage \/ q.group <= made,
         page' = [page EXCEPT ![b] = q], UNCHANGED made, DOMAIN groups' \subseteq DOMAIN groups,
         \/ UNCHANGED sent /\ (sent[b] = "no" \/ q = page[b])
         \/ sent' = [sent EXCEPT ![b] = "no"]
  PROVE  KeepInv'
<1>1. DOMAIN page = Account /\ made \in Nat
  BY DEF TypeInv
<1>2. sent \in [Account -> {"no", "user", "admin"}]
  BY DEF KeepInv
<1> HIDE DEF NoPage
<1>3. page'[b] = q /\ \A a \in Account : a # b => page'[a] = page[a]
  BY <1>1
<1>4. /\ sent' \in [Account -> {"no", "user", "admin"}] /\ \A a \in Account : a # b => sent'[a] = sent[a]
      /\ sent'[b] = "no" \/ (q = page[b] /\ sent'[b] = sent[b])
  BY <1>2
<1>5. (q = NoPage \/ q.group <= made') /\ made' \in Nat /\ made <= made'
  BY <1>1
<1> QED BY <1>3, <1>4, <1>5, KeepOne

LEMMA KeepCreate ==
  ASSUME TypeInv, KeepInv, Noted, NEW b \in Account, createGroup(b)
  PROVE  KeepInv'
<1>1. DOMAIN page = Account /\ made \in Nat
  BY DEF TypeInv
<1>2. sent \in [Account -> {"no", "user", "admin"}]
  BY DEF KeepInv
<1>3. /\ page' = [page EXCEPT ![b] = NoPage] /\ sent' = [sent EXCEPT ![b] = "no"] /\ made' = made + 1
      /\ DOMAIN groups' = DOMAIN groups \cup {made'}
  BY DEF createGroup, Answered, Close
<1> HIDE DEF NoPage
<1>4. page'[b] = NoPage /\ \A a \in Account : a # b => page'[a] = page[a]
  BY <1>1, <1>3
<1>5. /\ sent' \in [Account -> {"no", "user", "admin"}] /\ \A a \in Account : a # b => sent'[a] = sent[a]
      /\ sent'[b] = "no"
  BY <1>2, <1>3
<1>6. made' \in Nat /\ made <= made' /\ \A h \in DOMAIN groups' : h \in DOMAIN groups \/ h > made
  BY <1>1, <1>3
<1> QED BY <1>4, <1>5, <1>6, KeepOne

LEMMA KeepSend ==
  ASSUME TypeInv, KeepInv, Noted, NEW b \in Account, Send(b)
  PROVE  KeepInv'
<1>1. sent' = [sent EXCEPT ![b] = RoleOf(b)] /\ UNCHANGED <<page, made, groups, admins>>
  BY DEF Send, people
<1>2. sent \in [Account -> {"no", "user", "admin"}] /\ RoleOf(b) \in {"user", "admin"} /\ made \in Nat
  BY DEF KeepInv, RoleOf, TypeInv
<1>3. /\ sent' \in [Account -> {"no", "user", "admin"}] /\ \A a \in Account : a # b => sent'[a] = sent[a]
      /\ sent'[b] = "admin" => b \in admins'
  BY <1>1, <1>2 DEF RoleOf
<1>4. page'[b] = NoPage \/ page'[b].group <= made'
  <2> HIDE DEF NoPage
  <2> QED BY <1>1 DEF KeepInv
<1>5. \A h \in DOMAIN groups' : h \in DOMAIN groups
  BY <1>1
<1>6. \A a \in Account : page'[a] = page[a]
  BY <1>1
<1>7. made' \in Nat /\ made <= made'
  BY <1>1, <1>2
<1> HIDE DEF NoPage
<1> QED BY <1>3, <1>4, <1>5, <1>6, <1>7, KeepOne

LEMMA KeepPages ==
  ASSUME TypeInv, KeepInv, Noted, NEW b \in Account, NEW d \in Lang,
         (\E x \in BOOLEAN : OpenCase(b, x, d)) \/ (\E g \in Group \cup {0} : OpenGroup(b, g, d))
  PROVE  KeepInv'
<1>1. ASSUME NEW q, q.group <= made, page' = [page EXCEPT ![b] = q],
             UNCHANGED <<made, sent, groups>>, sent[b] = "no"
      PROVE  KeepInv'
  BY <1>1, KeepPage
<1>2. ASSUME NEW x \in BOOLEAN, OpenCase(b, x, d) PROVE KeepInv'
  <2>1. PageOf("case", 0, x, <<>>, d).group = 0
    BY DEF PageOf
  <2>2. /\ page' = [page EXCEPT ![b] = PageOf("case", 0, x, <<>>, d)] /\ sent[b] = "no"
        /\ UNCHANGED <<made, sent, groups>> /\ 0 <= made
    BY <1>2 DEF OpenCase, Looks, TypeInv
  <2> QED BY <1>1, <2>1, <2>2
<1>3. ASSUME NEW g \in Group \cup {0}, OpenGroup(b, g, d) PROVE KeepInv'
  <2>1. PICK t : t = IF g = 0 THEN <<>> ELSE formatRecipients(groups[g].members)
    OBVIOUS
  <2>2. PageOf("group", g, FALSE, t, d).group = g
    BY DEF PageOf
  <2>3. /\ page' = [page EXCEPT ![b] = PageOf("group", g, FALSE, t, d)] /\ sent[b] = "no"
        /\ UNCHANGED <<made, sent, groups>> /\ (g = 0 \/ g \in DOMAIN groups)
    BY <1>3, <2>1 DEF OpenGroup, Looks
  <2>4. g <= made
    BY <2>3 DEF TypeInv
  <2> QED BY <1>1, <2>2, <2>3, <2>4
<1> QED BY <1>2, <1>3

LEMMA KeepText ==
  ASSUME TypeInv, KeepInv, Noted, NEW b \in Account,
         \/ \E l \in Typed : Type(b, l)
         \/ \E i \in 1..(MaxText + Cardinality(Email)) : Strike(b, i)
         \/ \E g \in Group : Pick(b, g)
  PROVE  KeepInv'
<1>1. PICK p : p = page[b]
  OBVIOUS
<1>2. ASSUME NEW q, PageOK(p), q.group = p.group, page' = [page EXCEPT ![b] = q],
             UNCHANGED <<made, sent, groups>>, sent[b] = "no"
      PROVE  KeepInv'
  <2>1. q.group <= made
    BY <1>1, <1>2, NoPageIs DEF KeepInv
  <2> QED BY <1>2, <2>1, KeepPage
<1>3. \A t, m : PageOK(p) => Rewritten(p, t, m).group = p.group
  BY Zenon DEF Rewritten, PageOK
<1>4. \A t, m : PageOK(p) => Filled(p, t, m).group = p.group
  BY Zenon DEF Filled, PageOK
<1>5. \A n : PageOK(p) => Chosen(p, n).group = p.group
  BY Zenon DEF Chosen, PageOK
<1>6. ASSUME NEW l \in Typed, Type(b, l) PROVE KeepInv'
  <2>1. UNCHANGED <<made, sent, groups>> /\ sent[b] = "no"
    BY <1>6 DEF Type, Looks
  <2>2. PICK t, m : PageOK(p) /\ page' = [page EXCEPT ![b] = Rewritten(p, t, m)]
    BY <1>1, <1>6, TypeIs
  <2> QED BY <1>2, <1>3, <2>1, <2>2
<1>7. ASSUME NEW i, Strike(b, i) PROVE KeepInv'
  <2>1. UNCHANGED <<made, sent, groups>> /\ sent[b] = "no"
    BY <1>7 DEF Strike, Looks
  <2>2. PICK t, m : PageOK(p) /\ page' = [page EXCEPT ![b] = Rewritten(p, t, m)]
    BY <1>1, <1>7, StrikeIs
  <2> QED BY <1>2, <1>3, <2>1, <2>2
<1>8. ASSUME NEW g \in Group, Pick(b, g) PROVE KeepInv'
  <2>1. UNCHANGED <<made, sent, groups>> /\ sent[b] = "no"
    BY <1>8 DEF Pick, Looks
  <2>2. PICK t, m : PageOK(p) /\ page' = [page EXCEPT ![b] = IF p.script THEN Filled(p, t, m) ELSE Chosen(p, g)]
    BY <1>1, <1>8, PickIs
  <2>3. CASE p.script
    BY <1>2, <1>4, <2>1, <2>2, <2>3
  <2>4. CASE ~p.script
    BY <1>2, <1>5, <2>1, <2>2, <2>4
  <2> QED BY <2>3, <2>4
<1> QED BY <1>6, <1>7, <1>8

LEMMA KeepStep == TypeInv /\ KeepInv /\ [Next]_vars => KeepInv'
<1> SUFFICES ASSUME TypeInv, KeepInv, [Next]_vars PROVE KeepInv'
  OBVIOUS
<1>1. CASE UNCHANGED vars
  BY <1>1 DEF vars, people, KeepInv, MayChange
<1>2. ASSUME Noted, NEW b \in Account,
             Leave(b) \/ AddPeople(b) \/ updateGroup(b) \/ deleteGroup(b)
      PROVE  KeepInv'
  <2>1. page' = [page EXCEPT ![b] = NoPage] /\ UNCHANGED made /\ sent' = [sent EXCEPT ![b] = "no"]
    BY <1>2 DEF Leave, AddPeople, updateGroup, deleteGroup, Answered, Close
  <2>2. DOMAIN groups' \subseteq DOMAIN groups
    <3>1. CASE Leave(b) \/ AddPeople(b)
      BY <3>1 DEF Leave, AddPeople
    <3>2. CASE updateGroup(b)
      BY <3>2 DEF updateGroup
    <3>3. CASE deleteGroup(b)
      BY <3>3 DEF deleteGroup
    <3> QED BY <1>2, <3>1, <3>2, <3>3
  <2> QED BY <1>2, <2>1, <2>2, KeepPage
<1>3. ASSUME Noted, NEW b \in Account, DeleteAccount(b) PROVE KeepInv'
  <2>1. UNCHANGED <<made, sent>> /\ DOMAIN groups' \subseteq DOMAIN groups
    BY <1>3 DEF DeleteAccount
  <2>2. PICK q : q = IF sent[b] = "no" THEN NoPage ELSE page[b]
    OBVIOUS
  <2>3. (q = NoPage \/ q.group <= made) /\ (sent[b] = "no" \/ q = page[b])
    <3> HIDE DEF NoPage
    <3> QED BY <2>2 DEF KeepInv
  <2>4. page' = [page EXCEPT ![b] = q]
    BY <1>3, <2>2, DeleteAccountIs
  <2> QED BY <1>3, <2>1, <2>3, <2>4, KeepPage
<1>4. ASSUME Noted, NEW b \in Account, SetUserRole(b) PROVE KeepInv'
  <2>1. UNCHANGED <<made, sent, groups, page>> /\ page = [page EXCEPT ![b] = page[b]]
    BY <1>4 DEF SetUserRole, TypeInv
  <2>2. page[b] = NoPage \/ page[b].group <= made
    <3> HIDE DEF NoPage
    <3> QED BY DEF KeepInv
  <2> QED BY <1>4, <2>1, <2>2, KeepPage
<1> QED BY <1>1, <1>2, <1>3, <1>4, KeepCreate, KeepSend, KeepPages, KeepText DEF Next, Step

LEMMA KeepersStep ==
  ASSUME TypeInv, KeepInv, Next, NEW g \in DOMAIN groups, Changed(g)
  PROVE  \E a \in Account : sent[a] # "no" /\ sent'[a] = "no" /\ g \in could[a]
<1>1. ASSUME UNCHANGED groups PROVE FALSE
  BY <1>1 DEF Changed
<1>2. ASSUME NEW a \in Account, updateGroup(a) \/ deleteGroup(a)
      PROVE  \E b \in Account : sent[b] # "no" /\ sent'[b] = "no" /\ g \in could[b]
  <2>1. PICK k : k = page[a].group
    OBVIOUS
  <2>2. /\ page[a].kind = "group" /\ k \in DOMAIN groups /\ sent[a] # "no"
        /\ sent[a] = "admin" \/ groups[k].owner = a
        /\ sent' = [sent EXCEPT ![a] = "no"]
    BY <1>2, <2>1 DEF updateGroup, deleteGroup, Received, Editable, canEditGroup, Answered
  <2>3. g = k
    <3>1. CASE updateGroup(a)
      <4>1. groups' = [groups EXCEPT ![k].members = parseRecipients(page[a].text, page[a].lang)]
        BY <2>1, <3>1 DEF updateGroup
      <4>2. g # k => g \in DOMAIN groups' /\ groups'[g] = groups[g]
        BY <4>1
      <4> QED BY <4>2 DEF Changed
    <3>2. CASE deleteGroup(a)
      <4>1. groups' = [h \in DOMAIN groups \ {k} |-> groups[h]]
        BY <2>1, <3>2 DEF deleteGroup
      <4>2. g # k => g \in DOMAIN groups' /\ groups'[g] = groups[g]
        BY <4>1
      <4> QED BY <4>2 DEF Changed
    <3> QED BY <1>2, <3>1, <3>2
  <2>4. g \in could[a]
    <3>1. CASE sent[a] = "admin"
      BY <2>1, <2>2, <2>3, <3>1 DEF KeepInv
    <3>2. CASE groups[k].owner = a
      <4>1. g \in MayChange(a)
        BY <2>3, <3>2 DEF MayChange
      <4> QED BY <2>2, <4>1 DEF KeepInv
    <3> QED BY <2>2, <3>1, <3>2
  <2>5. sent'[a] = "no"
    BY <2>2 DEF KeepInv
  <2> QED BY <2>2, <2>4, <2>5
<1>3. ASSUME NEW a \in Account, createGroup(a) PROVE FALSE
  <2>1. /\ made' = made + 1
        /\ groups' = [h \in DOMAIN groups \cup {made'} |->
             IF h = made' THEN [owner |-> a, members |-> parseRecipients(page[a].text, page[a].lang)] ELSE groups[h]]
    BY <1>3 DEF createGroup
  <2>2. g # made' /\ made \in Nat
    BY <2>1 DEF TypeInv
  <2>3. g \in DOMAIN groups' /\ groups'[g] = groups[g]
    BY <2>1, <2>2
  <2> QED BY <2>3 DEF Changed
<1>4. ASSUME NEW a \in Account, DeleteAccount(a) PROVE FALSE
  <2>1. groups' = [h \in DOMAIN groups |->
                     [groups[h] EXCEPT !.owner = IF groups[h].owner = a THEN None ELSE groups[h].owner]]
    BY <1>4 DEF DeleteAccount
  <2>2. groups[g] \in [owner : Account \cup {None}, members : Lists]
    BY DEF TypeInv
  <2>3. g \in DOMAIN groups' /\ groups'[g].members = groups[g].members
    BY <2>1, <2>2
  <2> QED BY <2>3 DEF Changed
<1> QED
  BY <1>1, <1>2, <1>3, <1>4
  DEF Next, Step, OpenCase, OpenGroup, Type, Strike, Pick, Send, Leave, AddPeople, SetUserRole

\* A form changes or deletes a group only if its sender, as its creator or as an
\* administrator, might do so at some time between the headers of the form and the
\* handler, whatever became in between of the role, the account and the creator
\* (canEditGroup of req.session.admin on every group route, 006_group_owner.sql).
THEOREM KeepersOnlyHolds == Spec => KeepersOnly
<1>1. Spec => []KeepInv
  BY GroupsTypes, KeepInit, KeepStep, PTL DEF Spec
<1>2. TypeInv /\ KeepInv /\ [Next]_vars =>
        [\A g \in DOMAIN groups : Changed(g) =>
           \E a \in Account : sent[a] # "no" /\ sent'[a] = "no" /\ g \in could[a]]_vars
  BY KeepersStep
<1> QED BY <1>1, <1>2, GroupsTypes, PTL DEF KeepersOnly, Spec

LEMMA SavedStep ==
  ASSUME TypeInv, NEW a \in Account, updateGroup(a),
         page[a].text = formatRecipients(page[a].known[page[a].group])
  PROVE  groups'[page[a].group].members = page[a].known[page[a].group]
<1>1. PICK k : k = page[a].group
  OBVIOUS
<1>2. PICK K : K = page[a].known[k]
  OBVIOUS
<1>3. PICK d : d = page[a].lang
  OBVIOUS
<1>4. /\ page[a].kind = "group" /\ k \in DOMAIN groups
      /\ groups' = [groups EXCEPT ![k].members = parseRecipients(formatRecipients(K), d)]
  BY <1>1, <1>2, <1>3 DEF updateGroup, Received, Editable
<1>5. PageOK(page[a]) /\ d \in Lang /\ k # 0
  <2>1. k \in 1..made /\ made \in Nat
    BY <1>4 DEF TypeInv
  <2>2. page[a] # NoPage
    BY <1>4, GroupForm
  <2> QED BY <1>3, <2>1, <2>2, PageIs
<1>6. K \in Lists
  BY <1>1, <1>2, <1>4, <1>5 DEF PageOK
<1>7. parseRecipients(formatRecipients(K), d) = K
  <2>1. /\ DOMAIN formatRecipients(K) = DOMAIN K
        /\ \A i \in DOMAIN K : Read(formatRecipients(K)[i], d) = K[i]
    BY <1>5, <1>6, FormatIs DEF Lists
  <2>2. [i \in DOMAIN formatRecipients(K) |-> Read(formatRecipients(K)[i], d)] = K
    BY <1>6, <2>1 DEF Lists
  <2> QED BY <1>6, <2>2, MergeSame DEF Lists, parseRecipients
<1>8. groups'[k].members = K
  <2>1. groups[k] \in [owner : Account \cup {None}, members : Lists]
    BY <1>4 DEF TypeInv
  <2> QED BY <1>4, <1>7, <2>1
<1> QED BY <1>1, <1>2, <1>8

\* A group whose form is saved as it was shown has the members it was shown with, also
\* when the form is sent in another language (formatRecipients, parseRecipients).
THEOREM SavedAsShownHolds == Spec => SavedAsShown
<1>1. TypeInv =>
        [\A a \in Account :
           /\ updateGroup(a)
           /\ page[a].text = formatRecipients(page[a].known[page[a].group])
           => groups'[page[a].group].members = page[a].known[page[a].group]]_vars
  BY SavedStep
<1> QED BY <1>1, GroupsTypes, PTL DEF SavedAsShown

-----------------------------------------------------------------------------
(* Whom the text means *)

\* A page to which lines t are added, for the people m.
LEMMA FollowedMore ==
  ASSUME NEW p, NEW q, PageOK(p), PageOK(q), NEW t \in Seq(Line), NEW m \in Seq(Recipient), Followed(p),
         q.script <=> p.script, q.lang = p.lang, q.text = p.text \o t, q.meant = Union(p.meant, m),
         \A l \in ToSet(t) : l.lang # "?" => l.email \in Emails(m),
         \A e \in Emails(m) : e \notin Emails(p.meant) =>
           \/ Overlooked(p, e)
           \/ \E x \in LinesOf(e) : Lead(t, x, LinesOf(e)) /\ Lead(m, Read(x, p.lang), By(e))
  PROVE  Followed(q)
<1>1. p.text \in Seq(Line) /\ p.meant \in Seq(Recipient) /\ p.lang \in Lang
  BY DEF PageOK, Lists
<1>2. /\ \A l \in ToSet(p.text) : l.lang # "?" => l.email \in Emails(p.meant)
      /\ \A e \in Emails(p.meant) :
           \/ Overlooked(p, e)
           \/ \E x \in LinesOf(e) : Lead(p.text, x, LinesOf(e)) /\ Lead(p.meant, Read(x, p.lang), By(e))
  BY DEF Followed
<1>3. ToSet(q.text) = ToSet(p.text) \cup ToSet(t)
  BY <1>1, SetConcat
<1>4. \A e : e \in Emails(q.meant) <=> e \in Emails(p.meant) \cup Emails(m)
  BY <1>1, UnionIs
<1>5. \A l \in ToSet(q.text) : l.lang # "?" => l.email \in Emails(q.meant)
  BY <1>2, <1>3, <1>4
<1>6. \A e : Overlooked(p, e) => Overlooked(q, e)
  BY <1>3, Zenon DEF Overlooked
<1>7. ASSUME NEW e \in Emails(q.meant), ~Overlooked(q, e)
      PROVE  \E x \in LinesOf(e) : Lead(q.text, x, LinesOf(e)) /\ Lead(q.meant, Read(x, q.lang), By(e))
  <2>1. CASE e \in Emails(p.meant)
    <3>1. PICK x \in LinesOf(e) : Lead(p.text, x, LinesOf(e)) /\ Lead(p.meant, Read(x, p.lang), By(e))
      BY <1>2, <1>6, <1>7, <2>1
    <3>2. Lead(q.text, x, LinesOf(e))
      BY <1>1, <3>1, LeadConcat
    <3>3. Lead(p.meant \o m, Read(x, p.lang), By(e))
      BY <1>1, <3>1, LeadConcat
    <3> QED BY <1>1, <3>2, <3>3, UnionIs
  <2>2. CASE e \notin Emails(p.meant)
    <3>1. e \in Emails(m)
      BY <1>4, <1>7, <2>2
    <3>2. PICK x \in LinesOf(e) : Lead(t, x, LinesOf(e)) /\ Lead(m, Read(x, p.lang), By(e))
      BY <1>6, <1>7, <2>2, <3>1
    <3>3. ToSet(p.text) \cap LinesOf(e) = {}
      BY <1>2, <2>2 DEF LinesOf
    <3>4. ToSet(p.meant) \cap By(e) = {}
      BY <1>1, <2>2, EmailsAre
    <3>5. Lead(q.text, x, LinesOf(e))
      BY <1>1, <3>2, <3>3, LeadConcat
    <3>6. Lead(p.meant \o m, Read(x, p.lang), By(e))
      BY <1>1, <3>2, <3>4, LeadConcat
    <3> QED BY <1>1, <3>5, <3>6, UnionIs
  <2> QED BY <2>1, <2>2
<1> QED BY <1>5, <1>7 DEF Followed

\* A list of one.
LEMMA OneIs ==
  ASSUME NEW S, NEW y \in S
  PROVE  /\ <<y>> \in Seq(S) /\ ToSet(<<y>>) = {y}
         /\ \A X : y \in X => Lead(<<y>>, y, X)
<1>1. Len(<<y>>) = 1 /\ DOMAIN <<y>> = 1..1 /\ <<y>>[1] = y /\ <<y>> \in Seq(S)
  OBVIOUS
<1>2. ToSet(<<y>>) = {y}
  BY <1>1 DEF ToSet
<1>3. \A X : y \in X => Lead(<<y>>, y, X)
  BY <1>1 DEF Lead, Leads
<1> QED BY <1>1, <1>2, <1>3

LEMMA AppendOne ==
  ASSUME NEW S, NEW s \in Seq(S), NEW y \in S
  PROVE  Append(s, y) = s \o <<y>>
OBVIOUS

LEMMA FollowedTyped ==
  ASSUME NEW p, NEW q, PageOK(p), PageOK(q), Followed(p), NEW l \in Line,
         q.script <=> p.script, q.lang = p.lang, q.text = Append(p.text, l),
         q.meant = IF l.lang = "?" THEN p.meant ELSE mergeRecipients(Append(p.meant, Read(l, p.lang)))
  PROVE  Followed(q)
<1>1. p.text \in Seq(Line) /\ p.meant \in Lists /\ p.lang \in Lang
  BY DEF PageOK
<1>2. <<l>> \in Seq(Line) /\ ToSet(<<l>>) = {l} /\ \A X : l \in X => Lead(<<l>>, l, X)
  BY OneIs
<1>3. q.text = p.text \o <<l>>
  BY <1>1, AppendOne
<1>4. CASE l.lang = "?"
  <2> DEFINE m == <<>>
  <2>1. m \in Seq(Recipient) /\ Emails(m) = {}
    BY DEF Emails, ToSet
  <2>2. q.meant = Union(p.meant, m)
    <3>1. p.meant \o <<>> = p.meant
      BY <1>1 DEF Lists
    <3> QED BY <1>1, <1>4, <3>1, MergeSame DEF Union, Lists
  <2>3. \A k \in ToSet(<<l>>) : k.lang # "?" => k.email \in Emails(m)
    BY <1>2, <1>4
  <2> HIDE DEF m
  <2> DEFINE t == <<l>>
  <2>4. t \in Seq(Line) /\ q.text = p.text \o t /\ \A k \in ToSet(t) : k.lang # "?" => k.email \in Emails(m)
    BY <1>2, <1>3, <2>3
  <2> HIDE DEF t
  <2> QED BY <2>1, <2>2, <2>4, FollowedMore
<1>5. CASE l.lang # "?"
  <2> DEFINE r == Read(l, p.lang)
             m == <<r>>
             t == <<l>>
  <2>1. r \in Recipient /\ r.email = l.email
    BY <1>1, <1>5, ReadTyped
  <2> HIDE DEF r
  <2>2. m \in Seq(Recipient) /\ ToSet(m) = {r} /\ \A X : r \in X => Lead(m, r, X)
    BY <2>1, OneIs
  <2>3. q.meant = Union(p.meant, m)
    <3>1. Append(p.meant, r) = p.meant \o <<r>>
      BY <1>1, <2>1, AppendOne DEF Lists
    <3> QED BY <1>5, <3>1 DEF Union, r
  <2>4. t \in Seq(Line) /\ q.text = p.text \o t /\ ToSet(t) = {l} /\ \A X : l \in X => Lead(t, l, X)
    BY <1>2, <1>3
  <2> HIDE DEF m, t
  <2>5. Emails(m) = {l.email}
    BY <2>1, <2>2 DEF Emails
  <2>6. l \in LinesOf(l.email) /\ r \in By(l.email)
    BY <1>5, <2>1 DEF LinesOf, By
  <2>7. \A e \in Emails(m) : \E x \in LinesOf(e) : Lead(t, x, LinesOf(e)) /\ Lead(m, Read(x, p.lang), By(e))
    BY <2>2, <2>4, <2>5, <2>6 DEF r
  <2>8. \A k \in ToSet(t) : k.lang # "?" => k.email \in Emails(m)
    BY <2>4, <2>5
  <2> QED BY <2>2, <2>3, <2>4, <2>7, <2>8, FollowedMore
<1> QED BY <1>4, <1>5

LEMMA FollowedStruck ==
  ASSUME NEW q, NEW t \in Seq(Line), NEW d \in Lang,
         q.text = t, q.lang = d, q.meant = parseRecipients(Readable(t), d)
  PROVE  Followed(q)
<1> DEFINE s == Readable(t)
<1>1. /\ s \in Seq(Line) /\ ToSet(s) = {l \in ToSet(t) : l.lang # "?"}
      /\ \A x, e : Lead(s, x, LinesOf(e)) <=> Lead(t, x, LinesOf(e))
  BY ReadableIs
<1> HIDE DEF s
<1>2. /\ \A e : e \in Emails(parseRecipients(s, d)) <=> e \in Emails(s)
      /\ \A x, e : Lead(s, x, LinesOf(e)) => Lead(parseRecipients(s, d), Read(x, d), By(e))
  BY <1>1, ParseIs
<1>3. q.meant = parseRecipients(s, d)
  BY DEF s
<1>4. \A l \in ToSet(q.text) : l.lang # "?" => l.email \in Emails(q.meant)
  BY <1>1, <1>2, <1>3 DEF Emails
<1>5. ASSUME NEW e \in Emails(q.meant)
      PROVE  \E x \in LinesOf(e) : Lead(q.text, x, LinesOf(e)) /\ Lead(q.meant, Read(x, q.lang), By(e))
  <2>1. PICK l \in ToSet(s) : l.email = e
    BY <1>2, <1>3, <1>5 DEF Emails
  <2>2. l \in LinesOf(e)
    <3>1. l \in Line
      BY <1>1, <2>1, SetIsTaken
    <3> QED BY <1>1, <2>1, <3>1 DEF LinesOf
  <2>3. PICK x \in LinesOf(e) : Lead(s, x, LinesOf(e))
    <3>1. ToSet(s) \cap LinesOf(e) # {}
      BY <2>1, <2>2
    <3> QED BY <1>1, <3>1, LeadThere
  <2> QED BY <1>1, <1>2, <1>3, <2>3
<1> QED BY <1>4, <1>5 DEF Followed

LEMMA FormatLead ==
  ASSUME NEW s \in Seq(Recipient), NEW d \in Lang, NEW e, NEW r, Lead(s, r, By(e))
  PROVE  \E x \in LinesOf(e) : Lead(formatRecipients(s), x, LinesOf(e)) /\ Read(x, d) = r
<1> DEFINE f == formatRecipients(s)
<1>1. /\ f \in Seq(Line) /\ Len(f) = Len(s) /\ Len(s) \in Nat /\ DOMAIN s = 1..Len(s)
      /\ \A i \in DOMAIN s : f[i].email = s[i].email /\ f[i].lang # "?" /\ Read(f[i], d) = s[i]
  BY FormatIs
<1> HIDE DEF f
<1>2. PICK i \in 1..Len(s) : s[i] = r /\ r \in By(e) /\ \A j \in 1..(i - 1) : s[j] \notin By(e)
  BY DEF Lead, Leads
<1>3. \A j \in 1..Len(s) : f[j] \in Line /\ s[j] \in Recipient
  BY <1>1
<1>4. \A j \in 1..Len(s) : f[j] \in LinesOf(e) <=> s[j] \in By(e)
  BY <1>1, <1>3 DEF LinesOf, By
<1>5. \A j \in 1..(i - 1) : j \in 1..Len(s)
  BY <1>1
<1>6. f[i] \in LinesOf(e) /\ Read(f[i], d) = r /\ \A j \in 1..(i - 1) : f[j] \notin LinesOf(e)
  BY <1>1, <1>2, <1>4, <1>5
<1>7. Lead(f, f[i], LinesOf(e))
  BY <1>1, <1>6 DEF Lead, Leads
<1> QED BY <1>6, <1>7 DEF f

LEMMA FollowedPicked ==
  ASSUME NEW p, NEW q, PageOK(p), PageOK(q), Followed(p), NEW K \in Lists,
         p.script, q.script <=> p.script, q.lang = p.lang,
         q.text = p.text \o Without(formatRecipients(K), Present(p.text)),
         q.meant = mergeRecipients(p.meant \o K)
  PROVE  Followed(q)
<1> DEFINE f == formatRecipients(K)
           t == Without(f, Present(p.text))
<1>1. p.text \in Seq(Line) /\ p.meant \in Lists /\ p.lang \in Lang /\ K \in Seq(Recipient)
  BY DEF PageOK, Lists
<1>2. /\ f \in Seq(Line) /\ Len(f) = Len(K) /\ Len(K) \in Nat /\ DOMAIN K = 1..Len(K)
      /\ \A i \in DOMAIN K : f[i].email = K[i].email
  BY <1>1, FormatIs
<1>3. \A l \in ToSet(f) : l.email \in Emails(K)
  <2>1. ToSet(f) = Taken(f, Len(K)) /\ ToSet(K) = Taken(K, Len(K))
    BY <1>1, <1>2, SetIsTaken
  <2> HIDE DEF f
  <2> QED BY <1>2, <2>1 DEF Emails, Taken
<1> HIDE DEF f
<1>4. /\ t \in Seq(Line) /\ ToSet(t) = {l \in ToSet(f) : l.email \notin Present(p.text)}
      /\ \A x, X : Lead(t, x, X) <=> Lead(f, x, X \cap {l \in ToSet(f) : l.email \notin Present(p.text)})
  BY <1>2, WithoutIs
<1>5. q.text = p.text \o t /\ q.meant = Union(p.meant, K)
  BY DEF f, Union
<1> HIDE DEF t
<1>6. \A l \in ToSet(t) : l.lang # "?" => l.email \in Emails(K)
  BY <1>3, <1>4
<1>7. ASSUME NEW e \in Emails(K), e \notin Emails(p.meant)
      PROVE  \/ Overlooked(p, e)
             \/ \E x \in LinesOf(e) : Lead(t, x, LinesOf(e)) /\ Lead(K, Read(x, p.lang), By(e))
  <2>1. CASE e \in Present(p.text)
    <3>1. PICK l \in ToSet(p.text) : e = l.email \/ e \in l.aside
      BY <2>1 DEF Present
    <3>2. l.lang # "?" => l.email \in Emails(p.meant)
      BY <3>1 DEF Followed
    <3>3. e \in l.aside \/ (l.email = e /\ l.lang = "?")
      BY <1>7, <3>1, <3>2
    <3> QED BY <3>1, <3>3, Zenon DEF Overlooked
  <2>2. CASE e \notin Present(p.text)
    <3>1. PICK r \in By(e) : Lead(K, r, By(e))
      <4>1. ToSet(K) \cap By(e) # {}
        BY <1>1, <1>7, EmailsAre
      <4> QED BY <1>1, <4>1, LeadThere
    <3>2. PICK x \in LinesOf(e) : Lead(f, x, LinesOf(e)) /\ Read(x, p.lang) = r
      BY <1>1, <3>1, FormatLead DEF f
    <3>3. LinesOf(e) \cap ToSet(f)
            = (LinesOf(e) \cap {l \in ToSet(f) : l.email \notin Present(p.text)}) \cap ToSet(f)
      BY <2>2 DEF LinesOf
    <3>4. Lead(f, x, LinesOf(e) \cap {l \in ToSet(f) : l.email \notin Present(p.text)})
      BY <1>2, <3>2, <3>3, LeadOwn
    <3> QED BY <1>4, <3>1, <3>2, <3>4
  <2> QED BY <2>1, <2>2
<1> QED BY <1>1, <1>4, <1>5, <1>6, <1>7, FollowedMore

LEMMA TextOne ==
  ASSUME TypeInv, TextInv, NEW a \in Account, NEW q, q = NoPage \/ PageOK(q),
         q # NoPage /\ q.kind = "case" => Followed(q), page' = [page EXCEPT ![a] = q]
  PROVE  TextInv'
<1>1. /\ page'[a] = q
      /\ \A b \in Account : b # a => page'[b] = page[b]
  BY PagesKept
<1>2. \A b \in Account : page[b] # NoPage /\ page[b].kind = "case" => Followed(page[b])
  BY DEF TextInv
<1>3. \A b \in Account : page'[b] # NoPage /\ page'[b].kind = "case" => Followed(page'[b])
  <2> HIDE DEF NoPage
  <2> QED BY <1>1, <1>2
<1> QED BY <1>3 DEF TextInv

LEMMA FollowedNew ==
  ASSUME NEW q, q.text = <<>>, q.meant = <<>>
  PROVE  Followed(q)
<1>1. ToSet(q.text) = {} /\ Emails(q.meant) = {}
  BY DEF Emails, ToSet
<1> QED BY <1>1 DEF Followed

LEMMA TextPick ==
  ASSUME TypeInv, TextInv, NEW a \in Account, NEW g \in Group, Pick(a, g)
  PROVE  TextInv'
<1>1. PICK p : p = page[a]
  OBVIOUS
<1>2. PICK K : K = p.known[g]
  OBVIOUS
<1> DEFINE t == p.text \o Without(formatRecipients(K), Present(p.text))
           m == mergeRecipients(p.meant \o K)
<1>3. /\ PageOK(p) /\ p.kind = "case" /\ K \in Lists /\ t \in Seq(Line) /\ m \in Lists
      /\ page' = [page EXCEPT ![a] = IF p.script THEN Filled(p, t, m) ELSE Chosen(p, g)]
  BY <1>1, <1>2, PickIs
<1>4. p # NoPage /\ Followed(p)
  BY <1>1, <1>3, NoPageIs DEF TextInv
<1>5. g \in Nat
  BY GroupsAssumption DEF Group
<1>6. CASE p.script
  <2> DEFINE q == Filled(p, t, m)
  <2>1. PageOK(q) /\ q.text = t /\ q.meant = m /\ (q.script <=> p.script) /\ q.lang = p.lang
    <3> HIDE DEF t, m
    <3> QED BY <1>3, PageFilled
  <2>2. page' = [page EXCEPT ![a] = q]
    BY <1>3, <1>6
  <2> HIDE DEF q
  <2>3. Followed(q)
    BY <1>3, <1>4, <1>6, <2>1, FollowedPicked
  <2> QED BY <2>1, <2>2, <2>3, TextOne
<1>7. CASE ~p.script
  <2> DEFINE q == Chosen(p, g)
  <2>1. PageOK(q) /\ q.text = p.text /\ q.meant = p.meant /\ (q.script <=> p.script) /\ q.lang = p.lang
    BY <1>3, <1>5, <1>7, PagePicked
  <2>2. page' = [page EXCEPT ![a] = q]
    BY <1>3, <1>7
  <2> HIDE DEF q
  <2>3. Followed(q)
    <3>1. \A e : Overlooked(p, e) => Overlooked(q, e)
      BY <2>1, Zenon DEF Overlooked
    <3> QED BY <1>4, <2>1, <3>1 DEF Followed
  <2> QED BY <2>1, <2>2, <2>3, TextOne
<1> QED BY <1>6, <1>7

LEMMA TextType ==
  ASSUME TypeInv, TextInv, NEW a \in Account, NEW l \in Typed, Type(a, l)
  PROVE  TextInv'
<1>1. PICK p : p = page[a]
  OBVIOUS
<1> DEFINE t == Append(p.text, l)
           m == IF l.lang = "?" \/ p.kind = "group" THEN p.meant
                ELSE mergeRecipients(Append(p.meant, Read(l, p.lang)))
           q == Rewritten(p, t, m)
<1>2. PageOK(p) /\ l \in Line /\ m \in Lists /\ t \in Seq(Line) /\ page' = [page EXCEPT ![a] = q]
  BY <1>1, TypeIs
<1>3. PageOK(q) /\ q.text = t /\ q.meant = m /\ q.kind = p.kind /\ (q.script <=> p.script) /\ q.lang = p.lang
  <2> HIDE DEF t, m
  <2> QED BY <1>2, PageText
<1> HIDE DEF q
<1>4. q.kind = "case" => Followed(q)
  <2> SUFFICES ASSUME q.kind = "case" PROVE Followed(q)
    OBVIOUS
  <2>1. p # NoPage /\ Followed(p)
    BY <1>1, <1>2, <1>3, NoPageIs DEF TextInv
  <2>2. q.meant = IF l.lang = "?" THEN p.meant ELSE mergeRecipients(Append(p.meant, Read(l, p.lang)))
    BY <1>3
  <2> QED BY <1>2, <1>3, <2>1, <2>2, FollowedTyped
<1> QED BY <1>2, <1>3, <1>4, TextOne

LEMMA TextStrike ==
  ASSUME TypeInv, TextInv, NEW a \in Account, NEW i, Strike(a, i)
  PROVE  TextInv'
<1>1. PICK p : p = page[a]
  OBVIOUS
<1> DEFINE t == RemoveAt(p.text, i)
           m == IF p.kind = "group" THEN p.meant ELSE parseRecipients(Readable(t), p.lang)
           q == Rewritten(p, t, m)
<1>2. PageOK(p) /\ m \in Lists /\ t \in Seq(Line) /\ page' = [page EXCEPT ![a] = q]
  BY <1>1, StrikeIs
<1>3. PageOK(q) /\ q.text = t /\ q.meant = m /\ q.kind = p.kind /\ q.lang = p.lang
  <2> HIDE DEF t, m
  <2> QED BY <1>2, PageText
<1> HIDE DEF q
<1>4. q.kind = "case" => Followed(q)
  <2> SUFFICES ASSUME q.kind = "case" PROVE Followed(q)
    OBVIOUS
  <2>1. q.meant = parseRecipients(Readable(t), p.lang) /\ p.lang \in Lang
    BY <1>2, <1>3 DEF PageOK
  <2> HIDE DEF t, m
  <2> QED BY <1>2, <1>3, <2>1, FollowedStruck
<1> QED BY <1>2, <1>3, <1>4, TextOne

LEMMA TextStep == TypeInv /\ TextInv /\ [Next]_vars => TextInv'
<1> SUFFICES ASSUME TypeInv, TextInv, [Next]_vars PROVE TextInv'
  OBVIOUS
<1>1. ASSUME NEW a \in Account, NEW d \in Lang, NEW b \in BOOLEAN, OpenCase(a, b, d) PROVE TextInv'
  <2> DEFINE q == PageOf("case", 0, b, <<>>, d)
  <2>1. PageOK(q) /\ q.text = <<>> /\ q.meant = <<>> /\ page' = [page EXCEPT ![a] = q]
    BY <1>1, OpenCaseIs
  <2> HIDE DEF q
  <2> QED BY <2>1, FollowedNew, TextOne
<1>2. ASSUME NEW a \in Account, NEW d \in Lang, NEW g \in Group \cup {0}, OpenGroup(a, g, d) PROVE TextInv'
  <2> DEFINE t == IF g = 0 THEN <<>> ELSE formatRecipients(groups[g].members)
             q == PageOf("group", g, FALSE, t, d)
  <2>1. PageOK(q) /\ q.kind = "group" /\ page' = [page EXCEPT ![a] = q]
    BY <1>2, OpenGroupIs
  <2> HIDE DEF q
  <2> QED BY <2>1, TextOne
<1>3. ASSUME NEW a \in Account,
             AddPeople(a) \/ createGroup(a) \/ updateGroup(a) \/ deleteGroup(a) \/ Leave(a)
      PROVE  TextInv'
  <2>1. page' = [page EXCEPT ![a] = NoPage]
    BY <1>3 DEF AddPeople, createGroup, updateGroup, deleteGroup, Leave, Answered, Close
  <2> QED BY <2>1, TextOne
<1>4. ASSUME NEW a \in Account, DeleteAccount(a) PROVE TextInv'
  <2>1. PICK q : q = IF sent[a] = "no" THEN NoPage ELSE page[a]
    OBVIOUS
  <2>2. (q = NoPage \/ PageOK(q)) /\ (q # NoPage /\ q.kind = "case" => Followed(q))
    <3> HIDE DEF NoPage
    <3> QED BY <2>1 DEF TypeInv, TextInv
  <2> QED BY <1>4, <2>1, <2>2, DeleteAccountIs, TextOne
<1>5. ASSUME NEW a \in Account, Send(a) \/ SetUserRole(a) PROVE TextInv'
  <2>1. UNCHANGED page
    BY <1>5 DEF Send, SetUserRole
  <2> QED BY <2>1 DEF TextInv
<1>6. CASE UNCHANGED vars
  BY <1>6 DEF vars, TextInv
<1> QED BY <1>1, <1>2, <1>3, <1>4, <1>5, <1>6, TextType, TextStrike, TextPick DEF Next, Step

LEMMA TextInit == Init => TextInv
<1> SUFFICES ASSUME Init PROVE TextInv
  OBVIOUS
<1>1. \A a \in Account : page[a] = NoPage
  <2> HIDE DEF NoPage
  <2> QED BY DEF Init
<1> QED BY <1>1 DEF TextInv

\* Those who are meant are on the list, in the language they are meant in.
LEMMA NobodyDroppedStep ==
  ASSUME TypeInv, TextInv, NEW a \in Account, AddPeople(a), link' # link,
         NEW e \in Emails(Meant(a)) \ Emails(link)
  PROVE  First(Meant(a), e) \in ToSet(link') \/ (page[a].script /\ e \in Asides(a))
<1>1. PICK p : p = page[a]
  OBVIOUS
<1> DEFINE extra == groupMembers(p.picked)
           list == requireRecipients(p.text, p.lang, extra)
<1>2. /\ PageOK(p) /\ p.kind = "case" /\ Accepted(p.text, p.lang, extra) /\ list \in Lists
      /\ link' = link \o Without(list, Emails(link)) /\ link \in Seq(Recipient)
  BY <1>1, LinkGrows DEF TypeInv
<1>3. p.text \in Seq(Line) /\ p.lang \in Lang /\ p.meant \in Seq(Recipient)
  BY <1>2 DEF PageOK, Lists
<1>4. extra \in Lists /\ extra \in Seq(Recipient)
  BY GroupMembersIs DEF Lists
<1>5. Followed(p)
  BY <1>1, <1>2, NoPageIs DEF TextInv
<1>6. Meant(a) = p.meant \o extra /\ Asides(a) = UNION {l.aside : l \in ToSet(p.text)}
  BY <1>1 DEF Meant, Asides
<1> HIDE DEF extra
<1>7. \A l \in ToSet(p.text) : l.lang # "?"
  BY <1>2, <1>3, ValidLines DEF Accepted
<1> DEFINE read == parseRecipients(p.text, p.lang)
<1>8. /\ read \in Seq(Recipient)
      /\ \A f : f \in Emails(read) <=> f \in Emails(p.text)
      /\ \A x, f : Lead(p.text, x, LinesOf(f)) => Lead(read, Read(x, p.lang), By(f))
  BY <1>3, <1>7, ParseIs DEF Lists
<1>9. list = Union(read, extra)
  BY DEF requireRecipients
<1> HIDE DEF read, list
<1>10. ASSUME NEW r, Lead(read \o extra, r, By(e)), Lead(p.meant \o extra, r, By(e))
       PROVE  First(Meant(a), e) \in ToSet(link')
  <2>1. Lead(list, r, By(e))
    BY <1>4, <1>8, <1>9, <1>10, UnionIs
  <2>2. r \in ToSet(list) /\ r.email = e
    BY <1>2, <2>1, LeadIn DEF Lists, By
  <2>3. Without(list, Emails(link)) \in Seq(Recipient) /\ r \in ToSet(Without(list, Emails(link)))
    BY <1>2, <2>2, WithoutIs DEF Lists
  <2>4. r \in ToSet(link')
    BY <1>2, <2>3, SetConcat
  <2>5. First(Meant(a), e) = r
    BY <1>3, <1>4, <1>6, <1>10, ConcatIs, FirstIs
  <2> QED BY <2>4, <2>5
<1>11. CASE e \in Emails(p.meant)
  <2>1. ASSUME Overlooked(p, e) PROVE page[a].script /\ e \in Asides(a)
    <3>1. p.script /\ \E l \in ToSet(p.text) : e \in l.aside
      BY <1>7, <2>1, Zenon DEF Overlooked
    <3> QED BY <1>1, <1>6, <3>1
  <2>2. ASSUME NEW x \in LinesOf(e), Lead(p.text, x, LinesOf(e)), Lead(p.meant, Read(x, p.lang), By(e))
        PROVE  First(Meant(a), e) \in ToSet(link')
    <3>1. Lead(read, Read(x, p.lang), By(e))
      BY <1>8, <2>2
    <3>2. Lead(read \o extra, Read(x, p.lang), By(e))
      BY <1>4, <1>8, <3>1, LeadConcat
    <3>3. Lead(p.meant \o extra, Read(x, p.lang), By(e))
      BY <1>3, <1>4, <2>2, LeadConcat
    <3> QED BY <1>10, <3>2, <3>3
  <2> QED BY <1>5, <1>11, <2>1, <2>2 DEF Followed
<1>12. CASE e \notin Emails(p.meant)
  <2>1. e \in Emails(extra)
    <3>1. ToSet(Meant(a)) = ToSet(p.meant) \cup ToSet(extra)
      BY <1>3, <1>4, <1>6, SetConcat
    <3> QED BY <1>12, <3>1 DEF Emails
  <2>2. PICK r \in By(e) : Lead(extra, r, By(e))
    <3>1. ToSet(extra) \cap By(e) # {}
      BY <1>4, <2>1, EmailsAre
    <3> QED BY <1>4, <3>1, LeadThere
  <2>3. ToSet(read) \cap By(e) = {}
    <3>1. e \notin Emails(p.text)
      BY <1>5, <1>7, <1>12 DEF Followed, Emails
    <3> QED BY <1>8, <3>1, EmailsAre
  <2>4. ToSet(p.meant) \cap By(e) = {}
    BY <1>3, <1>12, EmailsAre
  <2>5. Lead(read \o extra, r, By(e)) /\ Lead(p.meant \o extra, r, By(e))
    BY <1>3, <1>4, <1>8, <2>2, <2>3, <2>4, LeadConcat
  <2> QED BY <1>10, <2>5
<1> QED BY <1>11, <1>12

\* Whoever was typed or picked is on the link once the form is accepted, in the
\* language first given; only the script of the page may leave out an address that
\* stands in somebody's display name (admin.js, parseRecipients, mergeRecipients,
\* addRecipients).
THEOREM NobodyDroppedHolds == Spec => NobodyDropped
<1>1. Spec => []TextInv
  BY GroupsTypes, TextInit, TextStep, PTL DEF Spec
<1>2. TypeInv /\ TextInv =>
        [\A a \in Account : AddPeople(a) /\ link' # link =>
           \A e \in Emails(Meant(a)) \ Emails(link) :
             First(Meant(a), e) \in ToSet(link') \/ (page[a].script /\ e \in Asides(a))]_vars
  BY NobodyDroppedStep
<1> QED BY <1>1, <1>2, GroupsTypes, PTL DEF NobodyDropped
=============================================================================
