---------------------------- MODULE ServiceProofs ----------------------------
(***************************************************************************)
(* What holds of the schema and its copies for any number of processes,    *)
(* releases, copies kept and failures.                                     *)
(***************************************************************************)
EXTENDS Service, FiniteSetTheorems, TLAPS

USE DEF Release

\* The service takes no step of the migrations that is not one of theirs
\* (startServer: migrate runs before everything else).
THEOREM ServiceMigrates == ServiceSpec => Spec
<1>1. ServiceInit => Init
  BY DEF ServiceInit
<1>2. [ServiceNext]_all => [Next]_vars
  <2> SUFFICES ASSUME ServiceNext, ~UNCHANGED vars PROVE Next
    BY DEF all
  <2>1. CASE \E p \in Process : Advance(p) \/ Die(p) \/ (CopyFails(p) /\ UNCHANGED mail)
    <3> PICK p \in Process : Advance(p) \/ Die(p) \/ (CopyFails(p) /\ UNCHANGED mail)
      BY <2>1
    <3>1. Step(p) \/ CopyFails(p) \/ Fail(p)
      BY DEF Advance, Quiet, Verify, ListenNow, Die, Step
    <3> QED
      BY <3>1 DEF Next
  <2>2. CASE Replace
    BY <2>2 DEF Replace, Next
  <2>3. CASE Tick /\ UNCHANGED mail
    BY <2>3 DEF Next
  <2>4. CASE \E m \in Send : Begin(m) \/ Proceed(m) \/ MailFails(m)
    BY <2>4 DEF Begin, Proceed, MailFails
  <2>5. CASE Revoke
    BY <2>5 DEF Revoke
  <2> QED
    BY <2>1, <2>2, <2>3, <2>4, <2>5 DEF ServiceNext
<1> QED
  BY <1>1, <1>2, PTL DEF ServiceSpec, Spec

-----------------------------------------------------------------------------
(* The parts of the invariant *)

\* The first file that is missing after k of them.
LEMMA FirstPending ==
  ASSUME NEW k \in Nat, NEW r \in Nat, k < r
  PROVE  /\ Pending(1..k, r) # {}
         /\ First(Pending(1..k, r)) = k + 1
<1> DEFINE S == Pending(1..k, r)
<1>1. S = (k + 1)..r
  BY DEF Pending
<1>2. k + 1 \in S /\ \A g \in S : k + 1 <= g
  BY <1>1
<1>3. First(S) \in S /\ \A g \in S : First(S) <= g
  BY <1>2 DEF First
<1>4. First(S) <= k + 1 /\ k + 1 <= First(S) /\ First(S) \in Int
  BY <1>1, <1>2, <1>3
<1> QED
  BY <1>2, <1>4

LEMMA MoreToRun ==
  ASSUME NEW k \in Nat, NEW r \in Nat, Pending(1..k, r) # {}
  PROVE  k < r
  BY DEF Pending

\* What has been executed are the first so many files, in order.
Contiguous ==
  /\ ran = [i \in 1..Len(ran) |-> i]
  /\ rows = 1..Len(ran)

\* A start knows of the first so many, and has more to run.
StartKnows(p) ==
  proc[p].pc \in {"copy", "prune", "migrate"} =>
    \E k \in 0..Len(ran) : /\ proc[p].done = 1..k
                           /\ k < proc[p].release
                           /\ proc[p].first \in {0, k + 1}
                           /\ proc[p].pc = "copy" => proc[p].first = k + 1

\* Among the copies S there is a good one of the schema from that second, or enough
\* are as new.
KeptIn(S, schema, stamp) ==
  \/ \E c \in S : c.good /\ c.content = schema /\ c.stamp = stamp
  \/ Cardinality({c \in S : c.stamp >= stamp}) >= Keep

\* A start that is about to change a schema has copied it as it still is.
CopiedFirst(p) ==
  /\ proc[p].pc \in {"prune", "migrate"}
  /\ proc[p].first # 0 /\ proc[p].first \notin rows
  /\ rows # {}
  => KeptIn(copies, ran, proc[p].stamp)

Schemas == Contiguous /\ \A p \in Process : StartKnows(p)

Copies ==
  /\ IsFiniteSet(copies)
  /\ \A p \in Process : CopiedFirst(p)
  /\ \A b \in begun : KeptIn(copies, b.schema, b.stamp)

-----------------------------------------------------------------------------
(* Types *)

LEMMA DownType == Down \in Place
  BY MigrationsAssumption DEF Down, Place

LEMMA UpToDateType ==
  ASSUME NEW p, NEW r \in Release
  PROVE  UpToDate(p, r) \in Place
  BY DownType DEF UpToDate, Down, Place

\* With the schema up to date the start is over.
LEMMA Over ==
  ASSUME NEW p, NEW r
  PROVE  UpToDate(p, r).pc \in {"down", "verify"}
  BY DEF Down, UpToDate

\* Files are only added, so what another start knew of is still there.
LEMMA StillKnown ==
  ASSUME NEW p, StartKnows(p), proc'[p] = proc[p],
         Len(ran) \in Nat, Len(ran') \in Nat, Len(ran) <= Len(ran')
  PROVE  StartKnows(p)'
<1> SUFFICES ASSUME proc[p].pc \in {"copy", "prune", "migrate"}
             PROVE  \E k \in 0..Len(ran') : /\ proc[p].done = 1..k
                                            /\ k < proc[p].release
                                            /\ proc[p].first \in {0, k + 1}
                                            /\ proc[p].pc = "copy" => proc[p].first = k + 1
  BY DEF StartKnows
<1> PICK k \in 0..Len(ran) : /\ proc[p].done = 1..k
                             /\ k < proc[p].release
                             /\ proc[p].first \in {0, k + 1}
                             /\ proc[p].pc = "copy" => proc[p].first = k + 1
  BY DEF StartKnows
<1> QED
  OBVIOUS

\* A step that executes no file.
LEMMA SchemasStay ==
  ASSUME TypeOK, Schemas, NEW p \in Process, UNCHANGED <<ran, rows>>,
         \A q \in Process \ {p} : proc'[q] = proc[q], StartKnows(p)'
  PROVE  Schemas'
<1>1. Len(ran) \in Nat
  BY DEF TypeOK
<1>2. \A q \in Process \ {p} : StartKnows(q)'
  BY <1>1, StillKnown DEF Schemas
<1> QED
  BY <1>2 DEF Schemas, Contiguous

-----------------------------------------------------------------------------
(* Types and the order of the files *)

Ordered == TypeOK /\ Schemas

LEMMA StartOrdered ==
  ASSUME Ordered, NEW p \in Process, Start(p)
  PROVE  Ordered'
<1> USE DEF Ordered
<1> DEFINE n == Len(ran)
           todo == Pending(rows, release)
<1>1. n \in Nat /\ release \in Nat /\ rows = 1..n
  BY DEF TypeOK, Schemas, Contiguous
<1>2. CASE todo = {}
  <2>1. proc' = [proc EXCEPT ![p] = UpToDate(p, release)]
    BY <1>2 DEF Start
  <2>2. TypeOK'
    <3>1. UpToDate(p, release) \in Place
      BY UpToDateType DEF TypeOK
    <3> QED
      BY <2>1, <3>1 DEF Start, TypeOK
  <2>3. StartKnows(p)'
    <3>1. proc'[p] = UpToDate(p, release)
      BY <2>1 DEF TypeOK
    <3> QED
      BY <3>1, Over DEF StartKnows
  <2> QED
    BY <2>1, <2>2, <2>3, SchemasStay DEF Start, TypeOK
<1>3. CASE todo # {}
  <2>1. n < release
    BY <1>1, <1>3 DEF Pending
  <2>2. First(todo) = n + 1
    BY <1>1, <2>1, FirstPending
  <2> DEFINE w == [pc |-> IF WorthCopying(rows) THEN "copy" ELSE "migrate",
                   release |-> release, done |-> rows, first |-> First(todo), stamp |-> 0]
  <2>3. proc' = [proc EXCEPT ![p] = w]
    BY <1>3 DEF Start
  <2>4. n + 1 \in Release
    BY <1>1, <2>1, MigrationsAssumption DEF TypeOK
  <2>5. w \in Place
    BY <2>2, <2>4 DEF Place, TypeOK
  <2>6. TypeOK'
    <3> HIDE DEF w
    <3> QED
      BY <2>3, <2>5 DEF Start, TypeOK
  <2>7. proc'[p] = w
    <3> HIDE DEF w
    <3> QED
      BY <2>3 DEF TypeOK
  <2>8. StartKnows(p)'
    <3>1. w.done = 1..n /\ n < w.release /\ w.first = n + 1 /\ n \in 0..n /\ ran' = ran
      BY <1>1, <2>1, <2>2 DEF Start
    <3> HIDE DEF w
    <3> QED
      BY <2>7, <3>1 DEF StartKnows
  <2> QED
    BY <2>3, <2>6, <2>8, SchemasStay DEF Start, TypeOK
<1> QED
  BY <1>2, <1>3

\* A start at its copy has a file to name it after.
LEMMA Named ==
  ASSUME Ordered, NEW p \in Process, At(p, "copy")
  PROVE  proc[p].first \in Release
<1> PICK k \in 0..Len(ran) : k < proc[p].release /\ proc[p].first = k + 1
  BY DEF Ordered, Schemas, StartKnows, At
<1>1. proc[p].release \in Release /\ Len(ran) \in Nat
  BY DEF Ordered, TypeOK, Place
<1> QED
  BY <1>1, MigrationsAssumption

LEMMA WrittenType ==
  ASSUME Ordered, NEW p \in Process, At(p, "copy"), NEW ok \in BOOLEAN, Written(p, ok)
  PROVE  copies' \subseteq Copy
<1>1. proc[p].first \in Release
  BY Named
<1> QED
  BY <1>1 DEF Ordered, TypeOK, Written, Copy

\* A start that goes on knows what it knew.
LEMMA Goes ==
  ASSUME Ordered, NEW p \in Process, proc[p].pc \in {"copy", "prune"},
         proc' \in [Process -> Place],
         \A q \in Process \ {p} : proc'[q] = proc[q],
         proc'[p].pc \in {"prune", "migrate"},
         proc'[p].done = proc[p].done, proc'[p].release = proc[p].release,
         proc'[p].first = proc[p].first,
         UNCHANGED <<ran, rows>>
  PROVE  Schemas'
<1>1. StartKnows(p)
  BY DEF Ordered, Schemas
<1>2. StartKnows(p)'
  BY <1>1 DEF StartKnows
<1> QED
  BY <1>2, SchemasStay DEF Ordered

\* A process that stops knows nothing.
LEMMA Stops ==
  ASSUME Ordered, NEW p \in Process, Stop(p), UNCHANGED <<ran, rows>>
  PROVE  Schemas' /\ proc' \in [Process -> Place]
<1>1. proc'[p] = Down /\ \A q \in Process \ {p} : proc'[q] = proc[q]
  BY DEF Stop, Ordered, TypeOK
<1>2. StartKnows(p)'
  BY <1>1 DEF StartKnows, Down
<1>3. proc' \in [Process -> Place]
  BY DownType DEF Stop, Ordered, TypeOK
<1> QED
  BY <1>1, <1>2, <1>3, SchemasStay DEF Ordered

LEMMA MakeCopyOrdered ==
  ASSUME Ordered, NEW p \in Process, MakeCopy(p)
  PROVE  Ordered'
<1> USE DEF Ordered
<1>1. CASE Stop(p) /\ UNCHANGED copies
  BY <1>1, Stops DEF MakeCopy, TypeOK
<1>2. CASE Written(p, TRUE) /\ proc' = [proc EXCEPT ![p].pc = "prune", ![p].stamp = clock]
  <2>1. copies' \subseteq Copy
    BY <1>2, WrittenType DEF MakeCopy
  <2>2. proc' \in [Process -> Place]
    <3> DEFINE w == [proc[p] EXCEPT !.pc = "prune", !.stamp = clock]
    <3>1. proc[p] \in Place /\ clock \in Nat
      BY DEF TypeOK
    <3>2. w \in Place
      BY <3>1 DEF Place
    <3>3. proc' = [proc EXCEPT ![p] = w]
      BY <1>2, <3>1 DEF TypeOK, Place
    <3> HIDE DEF w
    <3> QED
      BY <3>2, <3>3 DEF TypeOK
  <2>3. Schemas'
    BY <1>2, <2>2, Goes DEF MakeCopy, At, TypeOK
  <2> QED
    BY <2>1, <2>2, <2>3 DEF MakeCopy, TypeOK
<1> QED
  BY <1>1, <1>2 DEF MakeCopy

LEMMA CopyFailsOrdered ==
  ASSUME Ordered, NEW p \in Process, CopyFails(p)
  PROVE  Ordered'
<1>1. copies' \subseteq Copy
  BY WrittenType DEF CopyFails
<1>2. Schemas' /\ proc' \in [Process -> Place]
  BY Stops DEF CopyFails
<1>3. faults' \in 0..MaxFaults
  BY MigrationsAssumption DEF CopyFails, Ordered, TypeOK
<1> QED
  BY <1>1, <1>2, <1>3 DEF CopyFails, Ordered, TypeOK

LEMMA PruneOrdered ==
  ASSUME Ordered, NEW p \in Process, Prune(p)
  PROVE  Ordered'
<1> USE DEF Ordered
<1>1. copies' \subseteq Copy
  BY DEF Prune, TypeOK
<1>2. proc' = [proc EXCEPT ![p].pc = "migrate"]
  BY DEF Prune, Go
<1>3. proc' \in [Process -> Place]
  BY <1>2 DEF TypeOK, Place
<1>4. proc'[p] = [proc[p] EXCEPT !.pc = "migrate"] /\ \A q \in Process \ {p} : proc'[q] = proc[q]
  BY <1>2 DEF TypeOK
<1>5. proc[p] \in Place /\ proc[p].pc = "prune"
  BY DEF Prune, At, TypeOK
<1>6. Schemas'
  BY <1>3, <1>4, <1>5, Goes DEF Prune, Place
<1> QED
  BY <1>1, <1>3, <1>6 DEF Prune, TypeOK

\* What executing the next file does to the schema.
LEMMA NextFile ==
  ASSUME Ordered, NEW f, f = Len(ran) + 1, f \in Release,
         ran' = Append(ran, f), rows' = rows \cup {f}
  PROVE  /\ Contiguous'
         /\ ran' \in Seq(Release) /\ rows' \subseteq Release
         /\ Len(ran) \in Nat /\ Len(ran') = Len(ran) + 1
<1> USE DEF Ordered
<1>1. Len(ran) \in Nat /\ ran \in Seq(Release)
  BY DEF TypeOK
<1>2. Len(ran') = Len(ran) + 1
  BY <1>1
<1>3. ran' = [i \in 1..Len(ran') |-> i]
  <2>1. \A i \in 1..Len(ran') : ran'[i] = i
    <3> TAKE i \in 1..Len(ran')
    <3>1. CASE i = Len(ran) + 1
      BY <1>1, <3>1
    <3>2. CASE i \in 1..Len(ran)
      BY <1>1, <3>2 DEF Schemas, Contiguous
    <3> QED
      BY <1>1, <1>2, <3>1, <3>2
  <2>2. ran' \in Seq(Release)
    BY <1>1
  <2> QED
    BY <2>1, <2>2
<1>4. rows' = 1..Len(ran')
  BY <1>1, <1>2 DEF Schemas, Contiguous
<1>5. ran' \in Seq(Release)
  BY <1>1
<1>6. rows' \subseteq Release
  BY DEF TypeOK
<1> QED
  BY <1>1, <1>2, <1>3, <1>4, <1>5, <1>6 DEF Contiguous

\* The file a start executes, when it is not refused, is the next of all.
LEMMA Executes ==
  ASSUME Ordered, NEW p \in Process, At(p, "migrate"), NEW f,
         f = First(Pending(proc[p].done, proc[p].release))
  PROVE  /\ f \in Release /\ f <= Len(ran) + 1
         /\ proc[p].done = 1..(f - 1) /\ proc[p].done \cup {f} = 1..f
         /\ proc[p].first \in {0, f}
         /\ ~Refused(f) => f = Len(ran) + 1
<1> PICK k \in 0..Len(ran) : /\ proc[p].done = 1..k
                             /\ k < proc[p].release
                             /\ proc[p].first \in {0, k + 1}
  BY DEF Ordered, Schemas, StartKnows, At
<1>1. proc[p].release \in Release /\ Len(ran) \in Nat /\ k \in Nat
  BY DEF Ordered, TypeOK, Place
<1>2. f = k + 1
  BY <1>1, FirstPending, MigrationsAssumption
<1>3. f \in Release
  BY <1>1, <1>2, MigrationsAssumption
<1> QED
  BY <1>1, <1>2, <1>3 DEF Refused, Ordered, Schemas, Contiguous

LEMMA ApplyOrdered ==
  ASSUME Ordered, NEW p \in Process, Apply(p)
  PROVE  Ordered'
<1> USE DEF Ordered
<1> DEFINE f == First(Pending(proc[p].done, proc[p].release))
           done == proc[p].done \cup {f}
           r == proc[p].release
           w == IF Pending(done, r) = {} THEN UpToDate(p, r)
                ELSE [proc[p] EXCEPT !.done = done, !.first = 0, !.stamp = 0]
<1>1. /\ f \in Release /\ done = 1..f /\ proc[p].first \in {0, f}
      /\ ~Refused(f) => f = Len(ran) + 1
  BY Executes DEF Apply
<1>2. CASE Refused(f) /\ Stop(p) /\ UNCHANGED <<ran, rows, begun>>
  BY <1>2, Stops DEF Apply, TypeOK
<1>3. CASE ~Refused(f)
  <2>1. /\ ran' = Append(ran, f) /\ rows' = rows \cup {f}
        /\ proc' = [proc EXCEPT ![p] = w]
        /\ begun' \subseteq begun \cup {[schema |-> ran, stamp |-> proc[p].stamp]}
        /\ UNCHANGED <<release, copies, clock, faults>>
    BY <1>3 DEF Apply
  <2>2. /\ Contiguous' /\ ran' \in Seq(Release) /\ rows' \subseteq Release
        /\ Len(ran) \in Nat /\ Len(ran') = Len(ran) + 1
    BY <1>1, <1>3, <2>1, NextFile
  <2>3. r \in Release /\ proc[p] \in Place
    BY DEF TypeOK, Place
  <2>4. w \in Place
    <3>1. CASE Pending(done, r) = {}
      BY <2>3, <3>1, UpToDateType
    <3>2. CASE Pending(done, r) # {}
      <4>1. done \in SUBSET Release
        BY <1>1, MigrationsAssumption
      <4> HIDE DEF done
      <4> QED
        BY <2>3, <3>2, <4>1 DEF Place
    <3> QED
      BY <3>1, <3>2
  <2>5. proc' \in [Process -> Place] /\ proc'[p] = w /\ \A q \in Process \ {p} : proc'[q] = proc[q]
    <3> HIDE DEF w
    <3> QED
      BY <2>1, <2>4 DEF TypeOK
  <2>6. TypeOK'
    <3>1. begun' \subseteq [schema : Seq(Release), stamp : Nat]
      BY <2>1, <2>3 DEF TypeOK, Place
    <3> QED
      BY <2>1, <2>2, <2>5, <3>1 DEF TypeOK
  <2>7. StartKnows(p)'
    <3>1. CASE Pending(done, r) = {}
      BY <2>5, <3>1, Over DEF StartKnows
    <3>2. CASE Pending(done, r) # {}
      <4>1. f < r
        <5> HIDE DEF f, done, r
        <5>1. f \in Nat /\ r \in Nat
          BY <1>1, <2>3, MigrationsAssumption
        <5>2. Pending(1..f, r) # {}
          BY <1>1, <3>2
        <5> QED
          BY <5>1, <5>2, MoreToRun
      <4>2. f \in 0..Len(ran')
        BY <1>1, <1>3, <2>2
      <4>3. w.done = 1..f /\ w.release = r /\ w.first = 0 /\ w.pc = proc[p].pc
        BY <1>1, <2>3, <3>2 DEF Place
      <4>4. proc[p].pc # "copy"
        BY DEF Apply, At
      <4> HIDE DEF w, f
      <4> QED
        BY <2>5, <4>1, <4>2, <4>3, <4>4 DEF StartKnows
    <3> QED
      BY <3>1, <3>2
  <2>8. \A q \in Process \ {p} : StartKnows(q)'
    BY <2>2, <2>5, StillKnown DEF Schemas
  <2> QED
    BY <2>2, <2>6, <2>7, <2>8 DEF Schemas
<1> QED
  BY <1>2, <1>3 DEF Apply

LEMMA ListenOrdered ==
  ASSUME Ordered, NEW p \in Process, Listen(p)
  PROVE  Ordered'
<1> USE DEF Ordered
<1>1. proc' = [proc EXCEPT ![p].pc = "listening"]
  BY DEF Listen, Go
<1>2. proc' \in [Process -> Place]
  BY <1>1 DEF TypeOK, Place
<1>3. StartKnows(p)'
  BY <1>1, <1>2 DEF StartKnows, TypeOK
<1>4. Schemas'
  BY <1>1, <1>3, SchemasStay DEF Listen, TypeOK
<1> QED
  BY <1>2, <1>4 DEF Listen, TypeOK

\* Every step keeps the types and the order.
LEMMA NextOrdered ==
  ASSUME Ordered, [Next]_vars
  PROVE  Ordered'
<1>1. CASE \E p \in Process : Step(p) \/ CopyFails(p)
  BY <1>1, StartOrdered, MakeCopyOrdered, PruneOrdered, ApplyOrdered, ListenOrdered, CopyFailsOrdered
     DEF Step
<1>2. CASE \E p \in Process : Fail(p)
  <2> PICK p \in Process : Fail(p)
    BY <1>2
  <2>1. Schemas' /\ proc' \in [Process -> Place]
    BY Stops DEF Fail
  <2>2. faults' \in 0..MaxFaults
    BY MigrationsAssumption DEF Fail, Ordered, TypeOK
  <2> QED
    BY <2>1, <2>2 DEF Fail, Ordered, TypeOK
<1>3. CASE Deploy
  <2>1. Schemas' /\ proc' \in [Process -> Place]
    BY <1>3, Stops, MigrationsAssumption DEF Deploy, Stop
  <2>2. release' \in Release
    BY <1>3, MigrationsAssumption DEF Deploy, Ordered, TypeOK
  <2> QED
    BY <1>3, <2>1, <2>2 DEF Deploy, Ordered, TypeOK
<1>4. CASE Tick
  <2>1. TypeOK'
    BY <1>4 DEF Tick, Ordered, TypeOK
  <2>2. Schemas'
    BY <1>4 DEF Tick, Ordered, Schemas, Contiguous, StartKnows
  <2> QED
    BY <2>1, <2>2 DEF Ordered
<1>5. CASE UNCHANGED vars
  <2>1. TypeOK'
    BY <1>5 DEF vars, Ordered, TypeOK
  <2>2. Schemas'
    BY <1>5 DEF vars, Ordered, Schemas, Contiguous, StartKnows
  <2> QED
    BY <2>1, <2>2 DEF Ordered
<1> QED
  BY <1>1, <1>2, <1>3, <1>4, <1>5 DEF Next

LEMMA InitOrdered == Init => Ordered
<1> SUFFICES ASSUME Init PROVE Ordered
  OBVIOUS
<1>1. proc \in [Process -> Place] /\ \A p \in Process : proc[p] = Down
  BY DownType DEF Init
<1>2. ran \in Seq(Release) /\ rows \subseteq Release /\ Contiguous
  <2>1. CASE ran = <<>> /\ rows = {}
    BY <2>1 DEF Contiguous
  <2>2. CASE ran = <<1>> /\ rows = {1}
    <3>1. 1 \in Release
      BY MigrationsAssumption
    <3> QED
      BY <2>2, <3>1 DEF Contiguous
  <2> QED
    BY <2>1, <2>2 DEF Init
<1>3. TypeOK
  BY <1>1, <1>2, MigrationsAssumption DEF Init, TypeOK
<1>4. \A p \in Process : StartKnows(p)
  BY <1>1 DEF StartKnows, Down
<1> QED
  BY <1>2, <1>3, <1>4 DEF Ordered, Schemas

-----------------------------------------------------------------------------
(* The copies *)

\* A copy more takes none away.
LEMMA KeptGrows ==
  ASSUME NEW S, IsFiniteSet(S), NEW T, IsFiniteSet(T), S \subseteq T,
         NEW schema, NEW stamp, KeptIn(S, schema, stamp)
  PROVE  KeptIn(T, schema, stamp)
<1> DEFINE A == {c \in S : c.stamp >= stamp}
           B == {c \in T : c.stamp >= stamp}
<1>1. CASE Cardinality(A) >= Keep
  <2>1. IsFiniteSet(B) /\ A \in SUBSET B
    BY FS_Subset
  <2>2. Cardinality(A) <= Cardinality(B) /\ Cardinality(A) \in Nat /\ Cardinality(B) \in Nat
    BY <2>1, FS_Subset, FS_CardinalityType
  <2>3. Cardinality(B) >= Keep
    BY <1>1, <2>2, MigrationsAssumption
  <2> QED
    BY <2>3 DEF KeptIn
<1>2. CASE \E c \in S : c.good /\ c.content = schema /\ c.stamp = stamp
  BY <1>2 DEF KeptIn
<1> QED
  BY <1>1, <1>2 DEF KeptIn

\* Of the newest Keep copies enough are as new as any that had to go.
LEMMA KeptPruned ==
  ASSUME copies \subseteq Copy, IsFiniteSet(copies), NEW kept \in SUBSET copies,
         Cardinality(kept) = IF Cardinality(copies) < Keep THEN Cardinality(copies) ELSE Keep,
         Newest(kept),
         NEW schema, NEW stamp \in Nat, KeptIn(copies, schema, stamp)
  PROVE  KeptIn(kept, schema, stamp)
<1> DEFINE A == {c \in copies : c.stamp >= stamp}
           B == {c \in kept : c.stamp >= stamp}
<1>1. IsFiniteSet(kept) /\ Cardinality(kept) <= Cardinality(copies)
      /\ Cardinality(kept) \in Nat /\ Cardinality(copies) \in Nat
  BY FS_Subset, FS_CardinalityType
<1>2. CASE Cardinality(copies) < Keep
  <2>1. kept = copies
    BY <1>2, FS_Subset
  <2> QED
    BY <2>1
<1>3. CASE ~(Cardinality(copies) < Keep)
  <2>1. Cardinality(kept) = Keep
    BY <1>3
  <2>2. \A c \in copies : c.stamp \in Nat
    BY DEF Copy
  <2>3. CASE \E k \in kept : k.stamp < stamp
    <3> PICK k \in kept : k.stamp < stamp
      BY <2>3
    <3>1. A \subseteq kept \ {k}
      <4> SUFFICES ASSUME NEW c \in copies, c.stamp >= stamp PROVE c \in kept \ {k}
        OBVIOUS
      <4>1. c # k
        BY <2>2
      <4>2. c \notin kept => k.stamp >= c.stamp
        BY DEF Newest
      <4> QED
        BY <2>2, <4>1, <4>2
    <3>2. IsFiniteSet(kept \ {k}) /\ Cardinality(kept \ {k}) = Keep - 1
      BY <1>1, <2>1, FS_RemoveElement
    <3>3. IsFiniteSet(A) /\ Cardinality(A) <= Keep - 1 /\ Cardinality(A) \in Nat
      BY <3>1, <3>2, FS_Subset, FS_CardinalityType
    <3>4. ~(Cardinality(A) >= Keep)
      BY <3>3, MigrationsAssumption
    <3>5. PICK c \in copies : c.good /\ c.content = schema /\ c.stamp = stamp
      BY <3>4 DEF KeptIn
    <3>6. c \in kept
      BY <2>2, <3>1, <3>5
    <3> QED
      BY <3>5, <3>6 DEF KeptIn
  <2>4. CASE \A k \in kept : ~(k.stamp < stamp)
    <3>1. B = kept
      BY <2>2, <2>4
    <3>2. Cardinality(B) >= Keep
      BY <2>1, <3>1, MigrationsAssumption
    <3> QED
      BY <3>2 DEF KeptIn
  <2> QED
    BY <2>3, <2>4
<1> QED
  BY <1>2, <1>3

\* What is kept of one schema is kept after a copy more, and after pruning.
Preserved ==
  /\ IsFiniteSet(copies')
  /\ \A schema : \A stamp \in Nat : KeptIn(copies, schema, stamp) => KeptIn(copies', schema, stamp)

LEMMA WrittenPreserves ==
  ASSUME Copies, NEW p, NEW ok, Written(p, ok)
  PROVE  Preserved /\ copies \subseteq copies'
<1>1. copies \subseteq copies'
  BY DEF Written
<1>2. IsFiniteSet(copies')
  BY FS_AddElement DEF Written, Copies
<1> QED
  BY <1>1, <1>2, KeptGrows DEF Preserved, Copies

LEMMA PrunePreserves ==
  ASSUME Ordered, Copies, NEW p, Prune(p)
  PROVE  Preserved
<1> PICK kept \in SUBSET copies :
      /\ Cardinality(kept) = IF Cardinality(copies) < Keep THEN Cardinality(copies) ELSE Keep
      /\ Newest(kept)
      /\ copies' = kept
  BY DEF Prune
<1>1. IsFiniteSet(copies')
  BY FS_Subset DEF Copies
<1> QED
  BY <1>1, KeptPruned DEF Preserved, Copies, Ordered, TypeOK

\* A step that changes no schema and begins no change.
LEMMA CopiesStay ==
  ASSUME Ordered, Copies, Preserved, NEW p \in Process, UNCHANGED <<ran, rows, begun>>,
         \A q \in Process \ {p} : proc'[q] = proc[q], CopiedFirst(p)'
  PROVE  Copies'
<1>1. \A q \in Process : proc[q].stamp \in Nat
  BY DEF Ordered, TypeOK, Place
<1>2. \A q \in Process \ {p} : CopiedFirst(q)'
  BY <1>1 DEF Copies, CopiedFirst, Preserved
<1>3. \A b \in begun : KeptIn(copies', b.schema, b.stamp)
  BY DEF Copies, Preserved, Ordered, TypeOK
<1> QED
  BY <1>2, <1>3 DEF Copies, Preserved

\* A step that leaves the copies alone preserves what is kept.
LEMMA SamePreserves == Copies /\ UNCHANGED copies => Preserved
  BY DEF Copies, Preserved

LEMMA StopCopies ==
  ASSUME Ordered, Copies, Preserved, NEW p \in Process, Stop(p), UNCHANGED <<ran, rows, begun>>
  PROVE  Copies'
<1>1. proc'[p] = Down /\ \A q \in Process \ {p} : proc'[q] = proc[q]
  BY DEF Stop, Ordered, TypeOK
<1>2. CopiedFirst(p)'
  BY <1>1 DEF CopiedFirst, Down
<1> QED
  BY <1>1, <1>2, CopiesStay

LEMMA StartCopies ==
  ASSUME Ordered, Copies, NEW p \in Process, Start(p)
  PROVE  Copies'
<1>1. \A q \in Process \ {p} : proc'[q] = proc[q]
  BY DEF Start, Ordered, TypeOK
<1>2. CopiedFirst(p)'
  <2>1. CASE Pending(rows, release) = {}
    <3>1. proc'[p] = UpToDate(p, release)
      BY <2>1 DEF Start, Ordered, TypeOK
    <3> QED
      BY <3>1, Over DEF CopiedFirst
  <2>2. CASE Pending(rows, release) # {}
    <3>1. proc'[p].pc = IF rows # {} THEN "copy" ELSE "migrate"
      BY <2>2 DEF Start, WorthCopying, Ordered, TypeOK
    <3> QED
      BY <3>1 DEF Start, CopiedFirst
  <2> QED
    BY <2>1, <2>2
<1> QED
  BY <1>1, <1>2, CopiesStay, SamePreserves DEF Start

LEMMA MakeCopyCopies ==
  ASSUME Ordered, Copies, NEW p \in Process, MakeCopy(p)
  PROVE  Copies'
<1>1. CASE Stop(p) /\ UNCHANGED copies
  BY <1>1, StopCopies, SamePreserves DEF MakeCopy
<1>2. CASE Written(p, TRUE) /\ proc' = [proc EXCEPT ![p].pc = "prune", ![p].stamp = clock]
  <2>1. Preserved
    BY <1>2, WrittenPreserves
  <2>2. proc'[p].stamp = clock /\ \A q \in Process \ {p} : proc'[q] = proc[q]
    BY <1>2 DEF Ordered, TypeOK, Place
  <2>3. KeptIn(copies', ran, clock)
    <3> DEFINE c == [first |-> proc[p].first, stamp |-> clock, content |-> ran, good |-> TRUE]
    <3>1. c \in copies'
      BY <1>2 DEF Written
    <3>2. c.good /\ c.content = ran /\ c.stamp = clock
      OBVIOUS
    <3> HIDE DEF c
    <3> QED
      BY <3>1, <3>2 DEF KeptIn
  <2>4. CopiedFirst(p)'
    BY <2>2, <2>3 DEF CopiedFirst, MakeCopy
  <2> QED
    BY <2>1, <2>2, <2>4, CopiesStay DEF MakeCopy
<1> QED
  BY <1>1, <1>2 DEF MakeCopy

LEMMA PruneCopies ==
  ASSUME Ordered, Copies, NEW p \in Process, Prune(p)
  PROVE  Copies'
<1>1. Preserved
  BY PrunePreserves
<1>2. proc' = [proc EXCEPT ![p].pc = "migrate"] /\ proc[p].pc = "prune"
  BY DEF Prune, Go, At
<1>3. /\ \A q \in Process \ {p} : proc'[q] = proc[q]
      /\ proc'[p].stamp = proc[p].stamp /\ proc'[p].first = proc[p].first /\ proc[p].stamp \in Nat
  BY <1>2 DEF Ordered, TypeOK, Place
<1>4. CopiedFirst(p)'
  BY <1>1, <1>2, <1>3 DEF Copies, CopiedFirst, Preserved, Prune
<1> QED
  BY <1>1, <1>3, <1>4, CopiesStay DEF Prune

LEMMA ApplyCopies ==
  ASSUME Ordered, Copies, NEW p \in Process, Apply(p)
  PROVE  Copies'
<1> DEFINE f == First(Pending(proc[p].done, proc[p].release))
<1>1. /\ f \in Release /\ proc[p].first \in {0, f}
      /\ ~Refused(f) => f = Len(ran) + 1
  BY Executes DEF Apply
<1>2. UNCHANGED copies
  BY DEF Apply
<1>3. CASE Refused(f) /\ Stop(p) /\ UNCHANGED <<ran, rows, begun>>
  BY <1>2, <1>3, StopCopies, SamePreserves
<1>4. CASE ~Refused(f)
  <2>1. /\ rows' = rows \cup {f}
        /\ begun' = IF f = proc[p].first /\ ran # <<>>
                     THEN begun \cup {[schema |-> ran, stamp |-> proc[p].stamp]} ELSE begun
        /\ \A q \in Process \ {p} : proc'[q] = proc[q]
    BY <1>4 DEF Apply, Ordered, TypeOK
  <2>2. Ordered'
    BY ApplyOrdered
  <2>3. CopiedFirst(p)'
    <3>1. \/ proc'[p].first = 0
          \/ \E r : proc'[p] = UpToDate(p, r)
      BY <1>4 DEF Apply, Ordered, TypeOK, Place
    <3> QED
      BY <3>1, Over DEF CopiedFirst
  <2>4. \A q \in Process \ {p} : CopiedFirst(q)'
    <3> SUFFICES ASSUME NEW q \in Process \ {p}, proc[q].pc \in {"prune", "migrate"}, proc[q].first # 0
                 PROVE  proc[q].first \in rows'
      BY <2>1 DEF CopiedFirst
    <3> PICK k \in 0..Len(ran) : proc[q].first = k + 1
      BY DEF Ordered, Schemas, StartKnows
    <3>1. Len(ran) \in Nat /\ rows = 1..Len(ran)
      BY DEF Ordered, TypeOK, Schemas, Contiguous
    <3> HIDE DEF f
    <3> QED
      BY <1>1, <1>4, <2>1, <3>1
  <2>5. \A b \in begun' : KeptIn(copies', b.schema, b.stamp)
    <3>1. CASE f = proc[p].first /\ ran # <<>>
      <4>1. rows # {} /\ f # 0 /\ f \notin rows
        <5>1. rows = 1..Len(ran) /\ ran \in Seq(Release)
          BY DEF Ordered, Schemas, Contiguous, TypeOK
        <5>2. Len(ran) \in Nat /\ Len(ran) # 0
          BY <3>1, <5>1
        <5>3. 1 \in rows
          BY <5>1, <5>2
        <5>4. f = Len(ran) + 1
          BY <1>1, <1>4
        <5> HIDE DEF f
        <5> QED
          BY <5>1, <5>2, <5>3, <5>4
      <4>2. KeptIn(copies, ran, proc[p].stamp)
        BY <3>1, <4>1 DEF Copies, CopiedFirst, Apply, At
      <4> QED
        BY <1>2, <2>1, <4>2 DEF Copies
    <3>2. CASE ~(f = proc[p].first /\ ran # <<>>)
      BY <1>2, <2>1, <3>2 DEF Copies
    <3> QED
      BY <3>1, <3>2
  <2> QED
    BY <1>2, <2>3, <2>4, <2>5 DEF Copies
<1> QED
  BY <1>3, <1>4 DEF Apply

LEMMA ListenCopies ==
  ASSUME Ordered, Copies, NEW p \in Process, Listen(p)
  PROVE  Copies'
<1>1. proc'[p].pc = "listening" /\ \A q \in Process \ {p} : proc'[q] = proc[q]
  BY DEF Listen, Go, Ordered, TypeOK, Place
<1>2. CopiedFirst(p)'
  BY <1>1 DEF CopiedFirst
<1> QED
  BY <1>1, <1>2, CopiesStay, SamePreserves DEF Listen

LEMMA NextCopies ==
  ASSUME Ordered, Copies, [Next]_vars
  PROVE  Copies'
<1>1. CASE \E p \in Process : Step(p)
  BY <1>1, StartCopies, MakeCopyCopies, PruneCopies, ApplyCopies, ListenCopies DEF Step
<1>2. CASE \E p \in Process : CopyFails(p) \/ Fail(p)
  BY <1>2, StopCopies, SamePreserves, WrittenPreserves DEF CopyFails, Fail
<1>3. CASE Deploy
  BY <1>3, StopCopies, SamePreserves, MigrationsAssumption DEF Deploy, Stop
<1>4. CASE Tick
  BY <1>4 DEF Tick, Copies, CopiedFirst
<1>5. CASE UNCHANGED vars
  BY <1>5 DEF vars, Copies, CopiedFirst
<1> QED
  BY <1>1, <1>2, <1>3, <1>4, <1>5 DEF Next

-----------------------------------------------------------------------------
(* The theorems *)

LEMMA MigrationsSafe == Spec => [](Ordered /\ Copies)
<1>1. Init => Ordered /\ Copies
  <2>1. Init => Copies
    BY FS_EmptySet DEF Init, Down, Copies, CopiedFirst
  <2> QED
    BY <2>1, InitOrdered
<1>2. Ordered /\ Copies /\ [Next]_vars => (Ordered /\ Copies)'
  BY NextOrdered, NextCopies
<1> QED
  BY <1>1, <1>2, PTL DEF Spec

\* The types of the database, its copies and the processes (db.ts).
THEOREM TypeCorrect == ServiceSpec => []TypeOK
<1>1. Ordered => TypeOK
  BY DEF Ordered
<1> QED
  BY <1>1, MigrationsSafe, ServiceMigrates, PTL

\* Every file is executed once and in order, by any number of processes that start,
\* fail and are replaced at any time (migrate).
THEOREM InOrderHolds == ServiceSpec => []InOrder
<1>1. Ordered => InOrder
  BY DEF Ordered, TypeOK, Schemas, Contiguous, InOrder, Range
<1> QED
  BY <1>1, MigrationsSafe, ServiceMigrates, PTL

\* There is a way back from every change of a schema (backupBeforeMigrating).
THEOREM WayBackHolds == ServiceSpec => []WayBack
<1>1. Copies => WayBack
  BY DEF Copies, KeptIn, WayBack
<1> QED
  BY <1>1, MigrationsSafe, ServiceMigrates, PTL

\* The types of the cached token and of the tasks that use it (accessToken, send).
THEOREM MailTypeCorrect == ServiceSpec => []Mail!MailTypeOK
<1> USE ServiceAssumption DEF Mail!MailTypeOK, Mail!Token, Mail!Idle
<1>1. ServiceInit => Mail!MailTypeOK
  BY DEF ServiceInit, Mail!MailInit, Mail!Empty
<1>2. ASSUME Mail!MailTypeOK, [ServiceNext]_all PROVE Mail!MailTypeOK'
  <2>1. ASSUME UNCHANGED mail PROVE Mail!MailTypeOK'
    BY <1>2, <2>1 DEF mail
  <2>2. ASSUME Mail!Closed PROVE Mail!MailTypeOK'
    BY <1>2, <2>2 DEF Mail!Closed
  <2>3. ASSUME NEW t \in Send \cup {Server},
               \/ Mail!UseCached(t) \/ Mail!Ask(t) \/ Mail!AskFails(t)
               \/ Mail!Cache(t) \/ Mail!Post(t) \/ Mail!PostFails(t) \/ Mail!Drop(t)
        PROVE  Mail!MailTypeOK'
    BY <1>2, <2>3 DEF Mail!UseCached, Mail!Ask, Mail!AskFails, Mail!Cache, Mail!Cached, Mail!Post,
                      Mail!PostFails, Mail!Drop, Mail!Dropped, Mail!Is, Mail!Becomes, Mail!Mishap
  <2>4. ASSUME Verified PROVE Mail!MailTypeOK'
    BY <1>2, <2>4 DEF Verified, Mail!Cached, Mail!Is, Mail!Becomes
  <2>5. ASSUME Mail!Revoke PROVE Mail!MailTypeOK'
    BY <1>2, <2>5 DEF Mail!Revoke, Mail!Mishap
  <2>6. ASSUME NEW p \in Process, Advance(p) \/ Die(p) PROVE Mail!MailTypeOK'
    BY <2>1, <2>2, <2>3, <2>4, <2>6 DEF Advance, Verify, ListenNow, Die
  <2>7. ASSUME NEW m \in Send, Begin(m) \/ Proceed(m) \/ MailFails(m) PROVE Mail!MailTypeOK'
    BY <2>3, <2>7 DEF Begin, Proceed, MailFails
  <2> QED
    BY <1>2, <2>1, <2>2, <2>5, <2>6, <2>7 DEF ServiceNext, Replace, Revoke, all
<1> QED
  BY <1>1, <1>2, PTL DEF ServiceSpec
=============================================================================
