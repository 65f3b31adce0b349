----------------------------- MODULE Migrations -----------------------------
(***************************************************************************)
(* The schema of the database and the copies taken before it changes       *)
(* (db.ts), by the processes that migrate when they start: the server      *)
(* (server.ts) and the commands of cli.ts.                                 *)
(*                                                                         *)
(* migrate is synchronous, but the other process may act between any two   *)
(* of its statements and a crash may end it there; a statement, and a      *)
(* transaction, is one step.  Files are numbered in the order of their     *)
(* names and come with a release, oldest first.                            *)
(***************************************************************************)
EXTENDS Integers, Sequences, FiniteSets, Functions

CONSTANTS
  Process,    \* the server and a command
  Server,     \* the one of them that stays
  Latest,     \* the last release, named by its last file
  Keep,       \* KEEP_MIGRATION_BACKUPS
  MaxFaults   \* bound: crashes, failed copies and health checks, stops

ASSUME MigrationsAssumption ==
  /\ Server \in Process
  /\ Latest \in Nat \ {0} /\ Keep \in Nat \ {0} /\ MaxFaults \in Nat

VARIABLES
  release,   \* what is installed: a process runs what it finds when it starts
  ran,       \* the files executed against the database, in order
  rows,      \* schema_migrations
  copies,    \* the files in the backups directory
  clock,     \* in the seconds of a copy's name
  proc,      \* where a process is, its release, the rows it knows of, its first pending
             \* file and the second its copy is named after
  begun,     \* history: the schemas a start set out from to change them, and those seconds
  faults

vars == <<release, ran, rows, copies, clock, proc, begun, faults>>

Release == 1..Latest
Down == [pc |-> "down", release |-> 1, done |-> {}, first |-> 0, stamp |-> 0]
Place == [pc : {"down", "copy", "prune", "migrate", "verify", "listening"},
          release : Release, done : SUBSET Release, first : Release \cup {0}, stamp : Nat]
Copy == [first : Release, stamp : Nat, content : Seq(Release), good : BOOLEAN]

TypeOK ==
  /\ release \in Release
  /\ ran \in Seq(Release)
  /\ rows \subseteq Release
  /\ copies \subseteq Copy
  /\ clock \in Nat
  /\ proc \in [Process -> Place]
  /\ begun \subseteq [schema : Seq(Release), stamp : Nat]
  /\ faults \in 0..MaxFaults

\* A new instance, or one that an older release left behind.
Init ==
  /\ release = 1
  /\ \/ ran = <<>> /\ rows = {}
     \/ ran = <<1>> /\ rows = {1}
  /\ copies = {}
  /\ clock = 0
  /\ proc = [p \in Process |-> Down]
  /\ begun = {}
  /\ faults = 0

-----------------------------------------------------------------------------
(* The parts of migrate *)

Pending(known, r) == (1..r) \ known
First(S) == CHOOSE f \in S : \A g \in S : f <= g

At(p, pc) == proc[p].pc = pc
Go(p, pc) == proc' = [proc EXCEPT ![p].pc = pc]
Stop(p) == proc' = [proc EXCEPT ![p] = Down]

\* What becomes of a process when the schema is up to date: a command is done.
UpToDate(p, r) == IF p = Server THEN [Down EXCEPT !.pc = "verify", !.release = r] ELSE Down

\* A fresh database has nothing worth copying.
WorthCopying(known) == known # {}

\* Which files this start has to run, and is there anything to copy first?
Start(p) ==
  /\ At(p, "down")
  /\ LET todo == Pending(rows, release)
     IN  proc' = [proc EXCEPT ![p] =
           IF todo = {} THEN UpToDate(p, release)
           ELSE [pc |-> IF WorthCopying(rows) THEN "copy" ELSE "migrate",
                 release |-> release, done |-> rows, first |-> First(todo), stamp |-> 0]]
  /\ UNCHANGED <<release, ran, rows, copies, clock, begun, faults>>

\* Mutant: a name without the time.
TakenByFirst(p) == \E c \in copies : c.first = proc[p].first
\* VACUUM INTO refuses a file that is there, and the start with it.
Taken(p) == \E c \in copies : c.first = proc[p].first /\ c.stamp = clock
Written(p, ok) ==
  copies' = copies \cup {[first |-> proc[p].first, stamp |-> clock, content |-> ran, good |-> ok]}

MakeCopy(p) ==
  /\ At(p, "copy")
  /\ \/ Taken(p) /\ Stop(p) /\ UNCHANGED copies
     \/ /\ ~Taken(p) /\ Written(p, TRUE)
        /\ proc' = [proc EXCEPT ![p].pc = "prune", ![p].stamp = clock]
  /\ UNCHANGED <<release, ran, rows, clock, begun, faults>>

\* No room on the disk, a copy that does not check out, or the process dies over it:
\* what was written stays.
CopyFails(p) ==
  /\ At(p, "copy") /\ ~Taken(p)
  /\ faults < MaxFaults /\ faults' = faults + 1
  /\ Written(p, FALSE)
  /\ Stop(p)
  /\ UNCHANGED <<release, ran, rows, clock, begun>>

\* Mutant: the oldest are kept.
Oldest(kept) == \A k \in kept, c \in copies \ kept : k.stamp <= c.stamp
Newest(kept) == \A k \in kept, c \in copies \ kept : k.stamp >= c.stamp

\* Copies of one second are in no order.
Prune(p) ==
  /\ At(p, "prune")
  /\ \E kept \in SUBSET copies :
       /\ Cardinality(kept) = IF Cardinality(copies) < Keep THEN Cardinality(copies) ELSE Keep
       /\ Newest(kept)
       /\ copies' = kept
  /\ Go(p, "migrate")
  /\ UNCHANGED <<release, ran, rows, clock, begun, faults>>

\* Mutant: INSERT OR IGNORE, and files that can be run again.
NeverRefused(f) == FALSE
\* The primary key, or the tables that are there already.
Refused(f) == f \in rows

\* One file in one transaction.
Apply(p) ==
  /\ At(p, "migrate")
  /\ LET f == First(Pending(proc[p].done, proc[p].release))
         done == proc[p].done \cup {f}
     IN  \/ Refused(f) /\ Stop(p) /\ UNCHANGED <<ran, rows, begun>>
         \/ /\ ~Refused(f)
            /\ ran' = Append(ran, f)
            /\ rows' = rows \cup {f}
            /\ begun' = IF f = proc[p].first /\ ran # <<>>
                        THEN begun \cup {[schema |-> ran, stamp |-> proc[p].stamp]} ELSE begun
            /\ proc' = [proc EXCEPT ![p] =
                 IF Pending(done, @.release) = {} THEN UpToDate(p, @.release)
                 ELSE [@ EXCEPT !.done = done, !.first = 0, !.stamp = 0]]
  /\ UNCHANGED <<release, copies, clock, faults>>

-----------------------------------------------------------------------------
(* The rest of a start, and its end *)

\* storage.healthCheck, mailer.verify whatever it says, and listen.
Listen(p) ==
  /\ At(p, "verify")
  /\ Go(p, "listening")
  /\ UNCHANGED <<release, ran, rows, copies, clock, begun, faults>>

\* A crash anywhere, a health check that fails, a signal.
Fail(p) ==
  /\ ~At(p, "down")
  /\ faults < MaxFaults /\ faults' = faults + 1
  /\ Stop(p)
  /\ UNCHANGED <<release, ran, rows, copies, clock, begun>>

\* A new image: the server is replaced.
Deploy ==
  /\ release < Latest
  /\ release' \in (release + 1)..Latest
  /\ proc' = [proc EXCEPT ![Server] = Down]
  /\ UNCHANGED <<ran, rows, copies, clock, begun, faults>>

\* Seconds count only where they tell two copies apart.
Tick ==
  /\ \E c \in copies : c.stamp = clock
  /\ clock' = clock + 1
  /\ UNCHANGED <<release, ran, rows, copies, proc, begun, faults>>

Step(p) == Start(p) \/ MakeCopy(p) \/ Prune(p) \/ Apply(p) \/ Listen(p)

Next ==
  \/ \E p \in Process : Step(p) \/ CopyFails(p) \/ Fail(p)
  \/ Deploy \/ Tick

Spec == Init /\ [][Next]_vars

-----------------------------------------------------------------------------
(* Properties *)

\* Every file is executed once and in order, although two processes may find the
\* same ones pending and a start may end between any two: migrate's transactions.
InOrder == ran = [i \in 1..Len(ran) |-> i] /\ rows = Range(ran)

\* "An upgrade without a way back" is not attempted: of every schema that a start set
\* out to change there is a good copy, unless KEEP_MIGRATION_BACKUPS as new took its
\* place, whatever became of that start and of the ones beside it.
WayBack ==
  \A b \in begun :
    \/ \E c \in copies : c.good /\ c.content = b.schema
    \/ Cardinality({c \in copies : c.stamp >= b.stamp}) >= Keep

\* A server that is started again whenever it stops comes up in the end, on the
\* schema of the release, whatever failed in between: no half-made copy, and no
\* command at work on the same files, keeps it from migrating for ever.
ComesUp == <>[](At(Server, "listening") /\ rows = 1..release)
=============================================================================
