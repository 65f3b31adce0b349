------------------------------ MODULE Uploads ------------------------------
(***************************************************************************)
(* Items, their objects in the storage, and who changes them: the two ways *)
(* of uploading a file (directUpload in http/admin.ts, the tus hooks in    *)
(* http/tus.ts), deleting, downloading, and runCleanup                     *)
(* (services/cleanup.ts), which the server's timer and the command line    *)
(* may run at the same time.                                               *)
(*                                                                         *)
(* The row changes in one synchronous statement, the object across an      *)
(* await: every await below is a program counter, and what a task read     *)
(* before it is kept in a variable of the task.  The storage is the local  *)
(* directory; an unlinked file that is still open goes nowhere.            *)
(***************************************************************************)
EXTENDS Integers, FiniteSets

CONSTANTS
  Item,        \* the keys newId('f') and newId('n') will give out
  Cleaner,     \* the processes that run the cleanup
  Server,      \* the one of them that serves requests
  Overdue,     \* may an upload still be running when it is older than the TTL?
  MaxFaults    \* bound: crashes and failing storage calls together

ASSUME UploadsAssumption ==
  /\ Server \in Cleaner
  /\ Overdue \in BOOLEAN
  /\ MaxFaults \in Nat

VARIABLES
  status,   \* items.status; "none" before the row exists
  kind,     \* items.kind and upload_kind: "note", "direct", "tus"
  object,   \* the data in the storage: "none", "partial", "whole"
  sidecar,  \* the tus bookkeeping file next to it
  stale,    \* created_at is older than the TTL
  cold,     \* the object's mtime is older than the TTL
  writer,   \* where the request that uploads the item is
  deleter,  \* where the request that deletes it is
  reader,   \* where a download of it is
  pc,       \* the phase each cleanup run is in
  todo,     \* the rows it has listed and not looked at
  held,     \* the row it is awaiting the storage for
  faults

uvars == <<status, kind, object, sidecar, stale, cold, writer, deleter, reader,
           pc, todo, held, faults>>

rows == <<status, kind>>
files == <<object, sidecar>>
ages == <<stale, cold>>
cleaners == <<pc, todo, held>>

Status == {"none", "uploading", "ready", "aborted", "expired", "missing", "deleted"}
Kind == {"note", "direct", "tus"}

\* Requests between two awaits of the process that serves them.
Writing == {"opening", "streaming", "short", "stored", "discarding", "creating",
            "patching", "written", "tidying", "terminating", "terminated"}

TypeOK ==
  /\ status \in [Item -> Status]
  /\ kind \in [Item -> Kind]
  /\ object \in [Item -> {"none", "partial", "whole"}]
  /\ sidecar \in [Item -> BOOLEAN]
  /\ stale \in [Item -> BOOLEAN] /\ cold \in [Item -> BOOLEAN]
  /\ writer \in [Item -> Writing \cup {"idle", "paused"}]
  /\ deleter \in [Item -> {"idle", "deleting", "discarding", "discarded"}]
  /\ reader \in [Item -> BOOLEAN]
  /\ pc \in [Cleaner -> {"idle", "expire", "verify", "sweep"}]
  /\ todo \in [Cleaner -> SUBSET Item]
  /\ held \in [Cleaner -> {{}} \cup {{i} : i \in Item}]
  /\ faults \in 0..MaxFaults
  /\ \A i \in Item : kind[i] = "note" =>
       status[i] \in {"none", "ready", "deleted"} /\ object[i] = "none"

Init ==
  /\ status = [i \in Item |-> "none"]
  /\ kind = [i \in Item |-> "note"]
  /\ object = [i \in Item |-> "none"]
  /\ sidecar = [i \in Item |-> FALSE]
  /\ stale = [i \in Item |-> FALSE]
  /\ cold = [i \in Item |-> FALSE]
  /\ writer = [i \in Item |-> "idle"]
  /\ deleter = [i \in Item |-> "idle"]
  /\ reader = [i \in Item |-> FALSE]
  /\ pc = [c \in Cleaner |-> "idle"]
  /\ todo = [c \in Cleaner |-> {}]
  /\ held = [c \in Cleaner |-> {}]
  /\ faults = 0

-----------------------------------------------------------------------------
(* The statements of services/items.ts *)

Insert(i, k, s) ==
  /\ status[i] = "none"
  /\ status' = [status EXCEPT ![i] = s]
  /\ kind' = [kind EXCEPT ![i] = k]

\* Mutant: UPDATE without AND status = 'uploading'.
CompleteAnyUpload(i) == status' = [status EXCEPT ![i] = "ready"]

CompleteUpload(i) ==
  status' = [status EXCEPT ![i] = IF @ = "uploading" THEN "ready" ELSE @]

FailUpload(i, s) ==
  status' = [status EXCEPT ![i] = IF @ = "uploading" THEN s ELSE @]

MarkMissing(i) ==
  status' = [status EXCEPT ![i] =
    IF @ = "ready" /\ kind[i] # "note" THEN "missing" ELSE @]

\* Mutant: the list forgets uploads of a kind.
StaleDirectUploads == {i \in Item : status[i] = "uploading" /\ stale[i] /\ kind[i] = "direct"}

StaleUploads == {i \in Item : status[i] = "uploading" /\ stale[i]}

\* Mutant: only files already missing are verified.
MissingFiles == {i \in Item : status[i] = "missing" /\ kind[i] # "note"}

ReadyFiles == {i \in Item : status[i] = "ready" /\ kind[i] # "note"}

\* Mutant: published files are not live for the sweep.
UploadingKeys == {i \in Item : kind[i] # "note" /\ status[i] = "uploading"}
\* Mutant: a deleted file is live for the sweep.
LiveAndDeletedKeys ==
  {i \in Item : kind[i] # "note" /\ status[i] \in {"uploading", "ready", "deleted"}}

LiveStorageKeys == {i \in Item : kind[i] # "note" /\ status[i] \in {"uploading", "ready"}}

-----------------------------------------------------------------------------
(* The storage *)

\* A storage call may fail, MaxFaults times in all.
Attempt(ok) ==
  /\ ok \in BOOLEAN
  /\ ok \/ faults < MaxFaults
  /\ faults' = IF ok THEN faults ELSE faults + 1

\* delete: the data and its sidecar, when they are there.  The code awaits each removal;
\* here they are one step, and a failing call leaves both.
Erase(i) ==
  /\ object' = [object EXCEPT ![i] = "none"]
  /\ sidecar' = [sidecar EXCEPT ![i] = FALSE]

EraseIf(i, ok) == IF ok THEN Erase(i) ELSE UNCHANGED files

Present(i) == object[i] # "none" \/ sidecar[i]

\* Mutant: the sweep does not look at the age of what it finds.
AnyAge(i) == TRUE

\* mtime <= cutoff
Aged(i) == cold[i]

-----------------------------------------------------------------------------
(* Uploading in one request: directUpload *)

Step(i, from, to) == writer[i] = from /\ writer' = [writer EXCEPT ![i] = to]

StartDirect(i) ==
  /\ Insert(i, "direct", "uploading")
  /\ Step(i, "idle", "opening")
  /\ UNCHANGED <<files, ages, deleter, reader, cleaners, faults>>

\* put: the file appears, empty ('wx').
OpenObject(i) ==
  /\ Step(i, "opening", "streaming")
  /\ object' = [object EXCEPT ![i] = "partial"]
  /\ UNCHANGED <<rows, sidecar, ages, deleter, reader, cleaners, faults>>

\* put returns.  A body cut off, or shorter than announced, returns as well.
PutReturns(i, whole) ==
  /\ Step(i, "streaming", IF whole THEN "stored" ELSE "short")
  /\ object' = [object EXCEPT ![i] =
       IF @ = "none" THEN "none" ELSE IF whole THEN "whole" ELSE "partial"]
  /\ cold' = [cold EXCEPT ![i] = FALSE]
  /\ UNCHANGED <<rows, sidecar, stale, deleter, reader, cleaners, faults>>

\* put throws (limit, broken connection, full disk) and has removed its file.
PutThrows(i) ==
  /\ writer[i] \in {"opening", "streaming"}
  /\ writer' = [writer EXCEPT ![i] = "short"]
  /\ object' = [object EXCEPT ![i] = "none"]
  /\ UNCHANGED <<rows, sidecar, ages, deleter, reader, cleaners, faults>>

\* Mutant: a short body is not told from a complete one.
StoredOrShort == {"stored", "short"}

\* Where the checks after put let the upload pass.
Accepted == {"stored"}

FinishDirect(i) ==
  /\ writer[i] \in Accepted
  /\ writer' = [writer EXCEPT ![i] = "idle"]
  /\ CompleteUpload(i)
  /\ UNCHANGED <<kind, files, ages, deleter, reader, cleaners, faults>>

\* The catch block: the row first, then the data.
AbortDirect(i) ==
  /\ Step(i, "short", "discarding")
  /\ FailUpload(i, "aborted")
  /\ UNCHANGED <<kind, files, ages, deleter, reader, cleaners, faults>>

DiscardDirect(i, ok) ==
  /\ Step(i, "discarding", "idle")
  /\ Attempt(ok)
  /\ EraseIf(i, ok)
  /\ UNCHANGED <<rows, ages, deleter, reader, cleaners>>

-----------------------------------------------------------------------------
(* Uploading in pieces: tus.  Its lock lets one request at a time touch an    *)
(* upload, so one program counter is enough.                                  *)

\* onUploadCreate, before the store creates anything.
StartTus(i) ==
  /\ Insert(i, "tus", "uploading")
  /\ Step(i, "idle", "creating")
  /\ UNCHANGED <<files, ages, deleter, reader, cleaners, faults>>

CreateTus(i) ==
  /\ Step(i, "creating", "paused")
  /\ object' = [object EXCEPT ![i] = "partial"]
  /\ sidecar' = [sidecar EXCEPT ![i] = TRUE]
  /\ UNCHANGED <<rows, ages, deleter, reader, cleaners, faults>>

\* onIncomingRequest: only a row that is still uploading; the store then needs
\* its sidecar, and refuses an upload older than the TTL it was created with.
PatchTus(i) ==
  /\ status[i] = "uploading" /\ ~stale[i]
  /\ sidecar[i]
  /\ Step(i, "paused", "patching")
  /\ UNCHANGED <<rows, files, ages, deleter, reader, cleaners, faults>>

\* The chunk ends: it was the last one, or the offset is short of the size.
\* A file that is gone when the chunk opens it fails the request.
WriteTus(i, last) ==
  /\ Step(i, "patching", IF last THEN "written" ELSE "paused")
  /\ object' = [object EXCEPT ![i] = IF @ = "partial" /\ last THEN "whole" ELSE @]
  /\ cold' = [cold EXCEPT ![i] = FALSE]
  /\ UNCHANGED <<rows, sidecar, stale, deleter, reader, cleaners, faults>>

\* onUploadFinish.
FinishTus(i) ==
  /\ Step(i, "written", IF status[i] = "uploading" THEN "tidying" ELSE "idle")
  /\ CompleteUpload(i)
  /\ UNCHANGED <<kind, files, ages, deleter, reader, cleaners, faults>>

\* removeTusSidecar, whose promise nobody awaits.
TidyTus(i, ok) ==
  /\ Step(i, "tidying", "idle")
  /\ Attempt(ok)
  /\ sidecar' = [sidecar EXCEPT ![i] = IF ok THEN FALSE ELSE @]
  /\ UNCHANGED <<rows, object, ages, deleter, reader, cleaners>>

\* DELETE of an upload that is not finished; the store removes, then POST_TERMINATE.
TerminateTus(i) ==
  /\ status[i] = "uploading"
  /\ sidecar[i] /\ object[i] = "partial"
  /\ Step(i, "paused", "terminating")
  /\ UNCHANGED <<rows, files, ages, deleter, reader, cleaners, faults>>

RemoveTus(i) ==
  /\ Step(i, "terminating", "terminated")
  /\ Erase(i)
  /\ UNCHANGED <<rows, ages, deleter, reader, cleaners, faults>>

AbortTus(i) ==
  /\ Step(i, "terminated", "idle")
  /\ FailUpload(i, "aborted")
  /\ UNCHANGED <<kind, files, ages, deleter, reader, cleaners, faults>>

-----------------------------------------------------------------------------
(* Notes, deleting, downloading *)

CreateNote(i) ==
  /\ Insert(i, "note", "ready")
  /\ UNCHANGED <<files, ages, writer, deleter, reader, cleaners, faults>>

\* POST /items/:id/delete: markDeleted takes a finished item...
MarkDeleted(i) ==
  /\ status[i] \in {"ready", "missing"}
  /\ deleter[i] = "idle"
  /\ status' = [status EXCEPT ![i] = "deleted"]
  /\ deleter' = [deleter EXCEPT ![i] = IF kind[i] = "note" THEN "idle" ELSE "deleting"]
  /\ UNCHANGED <<kind, files, ages, writer, reader, cleaners, faults>>

\* ... and an upload is discarded before its row says so.
DeleteUpload(i) ==
  /\ status[i] = "uploading"
  /\ deleter[i] = "idle"
  /\ deleter' = [deleter EXCEPT ![i] = "discarding"]
  /\ UNCHANGED <<rows, files, ages, writer, reader, cleaners, faults>>

DeleteObject(i, ok) ==
  /\ deleter[i] \in {"deleting", "discarding"}
  /\ deleter' = [deleter EXCEPT ![i] = IF @ = "deleting" THEN "idle" ELSE "discarded"]
  /\ Attempt(ok)
  /\ EraseIf(i, ok)
  /\ UNCHANGED <<rows, ages, writer, reader, cleaners>>

AbortDeleted(i) ==
  /\ deleter[i] = "discarded"
  /\ deleter' = [deleter EXCEPT ![i] = "idle"]
  /\ FailUpload(i, "aborted")
  /\ UNCHANGED <<kind, files, ages, writer, reader, cleaners, faults>>

\* Mutant: a download does not ask for a finished item.
AnyFile(i) == status[i] # "none" /\ kind[i] # "note"

Downloadable(i) == status[i] = "ready" /\ kind[i] # "note"

\* GET .../files/:id and /items/:id/download check the row, await storage.get...
Download(i) ==
  /\ Downloadable(i)
  /\ ~reader[i]
  /\ reader' = [reader EXCEPT ![i] = TRUE]
  /\ UNCHANGED <<rows, files, ages, writer, deleter, cleaners, faults>>

\* ... and serve what it opens, or 410.
Serve(i) ==
  /\ reader[i]
  /\ reader' = [reader EXCEPT ![i] = FALSE]
  /\ UNCHANGED <<rows, files, ages, writer, deleter, cleaners, faults>>

-----------------------------------------------------------------------------
(* runCleanup *)

\* cleanupTick, or the command: the uploads to expire are listed once.  The command is
\* the one without --ttl-hours, which would judge by a TTL of its own.
StartCleanup(c) ==
  /\ pc[c] = "idle"
  /\ pc' = [pc EXCEPT ![c] = "expire"]
  /\ todo' = [todo EXCEPT ![c] = StaleUploads]
  /\ UNCHANGED <<rows, files, ages, writer, deleter, reader, held, faults>>

Take(c, phase, i) ==
  /\ pc[c] = phase /\ held[c] = {} /\ i \in todo[c]
  /\ todo' = [todo EXCEPT ![c] = @ \ {i}]
  /\ UNCHANGED pc

Release(c, phase, i) ==
  /\ pc[c] = phase /\ held[c] = {i}
  /\ held' = [held EXCEPT ![c] = {}]
  /\ UNCHANGED <<pc, todo>>

\* discardUploadData swallows what the storage throws.
DiscardStale(c, i, ok) ==
  /\ Take(c, "expire", i)
  /\ held' = [held EXCEPT ![c] = {i}]
  /\ Attempt(ok)
  /\ EraseIf(i, ok)
  /\ UNCHANGED <<rows, ages, writer, deleter, reader>>

MarkExpired(c, i) ==
  /\ Release(c, "expire", i)
  /\ FailUpload(i, "expired")
  /\ UNCHANGED <<kind, files, ages, writer, deleter, reader, faults>>

Phase(c, from, to, list) ==
  /\ pc[c] = from /\ held[c] = {} /\ todo[c] = {}
  /\ pc' = [pc EXCEPT ![c] = to]
  /\ todo' = [todo EXCEPT ![c] = list]
  /\ UNCHANGED <<rows, files, ages, writer, deleter, reader, held, faults>>

StartVerify(c) == Phase(c, "expire", "verify", ReadyFiles)

\* stat; a storage that throws says nothing about the file.
Verify(c, i, ok) ==
  /\ Take(c, "verify", i)
  /\ Attempt(ok)
  /\ held' = [held EXCEPT ![c] = IF ok /\ object[i] = "none" THEN {i} ELSE {}]
  /\ UNCHANGED <<rows, files, ages, writer, deleter, reader>>

FlagMissing(c, i) ==
  /\ Release(c, "verify", i)
  /\ MarkMissing(i)
  /\ UNCHANGED <<kind, files, ages, writer, deleter, reader, faults>>

\* The live keys are read before the directory; the cutoff is fixed here too.
StartSweep(c) ==
  Phase(c, "verify", "sweep", {i \in Item \ LiveStorageKeys : Aged(i)})

\* cleanupOrphans, one entry; a failing call ends the whole sweep.
Sweep(c, i, ok) ==
  /\ pc[c] = "sweep" /\ i \in todo[c]
  /\ Attempt(ok)
  /\ todo' = [todo EXCEPT ![c] = IF ok THEN @ \ {i} ELSE {}]
  /\ EraseIf(i, ok /\ Aged(i))
  /\ UNCHANGED <<rows, ages, writer, deleter, reader, pc, held>>

EndCleanup(c) == Phase(c, "sweep", "idle", {})

-----------------------------------------------------------------------------
(* Time and crashes *)

\* More than INCOMPLETE_UPLOAD_TTL_HOURS since the row was created.
GrowOld(i) ==
  /\ status[i] = "uploading" /\ ~stale[i]
  /\ Overdue \/ writer[i] \notin Writing
  /\ stale' = [stale EXCEPT ![i] = TRUE]
  /\ UNCHANGED <<rows, files, cold, writer, deleter, reader, cleaners, faults>>

\* ... and since the object was written; a row is older than its object.
GoCold(i) ==
  /\ Present(i) /\ ~cold[i]
  /\ status[i] = "uploading" => stale[i]
  /\ writer[i] \notin {"streaming", "patching"}
  /\ cold' = [cold EXCEPT ![i] = TRUE]
  /\ UNCHANGED <<rows, files, stale, writer, deleter, reader, cleaners, faults>>

\* The server dies with everything it was awaiting.  A tus upload can be resumed.
Crash ==
  /\ faults < MaxFaults
  /\ faults' = faults + 1
  /\ writer' = [i \in Item |->
       IF writer[i] \in {"paused", "patching", "written", "terminating", "terminated"}
       THEN "paused" ELSE "idle"]
  /\ deleter' = [i \in Item |-> "idle"]
  /\ reader' = [i \in Item |-> FALSE]
  /\ pc' = [pc EXCEPT ![Server] = "idle"]
  /\ todo' = [todo EXCEPT ![Server] = {}]
  /\ held' = [held EXCEPT ![Server] = {}]
  /\ UNCHANGED <<rows, files, ages>>

\* The cleanup command is interrupted.
Interrupt(c) ==
  /\ c # Server /\ pc[c] # "idle"
  /\ pc' = [pc EXCEPT ![c] = "idle"]
  /\ todo' = [todo EXCEPT ![c] = {}]
  /\ held' = [held EXCEPT ![c] = {}]
  /\ UNCHANGED <<rows, files, ages, writer, deleter, reader, faults>>

-----------------------------------------------------------------------------

\* What goes on by itself once a request is there.
UploadStep(i) ==
  \/ OpenObject(i)
  \/ \E whole \in BOOLEAN : PutReturns(i, whole)
  \/ PutThrows(i)
  \/ FinishDirect(i)
  \/ AbortDirect(i)
  \/ \E ok \in BOOLEAN : DiscardDirect(i, ok)
  \/ CreateTus(i)
  \/ \E last \in BOOLEAN : WriteTus(i, last)
  \/ FinishTus(i)
  \/ \E ok \in BOOLEAN : TidyTus(i, ok)
  \/ RemoveTus(i)
  \/ AbortTus(i)

DeleteStep(i) ==
  \/ \E ok \in BOOLEAN : DeleteObject(i, ok)
  \/ AbortDeleted(i)

CleanupStep(c) ==
  \/ StartCleanup(c)
  \/ \E i \in Item :
       \/ \E ok \in BOOLEAN : DiscardStale(c, i, ok) \/ Verify(c, i, ok) \/ Sweep(c, i, ok)
       \/ MarkExpired(c, i)
       \/ FlagMissing(c, i)
  \/ StartVerify(c)
  \/ StartSweep(c)
  \/ EndCleanup(c)

Request(i) ==
  \/ StartDirect(i)
  \/ StartTus(i)
  \/ PatchTus(i)
  \/ TerminateTus(i)
  \/ CreateNote(i)
  \/ MarkDeleted(i)
  \/ DeleteUpload(i)
  \/ Download(i)
  \/ Serve(i)

Next ==
  \/ \E i \in Item :
       Request(i) \/ UploadStep(i) \/ DeleteStep(i) \/ GrowOld(i) \/ GoCold(i)
  \/ \E c \in Cleaner : CleanupStep(c) \/ Interrupt(c)
  \/ Crash

Spec == Init /\ [][Next]_uvars

\* Nobody has to send a request, a command or the next chunk.  What the server
\* awaits does end (sockets time out, server.ts), its timer restarts the
\* cleanup, and time passes.
Fairness ==
  /\ \A i \in Item :
       /\ WF_uvars(UploadStep(i))
       /\ WF_uvars(DeleteStep(i))
       /\ WF_uvars(GrowOld(i))
       /\ WF_uvars(GoCold(i))
  /\ WF_uvars(CleanupStep(Server))

FairSpec == Spec /\ Fairness

-----------------------------------------------------------------------------
(* Properties *)

\* What is published is complete or gone, never a part of a file: neither a
\* cut-off body nor a crash between put and completeUpload makes one ready.
ReadyIsWhole == \A i \in Item : status[i] = "ready" => object[i] # "partial"

\* Between the check of the row and the opening of the object a download may
\* lose its file, but never finds an incomplete one (deliver.ts, files/:itemId).
ServedWhole == \A i \in Item : reader[i] => object[i] # "partial"

\* A row that has left 'uploading' is decided: a request, a cleanup or a crash
\* that comes late neither publishes what was written off nor takes back what
\* was published ("only an 'uploading' row transitions", items.ts).
DecidedOnce ==
  [][\A i \in Item : status[i] \notin {"none", "uploading"} /\ status'[i] # status[i] =>
       \/ status[i] = "ready" /\ status'[i] \in {"missing", "deleted"}
       \/ status[i] = "missing" /\ status'[i] = "deleted"]_uvars

\* The sweep removes nothing that an upload or a published file needs at that
\* moment, although its list of live keys is older (cleanupOrphans).
SweepSparesLive ==
  [][\A c \in Cleaner, i \in Item, ok \in BOOLEAN :
       Sweep(c, i, ok) /\ status[i] \in {"uploading", "ready"} =>
         UNCHANGED <<object[i], sidecar[i]>>]_uvars

\* A published file keeps its data unless an administrator deletes it: cleanup
\* removes unfinished uploads and what no row references, nothing else.
PublishedIsKept ==
  [][\A i \in Item : status[i] = "ready" /\ deleter[i] = "idle" =>
       object'[i] = object[i]]_uvars

\* An upload ends, however its requests, the cleanup and the server fail.
UploadsEnd ==
  \A i \in Item : status[i] = "uploading" ~> status[i] # "uploading"

\* Nothing stays in the storage that no upload and no published file accounts
\* for: what a crash or a failing storage call left behind is swept.
OrphansGo ==
  \A i \in Item :
    Present(i) /\ status[i] \notin {"uploading", "ready"} ~> ~Present(i)

\* A file that is published without its data is flagged, or deleted.
MissingFlagged ==
  \A i \in Item :
    status[i] = "ready" /\ kind[i] # "note" /\ object[i] = "none" ~> status[i] # "ready"
=============================================================================
