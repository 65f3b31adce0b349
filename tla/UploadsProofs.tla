---------------------------- MODULE UploadsProofs ----------------------------
(* Theorems about Uploads, for any set of items and cleanup processes and any *)
(* number of faults.                                                          *)
EXTENDS Uploads, TLAPS

Published(i) == status[i] \in {"ready", "missing", "deleted"}

\* Who writes an object is done with it before its row is published.
WriterInv ==
  \A i \in Item :
    /\ writer[i] # "idle" => status[i] # "none" /\ kind[i] # "note"
    /\ Published(i) => writer[i] \in {"idle", "tidying"} /\ object[i] # "partial"
    /\ writer[i] \in {"stored", "written"} => object[i] # "partial"
    /\ reader[i] => Published(i)

\* What is in the storage has a row, and what a sweep still holds in its list
\* has one that nothing brings back.
SweepInv ==
  /\ \A i \in Item : Present(i) \/ cold[i] => status[i] # "none" /\ kind[i] # "note"
  /\ \A c \in Cleaner : pc[c] = "sweep" =>
       \A i \in todo[c] : status[i] \in {"aborted", "expired", "missing", "deleted"}

\* When uploads do not outlive the TTL, what the cleanup lists as stale has
\* nobody left to finish it.
StaleInv ==
  ~Overdue =>
    /\ \A i \in Item : stale[i] =>
         /\ status[i] \in {"uploading", "aborted", "expired"}
         /\ writer[i] \notin {"opening", "streaming", "stored", "patching", "written"}
    /\ \A c \in Cleaner : pc[c] = "expire" => \A i \in todo[c] : stale[i]

UploadsInv == TypeOK /\ WriterInv /\ SweepInv /\ StaleInv

USE DEF Status, Kind, Writing

LEMMA InitInv == Init => UploadsInv
  BY UploadsAssumption DEF Init, UploadsInv, TypeOK, WriterInv, SweepInv, StaleInv, Published, Present

LEMMA AttemptType ==
  ASSUME faults \in 0..MaxFaults, NEW ok, Attempt(ok)
  PROVE  faults' \in 0..MaxFaults
  BY UploadsAssumption DEF Attempt

LEMMA EraseType ==
  ASSUME TypeOK, NEW i \in Item, NEW ok, EraseIf(i, ok)
  PROVE  /\ object' \in [Item -> {"none", "partial", "whole"}]
         /\ sidecar' \in [Item -> BOOLEAN]
         /\ \A j \in Item : object'[j] \in {object[j], "none"}
<1>1. object \in [Item -> {"none", "partial", "whole"}] /\ sidecar \in [Item -> BOOLEAN]
  BY DEF TypeOK
<1>2. CASE ok
  <2>1. object' = [object EXCEPT ![i] = "none"] /\ sidecar' = [sidecar EXCEPT ![i] = FALSE]
    BY <1>2 DEF EraseIf, Erase
  <2> QED BY <1>1, <2>1
<1>3. CASE ~ok
  BY <1>1, <1>3 DEF EraseIf, files
<1> QED BY <1>2, <1>3

LEMMA TypeStep == TypeOK /\ WriterInv /\ SweepInv /\ [Next]_uvars => TypeOK'
<1> SUFFICES ASSUME TypeOK, WriterInv, SweepInv, [Next]_uvars PROVE TypeOK'
  OBVIOUS
<1> USE UploadsAssumption DEF TypeOK, rows, files, ages, cleaners
<1>1. ASSUME NEW i \in Item, Request(i) PROVE TypeOK'
  <2>1. CASE StartDirect(i)
    BY <2>1 DEF StartDirect, Insert, Step
  <2>2. CASE StartTus(i)
    BY <2>2 DEF StartTus, Insert, Step
  <2>3. CASE PatchTus(i)
    BY <2>3 DEF PatchTus, Step
  <2>4. CASE TerminateTus(i)
    BY <2>4 DEF TerminateTus, Step
  <2>5. CASE CreateNote(i)
    BY <2>5 DEF CreateNote, Insert, SweepInv, Present
  <2>6. CASE MarkDeleted(i)
    BY <2>6 DEF MarkDeleted
  <2>7. CASE DeleteUpload(i)
    BY <2>7 DEF DeleteUpload
  <2>8. CASE Download(i)
    BY <2>8 DEF Download
  <2>9. CASE Serve(i)
    BY <2>9 DEF Serve
  <2> QED BY <1>1, <2>1, <2>2, <2>3, <2>4, <2>5, <2>6, <2>7, <2>8, <2>9 DEF Request
<1>2. ASSUME NEW i \in Item, UploadStep(i) PROVE TypeOK'
  <2>1. CASE OpenObject(i)
    BY <2>1 DEF OpenObject, Step, WriterInv
  <2>2. CASE \E whole \in BOOLEAN : PutReturns(i, whole)
    BY <2>2 DEF PutReturns, Step, WriterInv
  <2>3. CASE PutThrows(i)
    BY <2>3 DEF PutThrows, WriterInv
  <2>4. CASE FinishDirect(i)
    BY <2>4 DEF FinishDirect, CompleteUpload, Accepted
  <2>5. CASE AbortDirect(i)
    BY <2>5 DEF AbortDirect, Step, FailUpload
  <2>6. CASE \E ok \in BOOLEAN : DiscardDirect(i, ok)
    <3>1. PICK ok \in BOOLEAN : DiscardDirect(i, ok)
      BY <2>6
    <3>2. faults' \in 0..MaxFaults
      BY <3>1, AttemptType DEF DiscardDirect
    <3>3. EraseIf(i, ok)
      BY <3>1 DEF DiscardDirect
    <3> QED BY <3>1, <3>2, <3>3, EraseType DEF DiscardDirect, Step
  <2>7. CASE CreateTus(i)
    BY <2>7 DEF CreateTus, Step, WriterInv
  <2>8. CASE \E last \in BOOLEAN : WriteTus(i, last)
    BY <2>8 DEF WriteTus, Step, WriterInv
  <2>9. CASE FinishTus(i)
    BY <2>9 DEF FinishTus, Step, CompleteUpload
  <2>10. CASE \E ok \in BOOLEAN : TidyTus(i, ok)
    <3>1. PICK ok \in BOOLEAN : TidyTus(i, ok)
      BY <2>10
    <3>2. faults' \in 0..MaxFaults
      BY <3>1, AttemptType DEF TidyTus
    <3> QED BY <3>1, <3>2 DEF TidyTus, Step
  <2>11. CASE RemoveTus(i)
    BY <2>11 DEF RemoveTus, Step, Erase
  <2>12. CASE AbortTus(i)
    BY <2>12 DEF AbortTus, Step, FailUpload
  <2> QED BY <1>2, <2>1, <2>2, <2>3, <2>4, <2>5, <2>6, <2>7, <2>8, <2>9, <2>10, <2>11, <2>12 DEF UploadStep
<1>3. ASSUME NEW i \in Item, DeleteStep(i) PROVE TypeOK'
  <2>1. CASE \E ok \in BOOLEAN : DeleteObject(i, ok)
    <3>1. PICK ok \in BOOLEAN : DeleteObject(i, ok)
      BY <2>1
    <3>2. faults' \in 0..MaxFaults
      BY <3>1, AttemptType DEF DeleteObject
    <3>3. EraseIf(i, ok)
      BY <3>1 DEF DeleteObject
    <3> QED BY <3>1, <3>2, <3>3, EraseType DEF DeleteObject
  <2>2. CASE AbortDeleted(i)
    BY <2>2 DEF AbortDeleted, FailUpload
  <2> QED BY <1>3, <2>1, <2>2 DEF DeleteStep
<1>4. ASSUME NEW i \in Item, GrowOld(i) PROVE TypeOK'
  BY <1>4 DEF GrowOld
<1>5. ASSUME NEW i \in Item, GoCold(i) PROVE TypeOK'
  BY <1>5 DEF GoCold
<1>6. ASSUME NEW c \in Cleaner, CleanupStep(c) PROVE TypeOK'
  <2>1. CASE StartCleanup(c)
    BY <2>1 DEF StartCleanup, StaleUploads
  <2>2. CASE \E i \in Item, ok \in BOOLEAN : DiscardStale(c, i, ok)
    <3>1. PICK i \in Item, ok \in BOOLEAN : DiscardStale(c, i, ok)
      BY <2>2
    <3>2. faults' \in 0..MaxFaults
      BY <3>1, AttemptType DEF DiscardStale
    <3>3. EraseIf(i, ok)
      BY <3>1 DEF DiscardStale
    <3> QED BY <3>1, <3>2, <3>3, EraseType DEF DiscardStale, Take
  <2>3. CASE \E i \in Item, ok \in BOOLEAN : Verify(c, i, ok)
    <3>1. PICK i \in Item, ok \in BOOLEAN : Verify(c, i, ok)
      BY <2>3
    <3>2. faults' \in 0..MaxFaults
      BY <3>1, AttemptType DEF Verify
    <3> QED BY <3>1, <3>2 DEF Verify, Take
  <2>4. CASE \E i \in Item, ok \in BOOLEAN : Sweep(c, i, ok)
    <3>1. PICK i \in Item, ok \in BOOLEAN : Sweep(c, i, ok)
      BY <2>4
    <3>2. faults' \in 0..MaxFaults
      BY <3>1, AttemptType DEF Sweep
    <3>3. EraseIf(i, ok /\ Aged(i))
      BY <3>1 DEF Sweep
    <3> QED BY <3>1, <3>2, <3>3, EraseType DEF Sweep
  <2>5. CASE \E i \in Item : MarkExpired(c, i)
    BY <2>5 DEF MarkExpired, Release, FailUpload
  <2>6. CASE \E i \in Item : FlagMissing(c, i)
    BY <2>6 DEF FlagMissing, Release, MarkMissing
  <2>7. CASE StartVerify(c)
    BY <2>7 DEF StartVerify, Phase, ReadyFiles
  <2>8. CASE StartSweep(c)
    BY <2>8 DEF StartSweep, Phase, LiveStorageKeys, Aged
  <2>9. CASE EndCleanup(c)
    BY <2>9 DEF EndCleanup, Phase
  <2> QED BY <1>6, <2>1, <2>2, <2>3, <2>4, <2>5, <2>6, <2>7, <2>8, <2>9 DEF CleanupStep
<1>7. ASSUME NEW c \in Cleaner, Interrupt(c) PROVE TypeOK'
  BY <1>7 DEF Interrupt
<1>8. CASE Crash
  BY <1>8 DEF Crash
<1>9. CASE UNCHANGED uvars
  BY <1>9 DEF uvars
<1> QED BY <1>1, <1>2, <1>3, <1>4, <1>5, <1>6, <1>7, <1>8, <1>9 DEF Next

LEMMA WriterStep == TypeOK /\ WriterInv /\ SweepInv /\ StaleInv /\ [Next]_uvars => WriterInv'
<1> SUFFICES ASSUME TypeOK, WriterInv, SweepInv, StaleInv, [Next]_uvars PROVE WriterInv'
  OBVIOUS
<1> USE UploadsAssumption DEF TypeOK, WriterInv, Published, rows, files, ages, cleaners
<1>1. ASSUME NEW i \in Item, Request(i) PROVE WriterInv'
  <2>1. CASE StartDirect(i)
    BY <2>1 DEF StartDirect, Insert, Step
  <2>2. CASE StartTus(i)
    BY <2>2 DEF StartTus, Insert, Step
  <2>3. CASE PatchTus(i)
    BY <2>3 DEF PatchTus, Step
  <2>4. CASE TerminateTus(i)
    BY <2>4 DEF TerminateTus, Step
  <2>5. CASE CreateNote(i)
    BY <2>5 DEF CreateNote, Insert, SweepInv, Present
  <2>6. CASE MarkDeleted(i)
    BY <2>6 DEF MarkDeleted
  <2>7. CASE DeleteUpload(i)
    BY <2>7 DEF DeleteUpload
  <2>8. CASE Download(i)
    BY <2>8 DEF Download, Downloadable
  <2>9. CASE Serve(i)
    BY <2>9 DEF Serve
  <2> QED BY <1>1, <2>1, <2>2, <2>3, <2>4, <2>5, <2>6, <2>7, <2>8, <2>9 DEF Request
<1>2. ASSUME NEW i \in Item, UploadStep(i) PROVE WriterInv'
  <2>1. CASE OpenObject(i)
    BY <2>1 DEF OpenObject, Step
  <2>2. CASE \E whole \in BOOLEAN : PutReturns(i, whole)
    BY <2>2 DEF PutReturns, Step
  <2>3. CASE PutThrows(i)
    BY <2>3 DEF PutThrows
  <2>4. CASE FinishDirect(i)
    BY <2>4 DEF FinishDirect, CompleteUpload, Accepted
  <2>5. CASE AbortDirect(i)
    BY <2>5 DEF AbortDirect, Step, FailUpload
  <2>6. CASE \E ok \in BOOLEAN : DiscardDirect(i, ok)
    BY <2>6 DEF DiscardDirect, Step, Attempt, EraseIf, Erase
  <2>7. CASE CreateTus(i)
    BY <2>7 DEF CreateTus, Step
  <2>8. CASE \E last \in BOOLEAN : WriteTus(i, last)
    BY <2>8 DEF WriteTus, Step
  <2>9. CASE FinishTus(i)
    BY <2>9 DEF FinishTus, Step, CompleteUpload
  <2>10. CASE \E ok \in BOOLEAN : TidyTus(i, ok)
    BY <2>10 DEF TidyTus, Step, Attempt
  <2>11. CASE RemoveTus(i)
    BY <2>11 DEF RemoveTus, Step, Erase
  <2>12. CASE AbortTus(i)
    BY <2>12 DEF AbortTus, Step, FailUpload
  <2> QED BY <1>2, <2>1, <2>2, <2>3, <2>4, <2>5, <2>6, <2>7, <2>8, <2>9, <2>10, <2>11, <2>12 DEF UploadStep
<1>3. ASSUME NEW i \in Item, DeleteStep(i) PROVE WriterInv'
  <2>1. CASE \E ok \in BOOLEAN : DeleteObject(i, ok)
    BY <2>1 DEF DeleteObject, Attempt, EraseIf, Erase
  <2>2. CASE AbortDeleted(i)
    BY <2>2 DEF AbortDeleted, FailUpload
  <2> QED BY <1>3, <2>1, <2>2 DEF DeleteStep
<1>4. ASSUME NEW i \in Item, GrowOld(i) PROVE WriterInv'
  BY <1>4 DEF GrowOld
<1>5. ASSUME NEW i \in Item, GoCold(i) PROVE WriterInv'
  BY <1>5 DEF GoCold
<1>6. ASSUME NEW c \in Cleaner, CleanupStep(c) PROVE WriterInv'
  <2>1. CASE StartCleanup(c)
    BY <2>1 DEF StartCleanup, StaleUploads
  <2>2. CASE \E i \in Item, ok \in BOOLEAN : DiscardStale(c, i, ok)
    BY <2>2 DEF DiscardStale, Take, Attempt, EraseIf, Erase
  <2>3. CASE \E i \in Item, ok \in BOOLEAN : Verify(c, i, ok)
    BY <2>3 DEF Verify, Take, Attempt
  <2>4. CASE \E i \in Item, ok \in BOOLEAN : Sweep(c, i, ok)
    BY <2>4 DEF Sweep, Attempt, EraseIf, Erase, Aged
  <2>5. CASE \E i \in Item : MarkExpired(c, i)
    BY <2>5 DEF MarkExpired, Release, FailUpload
  <2>6. CASE \E i \in Item : FlagMissing(c, i)
    BY <2>6 DEF FlagMissing, Release, MarkMissing
  <2>7. CASE StartVerify(c)
    BY <2>7 DEF StartVerify, Phase, ReadyFiles
  <2>8. CASE StartSweep(c)
    BY <2>8 DEF StartSweep, Phase, LiveStorageKeys, Aged
  <2>9. CASE EndCleanup(c)
    BY <2>9 DEF EndCleanup, Phase
  <2> QED BY <1>6, <2>1, <2>2, <2>3, <2>4, <2>5, <2>6, <2>7, <2>8, <2>9 DEF CleanupStep
<1>7. ASSUME NEW c \in Cleaner, Interrupt(c) PROVE WriterInv'
  BY <1>7 DEF Interrupt
<1>8. CASE Crash
  BY <1>8 DEF Crash
<1>9. CASE UNCHANGED uvars
  BY <1>9 DEF uvars
<1> QED BY <1>1, <1>2, <1>3, <1>4, <1>5, <1>6, <1>7, <1>8, <1>9 DEF Next

LEMMA SweepStep == TypeOK /\ WriterInv /\ SweepInv /\ StaleInv /\ [Next]_uvars => SweepInv'
<1> SUFFICES ASSUME TypeOK, WriterInv, SweepInv, StaleInv, [Next]_uvars PROVE SweepInv'
  OBVIOUS
<1> USE UploadsAssumption DEF TypeOK, SweepInv, WriterInv, Present, rows, files, ages, cleaners
<1>1. ASSUME NEW i \in Item, Request(i) PROVE SweepInv'
  <2>1. CASE StartDirect(i)
    BY <2>1 DEF StartDirect, Insert, Step
  <2>2. CASE StartTus(i)
    BY <2>2 DEF StartTus, Insert, Step
  <2>3. CASE PatchTus(i)
    BY <2>3 DEF PatchTus, Step
  <2>4. CASE TerminateTus(i)
    BY <2>4 DEF TerminateTus, Step
  <2>5. CASE CreateNote(i)
    BY <2>5 DEF CreateNote, Insert
  <2>6. CASE MarkDeleted(i)
    BY <2>6 DEF MarkDeleted
  <2>7. CASE DeleteUpload(i)
    BY <2>7 DEF DeleteUpload
  <2>8. CASE Download(i)
    BY <2>8 DEF Download
  <2>9. CASE Serve(i)
    BY <2>9 DEF Serve
  <2> QED BY <1>1, <2>1, <2>2, <2>3, <2>4, <2>5, <2>6, <2>7, <2>8, <2>9 DEF Request
<1>2. ASSUME NEW i \in Item, UploadStep(i) PROVE SweepInv'
  <2>1. CASE OpenObject(i)
    BY <2>1 DEF OpenObject, Step
  <2>2. CASE \E whole \in BOOLEAN : PutReturns(i, whole)
    BY <2>2 DEF PutReturns, Step
  <2>3. CASE PutThrows(i)
    BY <2>3 DEF PutThrows
  <2>4. CASE FinishDirect(i)
    BY <2>4 DEF FinishDirect, CompleteUpload, Accepted
  <2>5. CASE AbortDirect(i)
    BY <2>5 DEF AbortDirect, Step, FailUpload
  <2>6. CASE \E ok \in BOOLEAN : DiscardDirect(i, ok)
    BY <2>6 DEF DiscardDirect, Step, Attempt, EraseIf, Erase
  <2>7. CASE CreateTus(i)
    BY <2>7 DEF CreateTus, Step
  <2>8. CASE \E last \in BOOLEAN : WriteTus(i, last)
    BY <2>8 DEF WriteTus, Step
  <2>9. CASE FinishTus(i)
    BY <2>9 DEF FinishTus, Step, CompleteUpload
  <2>10. CASE \E ok \in BOOLEAN : TidyTus(i, ok)
    BY <2>10 DEF TidyTus, Step, Attempt
  <2>11. CASE RemoveTus(i)
    BY <2>11 DEF RemoveTus, Step, Erase
  <2>12. CASE AbortTus(i)
    BY <2>12 DEF AbortTus, Step, FailUpload
  <2> QED BY <1>2, <2>1, <2>2, <2>3, <2>4, <2>5, <2>6, <2>7, <2>8, <2>9, <2>10, <2>11, <2>12 DEF UploadStep
<1>3. ASSUME NEW i \in Item, DeleteStep(i) PROVE SweepInv'
  <2>1. CASE \E ok \in BOOLEAN : DeleteObject(i, ok)
    BY <2>1 DEF DeleteObject, Attempt, EraseIf, Erase
  <2>2. CASE AbortDeleted(i)
    BY <2>2 DEF AbortDeleted, FailUpload
  <2> QED BY <1>3, <2>1, <2>2 DEF DeleteStep
<1>4. ASSUME NEW i \in Item, GrowOld(i) PROVE SweepInv'
  BY <1>4 DEF GrowOld
<1>5. ASSUME NEW i \in Item, GoCold(i) PROVE SweepInv'
  BY <1>5 DEF GoCold
<1>6. ASSUME NEW c \in Cleaner, CleanupStep(c) PROVE SweepInv'
  <2>1. CASE StartCleanup(c)
    BY <2>1 DEF StartCleanup, StaleUploads
  <2>2. CASE \E i \in Item, ok \in BOOLEAN : DiscardStale(c, i, ok)
    BY <2>2 DEF DiscardStale, Take, Attempt, EraseIf, Erase
  <2>3. CASE \E i \in Item, ok \in BOOLEAN : Verify(c, i, ok)
    BY <2>3 DEF Verify, Take, Attempt
  <2>4. CASE \E i \in Item, ok \in BOOLEAN : Sweep(c, i, ok)
    BY <2>4 DEF Sweep, Attempt, EraseIf, Erase, Aged
  <2>5. CASE \E i \in Item : MarkExpired(c, i)
    BY <2>5 DEF MarkExpired, Release, FailUpload
  <2>6. CASE \E i \in Item : FlagMissing(c, i)
    BY <2>6 DEF FlagMissing, Release, MarkMissing
  <2>7. CASE StartVerify(c)
    BY <2>7 DEF StartVerify, Phase, ReadyFiles
  <2>8. CASE StartSweep(c)
    BY <2>8 DEF StartSweep, Phase, LiveStorageKeys, Aged
  <2>9. CASE EndCleanup(c)
    BY <2>9 DEF EndCleanup, Phase
  <2> QED BY <1>6, <2>1, <2>2, <2>3, <2>4, <2>5, <2>6, <2>7, <2>8, <2>9 DEF CleanupStep
<1>7. ASSUME NEW c \in Cleaner, Interrupt(c) PROVE SweepInv'
  BY <1>7 DEF Interrupt
<1>8. CASE Crash
  BY <1>8 DEF Crash
<1>9. CASE UNCHANGED uvars
  BY <1>9 DEF uvars
<1> QED BY <1>1, <1>2, <1>3, <1>4, <1>5, <1>6, <1>7, <1>8, <1>9 DEF Next

LEMMA StaleStep == TypeOK /\ WriterInv /\ SweepInv /\ StaleInv /\ [Next]_uvars => StaleInv'
<1> SUFFICES ASSUME TypeOK, WriterInv, SweepInv, StaleInv, [Next]_uvars PROVE StaleInv'
  OBVIOUS
<1> USE UploadsAssumption DEF TypeOK, StaleInv, WriterInv, Published, rows, files, ages, cleaners
<1>1. ASSUME NEW i \in Item, Request(i) PROVE StaleInv'
  <2>1. CASE StartDirect(i)
    BY <2>1 DEF StartDirect, Insert, Step
  <2>2. CASE StartTus(i)
    BY <2>2 DEF StartTus, Insert, Step
  <2>3. CASE PatchTus(i)
    BY <2>3 DEF PatchTus, Step
  <2>4. CASE TerminateTus(i)
    BY <2>4 DEF TerminateTus, Step
  <2>5. CASE CreateNote(i)
    BY <2>5 DEF CreateNote, Insert
  <2>6. CASE MarkDeleted(i)
    BY <2>6 DEF MarkDeleted
  <2>7. CASE DeleteUpload(i)
    BY <2>7 DEF DeleteUpload
  <2>8. CASE Download(i)
    BY <2>8 DEF Download
  <2>9. CASE Serve(i)
    BY <2>9 DEF Serve
  <2> QED BY <1>1, <2>1, <2>2, <2>3, <2>4, <2>5, <2>6, <2>7, <2>8, <2>9 DEF Request
<1>2. ASSUME NEW i \in Item, UploadStep(i) PROVE StaleInv'
  <2>1. CASE OpenObject(i)
    BY <2>1 DEF OpenObject, Step
  <2>2. CASE \E whole \in BOOLEAN : PutReturns(i, whole)
    BY <2>2 DEF PutReturns, Step
  <2>3. CASE PutThrows(i)
    BY <2>3 DEF PutThrows
  <2>4. CASE FinishDirect(i)
    BY <2>4 DEF FinishDirect, CompleteUpload, Accepted
  <2>5. CASE AbortDirect(i)
    BY <2>5 DEF AbortDirect, Step, FailUpload
  <2>6. CASE \E ok \in BOOLEAN : DiscardDirect(i, ok)
    BY <2>6 DEF DiscardDirect, Step, Attempt, EraseIf, Erase
  <2>7. CASE CreateTus(i)
    BY <2>7 DEF CreateTus, Step
  <2>8. CASE \E last \in BOOLEAN : WriteTus(i, last)
    BY <2>8 DEF WriteTus, Step
  <2>9. CASE FinishTus(i)
    BY <2>9 DEF FinishTus, Step, CompleteUpload
  <2>10. CASE \E ok \in BOOLEAN : TidyTus(i, ok)
    BY <2>10 DEF TidyTus, Step, Attempt
  <2>11. CASE RemoveTus(i)
    BY <2>11 DEF RemoveTus, Step, Erase
  <2>12. CASE AbortTus(i)
    BY <2>12 DEF AbortTus, Step, FailUpload
  <2> QED BY <1>2, <2>1, <2>2, <2>3, <2>4, <2>5, <2>6, <2>7, <2>8, <2>9, <2>10, <2>11, <2>12 DEF UploadStep
<1>3. ASSUME NEW i \in Item, DeleteStep(i) PROVE StaleInv'
  <2>1. CASE \E ok \in BOOLEAN : DeleteObject(i, ok)
    BY <2>1 DEF DeleteObject, Attempt, EraseIf, Erase
  <2>2. CASE AbortDeleted(i)
    BY <2>2 DEF AbortDeleted, FailUpload
  <2> QED BY <1>3, <2>1, <2>2 DEF DeleteStep
<1>4. ASSUME NEW i \in Item, GrowOld(i) PROVE StaleInv'
  BY <1>4 DEF GrowOld
<1>5. ASSUME NEW i \in Item, GoCold(i) PROVE StaleInv'
  BY <1>5 DEF GoCold
<1>6. ASSUME NEW c \in Cleaner, CleanupStep(c) PROVE StaleInv'
  <2>1. CASE StartCleanup(c)
    BY <2>1 DEF StartCleanup, StaleUploads
  <2>2. CASE \E i \in Item, ok \in BOOLEAN : DiscardStale(c, i, ok)
    BY <2>2 DEF DiscardStale, Take, Attempt, EraseIf, Erase
  <2>3. CASE \E i \in Item, ok \in BOOLEAN : Verify(c, i, ok)
    BY <2>3 DEF Verify, Take, Attempt
  <2>4. CASE \E i \in Item, ok \in BOOLEAN : Sweep(c, i, ok)
    BY <2>4 DEF Sweep, Attempt, EraseIf, Erase, Aged
  <2>5. CASE \E i \in Item : MarkExpired(c, i)
    BY <2>5 DEF MarkExpired, Release, FailUpload
  <2>6. CASE \E i \in Item : FlagMissing(c, i)
    BY <2>6 DEF FlagMissing, Release, MarkMissing
  <2>7. CASE StartVerify(c)
    BY <2>7 DEF StartVerify, Phase, ReadyFiles
  <2>8. CASE StartSweep(c)
    BY <2>8 DEF StartSweep, Phase, LiveStorageKeys, Aged
  <2>9. CASE EndCleanup(c)
    BY <2>9 DEF EndCleanup, Phase
  <2> QED BY <1>6, <2>1, <2>2, <2>3, <2>4, <2>5, <2>6, <2>7, <2>8, <2>9 DEF CleanupStep
<1>7. ASSUME NEW c \in Cleaner, Interrupt(c) PROVE StaleInv'
  BY <1>7 DEF Interrupt
<1>8. CASE Crash
  BY <1>8 DEF Crash
<1>9. CASE UNCHANGED uvars
  BY <1>9 DEF uvars
<1> QED BY <1>1, <1>2, <1>3, <1>4, <1>5, <1>6, <1>7, <1>8, <1>9 DEF Next

LEMMA InvStep == UploadsInv /\ [Next]_uvars => UploadsInv'
  BY TypeStep, WriterStep, SweepStep, StaleStep DEF UploadsInv

LEMMA InvHolds == Spec => []UploadsInv
  BY InitInv, InvStep, PTL DEF Spec

\* The state is well typed; a note is never missing and has nothing in the storage.
THEOREM TypeCorrect == Spec => []TypeOK
<1>1. UploadsInv => TypeOK
  BY DEF UploadsInv
<1> QED BY <1>1, InvHolds, PTL

\* A file is published complete, whatever body was cut off, whichever request,
\* cleanup or crash came in between (completeUpload runs after the last byte).
THEOREM ReadyIsWholeHolds == Spec => []ReadyIsWhole
<1>1. UploadsInv => ReadyIsWhole
  BY DEF UploadsInv, WriterInv, Published, ReadyIsWhole
<1> QED BY <1>1, InvHolds, PTL

\* A download that has checked its row never opens an incomplete object.
THEOREM ServedWholeHolds == Spec => []ServedWhole
<1>1. UploadsInv => ServedWhole
  BY DEF UploadsInv, WriterInv, Published, ServedWhole
<1> QED BY <1>1, InvHolds, PTL

Decided ==
  \A i \in Item : status[i] \notin {"none", "uploading"} /\ status'[i] # status[i] =>
    \/ status[i] = "ready" /\ status'[i] \in {"missing", "deleted"}
    \/ status[i] = "missing" /\ status'[i] = "deleted"

LEMMA DecidedStep == TypeOK /\ [Next]_uvars => Decided
<1> SUFFICES ASSUME TypeOK, [Next]_uvars PROVE Decided
  OBVIOUS
<1> USE DEF TypeOK, Decided, rows
<1>1. ASSUME NEW i \in Item, Request(i) PROVE Decided
  <2>1. CASE StartDirect(i)
    BY <2>1 DEF StartDirect, Insert, Step
  <2>2. CASE StartTus(i)
    BY <2>2 DEF StartTus, Insert, Step
  <2>3. CASE PatchTus(i)
    BY <2>3 DEF PatchTus, Step
  <2>4. CASE TerminateTus(i)
    BY <2>4 DEF TerminateTus, Step
  <2>5. CASE CreateNote(i)
    BY <2>5 DEF CreateNote, Insert
  <2>6. CASE MarkDeleted(i)
    BY <2>6 DEF MarkDeleted
  <2>7. CASE DeleteUpload(i)
    BY <2>7 DEF DeleteUpload
  <2>8. CASE Download(i)
    BY <2>8 DEF Download
  <2>9. CASE Serve(i)
    BY <2>9 DEF Serve
  <2> QED BY <1>1, <2>1, <2>2, <2>3, <2>4, <2>5, <2>6, <2>7, <2>8, <2>9 DEF Request
<1>2. ASSUME NEW i \in Item, UploadStep(i) PROVE Decided
  <2>1. CASE OpenObject(i)
    BY <2>1 DEF OpenObject, Step
  <2>2. CASE \E whole \in BOOLEAN : PutReturns(i, whole)
    BY <2>2 DEF PutReturns, Step
  <2>3. CASE PutThrows(i)
    BY <2>3 DEF PutThrows
  <2>4. CASE FinishDirect(i)
    BY <2>4 DEF FinishDirect, CompleteUpload, Accepted
  <2>5. CASE AbortDirect(i)
    BY <2>5 DEF AbortDirect, Step, FailUpload
  <2>6. CASE \E ok \in BOOLEAN : DiscardDirect(i, ok)
    BY <2>6 DEF DiscardDirect, Step, Attempt, EraseIf, Erase
  <2>7. CASE CreateTus(i)
    BY <2>7 DEF CreateTus, Step
  <2>8. CASE \E last \in BOOLEAN : WriteTus(i, last)
    BY <2>8 DEF WriteTus, Step
  <2>9. CASE FinishTus(i)
    BY <2>9 DEF FinishTus, Step, CompleteUpload
  <2>10. CASE \E ok \in BOOLEAN : TidyTus(i, ok)
    BY <2>10 DEF TidyTus, Step, Attempt
  <2>11. CASE RemoveTus(i)
    BY <2>11 DEF RemoveTus, Step, Erase
  <2>12. CASE AbortTus(i)
    BY <2>12 DEF AbortTus, Step, FailUpload
  <2> QED BY <1>2, <2>1, <2>2, <2>3, <2>4, <2>5, <2>6, <2>7, <2>8, <2>9, <2>10, <2>11, <2>12 DEF UploadStep
<1>3. ASSUME NEW i \in Item, DeleteStep(i) PROVE Decided
  <2>1. CASE \E ok \in BOOLEAN : DeleteObject(i, ok)
    BY <2>1 DEF DeleteObject, Attempt, EraseIf, Erase
  <2>2. CASE AbortDeleted(i)
    BY <2>2 DEF AbortDeleted, FailUpload
  <2> QED BY <1>3, <2>1, <2>2 DEF DeleteStep
<1>4. ASSUME NEW i \in Item, GrowOld(i) PROVE Decided
  BY <1>4 DEF GrowOld
<1>5. ASSUME NEW i \in Item, GoCold(i) PROVE Decided
  BY <1>5 DEF GoCold
<1>6. ASSUME NEW c \in Cleaner, CleanupStep(c) PROVE Decided
  <2>1. CASE StartCleanup(c)
    BY <2>1 DEF StartCleanup, StaleUploads
  <2>2. CASE \E i \in Item, ok \in BOOLEAN : DiscardStale(c, i, ok)
    BY <2>2 DEF DiscardStale, Take, Attempt, EraseIf, Erase
  <2>3. CASE \E i \in Item, ok \in BOOLEAN : Verify(c, i, ok)
    BY <2>3 DEF Verify, Take, Attempt
  <2>4. CASE \E i \in Item, ok \in BOOLEAN : Sweep(c, i, ok)
    BY <2>4 DEF Sweep, Attempt, EraseIf, Erase, Aged
  <2>5. CASE \E i \in Item : MarkExpired(c, i)
    BY <2>5 DEF MarkExpired, Release, FailUpload
  <2>6. CASE \E i \in Item : FlagMissing(c, i)
    BY <2>6 DEF FlagMissing, Release, MarkMissing
  <2>7. CASE StartVerify(c)
    BY <2>7 DEF StartVerify, Phase, ReadyFiles
  <2>8. CASE StartSweep(c)
    BY <2>8 DEF StartSweep, Phase, LiveStorageKeys, Aged
  <2>9. CASE EndCleanup(c)
    BY <2>9 DEF EndCleanup, Phase
  <2> QED BY <1>6, <2>1, <2>2, <2>3, <2>4, <2>5, <2>6, <2>7, <2>8, <2>9 DEF CleanupStep
<1>7. ASSUME NEW c \in Cleaner, Interrupt(c) PROVE Decided
  BY <1>7 DEF Interrupt
<1>8. CASE Crash
  BY <1>8 DEF Crash
<1>9. CASE UNCHANGED uvars
  BY <1>9 DEF uvars
<1> QED BY <1>1, <1>2, <1>3, <1>4, <1>5, <1>6, <1>7, <1>8, <1>9 DEF Next

\* Once a row has left 'uploading' no late request, cleanup or crash takes the
\* decision back (completeUpload, failUpload, markMissing, markDeleted).
THEOREM DecidedOnceHolds == Spec => DecidedOnce
<1>1. UploadsInv /\ [Next]_uvars => [Decided]_uvars
  BY DecidedStep DEF UploadsInv
<1> QED BY <1>1, InvHolds, PTL DEF Spec, DecidedOnce, Decided

Spared ==
  \A c \in Cleaner, i \in Item, ok \in BOOLEAN :
    Sweep(c, i, ok) /\ status[i] \in {"uploading", "ready"} =>
      UNCHANGED <<object[i], sidecar[i]>>

\* The sweep spares every upload and every published file, although it works
\* through a list of keys that was read before (cleanupOrphans).
THEOREM SweepSparesLiveHolds == Spec => SweepSparesLive
<1>1. UploadsInv => Spared
  BY DEF UploadsInv, SweepInv, Spared, Sweep
<1> QED BY <1>1, InvHolds, PTL DEF Spec, SweepSparesLive, Spared

Kept ==
  \A i \in Item : status[i] = "ready" /\ deleter[i] = "idle" =>
    object'[i] = object[i]

LEMMA KeptStep == UploadsInv /\ ~Overdue /\ [Next]_uvars => Kept
<1> SUFFICES ASSUME UploadsInv, ~Overdue, [Next]_uvars PROVE Kept
  OBVIOUS
<1> USE DEF UploadsInv, TypeOK, WriterInv, Published, SweepInv, StaleInv, Kept, files
<1>1. ASSUME NEW i \in Item, Request(i) PROVE Kept
  <2>1. CASE StartDirect(i)
    BY <2>1 DEF StartDirect, Insert, Step
  <2>2. CASE StartTus(i)
    BY <2>2 DEF StartTus, Insert, Step
  <2>3. CASE PatchTus(i)
    BY <2>3 DEF PatchTus, Step
  <2>4. CASE TerminateTus(i)
    BY <2>4 DEF TerminateTus, Step
  <2>5. CASE CreateNote(i)
    BY <2>5 DEF CreateNote, Insert
  <2>6. CASE MarkDeleted(i)
    BY <2>6 DEF MarkDeleted
  <2>7. CASE DeleteUpload(i)
    BY <2>7 DEF DeleteUpload
  <2>8. CASE Download(i)
    BY <2>8 DEF Download
  <2>9. CASE Serve(i)
    BY <2>9 DEF Serve
  <2> QED BY <1>1, <2>1, <2>2, <2>3, <2>4, <2>5, <2>6, <2>7, <2>8, <2>9 DEF Request
<1>2. ASSUME NEW i \in Item, UploadStep(i) PROVE Kept
  <2>1. CASE OpenObject(i)
    BY <2>1 DEF OpenObject, Step
  <2>2. CASE \E whole \in BOOLEAN : PutReturns(i, whole)
    BY <2>2 DEF PutReturns, Step
  <2>3. CASE PutThrows(i)
    BY <2>3 DEF PutThrows
  <2>4. CASE FinishDirect(i)
    BY <2>4 DEF FinishDirect, CompleteUpload, Accepted
  <2>5. CASE AbortDirect(i)
    BY <2>5 DEF AbortDirect, Step, FailUpload
  <2>6. CASE \E ok \in BOOLEAN : DiscardDirect(i, ok)
    BY <2>6 DEF DiscardDirect, Step, Attempt, EraseIf, Erase
  <2>7. CASE CreateTus(i)
    BY <2>7 DEF CreateTus, Step
  <2>8. CASE \E last \in BOOLEAN : WriteTus(i, last)
    BY <2>8 DEF WriteTus, Step
  <2>9. CASE FinishTus(i)
    BY <2>9 DEF FinishTus, Step, CompleteUpload
  <2>10. CASE \E ok \in BOOLEAN : TidyTus(i, ok)
    BY <2>10 DEF TidyTus, Step, Attempt
  <2>11. CASE RemoveTus(i)
    BY <2>11 DEF RemoveTus, Step, Erase
  <2>12. CASE AbortTus(i)
    BY <2>12 DEF AbortTus, Step, FailUpload
  <2> QED BY <1>2, <2>1, <2>2, <2>3, <2>4, <2>5, <2>6, <2>7, <2>8, <2>9, <2>10, <2>11, <2>12 DEF UploadStep
<1>3. ASSUME NEW i \in Item, DeleteStep(i) PROVE Kept
  <2>1. CASE \E ok \in BOOLEAN : DeleteObject(i, ok)
    BY <2>1 DEF DeleteObject, Attempt, EraseIf, Erase
  <2>2. CASE AbortDeleted(i)
    BY <2>2 DEF AbortDeleted, FailUpload
  <2> QED BY <1>3, <2>1, <2>2 DEF DeleteStep
<1>4. ASSUME NEW i \in Item, GrowOld(i) PROVE Kept
  BY <1>4 DEF GrowOld
<1>5. ASSUME NEW i \in Item, GoCold(i) PROVE Kept
  BY <1>5 DEF GoCold
<1>6. ASSUME NEW c \in Cleaner, CleanupStep(c) PROVE Kept
  <2>1. CASE StartCleanup(c)
    BY <2>1 DEF StartCleanup, StaleUploads
  <2>2. CASE \E i \in Item, ok \in BOOLEAN : DiscardStale(c, i, ok)
    BY <2>2 DEF DiscardStale, Take, Attempt, EraseIf, Erase
  <2>3. CASE \E i \in Item, ok \in BOOLEAN : Verify(c, i, ok)
    BY <2>3 DEF Verify, Take, Attempt
  <2>4. CASE \E i \in Item, ok \in BOOLEAN : Sweep(c, i, ok)
    BY <2>4 DEF Sweep, Attempt, EraseIf, Erase, Aged
  <2>5. CASE \E i \in Item : MarkExpired(c, i)
    BY <2>5 DEF MarkExpired, Release, FailUpload
  <2>6. CASE \E i \in Item : FlagMissing(c, i)
    BY <2>6 DEF FlagMissing, Release, MarkMissing
  <2>7. CASE StartVerify(c)
    BY <2>7 DEF StartVerify, Phase, ReadyFiles
  <2>8. CASE StartSweep(c)
    BY <2>8 DEF StartSweep, Phase, LiveStorageKeys, Aged
  <2>9. CASE EndCleanup(c)
    BY <2>9 DEF EndCleanup, Phase
  <2> QED BY <1>6, <2>1, <2>2, <2>3, <2>4, <2>5, <2>6, <2>7, <2>8, <2>9 DEF CleanupStep
<1>7. ASSUME NEW c \in Cleaner, Interrupt(c) PROVE Kept
  BY <1>7 DEF Interrupt
<1>8. CASE Crash
  BY <1>8 DEF Crash
<1>9. CASE UNCHANGED uvars
  BY <1>9 DEF uvars
<1> QED BY <1>1, <1>2, <1>3, <1>4, <1>5, <1>6, <1>7, <1>8, <1>9 DEF Next

\* When no upload outlives the TTL, nothing but an administrator's deletion
\* takes the data of a published file away.
THEOREM PublishedIsKeptHolds ==
  ASSUME ~Overdue
  PROVE  Spec => PublishedIsKept
<1>1. UploadsInv /\ [Next]_uvars => [Kept]_uvars
  BY KeptStep
<1>2. []UploadsInv /\ [][Next]_uvars => [][Kept]_uvars
  BY <1>1, PTL
<1>3. [][Kept]_uvars => PublishedIsKept
  BY PTL DEF PublishedIsKept, Kept
<1> QED BY <1>2, <1>3, InvHolds, PTL DEF Spec
=============================================================================
