---------------------------- MODULE RecoveryJournal ----------------------------
(***************************************************************************)
(* The crash protection of an open document: the recovery journal kept by  *)
(* the main process (one record per document, compare-and-swapped on the   *)
(* hash of the whole record), the queue that feeds it from the renderer    *)
(* (one operation in flight, one coalesced behind it), and what happens to *)
(* both when the process dies and the document is opened again.            *)
(*                                                                         *)
(* Saving to the source file is kept to three steps (sent, landed,         *)
(* acknowledged); DocumentWorkflow has the rest.  No other program writes  *)
(* the file here, so every conflict is one of Stemmio's own making.        *)
(*                                                                         *)
(* Left out: moving the journal with a renamed file, replaced drafts,      *)
(* size limits and corrupt entries.  A record stands for its own hash.     *)
(***************************************************************************)
EXTENDS DocumentSession

CONSTANTS
    NoJournal,    \* no record on disk, no receipt, no checkpoint (null)
    InitialHtml,  \* the file when the document is first opened
    MaxCrashes,   \* bound: crashes in one behaviour
    MaxFailures   \* bound: journal and save operations that fail

VARIABLES
    doc,         \* the DocumentSession
    disk,        \* the source file and its recorded revision
    journal,     \* the record on disk
    receipt,     \* the record the renderer believes is on disk
    checkpoint,  \* the record that proves the current revision is protected
    generation,  \* how many journal operations were scheduled
    inFlight,    \* the journal operation being executed
    queued,      \* the journal operation behind it
    landed,      \* the bytes of the active write are on disk, unacknowledged
    running,     \* the application is running
    crashes, failures

vars == <<doc, disk, journal, receipt, checkpoint, generation, inFlight,
          queued, landed, running, crashes, failures>>

Record == [html : Html, revision : Revision, expected : Hash]
MutantRecordsWrite(w) == w
RecordOf(w) == [html |-> w.html, revision |-> w.revision,
                expected |-> w.expected]
Journal == Record \cup {NoJournal}

ASSUME JournalAssumption ==
    /\ NoJournal \notin Record
    /\ InitialHtml \in Html
    /\ MaxCrashes \in Nat
    /\ MaxFailures \in Nat

(* An operation: commit a record or remove the one the receipt names.       *)
NoOperation == [kind |-> "none", record |-> NoJournal, generation |-> 0,
                outcome |-> "none"]
Operation == [kind : {"none", "commit", "remove"}, record : Journal,
              generation : Nat,
              outcome : {"none", "waiting", "done", "failed"}]

TypeOK ==
    /\ doc \in Session
    /\ disk \in [html : Html, revision : Revision]
    /\ {journal, receipt, checkpoint} \subseteq Journal
    /\ generation \in Nat
    /\ {inFlight, queued} \subseteq Operation
    /\ {landed, running} \subseteq BOOLEAN
    /\ crashes \in 0..MaxCrashes
    /\ failures \in 0..MaxFailures

Init ==
    /\ doc = OpenedSession(InitialHtml, 0)
    /\ disk = [html |-> InitialHtml, revision |-> 0]
    /\ journal = NoJournal
    /\ receipt = NoJournal
    /\ checkpoint = NoJournal
    /\ generation = 0
    /\ inFlight = NoOperation
    /\ queued = NoOperation
    /\ landed = FALSE
    /\ running = TRUE
    /\ crashes = 0
    /\ failures = 0

-----------------------------------------------------------------------------
(* hasVerifiedRecoveryCheckpoint                                            *)
MutantAnyCheckpoint == checkpoint # NoJournal
Checkpointed == /\ checkpoint # NoJournal
                /\ checkpoint.revision = doc.editRevision
                /\ Sha256(checkpoint.html) = doc.workingSha

(* protectForDetach: what lets the user leave the document.                 *)
SourcePersisted == /\ doc.persistState = "idle"
                   /\ doc.editRevision = doc.lastPersistedRevision
Protected == SourcePersisted \/ Checkpointed

(* #scheduleRecoveryJournal: a new operation replaces the one that waits.   *)
Enqueue(kind, record) ==
    LET op == [kind |-> kind, record |-> record,
               generation |-> generation + 1, outcome |-> "waiting"]
    IN  /\ generation' = generation + 1
        /\ IF inFlight.kind = "none"
           THEN inFlight' = op /\ UNCHANGED queued
           ELSE queued' = op /\ UNCHANGED inFlight

ScheduleCommit(w) == Enqueue("commit", RecordOf(w))
ScheduleRemove == Enqueue("remove", NoJournal)

evidence == <<journal, receipt, checkpoint>>
history == <<running, crashes>>

Edit(h, sha) ==
    /\ running
    /\ AcceptsEdit(doc)
    /\ doc.editRevision < MaxRevision
    /\ doc' = AcceptEdit(doc, h, sha)
    /\ ScheduleCommit(doc'.pending)
    /\ UNCHANGED <<disk, evidence, landed, history, failures>>

(* protectForDetach without evidence commits the queued write, or a write   *)
(* built from memory, and waits for it.                                     *)
Protect ==
    /\ running
    /\ ~Protected
    /\ inFlight.kind = "none"
    /\ generation < 2 * MaxRevision
    /\ ScheduleCommit(IF doc.pending # NoWrite THEN doc.pending
                      ELSE CreateWrite(doc, doc.html, doc.editRevision))
    /\ UNCHANGED <<doc, disk, evidence, landed, history, failures>>

-----------------------------------------------------------------------------
(* A write of the autosave loop.                                            *)
SendSave ==
    /\ running
    /\ doc.persistState # "conflict"
    /\ CanBeginWrite(doc)
    /\ doc' = BeginWrite(doc)
    /\ UNCHANGED <<disk, evidence, generation, inFlight, queued, landed,
                   history, failures>>

SaveLands ==
    /\ running
    /\ doc.active # NoWrite
    /\ ~landed
    /\ doc.active.expected = Sha256(disk.html)
    /\ disk' = [html |-> doc.active.html, revision |-> doc.active.revision]
    /\ landed' = TRUE
    /\ UNCHANGED <<doc, evidence, generation, inFlight, queued, history,
                   failures>>

(* The acknowledgement rebases the queued write, and its journal record, on *)
(* the new disk hash; with nothing queued the journal is retired.           *)
MutantAlwaysRetires ==
    /\ running
    /\ landed
    /\ doc' = Confirm(doc, doc.active, disk.revision)
    /\ landed' = FALSE
    /\ ScheduleRemove
    /\ UNCHANGED <<disk, evidence, history, failures>>
SaveAcknowledged ==
    /\ running
    /\ landed
    /\ doc' = Confirm(doc, doc.active, disk.revision)
    /\ landed' = FALSE
    /\ IF doc'.pending # NoWrite THEN ScheduleCommit(doc'.pending)
       ELSE ScheduleRemove
    /\ UNCHANGED <<disk, evidence, history, failures>>

SaveFails ==
    /\ running
    /\ doc.active # NoWrite
    /\ ~landed
    /\ failures < MaxFailures
    /\ failures' = failures + 1
    /\ doc' = RecordFailure(RestoreWrite(doc), FailureWrite(doc), FALSE)
    /\ ScheduleCommit(doc'.pending)
    /\ UNCHANGED <<disk, evidence, landed, history>>

-----------------------------------------------------------------------------
(* The store, in the main process.  commit refuses a record that does not   *)
(* replace the one the receipt names, an older revision, and different      *)
(* content for the same revision.                                           *)
CommitAllowed(r) ==
    /\ receipt # NoJournal => journal = receipt
    /\ journal # NoJournal =>
         \/ journal.revision < r.revision
         \/ journal = r

StoreCommits ==
    /\ running
    /\ inFlight.kind = "commit"
    /\ inFlight.outcome = "waiting"
    /\ IF CommitAllowed(inFlight.record)
       THEN /\ journal' = inFlight.record
            /\ inFlight' = [inFlight EXCEPT !.outcome = "done"]
       ELSE /\ inFlight' = [inFlight EXCEPT !.outcome = "failed"]
            /\ UNCHANGED journal
    /\ UNCHANGED <<doc, disk, receipt, checkpoint, generation, queued, landed,
                   history, failures>>

(* remove deletes exactly the record the receipt names; without a receipt   *)
(* the renderer does not ask, and a missing record is no error.             *)
RemoveAllowed == receipt # NoJournal => journal \in {receipt, NoJournal}

StoreRemoves ==
    /\ running
    /\ inFlight.kind = "remove"
    /\ inFlight.outcome = "waiting"
    /\ IF RemoveAllowed
       THEN /\ journal' = IF receipt = NoJournal THEN journal ELSE NoJournal
            /\ inFlight' = [inFlight EXCEPT !.outcome = "done"]
       ELSE /\ inFlight' = [inFlight EXCEPT !.outcome = "failed"]
            /\ UNCHANGED journal
    /\ UNCHANGED <<doc, disk, receipt, checkpoint, generation, queued, landed,
                   history, failures>>

(* The file system refuses, before or after the record was replaced.        *)
StoreFails ==
    /\ running
    /\ inFlight.outcome = "waiting"
    /\ failures < MaxFailures
    /\ failures' = failures + 1
    /\ inFlight' = [inFlight EXCEPT !.outcome = "failed"]
    /\ \/ UNCHANGED journal
       \/ /\ inFlight.kind = "commit"
          /\ CommitAllowed(inFlight.record)
          /\ journal' = inFlight.record
    /\ UNCHANGED <<doc, disk, receipt, checkpoint, generation, queued, landed,
                   history>>

-----------------------------------------------------------------------------
(* The operation in flight settles in the renderer, and the one behind it   *)
(* starts.  A commit only counts if its revision still is the document.     *)
Latest == inFlight.generation = generation
RunNext == inFlight' = queued /\ queued' = NoOperation

CommitCounts == inFlight.record.revision = doc.editRevision

SettleCommit ==
    /\ running
    /\ inFlight.kind = "commit"
    /\ inFlight.outcome \in {"done", "failed"}
    /\ IF inFlight.outcome = "done" /\ CommitCounts
       THEN /\ doc' = [doc EXCEPT !.workingSha = Sha256(inFlight.record.html)]
            /\ receipt' = inFlight.record
            /\ checkpoint' = IF Latest THEN inFlight.record ELSE checkpoint
       ELSE /\ checkpoint' = IF Latest THEN NoJournal ELSE checkpoint
            /\ UNCHANGED <<doc, receipt>>
    /\ RunNext
    /\ UNCHANGED <<disk, journal, generation, landed, history, failures>>

SettleRemove ==
    /\ running
    /\ inFlight.kind = "remove"
    /\ inFlight.outcome \in {"done", "failed"}
    /\ receipt' = IF inFlight.outcome = "done" THEN NoJournal ELSE receipt
    /\ checkpoint' = IF Latest THEN NoJournal ELSE checkpoint
    /\ RunNext
    /\ UNCHANGED <<doc, disk, journal, generation, landed, history, failures>>

-----------------------------------------------------------------------------
(* The process dies: the renderer's state is gone, the files stay.          *)
Crash ==
    /\ running
    /\ crashes < MaxCrashes
    /\ crashes' = crashes + 1
    /\ running' = FALSE
    /\ UNCHANGED <<doc, disk, evidence, generation, inFlight, queued, landed,
                   failures>>

(* The document is opened again and recoverAutosave reads the journal: it   *)
(* is retired when the file already has its bytes; otherwise its bytes      *)
(* become the document, queued when the file is the one they were based on  *)
(* and a conflict when it is not.                                           *)
RecoveredRevision(r) == Greater(disk.revision, r.revision) + 1

Recovered(r) ==
    LET opened == OpenedSession(disk.html, disk.revision)
        next   == RecoveredRevision(r)
        safe   == r.expected = Sha256(disk.html)
        s      == [opened EXCEPT !.html = r.html, !.editRevision = next,
                                 !.workingSha = Sha256(r.html),
                                 !.authority = @ + 1,
                                 !.receipt = NextReceipt(opened, Sha256(r.html)),
                                 !.persistState = IF safe THEN "queued"
                                                  ELSE "conflict"]
    IN  [s EXCEPT !.pending = [CreateWrite(s, r.html, next) EXCEPT
                                  !.expected = r.expected]]

MutantKeepsDiskRevision(r) == disk.revision
ReconciledRevision(r) == Greater(disk.revision, r.revision)

Reopen ==
    /\ ~running
    /\ running' = TRUE
    /\ landed' = FALSE
    /\ queued' = NoOperation
    /\ receipt' = journal
    /\ checkpoint' = journal
    /\ generation' = generation + 1
    /\ \/ /\ journal = NoJournal
          /\ doc' = OpenedSession(disk.html, disk.revision)
          /\ inFlight' = NoOperation
       \/ /\ journal # NoJournal
          /\ journal.html = disk.html
          /\ doc' = OpenedSession(disk.html, ReconciledRevision(journal))
          /\ inFlight' = [kind |-> "remove", record |-> NoJournal,
                          generation |-> generation + 1, outcome |-> "waiting"]
       \/ /\ journal # NoJournal
          /\ journal.html # disk.html
          /\ doc' = Recovered(journal)
          /\ inFlight' = [kind |-> "commit", record |-> RecordOf(doc'.pending),
                          generation |-> generation + 1, outcome |-> "waiting"]
    /\ UNCHANGED <<disk, journal, crashes, failures>>

-----------------------------------------------------------------------------
Next ==
    \/ \E h \in Html, known \in BOOLEAN :
          Edit(h, IF known THEN Sha256(h) ELSE NoHash)
    \/ Protect
    \/ SendSave \/ SaveLands \/ SaveAcknowledged \/ SaveFails
    \/ StoreCommits \/ StoreRemoves \/ StoreFails
    \/ SettleCommit \/ SettleRemove
    \/ Crash \/ Reopen

Spec == Init /\ [][Next]_vars

-----------------------------------------------------------------------------
(* Properties.                                                             *)

(* The user is only told that the document is protected when its bytes are  *)
(* in a file: the journal record, or the source file.                       *)
ProtectedMeansStored ==
    running /\ Protected =>
        \/ journal # NoJournal /\ journal.html = doc.html
        \/ disk.html = doc.html

(* A journal record is removed only when the source file has its bytes or   *)
(* newer ones; a retirement that was scheduled for an older edit never      *)
(* takes a newer one with it.                                               *)
RemovalLosesNothing ==
    [][journal # NoJournal /\ journal' = NoJournal
         => \/ disk.html = journal.html
            \/ disk.revision > journal.revision]_vars

(* The document is never behind its record, whatever crashed in between:    *)
(* otherwise the store would refuse the next edits as stale.                *)
DocumentNotBehind ==
    running /\ journal # NoJournal => journal.revision <= doc.editRevision

(* The revision recorded with the file only grows, also when what is saved  *)
(* was recovered from a record older than the file.                         *)
RevisionsAdvance ==
    [][disk' # disk => disk'.revision > disk.revision]_vars

(* The journal queue ends with the latest edit: as long as no operation     *)
(* fails, its last operation commits the document's bytes, or retires the   *)
(* record because the source file has them.                                 *)
LastOperation == IF queued.kind # "none" THEN queued ELSE inFlight
LatestOnItsWay ==
    running /\ failures = 0 =>
        CASE LastOperation.kind = "commit" ->
                LastOperation.record.html = doc.html
          [] LastOperation.kind = "remove" -> disk.html = doc.html
          [] OTHER -> TRUE

(* INTERACTION_FLOW.md, "12.2": of a burst only the latest revision has to  *)
(* be protected: once the queue is empty, it is.                            *)
QuietQueueProtects ==
    /\ running
    /\ failures = 0
    /\ inFlight.kind = "none"
    => Protected
=============================================================================
