# Verification of Stemmio

Stemmio is a desktop editor for HTML pages: an Electron shell, a renderer that
holds the document being edited, and a local HTTP bridge that owns the files.
The user edits a page and comments on it, an AI agent produces a candidate
version, and the user reviews and adopts it. Three things must not happen: work
of the user is lost, the editor says something happened that did not, and an
interrupted step leaves the project in a state from which it does not recover.
This project models the parts of the program those promises rest on: saving,
the recovery journal, comments, Versions, Requests, the Agent's process,
renaming, and the closing of the window.

## 1. Inventory

| component | state | operations | hard behaviour | what makes it correct |
|---|---|---|---|---|
| Document session (`document-session.js`) | html, revisions, persist state, hashes, source receipt, authority generation, pending and active write | accept, begin, restore, confirm, publish, record failure | every method is called between two awaits of someone else | "idle" means persisted; a fenced write confirms nothing; a queued write belongs to the current authority |
| Document workflow (`document-workflow.js`) | the single flush, the autosave timer, callers that joined, the source operation, the external observer | edit, flush, reload, adopt, observe | joiners and cutoffs; refused, failed and lost replies; reload during a save | the latest edit is queued or in flight; one writer; a cutoff that was reported was reached; every flush returns |
| Recovery journal (`recovery-journal-store.mjs`, renderer queue) | one record per document, receipt, checkpoint, one operation in flight and one behind | commit, remove, rebase, recover | crash between save and retirement; coalescing; compare-and-swap with a stale receipt | "protected" means the bytes are in a file; removal loses nothing; recovery never goes back |
| Working-copy save (`project-file-repository.mjs`, `working-copy.mjs`, `save-retirement.mjs`) | the file, the parked original, the recovery directory, the transaction record | prepare, park, publish, finalize, retire, recover | crash between any two file operations; another program writing at any point | the file is always a complete old or new one; another program's bytes are never overwritten; recovery converges |
| Repository transactions (versions, restore, import, registry) | manifest, runtime, version directories, registry | publish, restore, import | crash and partial failure | a version is published once or not at all |
| Run lifecycle (`run-session.js`, `run-workflow.js`, `project-file-repository.mjs`, `submissions.mjs`) | receipt and facts, freeze bundle, request, candidate, cancellation, adoption, runtime record; the window's phase | submit, prepare, poll, end, discard, adopt, recover | serial turns of several calls, late completion, replies lost, recovery after a stop at any write | no live Request is lost from sight; a late result stays out; a decision is final |
| Request draft (`draft-session.js`, `draft-service.mjs`) | renderer's pending snapshot and revision, bridge's draft with applied operations and tombstones | queue, drain, save, rebase, activate | revision conflicts, lost replies, document switch | a mutation is applied once; a deleted comment never returns |
| Drain and close (`drain-coordinator.js`, `app-lifecycle.mjs`, `close-recovery.mjs`, `bridge-shutdown.mjs`) | obligations, close request, freeze | drain, approve, abort, exit | an edit or an abort racing the approval | the application only exits when every obligation was resolved |
| Opening external files (`external-file-open*.js/.mjs`, `project-open-queue.mjs`) | mailbox, delivered head, handoff record | publish, deliver, acknowledge, hand off | a close or a failing exit between two of them | a request is neither lost nor opened twice |
| Source rename and watch (`source-rename.mjs`, `source-file-watch.mjs`, `main.mjs`, `source-binding.mjs`) | rename intent in memory and on disk, watcher, active path, bridge's binding, renderer's path | rename, roll back, recover, watch, locate | crash and fault between link, unlink and record; other programs in the folder | no file is removed; every launch settles; every part follows the document |
| Project session and workflow (`project-session.js`, `project-workflow.js`) | current context, epoch | open, switch, close | replies of a former project | a reply is applied only to the context that asked |
| Tabs and navigation | open tabs, persisted tabs | open, close, persist | writes out of order | the last state is what is restored |
| Versions, history, rules, preferences, conversation | small caches of bridge state | query, optimistic write | stale replies | the bridge's answer wins |
| Agent runtime and lease (`bridge/agent`) | coordinator, lease, host process | start, cancel, recover | a crash with a running agent | one agent per run |
| Providers, catalogs, credentials, updates, telemetry, previews, UI | adapters | | I/O and presentation | not modelled |

The renderer calls the bridge over HTTP and the main process over IPC; every
call is asynchronous, may fail, and may time out after it took effect. The
document workflow is called by the canvas (edits), by a timer (autosave), by
boundaries (close, switch, send, history: flush with a cutoff), and by the user
(reload, adopt). The recovery journal is written beside every edit and retired
after every save. Inside the bridge everything that touches a project passes
one serial writer, in turns; inside the main process everything that touches
the active document passes `projectOpenQueue`. What is left to interleave are
the turns of several calls, the callers that stopped waiting for them, the
Agent's process, other programs, and the places where a process may end.

## 2. Modules

| module | models |
|---|---|
| `DocumentSession` | the session class as a record, one operator per method |
| `DocumentWorkflow` | the workflow around it: renderer steps between awaits, bridge, other programs |
| `RecoveryJournal` | the journal store, its queue, crash and reopening, over the same session |
| `SaveTransaction` | the save inside the repository, one system call at a time, and its recovery |
| `CloseHandshake` | main process, renderer and the two channels between them while a window closes and files are opened from outside |
| `DraftSync` | the comments of a round in the renderer, on the wire, in the draft file and in the recovery record |
| `CurrentVersion` | how the bridge makes a Version: one file at a time, with conflict, abort and recovery |
| `VersionLedger` | the same as a careful user imagines it: one Version in one step. Abstract; it models no code |
| `AgentExecution` | the managed Agent of one Request: ticket, lease, process, retry, stop, shutdown, crash |
| `RequestLifecycle` | the Requests of a project: receipt, freeze, Request, Candidate, cancellation, adoption, recovery |
| `SourceRename` | the name of the open document: renamed in the program, renamed in the folder, recovered |
| `DocumentProofs`, `RecoveryJournalProofs`, `SaveTransactionProofs`, `CurrentVersionProofs`, `AgentExecutionProofs`, `RequestLifecycleProofs`, `CloseHandshakeProofs`, `SourceRenameProofs` | theorems; `DocumentProofs` those of `DocumentWorkflow` and of `DraftSync` |
| `MC...` | instances for TLC: model values and symmetry |

How they fit together. `DocumentWorkflow` extends `DocumentSession`, and so does
`RecoveryJournal`. The modules look at one system from several sides, and what
is a variable in one is a step in another:

- a save is one step of the bridge in `DocumentWorkflow`, three steps in
  `RecoveryJournal`, some twenty system calls in `SaveTransaction`, and one step
  again in `CurrentVersion` and `SourceRename`;
- an adoption is one file (`adoption`) in `RequestLifecycle`, and what
  `CurrentVersion` does in detail for the other sources of a Version;
- the Agent is one step in `RequestLifecycle` (it finishes, whatever became of
  its Request), and the subject of `AgentExecution`, where the Request on disk
  is one variable;
- the drain is two steps in `CloseHandshake` (it ends, it fails); what it drains
  are the flushes of `DocumentWorkflow` and `DraftSync`.

`CurrentVersion` implements `VersionLedger`: the definition `Ledger` is an
INSTANCE with a refinement mapping, and the property `ImplementsLedger` is the
ledger's specification under it.

Definitions whose names begin with `Mutant` are plausible errors of the
definition beside them. No specification uses them; they show that a property
would notice the error.

### 2.1 DocumentSession

The fields of `DocumentSession` in `document-session.js` are the fields of a
record: bytes, edit revision and last persisted revision, persist state,
hashes of the source and of the document, the receipt of the source, the
generation of the authority, the queued write and the active write. Each method
is an operator from session to session; its early returns are conditions. A
hash is the identity of bytes, or `NoHash` where the code has `null` (an edit
whose hash has not been computed).

### 2.2 DocumentWorkflow

The renderer is one event loop, so an action is what runs between two awaits.

| action | code |
|---|---|
| `EnqueueEdit` | `enqueueEdit` |
| `TimerFires`, `BoundaryFlush`, `ResumeSatisfied`, `ResumeAgain` | `flush`: from the timer, from a boundary with a cutoff, from a joined caller that checks again |
| `Acknowledged`, `FreezeReturns`, `JournalRetired` | `#acknowledgeWrite` and what `#runFlush` waits for after it |
| `WriteFails` | `#restoreWriteAfterFailure` |
| `StartProof`, `ProveRevision`, `ProveBytes`, `ProofFails` | the proof of what became of a request whose reply was lost |
| `BridgeSaves`, `BridgeReplies`, `BridgeFails`, `BridgeReplyLost` | the request in flight as the bridge client sees it |
| `BeginSource`, `BridgeReadsSource`, `AcceptSource`, `EndSource` | the user's reload of the disk version |
| `BeginObserve`, `BridgeStats`, `ObservesConflict`, `EndObserve` | the check of the file after a watcher event |
| `JournalConfirms` | a journal commit confirms the hash of the document |
| `ExternalWrite` | another program writes the file (external) |

`flush` has a program counter (`writing`, `proving`, `comparing`, `freezing`,
`retiring`), an owner and the callers that joined it. A failure of the flush is
shared by every caller that joined; after a success each compares its own
cutoff and may start over.

### 2.3 RecoveryJournal

`journal` is the record on disk, `receipt` the renderer's idea of it and the
compare-and-swap token of the next operation, `checkpoint` the record on whose
strength a document may be left. `inFlight` and `queued` are the operation that
runs and the one coalesced behind it. `StoreCommits` and `StoreRemoves` are the
store with its refusals, `StoreFails` is a failure before or after the record
was replaced, `SettleCommit` and `SettleRemove` are what the renderer does with
the answer. `Crash` loses everything but the two files; `Reopen` is
`recoverAutosave` with its three cases (nothing, already contained, recovered).

### 2.4 SaveTransaction

Names refer to inodes, inodes hold bytes. `source` is the inode under the
file's name, `prev[n]` and `staged[n]` are `previous.html` and `next.html` in
the recovery directory of save `n`, `tx[n]` is its record.

| phase | actions | code |
|---|---|---|
| prepare | `BeginSave`, `Stage` | `#saveWorkingCopy` up to `next.html` |
| compare and swap | `Check`, `CheckAgain`, `Park`, `Inspect`, `Unpark`, `Publish`, `ReadBack` | `compareAndSwapWorkingCopyFile` |
| refused | `Settle`, `Discard`, `Refuse` | replay, adoption of a write without changes, conflict |
| commit | `Bind`, `Record`, `Confirm`, `Commit`, `Audit` | source binding, state record, transaction record, with the read-backs between them |
| retire | `Verify`, `Remove`, `UnlinkRecord` | `retireSaveTransaction` |
| recover | `StartRecovery`, `Examine`, `Republish`, `Restore`, `DropParked`, `RollBack`, `EndRecovery` | `#recoverProject`, `#recoverSaveTransaction`; at start, on opening and before a save is answered |
| environment | `ExternalReplace`, `ExternalWrite`, `ExternalDelete`, `Crash`, `SystemCallFails` | other programs, the end of the process, the file system |

`Examine` takes the pending transactions in any order: the code takes them in
the order in which the file system lists the directory, unsorted; the names
carry the revision in decimal and a random part.

What is abstracted:

- a hash is the identity of the bytes;
- recovery's three reads (file, `previous.html`, `next.html`) and the decision
  are one step; the link or unlink that follows is another;
- writes are durable in the order they are made, since every step syncs the
  file and its directory;
- another program reaches a parked file through a descriptor it opened before
  (`Reachable`). A write between the last look at a parked file and its removal
  (`Unnoticed`) cannot be noticed by any program, and nothing is claimed of it;
- renaming by other programs and the source binding that follows it (see
  `SourceRename`), element identities, source history and the manifest are left
  out.

`owed`, `published` and `deleted` are history: the bytes nobody was allowed to
discard, the saves whose bytes took the name, and whether a missing file is
missing because another program removed it.

### 2.5 CloseHandshake

Two processes and two ordered channels. Every wait of `prepareClose` is a step
of the attempt it belongs to, since the preparation of an attempt the main
process gave up may still be running when the next one begins.

| actions | code |
|---|---|
| `RequestClose`, `Retry`, `Blocked`, `Timeout`, `ReceiveResult` | `coordinateApplicationExit`: one exit at a time, 30 s, one retry |
| `Flushed`, `BridgeStopped`, `BridgeStopFails`, `BridgeStopsLate`, `FinalExit`, `FinalExitFails`, `Relaunch` | the stages after the renderer agreed, and their failures |
| `Publish`, `Deliver`, `ReceiveAcknowledge` | the mailbox and its delivery coordinator |
| `ReceivePrepare`, `Freeze`, `NavigationSettles`, `NavigationTimesOut`, `OpensSettle`, `StartProject` | the navigation's close, its wait for open requests, then the project's |
| `Drained`, `DrainFails`, `Recovers`, `Reconciled`, `MayBeReady`, `TakeBack`, `GiveUp`, `ReceiveAbort` | the drain, what is recovered when it fails, the answer and the cleanup |
| `Edit`, `WriteNote`, `Save`, `SwitchTab`, `ReceiveOpen`, `AdmitQueued`, `FinishOpening`, `ReceiveAcknowledged` | the user and the files opened from outside |

The renderer's drain deadline is 250 ms before the main process's timeout, but
the boundary reconciliation and the history wait come on top, so a late answer
is possible. Left out: a window without a loaded renderer, a renderer that
crashes or reloads, hydration, confirmations, history waits, the watcher, a
change of project; the 32-entry limits of mailbox and abort list are not
reached. An acknowledgement of a request that is already gone is acknowledged
again, as in the code.

### 2.6 DraftSync

`draft` is the renderer (comments, tombstones, recovery record, revision and
acknowledged state, the snapshot that waits, the drain and its write in
flight), `requests` the network, `server`, `pointer` and `busy` the draft file,
the state record that names its revision, and the write that is between them.

| actions | code |
|---|---|
| `CommitComment`, `EditComment`, `DeleteComment` (over `Changed`, `QueueDraft`, `Keep`) | `CommentWorkflow`, `DraftSession.queue`, the recovery store |
| `FlushDraft`, `Emit`, `Answer`, `Unanswered`, `LoadAuthority`, `Reconcile`, `Rebase` | `DraftSession.drain`, conflict and unknown outcome, `draft-aggregate.mjs` |
| `Apply`, `Point`, `Conflict`, `Replay`, `Refused`, `Crash` | `applyDraftCommand` and `#saveDraft` |
| `Leave`, `ReadWorkspace`, `ApplyWorkspace`, `ApplyRegistration`, `Reload` | opening, refreshing and registering a document, with what `Hydrated` merges |

Every user change queues twice, as in the code; a boundary drain that meets a
retired write in flight returns without sending. A write is on the wire once for
each time it is sent (`Sent`), and what was refused or answered is not applied
later; what nobody waits for any more may be. Names that `DocumentWorkflow` has
too carry `Draft` here, so that `DocumentProofs` can extend both. Left out:
change events, attachments, the composer, the run lock, base versions, the limit
of 256 remembered operations, the order of comments, storage that fails. Leaving
with unsettled work is allowed (the recovery record then has to bring it back).
Adoption of a Version writes an empty draft through the same path and is not
modelled.

### 2.7 CurrentVersion and VersionLedger

A file object is a number and names refer to objects, so that a write in place
is seen through every link. `dir[op]` are the links in a transaction's
directory, `tx` its record.

| phase | actions |
|---|---|
| ask | `Create`, `Retry`, `Query`, `Open`, `SaveDraft`, `SaveHtml` |
| prepare | `ReadEvidence`, `Prepare`, `RecordPrepared` |
| commit | `Resume`, `WriteSnapshot`, `Inspect`, `Bind`, `Check`, `Displace`, `VerifyParked`, `Publish`, `Confirm`, `MarkWritten`, `WriteDraft`, `WriteState`, `FinalCheck`, `WriteManifest`, `Complete` |
| abort | `BeginAbort`, `RestoreDraft`, `RestoreState`, `RetainSnapshot`, `EndAbort` |
| environment | `Fault`, `Crash`, `WriteInPlace`, `PutAnother`, `TakeAway` |

The manifest is the commit point. A conflict before it restores comments and
state record; every other error leaves the transaction to whoever meets it
next: the start of the bridge, an opening, or the next creation. `Fault` is an
error that is not in the code's list of conflicts. `SaveDraft` and `SaveHtml`
are atomic here (see `DraftSync`, `SaveTransaction`). An operation's outcome is
unknown to the renderer until a query. After "not created" the renderer may
repeat the request under the same identity (`Retry`, `retryCurrentVersion`) as
long as the file is as it was; the bridge begins anew unless it has a
transaction of that identity (`Make`), on what the first attempt left of
prepared links and preserved drafts. So "not created" is true while it is shown
and no more than that: `ReceiptsHold` says that no recovery and no other request
makes the Version meanwhile. The renderer remembers one operation that saves or
restores (`asked`) until the next one or the end of the program.

Left out: adoption of a Candidate (`RequestLifecycle` has its decision),
attachments, a file that moves inside the project, file systems without hard
links, import, identity migration, forced unlocking.

`VersionLedger` has six actions: comment, keep what will be replaced, begin a
Version, put what it leaves into the comments file, make it, refuse it. Its
Versions are a sequence that only grows, one operation at a time has begun, it
makes one Version at most, and what a transaction decided is final; an operation
that was answered before it had a transaction is still open. Its comments are
the comments file as it is, also in the middle of a commit or an abort, and
`held` is what the operation found. Therefore the ledger shows the comment that
is stored while a failed Version waits and forgotten when it is resumed: `Put`
allows just that loss, of what was stored after the beginning, and no other
(`CommentsSurvive`, in section 4, is the promise it breaks).

### 2.8 AgentExecution

One Request and its execution key. `start` is the submission that is being
performed, `runs` the coordinator's sessions, `file` the lease beside the
project, `request` and `asked` what is on disk.

| actions | code |
|---|---|
| `SendStart`, `Cancel`, `CancelReturns`, `GiveUp` | the client, its ticket, its two timeouts (60 s to start, 15 s to cancel) |
| `Submit`, `TaskRead`, `NoResidue`, `PolicyLoaded`, `LeaseTaken`, `Verified`, `Withdrawn`, `Spawn`, `FactFails` | `#performSubmit` |
| `Write`, `Finalize`, `TurnCompleted`, `Exit`, `HistoryFails`, `Settle`, `Release`, `Prune` | the run and its `finally` |
| `ReceiveStop`, `StartSettled`, `Abort`, `RunStopped`, `StopTimesOut`, `Durable` | `cancelDurableExecution` |
| `Shutdown`, `StartsSettled`, `RunsSettled`, `ShutdownTimesOut`, `Relaunch`, `Crash`, `Reopen`, `ProcessEnds` | the end of the bridge and of processes |

A client may give up at any time. A ticket from before a fence may still be
spent. An Agent may go on writing after a crash. Left out: other Requests, the
credential generation, tickets' expiry, conversation turns, providers.

### 2.9 RequestLifecycle

A call is a list of stages, each stage a turn of the serial writer, and other
calls run between two turns (`queue`, `at`). A turn writes one file at a time,
and may be cut off between two of them by a fault or a stop.

| actions | code |
|---|---|
| `Submit`, `Repeat`, `Create`, `DoNotCreate`, `Check`, `CheckAgain`, `Settle`, `SettleAgain`, `Ask`, `Poll`, `End`, `Adopts`, `Adopt`, `GiveUp`, `Reload` | `RunWorkflow`, `activateReadyVersion` |
| `RecordTurn`, `ReceiptTurn`, `PrepareTurn`, `CreatedTurn`, `UnstartedTurn`, `StatusTurn`, `StopTurn`, `CancelTurn`, `PromoteTurn`, `CleanUpTurn` | the serial turns of the repository and of the bridge |
| `RecoverTurn`, `RestartTurn` (`RecoverFreeze`, `RecoverHistory`, `Restore`, `Interrupted`) | `#recoverProject`, `initialize` |
| `Fault`, `Crash`, `AgentFinishes` | environment |

Recording, preparing and adopting carry their target and recover nothing first;
reading, polling and ending do. The creation is never sent twice, so preparing a
Request that already exists is not reached. An answer is delivered at the end of
its turn, which the FIFO makes equivalent. A stop of the bridge is followed by
a new window. The history writes of a recovery are one step per receipt. Left
out: results without a change, progress facts, conflicts, the clipboard.

### 2.10 SourceRename

A file is a number, names refer to files. The main process has one queue, and
`job` is where its head stands; the renderer has one operation at a time.

| actions | code |
|---|---|
| `BeginRename`, `Recover` | `loadProjectState`, `recoverPendingSourceRename`: what a launch or the next rename does with an intent |
| `Prepare`, `LinkTarget`, `CheckTarget`, `UnlinkSource`, `Reread`, `Relink`, `Rollback`, `Finalize`, `RebindWorkspace` | `renameHtmlSource`, `moveRegularFileNoReplace`, `finalizeRenameState` |
| `FolderChanges`, `Probe`, `Emit`, `Watch`, `BeginWatch` | `source-file-watch.mjs`: the folder's watch, the probe, the timer, a new watch; `recoverWatchedManagedSource` |
| `BeginLocate`, `BeginActive`, `AskBridge`, `Commit`, `ReadActive` | the two questions, the bridge's answer by hard link, `commitActivatedProjectPath` |
| `Rename`, `TakeHint`, `Settle`, `Save` | `ProjectWorkflow` and the check of `DocumentWorkflow` |
| `MoveAway`, `PutAnother`, `WriteInPlace`, `Delete`, `BringBack`, `Crash` | other programs, the end of the program |

The bridge's look at the folder is one step, and so are the reads that precede
a decision. Recovery at launch ends before anything else is served (the code
runs it on the first load of the state, which every caller awaits). Of the
watcher's calls one waits at a time, and answers and hints arrive at once. Left
out: other documents, names that differ in case only, links, folders that
move, runs, edits during a rename, what follows a conflict, and the phases of a
save. `touched`, `lost`, `rough` and `blind` are history variables.

The folder is watched while the watcher's name is there. Once the probe sees the
name missing (`watch.missing`) it closes the folder's watch, and only the return
of that name makes an event. A change of the folder in between is not heard:
`watch.unseen` records it, until the probe or a new watch has caught up.
`MainFollows` is about a watcher that missed nothing; what happens otherwise is
`MainFollowsUnseen` in section 4.

`HonestAnswer` says of a rename that succeeded that the main process names the
new path. With two failed steps and two changes by others it need not:
`getActiveProjectOperation` goes on with the path it read before the bridge
answered, should recording the answer fail, and that file may be back. The
property leaves this case out and says so; its run does not reach it.

## 3. Runs

| run | bounds | states, about | shows |
|---|---|---|---|
| `document_workflow` | 2 contents, revision 2, 1 boundary caller, 1 reload | 0.7 M | no edit is dropped, nothing unsaved is taken for saved, a cutoff that was reported was reached; liveness: every flush returns |
| `recovery_journal` | 3 edits, 1 crash, 1 failure | 3.0 M | what is called protected is stored, removal loses nothing, recovery does not go back |
| `save_transaction` | 2 saves and 2 external writes, 3 of them together, 2 crashes, 1 fault | 2.7 M | nothing vanishes, a missing file is parked where recovery looks, an opened project is settled, recovery overwrites nothing; liveness: the parked file returns where recovery has one save to examine |
| `close_handshake` | 2 attempts, 2 files from outside, 1 edit | 0.6 M | an exit loses nothing, a close that was given up leaves nothing behind; liveness: every close ends |
| `draft_sync` | 2 comments, 2 changes, 1 boundary, 2 openings, 1 reload, 1 fault, 1 crash, 1 rebase | 1.4 M | what the user sees, what reopening brings back, and what is stored once nothing waits, is what the user left |
| `current_version` | 2 operations of all kinds with any repetition, 1 fault, 1 crash, 2 external writes | 2.5 M | receipts hold, Versions are whole, writes of others survive, the steps implement `VersionLedger` |
| `agent_execution` | 2 processes, 2 starts, 2 stops, 1 fault, 1 launch | 5.6 M | an Agent starts only where no other process or output can be left, no lease is lost from sight, an orderly exit leaves no Agent, an ended Request has none submitted before |
| `request_lifecycle` | 2 Requests, 1 fault, 1 crash, 1 call given up or reload | 8.4 M (symmetric) | no live Request is lost from sight, a recovery leaves every Request whole, a late result stays out |
| `source_rename` | 3 names, 2 contents, 2 renames, 1 save, 2 changes by others, 1 fault, 2 launches, 5 of them together | 7.0 M (symmetric) | no file is removed, every launch settles, answers are honest, a main process that missed nothing follows |
| `discarded_adopted`, `replacements_end`, `one_agent` | as their modules | | violated, section 4 |

The properties are defined at the end of each module, each with a comment that
says what it is about; `PROJECT.json` has, for every property of a passing run,
a mutant of the code that the run catches.

### Why the bounds are enough

- Contents are two or three values: no step compares more than an old, a new
  and a foreign one. They are symmetric where no liveness is checked.
- `DocumentWorkflow`: one write in flight and one behind it is all the session
  can hold, so two revisions; one authority before and one after a reload.
  A single boundary caller already joins, rechecks and restarts against the
  timer's flushes.
- `RecoveryJournal`: one record on disk, one operation in flight, one coalesced.
- `SaveTransaction`: two crashes are a crash during the recovery of a crash;
  two external writes are one before and one after; two saves are one that
  leaves something behind and one that meets it, with one write by others, or
  one save with two. `MaxWrites` leaves out two saves with two such writes.
  `ParkedReturns` holds only where recovery has one save to examine (`Alone`):
  the run has two, and `ParkedReturnsTwice` shows what happens with both.
- `CloseHandshake`: two attempts are what a late preparation needs; two files
  are what an order needs.
- `DraftSync`: two changes are a write in flight and a snapshot that waits; two
  openings are a stale read and a fresh one. `MaxRebases` is 3 in the code and
  1 here: one rebase that succeeds and one that exhausts the limit.
- `CurrentVersion`: an operation that was interrupted and one that meets it.
- `AgentExecution`, `RequestLifecycle`: a run and its retry, a Request and the
  next one; one fault and one stop may fall between any two steps.
- `SourceRename`: two launches are a crash in the recovery of a crash; two
  renames are one that left an intent and one that finds it; the third name is
  for other programs, and two changes of theirs are one that takes the name away
  and one that is not heard. `MaxEvents` leaves out the runs in which all of
  this happens at once; the theorems have no such bound.

Every model stops when its bounds are used up, so deadlock is not checked;
`FlushReturns`, `ParkedReturns` and `CloseEnds` are what excludes waiting for
ever.

### Fairness

Weak fairness, only of what the code's scheduling owes:

- `DocumentWorkflow`: a promise that resolves, a request that is answered or
  runs into the client's limit, an armed timer. Edits, reloads, other programs
  and new callers are never forced.
- `SaveTransaction`: the operation in progress, the restart of the bridge after
  a crash (the main process does it), and opening the project again.
- `CloseHandshake`: the exit's own stages, delivery in the two channels, the
  preparation's steps (each wait has a deadline), and the renderer's loop. New
  closes, edits, switches and external files are not forced.
- `CurrentVersion` (for the violated `InterruptedResolve`): the request
  that is served, an opening of the project, and the question what became of an
  operation.

## 4. Disagreements between the code and its documentation

Three are runs; the quotations are in `PROJECT.json`.

1. `one_agent`: a retry can take over a lease that the failed run is about to
   release. The retry then runs without a lease, and after a crash of the bridge
   a second Agent starts beside the first.
2. `replacements_end`: a replacement that was interrupted between linking its
   new file and displacing the old one meets its own link at every resumption
   and fails, so that the project cannot be opened.
3. `discarded_adopted`: an adoption that is clicked while the discard is on its
   way commits the Version before it asks whether the runtime still owns the
   Candidate, then fails.

The following have a configuration that is not part of the listed runs;
`tlc -config X.cfg M` reproduces each.

| configuration (module) | what it shows |
|---|---|
| `LateComment` (`MCCurrentVersion`) | a comment stored while a failed Version waits to be resumed is overwritten by the older comments of its transaction |
| `RemovedStaysRemoved` (`MCCurrentVersion`) | a file that another program removed comes back when an interrupted replacement is resumed |
| `QueueSettles` (`MCDocumentWorkflow`) | a write fails while a newer edit is queued; the failure is ignored and the state may stay `queued` with no timer and no flush |
| `IdlePublication` (`MCDocumentWorkflow`) | a reload during a save publishes `idle` with the former write still in its slot |
| `QuietQueueProtects` (`MCRecoveryJournal`) | a commit that lands after the next edit changes the record and not the receipt; every later commit is refused |
| `ConflictHasACause`, `RolledBackStaysBack`, `ParkedReturnsTwice` (`MCSaveTransaction`) | a left-over transaction is examined again after a later save: a conflict nobody caused, a refused save published, or a failure before the transaction that holds the parked original is reached, so that the file stays away |
| `LateCloseUnlocks`, `SentHeadForgotten`, `HandoffOfTwo` (`MCCloseHandshake`) | the cleanup of a late preparation unlocks the canvas of the next attempt; a head the main process takes for sent may be nowhere on its way; the handoff takes more than the last file |
| `DraftOneAhead` (`MCDraftSync`) | a draft file one revision ahead of the state record, left by a bridge that stopped between the two, is refused by the next read rather than adopted |
| `CancelledMeansStopped` (`MCAgentExecution`) | a Request that reads cancelled while an Agent of it still runs |
| `NotStartedHasNoRequest` (`MCRequestLifecycle`) | a receipt that ended as not started although its Request exists; later recoveries stop at it |
| `MainFollowsUnseen` (`MCSourceRename`) | a document that left the folder and came back under another name while the watcher only probes for the old one is not followed until the renderer asks where it is |
| `PageFollows`, `DeniedMeansUnchanged`, `ReplacedIsKept` (`MCSourceRename`) | the renderer may stay on the old name after a rename that was denied; a denied rename may carry out the intent an earlier one left in memory; a file that another program puts under a name during the few steps of the move is removed |

Met while modelling, and not runs: in `RequestLifecycle` "at most one live
Request" does not hold (a creation that outlives a reload of the window, and a
fault between publishing the Request and the runtime record); `LiveIsOwned`
says what does. A stop between `candidate.json` and the runtime record, or after
a cut-off cleanup that leaves a freeze marker alone, makes every later recovery
refuse. After a fault in a rejection, an adoption turns rejected into
promoted. In `SourceRename` a read error during recovery drops the intent while
both names exist, and the bridge then calls the document ambiguous at every
opening (`blind`); the main process may stay on the old name if another file
took it before the watcher looked, which is why `MainFollows` speaks of missing
files only. In `RecoveryJournal` a journal that survives a crash can be older
than the file; it is then offered as a conflict.

## 5. Proofs

The theorems hold for every value of the constants that satisfies the named
assumptions (`BoundAssumption`, `SentinelAssumption`, `NoWriteAssumption`,
`CallersAssumption`, `JournalAssumption`, `SaveAssumption`, `VersionAssumption`,
`NoneAssumption`, `AgentAssumption`, `RequestAssumption`, `CloseAssumption`,
`RenameAssumption`, `DraftAssumption`): any set of contents, operations or
comments, any finite folder, any callers, any bounds.

**Session and workflow.** `DocumentProofs` begins with one lemma per
method of the session: what it keeps of `SessionInv` (idle means persisted, a queued
write is of the current authority, an unconfirmed edit is carried, revisions
are ordered). `WriterInv` is inductive:

    TypeOK /\ SessionInv(doc) /\ OneWriter /\ RequestHasWriter /\ DiskReached

`OneWriter` needs `SessionInv`, because whether a write may start is decided on
the session. `RequestHasWriter` (a request is in flight exactly while a flush
waits for its outcome) ties the bridge's steps to a writer, and `DiskReached`
(the file records no revision the document has not reached) bounds what a proof
of an unknown outcome can confirm. From it follow `TypeCorrect`, `SingleWriter`,
`IdleIsPersisted`, `EditsAreCarried`, `QueueIsCurrent`, `ClaimsAreTrue` and
`FenceHolds`.

`CutoffIsHonoured` needs the callers as well. `CallerInv`, inductive beside
`WriterInv`, says that a caller is in one place (owner, joined, or about to run
again), that no cutoff is ahead of the document, that the write in flight
carries what the flush's owner asked for, and that a success that was reported
is true:

    InOnePlace /\ CutoffsReached /\ WriteReachesCutoff /\ FlushHonoursCutoff

`SavedIsTrue` (the panel never says saved while the file holds something else)
is about a file the workflow only knows by its hash. `SavedInv`, inductive
beside `WriterInv`, is

    Untouched(doc) /\ (discarded = 0 => NotFenced(doc))
        /\ ReadsDocument /\ ReplyIsTrue /\ SavedIsOnDisk

all while no other program writes and no edit is given up. `Untouched` says that
before the first edit nothing is being written, so that a reload, which then
gives up nothing, reads the document itself (`ReadsDocument`); `ReplyIsTrue`,
that a request which succeeded left its bytes in the file; `NotFenced`, that no
write is of a former authority, so that nothing is in flight once the document
is idle.

**Recovery journal.** The inductive invariant is `JournalInv`, the types and,
while the program runs,

    JournaledInv(doc) /\ FileKnown /\ RecordsMatch /\ RemovesCovered
        /\ CheckpointStored /\ QueueInOrder

`FileKnown` relates the session to the file (its hash, or the write whose answer
is due), `RecordsMatch` says that no record is newer than the document and that
one of the current revision is the document, `RemovesCovered` that whatever
record a retirement will find, now or after the commit before it has landed, is
in the file or behind it, and `CheckpointStored` that the record a boundary
relied on is still there. `ProtectedMeansStored` alone is not inductive: a
queued retirement could remove the record that the answer in flight is about to
report. Nothing of the invariant but the types survives a crash; `Reopen`
establishes it anew from the two files. From it follow the type theorem,
`ProtectionIsStored`, `DocumentIsNotBehind` and the action properties
`RemovalIsSafe` and `FileRevisionsAdvance`.

**Save transaction.** `WellFormed` is inductive: types, no trace of saves that
did not begin, every referenced file exists, there is room for the files that
are still to be created, and what each program counter may rely on.

    TypeOK /\ LaterIsBlank /\ FilesExist /\ Room /\ OperationInv

`MissingFileIsParked` adds `Visible`: an operation past publication works on a
file that only another program can take away. The argument is about who may
empty a recovery directory (a refused save that never parked, a retirement
after publication) and who may close a record (nobody while the file is
missing).

`NothingEverVanishes` adds `OwedIsKept`, which is stronger than the property:
an owed content is in the file, or in a parked file that `Keeps`, that is, one
that is not about to be removed and does not hold just the bytes a published
save replaced. The property alone is not inductive, since the last copy could
lie where the next step empties a directory. The proof shows that every removal
concerns a parked file that was given up by its own publication, and that
`Verified`, read just before the removal, is what guarantees it.

`OpenedMeansSettled` needs to know how far a recovery has come: `SettledInv` adds
to `WellFormed` that a recovery has decided every transaction it took off its
list (`ExaminedIsDecided`) and that each program counter belongs to the goal it
can have (`OwnGoal`); without the latter a save could stop in the middle of a
recovery's step. `RecoveryLeavesFiles`, an action property, follows from the
same invariant: the only two steps of recovery that give the name a file are
links, which fail when the name is taken.

**Versions.** `CurrentVersionProofs` has the inductive invariant `Protocol`:

    Typed /\ Phases /\ OnePending /\ Reported /\ CommentsKept /\ Served

At most one transaction is unfinished, and the request that is served works on
it; the phase of a record bounds what can have been written; what was reported
created is in the manifest, and what was reported otherwise is neither there nor
on its way; a transaction keeps the comments it would replace. Without `OnePending` a second transaction could write the manifest
between the steps of the first, and without `Served` a program counter would say
nothing about its record. Steps that touch neither records nor manifest are
dispatched by a few lemmas (`Quiet`, `Move`, `Thrown`, `Elsewhere`); each writing
step has its own. `ReceiptsStayTrue` follows. `Wholeness` adds `Atomic`, which
says of every cut which of comments, state record and manifest are still as
before and which are already as after. `Refinement` shows that every step is a
stutter or one action of the ledger: preparing keeps, recording the transaction
begins, writing or restoring the comments puts, writing the manifest makes the
Version, and finding nothing new or ending an abort refuses.

`OthersSurvive` is about the files, of which `Protocol` says nothing. `Files` is
inductive beside it:

    ForeignKept /\ LinksBegin /\ NewFiles /\ Preserving /\ SetAside /\ Relies

The danger is a file that was moved away, compared, and written afterwards.
`SetAside` excludes it: once a transaction went past its look at the parked
file, that file has the name no more and no unfinished transaction links to it.
It holds because only its own transaction gives a parked file the name again,
and that needs `NewFiles`: a file is only moved away when what comes after has
other bytes (an equal one is taken for written without a move), and a new file
has the name only once the old one was moved away, so that a transaction cannot
park its own new file. `Relies` says the same of the step the request is at.
`TypeCorrect` counts: as many file objects as saves, foreign writes and
transactions with a new file, and one Version more than operations that made
one (`Counted`).

**The Agent.** `IInv` of `AgentExecutionProofs` is inductive:

    Typed /\ Sessions /\ Submitting /\ Held /\ Stopped
        /\ ExitMeansStopped /\ Alone

`Sessions` says what the fields of a run mean together, and that only the
current run can still have a process; `Submitting`, that a submission found no
run or one that is over; `Held`, who may hold a lease file; `Stopped`, what a
cancellation has heard of at each of its stages; `Alone`, that a submission past
its checks found no process, no output and no lease, unless a retry took over a
lease (`handed`, the disagreement of section 4). `LeasesAreAccountedFor`,
`ExitLeavesNothing` and `StopReachesEarlierStarts` are parts of it or follow at
once; `StartsFindNothing` is the action property that says what a launch finds.
The parts hold together only: `Stopped` needs `Sessions` to know that no run
but the one it waits for has a process, and `Alone` needs `Held`, since the
lease file is what keeps a second bridge's Agent out.

**Requests.** `IInv` of `RequestLifecycleProofs` is inductive:

    Typed /\ (\A r \in Requests : Ordered(r)) /\ Standing
        /\ Queued /\ Informed(client) /\ Awaiting

`Ordered` is the order in which the files of a Request change: an adoption only
begins for a Request that was reviewed, a Candidate that is adopted has a
completed transaction and a runtime that still seals it, and a live Request has
the runtime or the marker. `Standing` says what a turn that is cut off between
two writes has done. Neither is inductive without the calls: a Request frozen
twice would be live without an owner, so `Queued` says that one call at most
creates a Request, that a call which still has to freeze finds nothing on disk,
that a poll comes after a recovery which closed the bundle, and that an adoption
is about a reviewed Request. And the calls depend on what the window concluded
from earlier answers (`Informed`) and on the answers it still expects
(`Awaiting`: outside a run it waits for one call only, so that an answer reaches
the phase that asked for it). The proof has a lemma per kind of write, for the
files, a lemma per way a turn leaves its call (`Rests`, `Responds`, `Ends`,
`GoesOn`, `Sends`), for queue and window, and one per action that joins them.
`LiveRequestsAreOwned` and `LateResultsAreRefused` are read off it;
`RecoveryIsComplete` adds that the end of a recovery, where nothing is left to
do, leaves only whole Requests.

**Closing.** `IInv` of `CloseHandshakeProofs` is inductive:

    Typed /\ Channels /\ Renderer /\ Decision

`Channels` says that a question on its way, or a freeze in the renderer, belongs
to the attempt the exit stands on, or else its abort follows in the same
channel; it is what an order of messages gives. `Renderer` gives every close,
freeze and lock an owner: a lock's owner is draining or reconciling, or it is
done, holds the freeze and has stored everything. `Decision` is what "ready"
promises, from the moment it is sent: the freeze is the attempt's, and, if no
preparation outlived its attempt, everything is on disk and stays there.
`NothingIsLostOnExit` is part of it. `GivenUpIsGone` combines the first two, and
needs no word about preparations that outlived: their own end lets go. The proof
has lemmas for the channels (append, take the head, rewrite after the head) and
one per action for each group.

**Renaming.** `IInv` of `SourceRenameProofs` is inductive:

    Typed /\ Protocol /\ Sparing /\ Watched /\ SavedFollows
        /\ FaultsCount /\ Tracked /\ Sound

`Protocol` says who has asked the main process for what, and whose names the
operation at the head of the queue has in mind. The next two hold whatever other
programs do. `Sparing`: the name that the next step would remove is not the last
of its file, unless somebody else touched one of them since the move began;
`NothingIsLost` is part of it. `Watched`: when the active name is missing and
the bridge could help, the timer is set or the probe is about to set it, a call
of the watcher waits, the operation under way will see it, or the folder changed
unheard; `MainFollowsDocument` is its case at rest.
`Tracked` and `Sound` speak of a folder nobody else changes. `Tracked` holds
through any number of failures and launches: memory and disk either name the
document, or have an intent between whose names it is (`Placed`), each step of a
move finds what the one before left (`Steps`), and a page that is about to
rename, or asks what became of its rename, has heard enough (`Ready`, `Looks`,
`WillKnow`, `Told`). `Sound` adds that while no step has failed since the launch
there is one name outside a move, the same for page, memory and folder, and that
no rollback begins. The two need each other: `WillKnow` allows one failed step,
because the first failure finds a sound state (`FirstFailure`), and with two,
and changes by others, it is false (section 2.10). `Recovered`,
`AnswersAreHonest` and `TwoNamesAreRecorded` follow. The proof has lemmas for
the queue, the folder with a single document (`NamedFacts`), each way an
operation leaves the head of the queue, and one per action for each group.

**The draft.** `DraftInv` in `DocumentProofs` is inductive: the types, the draft
file (`World`: nothing newer than what the user left, nothing deleted that the
user did not delete, no text of a deleted comment), and of the renderer

    Sendable /\ Numbered /\ Ordered /\ Recorded /\ Agreed
        /\ Chained /\ Applied /\ Answered /\ Reading

`Sendable` is why a late write does no harm: a snapshot, wherever it is, has
nothing newer or otherwise deleted than the user's, and if the file still has the
revision it expects, takes nothing from it. `Recorded` says that the record with
the deletions of the file is what the user left, and an open document shows it;
`OpenShowsTheUsersWork` is part of it, `ReopeningBringsBack` follows from it by
what a merge is. `Chained` follows the comments from the screen to the file: they
wait, or are in the write of this session, or have arrived; `SettledIsStored` is
its last case. None of this is inductive without knowing what an operation's
number still stands for, since acknowledgement and recovery compare numbers only.
`Live` are the operations somebody may still recognise (that of the record, of
the snapshot that waits, of the write in flight when nothing newer waits), and
`Applied` says that a live one will leave, or has left, exactly what is shown;
`Numbered` that a fresh number is fresh, `Agreed` that the record's is the
write's, or was never sent. `Answered` and `Reading` say the same of an answer
and of a workspace that are known but not used yet: they are true of an earlier
state of the file (`Older`), one of the two is older than the other, and the
deletions they do not know are in what will be rebased on them. The proof has
lemmas for merging, one for `QueueDraft` whoever calls it (`QueuedKept`), for the
end of a write (`FailureKept`, `SuccessKept`, `ReconcileKept`), for a session
that ends (`RetiredIs`), for a write that is applied (`WrittenKept`), and one per
action.

**Only model-checked.** The liveness properties (`FlushReturns`,
`ParkedReturns`, `CloseEnds`, `InterruptedResolve`) are out of the proof
system's reach, as is everything about ENABLED.

Some definitions are in no listed run because a stronger property implies them
or a theorem has them for every instance: `OneWriter`, `IdleMeansPersisted`,
`PendingIsCurrent` (`SingleWriter`, `IdleIsPersisted`, `QueueIsCurrent`), and
the type invariants of `CloseHandshake`, `AgentExecution`, `SourceRename` and
`DraftSync` (all proved). `OpenFollowsAbort`, `DecidedMeansFrozen` and
`MovesAreRecorded` are proved. `RevisionsAdvance`, `LatestOnItsWay`,
`OpenedInOrder`, `ConflictsResolve` and `SnapshotsStay` hold as well and can be
checked by adding them to a configuration.

## 6. Not modelled

`PROJECT.json` lists every component with its status and the reason. Missing and
with state of their own: the tabs, the project context and its epoch, review and
undo history, rules and preferences, the conversation's cache, import and
registration of projects. Providers, catalogs, previews, semantic
materialization, credentials, updates, telemetry and the user interface are
transformations of data, input and output or presentation, with little control
to check, and are left out for good. They are most of the lines of the program,
which is why the share of lines the models stand for is small.

## 7. Plan

1. Refinements: an abstract file that is replaced atomically or not at all,
   implemented by `SaveTransaction`; the bridge of `DocumentWorkflow`,
   implemented by `SaveTransaction`.
2. `TabsPersistence`, `ProjectContext`.
3. Adoption of a Candidate as a fourth source of a Version in `CurrentVersion`.
