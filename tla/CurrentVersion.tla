--------------------------- MODULE CurrentVersion ---------------------------
(***************************************************************************)
(* CurrentVersion: how the bridge makes an immutable Version of a project. *)
(*                                                                         *)
(* A Version is made of the current draft as it is (local-save), of an     *)
(* older Version (history-copy) or of a draft that an earlier replacement  *)
(* preserved (recovery-copy); the last two replace the user's file and the *)
(* comments.  A transaction record names everything before and after.      *)
(* Then the snapshot, the file, the comments, the state record and the     *)
(* manifest are written in this order; the manifest is the commit point.   *)
(* A conflict before it restores comments and state record, and leaves the *)
(* file as it is.  Whoever meets an unfinished transaction resumes it.     *)
(*                                                                         *)
(* The bridge serves one request at a time; other programs write, replace  *)
(* and remove the user's file between any two of its steps, the bridge may *)
(* stop between any two steps, or a step may fail with an I/O error.       *)
(*                                                                         *)
(* A file object is a number, a link or a name refers to one, so that      *)
(* writing a file in place is seen through every link.  A content is a     *)
(* body and whether its elements have their identities.  Left out:         *)
(* adoption of a candidate, attachments, a file that moves inside the      *)
(* project, file systems without hard links, hashes that collide.          *)
(***************************************************************************)
EXTENDS Integers, Sequences, FiniteSets, FiniteSetsExt

CONSTANTS
    Ops,         \* identities of the operations that make a Version
    Kinds,       \* the sources of a Version: subset of AllKinds
    Comments,    \* comments of the user
    Original,    \* the body that was imported
    Edited,      \* the bodies the user saves
    Foreign,     \* the bodies other programs write
    None,        \* no file, no object, no record
    MaxSaves,    \* bound: saves of the user's file
    MaxEdits,    \* bound: writes by other programs
    MaxFaults,   \* bound: steps that fail
    MaxCrashes   \* bound: times the bridge stops

AllKinds == {"local-save", "history-copy", "recovery-copy"}

Content == [body : {Original} \cup Edited \cup Foreign, ids : BOOLEAN]
Draft == [comments : SUBSET Comments, revision : Nat, base : Nat]
Record == [base : Nat, sha : Content, baseline : Content, draft : Draft]
Preserved == [html : Content, comments : SUBSET Comments, revision : Nat]

(* The record of a transaction: what was there before and what comes after. *)
Transaction ==
    [phase : {"prepared", "source-written", "completed", "aborting", "aborted"},
     kind : AllKinds, ordinal : Nat, html : Content, expected : Content,
     after : Content, beforeDraft : Draft, beforeRecord : Record,
     afterDraft : Draft, afterRecord : Record]
NothingNew == [phase |-> "unchanged"]
Asked == [op : Ops, kind : AllKinds, pick : Ops \cup {None},
          expected : Content]

ASSUME VersionAssumption ==
    /\ IsFiniteSet(Ops) /\ Kinds \subseteq AllKinds
    /\ {MaxSaves, MaxEdits, MaxFaults, MaxCrashes} \subseteq Nat

ASSUME NoneAssumption ==
    /\ None \notin Ops /\ None \notin Nat /\ "opening" \notin Ops
    /\ None \notin Content /\ None \notin Preserved
    /\ None \notin Transaction /\ None # NothingNew

VARIABLES
    heap,      \* content of the file objects made so far, a sequence
    source,    \* the object under the name of the user's file, or None
    dir,       \* per operation the links in its transaction directory
    snap,      \* the snapshot files, by ordinal
    versions,  \* the manifest: the Versions, in order
    tx,        \* the transaction records
    preserved, \* the preserved drafts
    draft,     \* the comments file
    record,    \* the state record of the working copy
    worker,    \* the request that is served
    open,      \* the project is open in the renderer
    outcome,   \* what the renderer was told of an operation
    asked,     \* the operation the renderer can try again, or None
    said,      \* history: comments that were stored
    foreign,   \* history: what other programs wrote to the visible file
    removed,   \* history: another program removed the file
    count      \* what has happened, for the bounds

vars == <<heap, source, dir, snap, versions, tx, preserved, draft, record,
          worker, open, outcome, asked, said, foreign, removed, count>>
files == <<heap, source, dir>>
around == <<asked, said, foreign, removed>>

Objects == 1..(1 + MaxSaves + MaxEdits + Cardinality(Ops))
MaxOrdinal == 1 + Cardinality(Ops)

Idle == [pc |-> "idle"]
Opening == "opening"

(* materializeSourceElementIdentity: every element gets an identity. *)
Identified(content) == [content EXCEPT !.ids = TRUE]

Imported == [body |-> Original, ids |-> FALSE]
FirstDraft == [comments |-> {}, revision |-> 0, base |-> 1]

Init ==
    /\ heap = <<Identified(Imported)>>
    /\ source = 1
    /\ dir = [op \in Ops |-> [before |-> None, after |-> None,
                              parked |-> None]]
    /\ snap = [v \in 1..MaxOrdinal |-> IF v = 1 THEN Imported ELSE None]
    /\ versions = <<[op |-> None, html |-> Imported]>>
    /\ tx = [op \in Ops |-> None]
    /\ preserved = [op \in Ops |-> None]
    /\ draft = FirstDraft
    /\ record = [base |-> 1, sha |-> Identified(Imported),
                 baseline |-> Identified(Imported), draft |-> FirstDraft]
    /\ worker = Idle
    /\ open = TRUE
    /\ outcome = [op \in Ops |-> "none"]
    /\ asked = None
    /\ said = {}
    /\ foreign = [o \in Objects |-> None]
    /\ removed = FALSE
    /\ count = [saves |-> 0, edits |-> 0, faults |-> 0, crashes |-> 0]

Counts(what) == count' = [count EXCEPT ![what] = @ + 1]

Latest == Len(versions)
Committed(op) == \E v \in 1..Latest : versions[v].op = op
Pending == {op \in Ops : tx[op] # None
                      /\ tx[op].phase \in {"prepared", "source-written",
                                           "aborting"}}

(* The request is at step pc, for the transaction of op. *)
At(pc, op) == worker.pc = pc /\ worker.op = op
GoTo(pc) == worker' = [worker EXCEPT !.pc = pc]
Read(object) == IF object = None THEN None ELSE heap[object]

(* The request fails; its operation stays as it is. *)
Throw ==
    /\ worker' = Idle
    /\ outcome' = [op \in Ops |-> IF worker.goal = op THEN "unknown"
                                  ELSE outcome[op]]
    /\ UNCHANGED open

(* The request is served; opening a project, or creating a Version, comes   *)
(* after the recovery.                                                      *)
Return(op, result) ==
    /\ outcome' = [outcome EXCEPT ![op] =
                     IF worker.goal = op THEN result ELSE @]
    /\ worker' = IF worker.goal \in Ops \ {op}
                 THEN [worker EXCEPT !.op = worker.goal, !.pc = "read"]
                 ELSE Idle
    /\ open' = (open \/ (worker.goal = Opening /\ source # None))

(* A conflict before the commit point undoes the lineage, then throws. *)
Conflict == worker' = [worker EXCEPT !.pc = "aborting", !.throws = TRUE]

-----------------------------------------------------------------------------
(* Requests.                                                                *)

Serve(op, goal, pc) ==
    worker' = [pc |-> pc, op |-> op, goal |-> goal, throws |-> FALSE,
               seen |-> None, cur |-> None, kind |-> "local-save",
               pick |-> None, expected |-> record.sha]

(* #createCurrentVersion without a transaction of this operation: the       *)
(* unfinished ones are resumed first.                                       *)
Make(op, kind, pick) ==
    /\ \E first \in IF Pending = {} THEN {op} ELSE Pending :
           worker' = [pc |-> IF first = op THEN "read" ELSE "resume",
                      op |-> first, goal |-> op, throws |-> FALSE,
                      seen |-> None, cur |-> None, kind |-> kind,
                      pick |-> pick, expected |-> record.sha]
    /\ outcome' = [outcome EXCEPT ![op] = "unknown"]

(* createVersionFromCurrent, createVersionFromHistory and                   *)
(* restorePreservedDraft, with a new identity.  The renderer remembers one  *)
(* operation of the first and the last kind, and begins no other while it   *)
(* does not know what became of it.                                         *)
Create(op, kind, pick) ==
    /\ open /\ worker = Idle /\ outcome[op] = "none"
    /\ kind \in Kinds
    /\ CASE kind = "local-save" -> pick = None
         [] kind = "history-copy" -> pick \in 1..Latest
         [] kind = "recovery-copy" -> pick \in Ops /\ preserved[pick] # None
    /\ IF kind = "history-copy" THEN UNCHANGED asked
       ELSE /\ asked # None => outcome[asked.op] # "unknown"
            /\ asked' = [op |-> op, kind |-> kind, pick |-> pick,
                         expected |-> record.sha]
    /\ Make(op, kind, pick)
    /\ UNCHANGED <<files, snap, versions, tx, preserved, draft, record, open,
                   said, foreign, removed, count>>

(* retryCurrentVersion after "not-created": the same operation, if the file *)
(* is as it was then.  The bridge begins anew unless it has a transaction.  *)
Retry(op) ==
    /\ open /\ worker = Idle
    /\ asked # None /\ asked.op = op /\ outcome[op] = "not-created"
    /\ record.sha = asked.expected
    /\ IF tx[op] = None THEN Make(op, asked.kind, asked.pick)
       ELSE /\ Serve(op, op, "resume")
            /\ outcome' = [outcome EXCEPT ![op] = "unknown"]
    /\ UNCHANGED <<files, snap, versions, tx, preserved, draft, record, open,
                   around, count>>

(* queryCurrentVersionCreation and its like: a query resumes. *)
Query(op) ==
    /\ open /\ worker = Idle /\ outcome[op] = "unknown"
    /\ IF tx[op] = None
       THEN outcome' = [outcome EXCEPT ![op] = "not-created"]
            /\ UNCHANGED worker
       ELSE Serve(op, op, "resume") /\ UNCHANGED outcome
    /\ UNCHANGED <<files, snap, versions, tx, preserved, draft, record, open,
                   around, count>>

(* The bridge starts, or a workspace is opened: #recoverProject. *)
Open ==
    /\ ~open /\ worker = Idle
    /\ IF Pending = {}
       THEN source # None /\ open' = TRUE /\ UNCHANGED worker
       ELSE UNCHANGED open /\ \E op \in Pending : Serve(op, Opening, "resume")
    /\ UNCHANGED <<files, snap, versions, tx, preserved, draft, record,
                   outcome, around, count>>

(* saveDraft: it resolves its target without a recovery. *)
SaveDraft(c) ==
    /\ open /\ worker = Idle /\ c \notin said
    /\ source # None /\ record.base = Latest
    /\ draft' = [comments |-> draft.comments \cup {c},
                 revision |-> draft.revision + 1, base |-> Latest]
    /\ record' = [record EXCEPT !.draft = draft']
    /\ said' = said \cup {c}
    /\ UNCHANGED <<files, snap, versions, tx, preserved, worker, open,
                   outcome, asked, foreign, removed, count>>

(* saveWorkingCopy, as a whole: SaveTransaction has its steps. *)
SaveHtml(body) ==
    /\ open /\ worker = Idle /\ count.saves < MaxSaves
    /\ record.base = Latest
    /\ Read(source) = record.sha /\ body # heap[source].body
    /\ heap' = Append(heap, [body |-> body, ids |-> TRUE])
    /\ source' = Len(heap')
    /\ record' = [record EXCEPT !.sha = [body |-> body, ids |-> TRUE]]
    /\ foreign' = [foreign EXCEPT ![source] = None]
    /\ Counts("saves")
    /\ UNCHANGED <<dir, snap, versions, tx, preserved, draft, worker, open,
                   outcome, asked, said, removed>>

-----------------------------------------------------------------------------
(* Preparing a transaction.                                                 *)

(* currentDraftEvidence and the checks of #createCurrentVersion.  A save    *)
(* that would repeat the last Version is answered without one.              *)
ReadEvidence(op) ==
    /\ At("read", op)
    /\ IF \/ Read(source) # worker.expected
          \/ record.draft # draft
       THEN Throw /\ UNCHANGED tx
       ELSE IF worker.kind = "local-save" /\ record.baseline = heap[source]
       THEN /\ tx' = [tx EXCEPT ![op] = NothingNew]
            /\ Return(op, "unchanged")
       ELSE /\ worker' = [worker EXCEPT !.pc = "prepare",
                            !.seen = [object |-> source,
                                      html |-> heap[source]]]
            /\ UNCHANGED <<tx, outcome, open>>
    /\ UNCHANGED <<files, snap, versions, preserved, draft, record, around,
                   count>>

(* The prepared files; what is replaced is preserved.  What an earlier      *)
(* attempt of the operation left must be the same file and the same draft.  *)
Prepare(op) ==
    /\ At("prepare", op)
    /\ LET kept == [html |-> worker.seen.html, comments |-> draft.comments,
                    revision |-> draft.revision]
           keeps == worker.kind # "local-save"
           before == IF dir[op].before = None THEN source ELSE dir[op].before
       IN IF \/ source = None
             \/ keeps /\ preserved[op] \notin {None, kept}
          THEN Throw /\ UNCHANGED <<dir, preserved>>
          ELSE /\ dir' = [dir EXCEPT ![op].before = before]
               /\ IF before # worker.seen.object
                  THEN Throw /\ UNCHANGED preserved
                  ELSE /\ preserved' = IF keeps
                                       THEN [preserved EXCEPT ![op] = kept]
                                       ELSE preserved
                       /\ GoTo("record")
                       /\ UNCHANGED <<outcome, open>>
    /\ UNCHANGED <<heap, source, snap, versions, tx, draft, record, around,
                   count>>

(* What the Version holds, and the comments it leaves. *)
Snapshot(kind, pick) ==
    CASE kind = "local-save" -> worker.seen.html
      [] kind = "history-copy" -> versions[pick].html
      [] kind = "recovery-copy" -> preserved[pick].html

Remaining(kind, pick) ==
    CASE kind = "local-save" -> draft.comments
      [] kind = "history-copy" -> {}
      [] kind = "recovery-copy" -> preserved[pick].comments

NextRevision(kind, pick) ==
    CASE kind = "local-save" -> draft.revision
      [] kind = "history-copy" -> draft.revision + 1
      [] kind = "recovery-copy" ->
             Max({draft.revision, preserved[pick].revision}) + 1

(* prepareCurrentVersion, its last write. *)
RecordPrepared(op) ==
    /\ At("record", op)
    /\ LET html == Snapshot(worker.kind, worker.pick)
           after == IF worker.kind = "local-save" THEN worker.seen.html
                    ELSE Identified(html)
           next == [comments |-> Remaining(worker.kind, worker.pick),
                    revision |-> NextRevision(worker.kind, worker.pick),
                    base |-> Latest + 1]
       IN tx' = [tx EXCEPT ![op] =
                   [phase |-> "prepared", kind |-> worker.kind,
                    ordinal |-> Latest + 1, html |-> html,
                    expected |-> worker.seen.html, after |-> after,
                    beforeDraft |-> draft, beforeRecord |-> record,
                    afterDraft |-> next,
                    afterRecord |-> [base |-> Latest + 1, sha |-> after,
                                     baseline |-> after, draft |-> next]]]
    /\ GoTo("resume")
    /\ UNCHANGED <<files, snap, versions, preserved, draft, record, open,
                   outcome, around, count>>
-----------------------------------------------------------------------------
(* Committing: each step resumes from what is on disk.                      *)

(* An undone transaction gets the receipt of a finished one. *)
MutantResumeCreated(op) ==
    /\ At("resume", op)
    /\ IF tx[op].phase = "aborted" THEN Return(op, "created")
       ELSE GoTo("snapshot") /\ UNCHANGED <<outcome, open>>
    /\ UNCHANGED <<files, snap, versions, tx, preserved, draft, record,
                   around, count>>

(* The receipts of commitCurrentVersion, and where it goes on. *)
Resume(op) ==
    /\ At("resume", op)
    /\ CASE tx[op].phase = "aborted" ->
              Return(op, "not-created") /\ UNCHANGED tx
         [] tx[op].phase = "unchanged" ->
              Return(op, "unchanged") /\ UNCHANGED tx
         [] tx[op].phase = "aborting" ->
              GoTo("aborting") /\ UNCHANGED <<tx, outcome, open>>
         [] tx[op].phase \notin {"aborted", "unchanged", "aborting"} ->
              IF Committed(op)
              THEN /\ tx' = [tx EXCEPT ![op].phase = "completed"]
                   /\ Return(op, "created")
              ELSE GoTo("snapshot") /\ UNCHANGED <<tx, outcome, open>>
    /\ UNCHANGED <<files, snap, versions, preserved, draft, record, around,
                   count>>

(* The snapshot never replaces a file with other bytes. *)
WriteSnapshot(op) ==
    /\ At("snapshot", op)
    /\ IF snap[tx[op].ordinal] \in {None, tx[op].html}
       THEN /\ snap' = [snap EXCEPT ![tx[op].ordinal] = tx[op].html]
            /\ GoTo("inspect") /\ UNCHANGED <<outcome, open>>
       ELSE Throw /\ UNCHANGED snap
    /\ UNCHANGED <<files, versions, tx, preserved, draft, record, around,
                   count>>

IsBefore(op) ==
    source # None /\ source = dir[op].before /\ heap[source] = tx[op].expected
IsAfter(op) ==
    source # None /\ source = dir[op].after /\ heap[source] = tx[op].after

ParkedIntact(op) ==
    dir[op].parked # None => heap[dir[op].parked] = tx[op].expected

(* A transaction that moved the file away gives its new object the name,    *)
(* unless another file has it; a missing file is not made again otherwise.  *)
CanRelink(op) ==
    /\ source = None
    /\ dir[op].parked # None /\ dir[op].after # None
    /\ tx[op].phase # "source-written"

(* What is under the name must be the file the transaction began with, or   *)
(* the one it made.                                                         *)
Inspect(op) ==
    /\ At("inspect", op)
    /\ IF ParkedIntact(op) /\ CanRelink(op)
       THEN source' = dir[op].after /\ UNCHANGED worker
       ELSE IF ParkedIntact(op) /\ (IsBefore(op) \/ IsAfter(op))
       THEN /\ worker' = [worker EXCEPT !.cur = source,
                            !.pc = IF heap[source] = tx[op].after THEN "mark"
                                   ELSE "bind"]
            /\ UNCHANGED source
       ELSE Conflict /\ UNCHANGED source
    /\ UNCHANGED <<heap, dir, snap, versions, tx, preserved, draft, record,
                   open, outcome, around, count>>

(* compareAndSwapWorkingCopyFile: the new file, linked to the transaction.  *)
(* A link of an earlier attempt is in the way.                              *)
Bind(op) ==
    /\ At("bind", op)
    /\ IF dir[op].after = None
       THEN /\ heap' = Append(heap, tx[op].after)
            /\ dir' = [dir EXCEPT ![op].after = Len(heap')]
            /\ GoTo("check") /\ UNCHANGED <<outcome, open>>
       ELSE Throw /\ UNCHANGED <<heap, dir>>
    /\ UNCHANGED <<source, snap, versions, tx, preserved, draft, record,
                   around, count>>

Check(op) ==
    /\ At("check", op)
    /\ IF source = worker.cur /\ heap[source] = tx[op].expected
       THEN GoTo("displace") ELSE Conflict
    /\ UNCHANGED <<files, snap, versions, tx, preserved, draft, record, open,
                   outcome, around, count>>

(* The new file is renamed over the old one. *)
MutantDisplace(op) ==
    /\ At("displace", op)
    /\ source' = dir[op].after
    /\ worker' = [worker EXCEPT !.pc = "mark", !.cur = dir[op].after]
    /\ UNCHANGED <<heap, dir, snap, versions, tx, preserved, draft, record,
                   open, outcome, around, count>>

(* The rename moves whatever has the name by now. *)
Displace(op) ==
    /\ At("displace", op)
    /\ CASE dir[op].parked # None -> Conflict /\ UNCHANGED <<source, dir,
                                                            outcome, open>>
         [] dir[op].parked = None /\ source = None ->
              Throw /\ UNCHANGED <<source, dir>>
         [] dir[op].parked = None /\ source # None ->
              /\ dir' = [dir EXCEPT ![op].parked = source]
              /\ source' = None
              /\ GoTo("parked") /\ UNCHANGED <<outcome, open>>
    /\ UNCHANGED <<heap, snap, versions, tx, preserved, draft, record,
                   around, count>>

(* What was moved is looked at; if it is another file it gets the name      *)
(* back, unless the name is taken.                                          *)
VerifyParked(op) ==
    /\ At("parked", op)
    /\ IF dir[op].parked = worker.cur
          /\ heap[dir[op].parked] = tx[op].expected
       THEN GoTo("publish") /\ UNCHANGED source
       ELSE /\ source' = IF source = None THEN dir[op].parked ELSE source
            /\ Conflict
    /\ UNCHANGED <<heap, dir, snap, versions, tx, preserved, draft, record,
                   open, outcome, around, count>>

Publish(op) ==
    /\ At("publish", op)
    /\ IF source = None
       THEN source' = dir[op].after /\ GoTo("confirm")
       ELSE Conflict /\ UNCHANGED source
    /\ UNCHANGED <<heap, dir, snap, versions, tx, preserved, draft, record,
                   open, outcome, around, count>>

Confirm(op) ==
    /\ At("confirm", op)
    /\ IF /\ Read(source) = tx[op].after
          /\ heap[dir[op].parked] = tx[op].expected
       THEN worker' = [worker EXCEPT !.pc = "mark", !.cur = source]
       ELSE Conflict
    /\ UNCHANGED <<files, snap, versions, tx, preserved, draft, record, open,
                   outcome, around, count>>

(* The file is still the one that was read, with the bytes of the Version. *)
Unmoved(op) == source = worker.cur /\ heap[source] = tx[op].after

(* refreshSourceBinding and the second record of the transaction. *)
MarkWritten(op) ==
    /\ At("mark", op)
    /\ IF Unmoved(op)
       THEN /\ tx' = [tx EXCEPT ![op].phase = "source-written"]
            /\ GoTo("draft")
       ELSE Conflict /\ UNCHANGED tx
    /\ UNCHANGED <<files, snap, versions, preserved, draft, record, open,
                   outcome, around, count>>

WriteDraft(op) ==
    /\ At("draft", op)
    /\ draft' = tx[op].afterDraft
    /\ GoTo("state")
    /\ UNCHANGED <<files, snap, versions, tx, preserved, record, open,
                   outcome, around, count>>

WriteState(op) ==
    /\ At("state", op)
    /\ record' = tx[op].afterRecord
    /\ GoTo("final")
    /\ UNCHANGED <<files, snap, versions, tx, preserved, draft, open, outcome,
                   around, count>>

FinalCheck(op) ==
    /\ At("final", op)
    /\ IF Unmoved(op) THEN GoTo("manifest") ELSE Conflict
    /\ UNCHANGED <<files, snap, versions, tx, preserved, draft, record, open,
                   outcome, around, count>>

(* The commit point. *)
WriteManifest(op) ==
    /\ At("manifest", op)
    /\ versions' = Append(versions, [op |-> op, html |-> tx[op].html])
    /\ GoTo("complete")
    /\ UNCHANGED <<files, snap, tx, preserved, draft, record, open, outcome,
                   around, count>>

Complete(op) ==
    /\ At("complete", op)
    /\ tx' = [tx EXCEPT ![op].phase = "completed"]
    /\ Return(op, "created")
    /\ UNCHANGED <<files, snap, versions, preserved, draft, record, around,
                   count>>

-----------------------------------------------------------------------------
(* abortCurrentVersion.                                                     *)

(* The comments are not restored. *)
MutantBeginAbort(op) ==
    /\ At("aborting", op)
    /\ tx' = [tx EXCEPT ![op].phase = "aborting"]
    /\ GoTo("unstate")
    /\ UNCHANGED <<files, snap, versions, preserved, draft, record, open,
                   outcome, around, count>>

BeginAbort(op) ==
    /\ At("aborting", op)
    /\ tx' = [tx EXCEPT ![op].phase = "aborting"]
    /\ GoTo("undraft")
    /\ UNCHANGED <<files, snap, versions, preserved, draft, record, open,
                   outcome, around, count>>

(* Where there were no comments, the file is left empty. *)
MutantRestoreDraft(op) ==
    /\ At("undraft", op)
    /\ draft' = IF tx[op].beforeDraft.revision = 0 THEN None
                ELSE tx[op].beforeDraft
    /\ GoTo("unstate")
    /\ UNCHANGED <<files, snap, versions, tx, preserved, record, open,
                   outcome, around, count>>

RestoreDraft(op) ==
    /\ At("undraft", op)
    /\ draft' = tx[op].beforeDraft
    /\ GoTo("unstate")
    /\ UNCHANGED <<files, snap, versions, tx, preserved, record, open,
                   outcome, around, count>>

(* The state record stays as the transaction left it. *)
MutantRestoreState(op) ==
    /\ At("unstate", op)
    /\ GoTo("retain")
    /\ UNCHANGED <<files, snap, versions, tx, preserved, draft, record, open,
                   outcome, around, count>>

RestoreState(op) ==
    /\ At("unstate", op)
    /\ record' = tx[op].beforeRecord
    /\ GoTo("retain")
    /\ UNCHANGED <<files, snap, versions, tx, preserved, draft, open, outcome,
                   around, count>>

(* The snapshot leaves its place: the ordinal can be used again. *)
RetainSnapshot(op) ==
    /\ At("retain", op)
    /\ snap' = [snap EXCEPT ![tx[op].ordinal] = None]
    /\ GoTo("aborted")
    /\ UNCHANGED <<files, versions, tx, preserved, draft, record, open,
                   outcome, around, count>>

(* The end of the abort is not recorded. *)
MutantEndAbort(op) ==
    /\ At("aborted", op)
    /\ IF worker.throws THEN Throw ELSE Return(op, "not-created")
    /\ UNCHANGED <<files, snap, versions, tx, preserved, draft, record,
                   around, count>>

EndAbort(op) ==
    /\ At("aborted", op)
    /\ tx' = [tx EXCEPT ![op].phase = "aborted"]
    /\ IF worker.throws THEN Throw ELSE Return(op, "not-created")
    /\ UNCHANGED <<files, snap, versions, preserved, draft, record, around,
                   count>>

-----------------------------------------------------------------------------
(* The surroundings.                                                        *)

(* An I/O error: the request fails, the transaction stays where it is. *)
Fault ==
    /\ worker # Idle /\ count.faults < MaxFaults
    /\ Throw
    /\ Counts("faults")
    /\ UNCHANGED <<files, snap, versions, tx, preserved, draft, record,
                   around>>

(* The bridge stops, and the application with it. *)
Crash ==
    /\ count.crashes < MaxCrashes
    /\ worker' = Idle
    /\ open' = FALSE
    /\ asked' = None
    /\ Counts("crashes")
    /\ UNCHANGED <<files, snap, versions, tx, preserved, draft, record,
                   outcome, said, foreign, removed>>

(* Another program writes the user's file in place. *)
WriteInPlace(body) ==
    /\ source # None /\ count.edits < MaxEdits
    /\ LET html == [body |-> body, ids |-> TRUE] IN
           /\ heap' = [heap EXCEPT ![source] = html]
           /\ foreign' = [foreign EXCEPT ![source] = html]
    /\ Counts("edits")
    /\ UNCHANGED <<source, dir, snap, versions, tx, preserved, draft, record,
                   worker, open, outcome, asked, said, removed>>

(* ... puts another file under its name ... *)
PutAnother(body) ==
    /\ count.edits < MaxEdits
    /\ LET html == [body |-> body, ids |-> TRUE] IN
           /\ heap' = Append(heap, html)
           /\ foreign' = [o \in Objects |-> IF o = Len(heap') THEN html
                                            ELSE IF o = source THEN None
                                            ELSE foreign[o]]
    /\ source' = Len(heap')
    /\ removed' = FALSE
    /\ Counts("edits")
    /\ UNCHANGED <<dir, snap, versions, tx, preserved, draft, record, worker,
                   open, outcome, asked, said>>

(* ... or removes it. *)
TakeAway ==
    /\ source # None /\ count.edits < MaxEdits
    /\ source' = None
    /\ foreign' = [foreign EXCEPT ![source] = None]
    /\ removed' = TRUE
    /\ Counts("edits")
    /\ UNCHANGED <<heap, dir, snap, versions, tx, preserved, draft, record,
                   worker, open, outcome, asked, said>>

Work ==
    \E op \in Ops :
        \/ ReadEvidence(op) \/ Prepare(op) \/ RecordPrepared(op)
        \/ Resume(op) \/ WriteSnapshot(op) \/ Inspect(op)
        \/ Bind(op) \/ Check(op) \/ Displace(op) \/ VerifyParked(op)
        \/ Publish(op) \/ Confirm(op)
        \/ MarkWritten(op) \/ WriteDraft(op) \/ WriteState(op)
        \/ FinalCheck(op) \/ WriteManifest(op) \/ Complete(op)
        \/ BeginAbort(op) \/ RestoreDraft(op) \/ RestoreState(op)
        \/ RetainSnapshot(op) \/ EndAbort(op)

Next ==
    \/ \E op \in Ops, kind \in AllKinds,
          pick \in {None} \cup 1..MaxOrdinal \cup Ops : Create(op, kind, pick)
    \/ \E op \in Ops : Retry(op) \/ Query(op)
    \/ Open
    \/ \E c \in Comments : SaveDraft(c)
    \/ \E body \in Edited : SaveHtml(body)
    \/ Work
    \/ Fault \/ Crash
    \/ \E body \in Foreign : WriteInPlace(body) \/ PutAnother(body)
    \/ TakeAway

Spec == Init /\ [][Next]_vars

-----------------------------------------------------------------------------
TypeOK ==
    /\ heap \in Seq(Content) /\ Len(heap) \in Objects
    /\ source \in 1..Len(heap) \cup {None}
    /\ \A op \in Ops : \A link \in {"before", "after", "parked"} :
           dir[op][link] \in 1..Len(heap) \cup {None}
    /\ snap \in [1..MaxOrdinal -> Content \cup {None}]
    /\ Latest \in 1..MaxOrdinal
    /\ \A v \in 1..Latest : versions[v].html \in Content
    /\ \A op \in Ops : outcome[op] \in
           {"none", "unknown", "unchanged", "created", "not-created"}
    /\ tx \in [Ops -> Transaction \cup {NothingNew, None}]
    /\ preserved \in [Ops -> Preserved \cup {None}]
    /\ draft \in Draft /\ record \in Record
    /\ asked \in Asked \cup {None}
    /\ open \in BOOLEAN

(* A Version has one snapshot file and keeps its bytes, whatever is         *)
(* attempted, undone and attempted again with the same ordinal              *)
(* (writeFileNoReplace, abortCurrentVersion, the receipts of                *)
(* commitPreparedCurrentVersion).                                           *)
SnapshotsStay == \A v \in 1..Latest : snap[v] = versions[v].html

(* When no transaction is unfinished, manifest, state record and comments   *)
(* belong to the same Version and the comments can be read: a crash or a    *)
(* conflict at any step leaves no half of a Version behind.                 *)
WholeWhenResolved ==
    Pending = {} => /\ record.base = Latest /\ draft.base = Latest
                    /\ record.draft = draft

(* What the renderer shows of an operation stays true: a created Version is *)
(* in the manifest, and is there once; while it shows that nothing was      *)
(* created, no recovery creates the Version behind its back.  Only the      *)
(* user's own repetition of the operation can.                              *)
ReceiptsHold ==
    /\ \A op \in Ops :
           /\ outcome[op] = "created" => Committed(op)
           /\ outcome[op] \in {"not-created", "unchanged"} =>
                  ~Committed(op) /\ op \notin Pending
    /\ \A v, w \in 1..Latest : versions[v].op = versions[w].op => v = w

(* What another program wrote to the visible file is still the file, or     *)
(* is kept by a transaction; and a Version was never created by hiding it.  *)
ForeignWritesSurvive ==
    \A o \in Objects : foreign[o] # None =>
        /\ heap[o] = foreign[o]
        /\ \/ source = o
           \/ \E op \in Ops : o \in {dir[op].before, dir[op].after,
                                     dir[op].parked}
        /\ \A op \in Ops : Committed(op) /\ dir[op].parked = o =>
               foreign[o] = preserved[op].html

(* docs/ARCHITECTURE.md: saving a Version preserves comments, restoring     *)
(* protects displaced data.  Every comment that was stored is among the     *)
(* current ones or in a preserved draft.                                    *)
CommentsSurvive ==
    Pending = {} => said \subseteq
        draft.comments \cup UNION {preserved[op].comments :
                                     op \in {p \in Ops : preserved[p] # None}}

(* tests/current-draft-lifecycle.test.mjs: "missing current never recreates *)
(* the old path".  A file that another program removed stays removed until  *)
(* another program makes one.                                               *)
RemovedStaysRemoved == removed => source = None

-----------------------------------------------------------------------------
(* VersionLedger, read off the files: the manifest, the comments file, the  *)
(* preserved drafts and the transactions.  An operation that is reported    *)
(* not created and has no transaction is still open.                        *)
Ledger == INSTANCE VersionLedger WITH
    ledger <- [v \in 1..Latest |-> versions[v].op],
    comments <- draft.comments,
    kept <- {preserved[op].comments :
               op \in {p \in Ops : preserved[p] # None}},
    held <- [op \in Ops |-> IF tx[op] \in {None, NothingNew} THEN {}
                            ELSE tx[op].beforeDraft.comments],
    decided <- [op \in Ops |->
                  IF Committed(op) THEN "made"
                  ELSE IF tx[op] = None THEN "open"
                  ELSE IF op \in Pending THEN "begun" ELSE "refused"]

(* Over conflicts, crashes, replays and repetitions, Versions appear one at *)
(* a time; the comments that go with one are those of its beginning, or     *)
(* replace them when these are kept; one that is refused gives them back;   *)
(* and what a transaction decided is final.                                 *)
ImplementsLedger == Ledger!Spec

-----------------------------------------------------------------------------
(* The bridge goes on with a request; the renderer queries what it does not *)
(* know and opens the project again.                                        *)
Fairness ==
    /\ WF_vars(Work)
    /\ WF_vars(Open)
    /\ \A op \in Ops : WF_vars(Query(op))

FairSpec == Spec /\ Fairness

(* An interrupted transaction is finished or undone in the end.             *)
InterruptedResolve == \A op \in Ops : (op \in Pending) ~> (op \notin Pending)
=============================================================================
