------------------------------ MODULE DraftSync ------------------------------
(***************************************************************************)
(* DraftSync: how the comments of a round reach the project's draft file.  *)
(*                                                                         *)
(* Every change of the comments makes a snapshot of all of them, with an   *)
(* operation identity and the revision it was made from.  The snapshot is  *)
(* kept in the recovery store and sent to the bridge, one write at a time; *)
(* a newer snapshot replaces the one that waits.  The bridge applies a     *)
(* write only to the revision it expects, remembers the operations it      *)
(* applied and the comments that were deleted.  On a conflict, or when the *)
(* outcome is unknown, the write is rebased on what the bridge has and     *)
(* sent again, a bounded number of times.  Opening the project merges what *)
(* the bridge has with the recovery record.                                *)
(*                                                                         *)
(* A request may be late, and arrive when its sender has given up, left    *)
(* the project or been reloaded.                                           *)
(*                                                                         *)
(* The text of a comment is the stamp of its last edit (updatedAt); 0 is   *)
(* no comment.  Left out: change events, attachments, the composer, a run  *)
(* that locks the draft, base versions, the limit of remembered            *)
(* operations, other documents.                                            *)
(*                                                                         *)
(* A name that DocumentWorkflow has too starts with Draft here, so that    *)
(* one module can extend both.                                             *)
(***************************************************************************)
EXTENDS Integers, FiniteSets, FiniteSetsExt

CONSTANTS
    Ids,         \* comment identities
    None,        \* no write, no record, no answer
    MaxRebases,  \* how often a write is rebased before it fails
    MaxChanges,  \* bound: changes by the user
    MaxFlushes,  \* bound: boundaries that drain the draft
    MaxOpens,    \* bound: times a workspace is read to be applied
    MaxReloads,  \* bound: reloads of the renderer
    MaxFaults,   \* bound: answers lost or late, writes refused
    MaxCrashes   \* bound: crashes of the bridge

Text == [Ids -> 0..MaxChanges]
NoText == [i \in Ids |-> 0]

DraftWrite == [op : Nat, expected : Nat, text : Text, tombs : SUBSET Ids]
Draft == [revision : Nat, text : Text, tombs : SUBSET Ids, ops : SUBSET Nat]
Record == [op : Nat, text : Text, tombs : SUBSET Ids]
AnswerType == [ok : BOOLEAN, base : Draft]
Run == [write : DraftWrite, first : DraftWrite, rebases : 0..MaxRebases,
        at : {"sent", "answered", "unknown"},
        answer : AnswerType \cup {None}, current : BOOLEAN]
DraftRenderer ==
    [text : Text, tombs : SUBSET Ids, record : Record \cup {None},
     recoveryOp : Nat, revision : Nat,
     ack : [text : Text, tombs : SUBSET Ids],
     pending : DraftWrite \cup {None}, error : BOOLEAN,
     run : Run \cup {None}, ops : Nat]
Goals == {"open", "refresh", "register"}
Reads == [goal : Goals, base : Draft]

ASSUME DraftAssumption ==
    /\ IsFiniteSet(Ids)
    /\ None \notin DraftWrite \cup Record \cup AnswerType \cup Run \cup Reads
    /\ {MaxRebases, MaxChanges, MaxFlushes, MaxOpens, MaxReloads, MaxFaults,
        MaxCrashes} \subseteq Nat

VARIABLES
    draft,    \* the renderer: CommentSession, DraftSession, recovery record
    phase,    \* the document: away, open
    read,     \* a workspace that was read and is not applied yet
    requests, \* saveDraft requests on their way
    server,   \* the draft file: revision, comments, tombstones, operations
    pointer,  \* the revision the state record names
    busy,     \* the request whose draft file is written, its state not yet
    wanted,   \* history: the comments as the user left them
    deleted,  \* history: the comments the user deleted
    count     \* what has happened, for the bounds

draftVars == <<draft, phase, read, requests, server, pointer, busy, wanted,
               deleted, count>>
bridge == <<server, pointer, busy>>
user == <<wanted, deleted>>

DraftInit ==
    /\ draft = [text |-> NoText, tombs |-> {}, record |-> None,
                recoveryOp |-> 0, revision |-> 0,
                ack |-> [text |-> NoText, tombs |-> {}], pending |-> None,
                error |-> FALSE, run |-> None, ops |-> 0]
    /\ phase = "open"
    /\ read = None
    /\ requests = {}
    /\ server = [revision |-> 0, text |-> NoText, tombs |-> {}, ops |-> {}]
    /\ pointer = 0
    /\ busy = None
    /\ wanted = NoText
    /\ deleted = {}
    /\ count = [changes |-> 0, flushes |-> 0, opens |-> 0, reloads |-> 0,
                faults |-> 0, crashes |-> 0]

Counts(what) == count' = [count EXCEPT ![what] = @ + 1]

-----------------------------------------------------------------------------
(* The draft aggregate (shared by renderer and bridge).                     *)

(* rebaseDraftMutation: the newer of two edits of a comment, nothing that   *)
(* either side deleted.                                                     *)
Merge(text, tombs, base) ==
    [text |-> [i \in Ids |->
                 IF i \in tombs \cup base.tombs THEN 0
                 ELSE Max({text[i], base.text[i]})],
     tombs |-> tombs \cup base.tombs]

Rebase(write, base) ==
    LET merged == Merge(write.text, write.tombs, base) IN
    [write EXCEPT !.expected = base.revision,
                  !.text = merged.text, !.tombs = merged.tombs]

Aggregate(d) == [text |-> d.text, tombs |-> d.tombs]

(* assertWorkingCopyDraft: the workspace can be read.                       *)
Readable == pointer = server.revision

-----------------------------------------------------------------------------
(* The renderer.                                                            *)

Start(s) ==
    IF s.pending = None \/ s.run # None THEN s
    ELSE [s EXCEPT !.pending = None,
                   !.run = [write |-> s.pending, first |-> s.pending,
                            rebases |-> 0, at |-> "sent", answer |-> None,
                            current |-> TRUE]]

(* DraftSession.queue: nothing to do when the bridge already has this, its  *)
(* own tombstones considered, and nothing waits or failed.                  *)
Queue(s, snapshot) ==
    IF /\ s.pending = None /\ ~s.error
       /\ Merge(snapshot.text, snapshot.tombs,
                [text |-> NoText, tombs |-> s.ack.tombs]) = s.ack
    THEN s
    ELSE [s EXCEPT !.pending = snapshot, !.error = FALSE]

Keep(s, op, text, tombs) ==
    [s EXCEPT !.record = IF text = NoText /\ tombs = {} THEN None
                         ELSE [op |-> op, text |-> text, tombs |-> tombs]]

(* Mutant: the record is left to the acknowledgement.                       *)
MutantQueueDraft(s) ==
    LET snapshot == [op |-> s.ops + 1, expected |-> s.revision,
                     text |-> s.text, tombs |-> s.tombs] IN
    Start(Queue([s EXCEPT !.recoveryOp = 0, !.ops = @ + 1], snapshot))

(* queueDraft and flushDraft: record the snapshot, then drain.              *)
QueueDraft(s) ==
    LET op == IF s.recoveryOp # 0 THEN s.recoveryOp ELSE s.ops + 1
        snapshot == [op |-> op, expected |-> s.revision,
                     text |-> s.text, tombs |-> s.tombs]
        kept == Keep([s EXCEPT !.recoveryOp = 0, !.ops = Max({op, s.ops})],
                     op, s.text, s.tombs) IN
    Start(Queue(kept, snapshot))

(* A change of CommentSession: its subscriber queues the draft, and the     *)
(* operation that made the change queues it again.                          *)
Changed(s) == QueueDraft(QueueDraft(s))

(* A write that is not on its way yet is sent.                              *)
Sent(s) ==
    IF /\ s.run # None /\ s.run.at = "sent"
       /\ draft.run = None \/ draft.run.at # "sent"
    THEN {s.run.write} ELSE {}

Becomes(s) ==
    /\ draft' = s
    /\ requests' = requests \cup Sent(s)

(* activate for another context, replaceAuthority, deactivate: a new        *)
(* generation, nothing waits, and a write in flight is retired.             *)
Retire(s) == IF s.run = None THEN None ELSE [s.run EXCEPT !.current = FALSE]
Renewed(s, revision, ack) ==
    [s EXCEPT !.revision = revision, !.ack = ack, !.pending = None,
              !.error = FALSE, !.run = Retire(s)]

CommitComment(i) ==
    /\ phase = "open" /\ count.changes < MaxChanges
    /\ wanted[i] = 0 /\ i \notin deleted
    /\ wanted' = [wanted EXCEPT ![i] = count.changes + 1]
    /\ Becomes(Changed([draft EXCEPT !.text[i] = count.changes + 1,
                                     !.tombs = @ \ {i}]))
    /\ Counts("changes")
    /\ UNCHANGED <<phase, read, bridge, deleted>>

EditComment(i) ==
    /\ phase = "open" /\ count.changes < MaxChanges
    /\ draft.text[i] # 0
    /\ wanted' = [wanted EXCEPT ![i] = count.changes + 1]
    /\ Becomes(Changed([draft EXCEPT !.text[i] = count.changes + 1]))
    /\ Counts("changes")
    /\ UNCHANGED <<phase, read, bridge, deleted>>

DeleteComment(i) ==
    /\ phase = "open" /\ count.changes < MaxChanges
    /\ draft.text[i] # 0
    /\ wanted' = [wanted EXCEPT ![i] = 0]
    /\ deleted' = deleted \cup {i}
    /\ Becomes(Changed([draft EXCEPT !.text[i] = 0, !.tombs = @ \cup {i}]))
    /\ Counts("changes")
    /\ UNCHANGED <<phase, read, bridge>>

(* drainDraft at a boundary: a save, a submission, a switch, a close.       *)
FlushDraft ==
    /\ phase = "open" /\ count.flushes < MaxFlushes
    /\ Becomes(QueueDraft(draft))
    /\ Counts("flushes")
    /\ UNCHANGED <<phase, read, bridge, user>>

-----------------------------------------------------------------------------
(* The write in flight: DraftSession #persist and #run.                     *)

(* clearDeletedCommentIds and update make CommentSession tell its           *)
(* subscriber, which queues the draft before the record is rewritten.       *)
Emit(s, text, tombs) ==
    QueueDraft([s EXCEPT !.text = text, !.tombs = tombs])

(* Mutant: the comments become the bridge's with a newer change waiting.    *)
MutantDraftAcknowledged(s, write, base, rebases) ==
    IF s.pending # None /\ rebases = 0 THEN s
    ELSE LET told == IF rebases > 0 THEN Emit(s, base.text, {}) ELSE s
         IN  Keep(told, write.op, base.text, {})

(* handleDraftSessionEvent, acknowledged: with nothing newer waiting the    *)
(* comments become the bridge's, when they were rebased, and the record     *)
(* too.                                                                     *)
DraftAcknowledged(s, write, base, rebases) ==
    IF s.pending # None THEN s
    ELSE LET told == IF rebases > 0 THEN Emit(s, base.text, {})
                     ELSE IF s.tombs # {} THEN Emit(s, s.text, {}) ELSE s
         IN  Keep(told, write.op, base.text, {})

Success(s, base) ==
    LET write == s.run.write
        rebased == IF s.pending = None THEN None ELSE Rebase(s.pending, base)
        left == IF rebased # None /\ Aggregate(rebased) = Aggregate(base)
                THEN None ELSE rebased
        acked == [s EXCEPT !.revision = Max({@, base.revision}),
                           !.ack = Aggregate(base), !.pending = left,
                           !.error = FALSE]
        told == DraftAcknowledged(acked, write, base, s.run.rebases) IN
    IF s.run.current THEN Start([told EXCEPT !.run = None])
    ELSE [s EXCEPT !.run = None]

(* Mutant: a failure that is swallowed.                                     *)
MutantSwallow(s) == [s EXCEPT !.run = None]

(* The write that failed waits again, unless a newer one does.              *)
Failure(s) ==
    IF s.run.current
    THEN [s EXCEPT !.pending = IF @ = None THEN s.run.first ELSE @,
                   !.error = TRUE, !.run = None]
    ELSE [s EXCEPT !.run = None]

(* Mutant: one rebase too many.                                             *)
MutantReconcile(s, base) ==
    LET write == s.run.write IN
    IF write.op \in base.ops
    THEN IF base.revision <= write.expected THEN Failure(s)
         ELSE Success(s, base)
    ELSE IF base.revision < write.expected \/ s.run.rebases > MaxRebases
    THEN Failure(s)
    ELSE [s EXCEPT !.run.write = Rebase(write, base),
                   !.run.rebases = @ + 1, !.run.at = "sent",
                   !.run.answer = None]

(* What the bridge has, after a conflict or an unknown outcome.             *)
Reconcile(s, base) ==
    LET write == s.run.write IN
    IF write.op \in base.ops
    THEN IF base.revision <= write.expected THEN Failure(s)
         ELSE Success(s, base)
    ELSE IF base.revision < write.expected \/ s.run.rebases >= MaxRebases
    THEN Failure(s)
    ELSE [s EXCEPT !.run.write = Rebase(write, base),
                   !.run.rebases = @ + 1, !.run.at = "sent",
                   !.run.answer = None]

Answer ==
    /\ draft.run # None /\ draft.run.at = "answered"
    /\ LET base == draft.run.answer.base IN
       Becomes(IF ~draft.run.answer.ok THEN Reconcile(draft, base)
               ELSE IF base.revision <= draft.run.write.expected
               THEN Failure(draft)
               ELSE Success(draft, base))
    /\ UNCHANGED <<phase, read, bridge, user, count>>

(* The answer does not come in time, or is lost: the outcome is unknown.    *)
Unanswered ==
    /\ draft.run # None /\ draft.run.at \in {"sent", "answered"}
    /\ count.faults < MaxFaults
    /\ draft' = [draft EXCEPT !.run.at = "unknown", !.run.answer = None]
    /\ Counts("faults")
    /\ UNCHANGED <<phase, read, requests, bridge, user>>

(* The bridge refuses the write, for another reason than its revision.      *)
Refused ==
    /\ draft.run # None /\ draft.run.at = "sent"
    /\ draft.run.write \in requests
    /\ count.faults < MaxFaults
    /\ draft' = Failure(draft)
    /\ requests' = requests \ {draft.run.write}
    /\ Counts("faults")
    /\ UNCHANGED <<phase, read, bridge, user>>

LoadAuthority ==
    /\ draft.run # None /\ draft.run.at = "unknown"
    /\ busy = None
    /\ Becomes(IF Readable THEN Reconcile(draft, server)
               ELSE Failure(draft))
    /\ UNCHANGED <<phase, read, bridge, user, count>>

-----------------------------------------------------------------------------
(* Opening, refreshing and registering the document.                        *)

(* applyProject: resetForProjectTransition, deactivate and then reset, so   *)
(* that the subscriber finds no active draft session.                       *)
Leave ==
    /\ phase = "open"
    /\ phase' = "away"
    /\ read' = None
    /\ Becomes([Renewed(draft, 0, [text |-> NoText, tombs |-> {}])
                EXCEPT !.text = NoText, !.tombs = {}, !.recoveryOp = 0])
    /\ UNCHANGED <<bridge, user, count>>

(* The workspace is asked for: to open the document, to refresh it, or to   *)
(* register it again.  What comes back is applied later.                    *)
ReadWorkspace(goal) ==
    /\ read = None /\ busy = None /\ Readable
    /\ goal = "open" <=> phase = "away"
    /\ count.opens < MaxOpens
    /\ read' = [goal |-> goal, base |-> server]
    /\ Counts("opens")
    /\ UNCHANGED <<draft, phase, requests, bridge, user>>

(* recoverDraft: the recovery record is rebased on what the bridge has; its *)
(* operation keeps its identity unless the bridge has applied it.           *)
Recovered(record, base) ==
    LET applied == record.op \in base.ops
        merged == IF applied THEN Merge(base.text, base.tombs, base)
                  ELSE Merge(record.text, record.tombs, base) IN
    IF record = None THEN [text |-> base.text, tombs |-> {}, op |-> 0]
    ELSE [text |-> merged.text,
          tombs |-> IF applied THEN {} ELSE merged.tombs,
          op |-> IF applied THEN 0 ELSE record.op]

Hydrated(s, base) ==
    LET found == Recovered(s.record, base) IN
    QueueDraft([s EXCEPT !.recoveryOp = found.op,
                         !.text = found.text, !.tombs = found.tombs])

(* hydrateWorkspace: the draft of another context is activated anew; of the *)
(* same one only when it is not older than what was acknowledged meanwhile. *)
ApplyWorkspace ==
    /\ read # None /\ read.goal \in {"open", "refresh"}
    /\ phase' = "open"
    /\ read' = None
    /\ LET base == read.base
           ack == Aggregate(base) IN
       Becomes(
         IF read.goal = "open"
         THEN Hydrated(Renewed(draft, base.revision, ack), base)
         ELSE IF base.revision >= draft.revision
         THEN Hydrated([draft EXCEPT !.revision = base.revision, !.ack = ack],
                       base)
         ELSE draft)
    /\ UNCHANGED <<bridge, user, count>>

(* Registration: replaceAuthority, and the comments that are here are       *)
(* queued on it (reconcileAuthority).                                       *)
ApplyRegistration ==
    /\ read # None /\ read.goal = "register"
    /\ read' = None
    /\ Becomes(QueueDraft(Renewed(draft, read.base.revision,
                                  Aggregate(read.base))))
    /\ UNCHANGED <<phase, bridge, user, count>>

(* The renderer is reloaded or crashes: only the recovery record stays.     *)
Reload ==
    /\ count.reloads < MaxReloads
    /\ Counts("reloads")
    /\ phase' = "away" /\ read' = None
    /\ draft' = [text |-> NoText, tombs |-> {}, record |-> draft.record,
                 recoveryOp |-> 0, revision |-> 0,
                 ack |-> [text |-> NoText, tombs |-> {}], pending |-> None,
                 error |-> FALSE, run |-> None, ops |-> draft.ops]
    /\ UNCHANGED <<requests, bridge, user>>

-----------------------------------------------------------------------------
(* The bridge.                                                              *)

(* The answer to r, if somebody still waits for it.                         *)
Reply(r, ok, base) ==
    draft' = IF draft.run # None /\ draft.run.at = "sent"
                /\ draft.run.write = r
             THEN [draft EXCEPT !.run.at = "answered",
                                !.run.answer = [ok |-> ok, base |-> base]]
             ELSE draft

(* applyDraftCommand: an operation that was applied, or one that expects    *)
(* another revision.                                                        *)
Replay(r) ==
    /\ r \in requests /\ busy = None
    /\ r.op \in server.ops
    /\ requests' = requests \ {r}
    /\ Reply(r, TRUE, server)
    /\ UNCHANGED <<phase, read, bridge, user, count>>

Conflict(r) ==
    /\ r \in requests /\ busy = None
    /\ r.op \notin server.ops
    /\ r.expected # server.revision
    /\ requests' = requests \ {r}
    /\ Reply(r, FALSE, server)
    /\ UNCHANGED <<phase, read, bridge, user, count>>

(* The draft file is replaced ...                                           *)
Apply(r) ==
    /\ r \in requests /\ busy = None
    /\ r.op \notin server.ops
    /\ r.expected = server.revision
    /\ requests' = requests \ {r}
    /\ LET tombs == server.tombs \cup r.tombs IN
       server' = [revision |-> server.revision + 1,
                  text |-> [i \in Ids |->
                              IF i \in tombs THEN 0 ELSE r.text[i]],
                  tombs |-> tombs, ops |-> server.ops \cup {r.op}]
    /\ busy' = r
    /\ UNCHANGED <<draft, phase, read, pointer, user, count>>

(* ... and then the state record that names its revision and hash.          *)
Point ==
    /\ busy # None
    /\ pointer' = server.revision
    /\ busy' = None
    /\ Reply(busy, TRUE, server)
    /\ UNCHANGED <<phase, read, requests, server, user, count>>

(* The bridge stops, perhaps between the two, and is started again.         *)
Crash ==
    /\ count.crashes < MaxCrashes
    /\ Counts("crashes")
    /\ busy' = None /\ requests' = {}
    /\ draft' = IF draft.run # None /\ draft.run.at \in {"sent", "answered"}
                THEN [draft EXCEPT !.run.at = "unknown", !.run.answer = None]
                ELSE draft
    /\ UNCHANGED <<phase, read, server, pointer, user>>

-----------------------------------------------------------------------------
DraftNext ==
    \/ \E i \in Ids : CommitComment(i) \/ EditComment(i) \/ DeleteComment(i)
    \/ FlushDraft \/ Answer \/ Unanswered \/ Refused \/ LoadAuthority
    \/ Leave \/ Reload \/ ApplyWorkspace \/ ApplyRegistration
    \/ \E goal \in Goals : ReadWorkspace(goal)
    \/ \E r \in requests : Replay(r) \/ Conflict(r) \/ Apply(r)
    \/ Point \/ Crash

DraftSpec == DraftInit /\ [][DraftNext]_draftVars

-----------------------------------------------------------------------------
DraftTypeOK ==
    /\ draft \in DraftRenderer
    /\ phase \in {"open", "away"}
    /\ read \in Reads \cup {None}
    /\ requests \subseteq DraftWrite
    /\ server \in Draft
    /\ pointer \in Nat
    /\ busy \in DraftWrite \cup {None}
    /\ wanted \in Text
    /\ deleted \subseteq Ids
    /\ count \in [changes : 0..MaxChanges, flushes : 0..MaxFlushes,
                  opens : 0..MaxOpens, reloads : 0..MaxReloads,
                  faults : 0..MaxFaults, crashes : 0..MaxCrashes]

Settled == /\ phase = "open"
           /\ draft.pending = None /\ draft.run = None /\ ~draft.error

(* What the user sees is what the user did: no acknowledgement, conflict,   *)
(* refresh or reopening drops a comment from an open document, turns it     *)
(* back to an older text or brings a deleted one back (rebaseDraftMutation, *)
(* handleDraftSessionEvent and recoverDraft together).                      *)
ShowsTheUsersWork == phase = "open" => draft.text = wanted

(* Whenever the application stops, the recovery record and the draft file   *)
(* together give back exactly the comments the user left: recoverDraft      *)
(* needs nothing of what was in memory or on its way.                       *)
ReopenBringsBack == Recovered(draft.record, server).text = wanted

(* When inspectDraft says that nothing is left to record, the draft file    *)
(* has the comments as they are shown, whatever older write may still       *)
(* arrive.                                                                  *)
SettledMeansStored == Settled => server.text = wanted

(* Late writes of an earlier session, reloads and refreshes never make a    *)
(* write fail: the conflicts they cause are resolved within the rebases     *)
(* that #persist allows itself.                                             *)
ConflictsResolve == draft.error => count.faults + count.crashes > 0

(* docs/ARCHITECTURE.md: a draft file that is one revision ahead of the     *)
(* state record, the bridge having stopped between the two writes, is       *)
(* adopted by the next read.  assertWorkingCopyDraft refuses it.            *)
OneAheadIsReadable ==
    busy = None /\ server.revision \in {pointer, pointer + 1} => Readable
=============================================================================
