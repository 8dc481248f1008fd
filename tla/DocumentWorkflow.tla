--------------------------- MODULE DocumentWorkflow ---------------------------
(***************************************************************************)
(* DocumentWorkflow: how the edits of one open document reach its file.    *)
(*                                                                         *)
(* The renderer is one event loop: an action is what runs between two      *)
(* awaits.  It shares the document with four things that move on their     *)
(* own: the bridge, which executes the request in flight; the autosave     *)
(* timer; callers that need everything up to a revision on disk before     *)
(* they go on (close, project switch, send, history); and other programs   *)
(* that write the same file.                                               *)
(*                                                                         *)
(* Left out: registration of an unregistered document, route changes, the  *)
(* audit events and history operations a write carries, the Canvas, and    *)
(* the recovery journal, of which only the wait for its retirement is kept.*)
(***************************************************************************)
EXTENDS DocumentSession, FiniteSets

CONSTANTS
    Callers,      \* boundary callers: each asks for one flush with a cutoff
    Autosave,     \* the caller behind the autosave timer: no cutoff
    InitialHtml,  \* the document when it is opened
    MaxExternal   \* bound: writes by other programs in one behaviour

ASSUME CallersAssumption ==
    /\ IsFiniteSet(Callers)
    /\ Autosave \notin Callers
    /\ InitialHtml \in Html
    /\ MaxExternal \in Nat

VARIABLES
    doc,       \* the DocumentSession
    timer,     \* the autosave timer is armed
    flush,     \* the single flush in flight, and where it is suspended
    waiting,   \* callers that joined the flush in flight
    resumed,   \* joined callers whose flush succeeded, not yet running again
    cutoff,    \* the revision each boundary caller asked for
    result,    \* what its flush returned
    request,   \* the autosave request in flight, as the bridge sees it
    disk,      \* the file: its bytes and the revision the bridge recorded
    external,  \* how many times another program wrote the file
    source,    \* the user's reload of the disk version, in progress or idle
    observed,  \* a check of the file after a watcher event
    discarded  \* history: the last revision the user gave up by a reload

vars == <<doc, timer, flush, waiting, resumed, cutoff, result, request, disk,
          external, source, observed, discarded>>
callers == <<waiting, resumed, cutoff, result>>
outside == <<disk, external, source, observed, discarded>>

Flushers == Callers \cup {Autosave}
NoFlush == [pc |-> "none", owner |-> Autosave, failed |-> NoWrite,
            conflict |-> FALSE, sha |-> NoHash]
FlushState == [pc : {"none", "writing", "proving", "comparing", "freezing",
                     "retiring"},
               owner : Flushers, failed : Write \cup {NoWrite},
               conflict : BOOLEAN, sha : Hash \cup {NoHash}]
WriterStates == {"writing", "proving", "comparing"}
Requests == {"none", "sent", "saved", "ok", "mismatch", "refused", "errored",
             "unknown"}
Results == {"none", "pending", "succeeded", "blocked", "failed"}
NoSource == [pc |-> "idle", html |-> InitialHtml]
NotObserving == [pc |-> "idle", seq |-> 0, sha |-> NoHash]

TypeOK ==
    /\ doc \in Session
    /\ timer \in BOOLEAN
    /\ flush \in FlushState
    /\ waiting \subseteq Flushers
    /\ resumed \subseteq Flushers
    /\ cutoff \in [Callers -> Revision]
    /\ result \in [Callers -> Results]
    /\ request \in Requests
    /\ disk \in [html : Html, revision : Revision]
    /\ external \in 0..MaxExternal
    /\ source \in [pc : {"idle", "reading", "read", "settling"}, html : Html]
    /\ observed \in [pc : {"idle", "asked", "answered"}, seq : Nat,
                     sha : Hash \cup {NoHash}]
    /\ discarded \in Revision

Init ==
    /\ doc = OpenedSession(InitialHtml, 0)
    /\ timer = FALSE
    /\ flush = NoFlush
    /\ waiting = {}
    /\ resumed = {}
    /\ cutoff = [c \in Callers |-> 0]
    /\ result = [c \in Callers |-> "none"]
    /\ request = "none"
    /\ disk = [html |-> InitialHtml, revision |-> 0]
    /\ external = 0
    /\ source = NoSource
    /\ observed = NotObserving
    /\ discarded = 0

-----------------------------------------------------------------------------
(* The flush in flight ends with an outcome.  Callers that joined it see    *)
(* the same promise: a failure is theirs too, a success they check first.   *)
Rechecking(outcome) == IF outcome = "succeeded" THEN waiting ELSE {}

MutantForgetsJoined(f, outcome) == {f.owner}
Ended(f, outcome) == {f.owner} \cup (waiting \ Rechecking(outcome))

Finish(f, outcome) ==
    /\ flush' = NoFlush
    /\ request' = "none"
    /\ result' = [c \in Callers |-> IF c \in Ended(f, outcome) THEN outcome
                                    ELSE result[c]]
    /\ waiting' = {}
    /\ resumed' = resumed \cup Rechecking(outcome)
    /\ UNCHANGED cutoff

CutoffReached(s, c) == c = Autosave \/ s.lastPersistedRevision >= cutoff[c]

(* The head of the write loop, from session s: send the pending write, or,  *)
(* with nothing left, leave the loop and wait until the recovery journal    *)
(* has been retired.  (The loop's exit on a pending write of an older       *)
(* authority is never taken: see PendingIsCurrent.)                         *)
Proceed(s, f) ==
    IF CanBeginWrite(s)
    THEN /\ doc' = BeginWrite(s)
         /\ flush' = [f EXCEPT !.pc = "writing"]
         /\ request' = "sent"
    ELSE /\ doc' = s
         /\ flush' = [f EXCEPT !.pc = "retiring"]
         /\ request' = "none"

(* flush, called by c: disarm the timer and join the flush in flight, or    *)
(* find nothing to write, or start the loop.                                *)
Drained(s) == /\ s.pending = NoWrite
              /\ s.editRevision <= s.lastPersistedRevision

Flush(c) ==
    LET s == IF CanReconstruct(doc) THEN Reconstruct(doc) ELSE doc IN
    /\ timer' = FALSE
    /\ \/ /\ flush.pc # "none"
          /\ waiting' = waiting \cup {c}
          /\ result' = [b \in Callers |-> IF b = c THEN "pending"
                                          ELSE result[b]]
          /\ UNCHANGED <<doc, flush, request>>
       \/ /\ flush.pc = "none"
          /\ Drained(doc)
          /\ result' = [b \in Callers |-> IF b = c THEN "succeeded"
                                          ELSE result[b]]
          /\ UNCHANGED <<doc, flush, request, waiting>>
       \/ /\ flush.pc = "none"
          /\ s.pending # NoWrite
          /\ Proceed(s, [NoFlush EXCEPT !.owner = c])
          /\ result' = [b \in Callers |-> IF b = c THEN "pending"
                                          ELSE result[b]]
          /\ UNCHANGED waiting

-----------------------------------------------------------------------------
(* enqueueEdit: the Canvas hands over an edit; no Canvas edits while a      *)
(* source operation holds it frozen.                                        *)
EnqueueEdit(h, sha) ==
    /\ source.pc = "idle"
    /\ AcceptsEdit(doc)
    /\ doc.editRevision < MaxRevision
    /\ doc' = AcceptEdit(doc, h, sha)
    /\ timer' = TRUE
    /\ UNCHANGED <<flush, request, callers, outside>>

(* The recovery journal confirms the hash of the current revision.          *)
JournalConfirms ==
    /\ doc.workingSha = NoHash
    /\ doc' = ConfirmWorkingHtml(doc)
    /\ UNCHANGED <<timer, flush, request, callers, outside>>

TimerFires ==
    /\ timer
    /\ Flush(Autosave)
    /\ UNCHANGED <<resumed, cutoff, outside>>

BoundaryFlush(c) ==
    /\ result[c] = "none"
    /\ cutoff' = [cutoff EXCEPT ![c] = doc.editRevision]
    /\ Flush(c)
    /\ UNCHANGED <<resumed, outside>>

(* A caller that joined runs again: satisfied, or back into flush.          *)
MutantTrustsOwner(c) == TRUE
Satisfied(c) == IF c = Autosave THEN Drained(doc) ELSE CutoffReached(doc, c)

ResumeSatisfied(c) ==
    /\ c \in resumed
    /\ Satisfied(c)
    /\ resumed' = resumed \ {c}
    /\ result' = [b \in Callers |-> IF b = c THEN "succeeded" ELSE result[b]]
    /\ UNCHANGED <<doc, timer, flush, request, waiting, cutoff, outside>>

ResumeAgain(c) ==
    /\ c \in resumed
    /\ ~Satisfied(c)
    /\ resumed' = resumed \ {c}
    /\ Flush(c)
    /\ UNCHANGED <<cutoff, outside>>

-----------------------------------------------------------------------------
(* The bridge executes one request at a time against the repository.        *)
Landed(w) == [html |-> w.html, revision |-> Greater(disk.revision, w.revision)]

(* saveWorkingCopy swaps the bytes if the file still holds the expected     *)
(* ones, and takes a file that already holds the new ones for a replay.     *)
(* When old and new are the same, a different file is adopted as it is.     *)
Swaps(w) == Sha256(disk.html) \in {w.expected, Sha256(w.html)}

BridgeSaves ==
    /\ request = "sent"
    /\ \/ /\ Swaps(doc.active)
          /\ disk' = Landed(doc.active)
          /\ request' = "saved"
       \/ /\ ~Swaps(doc.active)
          /\ request' = IF Sha256(doc.active.html) = doc.active.expected
                        THEN "saved" ELSE "refused"
          /\ UNCHANGED disk
    /\ UNCHANGED <<doc, timer, flush, callers, external, source, observed,
                   discarded>>

(* The reply carries the bytes the bridge reads back after the save.        *)
BridgeReplies ==
    /\ request = "saved"
    /\ request' = IF disk.html = doc.active.html THEN "ok" ELSE "mismatch"
    /\ UNCHANGED <<doc, timer, flush, callers, outside>>

(* The save fails, before or after the new bytes were published: "errored"  *)
(* is a definite answer, "unknown" is a reply that never arrives.           *)
BridgeFails ==
    /\ request = "sent"
    /\ request' \in {"errored", "unknown"}
    /\ \/ UNCHANGED disk
       \/ /\ Swaps(doc.active)
          /\ \/ disk' = [disk EXCEPT !.html = doc.active.html]
             \/ disk' = Landed(doc.active)
    /\ UNCHANGED <<doc, timer, flush, callers, external, source, observed,
                   discarded>>

BridgeReplyLost ==
    /\ request = "saved"
    /\ request' = "unknown"
    /\ UNCHANGED <<doc, timer, flush, callers, outside>>

(* Another program writes the file.                                         *)
ExternalWrite(h) ==
    /\ external < MaxExternal
    /\ h # disk.html
    /\ external' = external + 1
    /\ disk' = [disk EXCEPT !.html = h]
    /\ UNCHANGED <<doc, timer, flush, request, callers, source, observed,
                   discarded>>

-----------------------------------------------------------------------------
(* A write attempt failed.  It is queued again, unless a newer edit already *)
(* is, and the failure is recorded against it; a conflict or a protocol     *)
(* error first freezes the Canvas.  restoreWrite throws on an attempt that  *)
(* no longer is the document: the flush ends and nothing is recorded.       *)
Fail(kind) ==
    LET fw == FailureWrite(doc)
        s  == RestoreWrite(doc)
    IN  \/ /\ ~RestoreMatches(doc)
           /\ doc' = DropActive(doc)
           /\ Finish(flush, "failed")
           /\ UNCHANGED timer
        \/ /\ RestoreMatches(doc)
           /\ kind = "rejected"
           /\ doc' = RecordFailure(s, fw, FALSE)
           /\ Finish(flush, "failed")
           /\ UNCHANGED timer
        \/ /\ RestoreMatches(doc)
           /\ kind \in {"conflict", "protocol"}
           /\ doc' = s
           /\ timer' = FALSE
           /\ flush' = [flush EXCEPT !.pc = "freezing", !.failed = fw,
                                    !.conflict = (kind = "conflict")]
           /\ request' = "none"
           /\ UNCHANGED callers

FreezeReturns ==
    /\ flush.pc = "freezing"
    /\ doc' = RecordFailure(doc, flush.failed, flush.conflict)
    /\ Finish(flush, "failed")
    /\ UNCHANGED <<timer, outside>>

(* The reply is an acknowledgement of exactly the bytes that were sent.     *)
Acknowledged ==
    /\ flush.pc = "writing"
    /\ request = "ok"
    /\ AcceptsConfirmation(doc, doc.active, disk.revision)
    /\ Proceed(Confirm(doc, doc.active, disk.revision), flush)
    /\ UNCHANGED <<timer, callers, outside>>

ReplyFailure ==
    CASE request = "refused" -> "conflict"
      [] request \in {"mismatch", "ok"} -> "protocol"
      [] OTHER -> "rejected"

WriteFails ==
    /\ flush.pc = "writing"
    /\ \/ request \in {"refused", "mismatch", "errored"}
       \/ /\ request = "ok"
          /\ ~AcceptsConfirmation(doc, doc.active, disk.revision)
    /\ Fail(ReplyFailure)
    /\ UNCHANGED outside

(* The outcome is unknown: ask the bridge what it recorded, then for the    *)
(* bytes, and take matching answers for the acknowledgement.  This path     *)
(* ends the flush without another turn of the loop.                         *)
StartProof ==
    /\ flush.pc = "writing"
    /\ request = "unknown"
    /\ flush' = [flush EXCEPT !.pc = "proving"]
    /\ UNCHANGED <<doc, timer, request, callers, outside>>

ProveRevision ==
    /\ flush.pc = "proving"
    /\ disk.revision >= doc.active.revision
    /\ flush' = [flush EXCEPT !.pc = "comparing", !.sha = Sha256(disk.html)]
    /\ UNCHANGED <<doc, timer, request, callers, outside>>

ProofMatches == /\ disk.html = doc.active.html
                /\ Sha256(disk.html) = flush.sha
                /\ AcceptsConfirmation(doc, doc.active, disk.revision)

ProveBytes ==
    /\ flush.pc = "comparing"
    /\ ProofMatches
    /\ doc' = Confirm(doc, doc.active, disk.revision)
    /\ Finish(flush, "succeeded")
    /\ UNCHANGED <<timer, outside>>

(* Either read may fail; an unproved write is a failed one, never resent.   *)
ProofFails ==
    /\ flush.pc \in {"proving", "comparing"}
    /\ Fail("rejected")
    /\ UNCHANGED outside

(* The recovery journal is retired, or its retirement failed: the flush     *)
(* checks its cutoff and ends.                                              *)
JournalRetired ==
    /\ flush.pc = "retiring"
    /\ Finish(flush, IF CutoffReached(doc, flush.owner) THEN "succeeded"
                     ELSE "blocked")
    /\ UNCHANGED <<doc, timer, outside>>

-----------------------------------------------------------------------------
(* reloadFromDisk and the adoption of an external version, confirmed by the *)
(* user: freeze the Canvas, read the file, publish it as the new authority  *)
(* and settle the page.  One such operation at a time.                      *)
BeginSource ==
    /\ source.pc = "idle"
    /\ doc.authority < MaxAuthority
    /\ source' = [source EXCEPT !.pc = "reading"]
    /\ UNCHANGED <<doc, timer, flush, request, callers, disk, external,
                   observed, discarded>>

BridgeReadsSource ==
    /\ source.pc = "reading"
    /\ source' = [pc |-> "read", html |-> disk.html]
    /\ UNCHANGED <<doc, timer, flush, request, callers, disk, external,
                   observed, discarded>>

AcceptSource ==
    /\ source.pc = "read"
    /\ doc' = AdoptSource(doc, source.html)
    /\ discarded' = doc.editRevision
    /\ source' = [NoSource EXCEPT !.pc = "settling"]
    /\ UNCHANGED <<timer, flush, request, callers, disk, external, observed>>

(* The page is settled, or the operation failed: the freeze is released.    *)
EndSource ==
    /\ source.pc \in {"reading", "read", "settling"}
    /\ source' = NoSource
    /\ UNCHANGED <<doc, timer, flush, request, callers, disk, external,
                   observed, discarded>>

(* observeExternalSourceChange: the watcher saw the file change.  While a   *)
(* write is owned the check is deferred; an answer that arrives under       *)
(* another source receipt is stale.                                         *)
BeginObserve ==
    /\ observed.pc = "idle"
    /\ doc.persistState \notin {"conflict", "writing", "queued"}
    /\ doc.pending = NoWrite
    /\ flush.pc = "none"
    /\ observed' = [pc |-> "asked", seq |-> doc.receipt.seq, sha |-> NoHash]
    /\ UNCHANGED <<doc, timer, flush, request, callers, disk, external, source,
                   discarded>>

BridgeStats ==
    /\ observed.pc = "asked"
    /\ observed' = [observed EXCEPT !.pc = "answered", !.sha = Sha256(disk.html)]
    /\ UNCHANGED <<doc, timer, flush, request, callers, disk, external, source,
                   discarded>>

ObservesConflict == /\ observed.seq = doc.receipt.seq
                    /\ observed.sha # doc.persistedSha

EndObserve ==
    /\ observed.pc = "answered"
    /\ doc' = IF ObservesConflict THEN [doc EXCEPT !.persistState = "conflict"]
              ELSE doc
    /\ observed' = NotObserving
    /\ UNCHANGED <<timer, flush, request, callers, disk, external, source,
                   discarded>>

-----------------------------------------------------------------------------
Renderer ==
    \/ TimerFires
    \/ \E c \in Flushers : ResumeSatisfied(c) \/ ResumeAgain(c)
    \/ Acknowledged
    \/ WriteFails
    \/ FreezeReturns
    \/ StartProof
    \/ ProveRevision
    \/ ProveBytes
    \/ ProofFails
    \/ JournalRetired
    \/ AcceptSource
    \/ EndSource
    \/ EndObserve

Bridge ==
    \/ BridgeSaves
    \/ BridgeReplies
    \/ BridgeFails
    \/ BridgeReplyLost
    \/ BridgeReadsSource
    \/ BridgeStats

Environment ==
    \/ \E h \in Html, known \in BOOLEAN :
          EnqueueEdit(h, IF known THEN Sha256(h) ELSE NoHash)
    \/ JournalConfirms
    \/ \E c \in Callers : BoundaryFlush(c)
    \/ \E h \in Html : ExternalWrite(h)
    \/ BeginSource
    \/ BeginObserve

Next == Renderer \/ Bridge \/ Environment

Spec == Init /\ [][Next]_vars

(* Promises are resolved, timers fire and every bridge request is answered  *)
(* or times out; nobody has to edit, reload or write the file.              *)
Progress ==
    \/ TimerFires
    \/ \E c \in Flushers : ResumeSatisfied(c) \/ ResumeAgain(c)
    \/ Acknowledged \/ WriteFails \/ FreezeReturns
    \/ StartProof \/ ProveRevision \/ ProveBytes \/ ProofFails
    \/ JournalRetired
    \/ BridgeSaves \/ BridgeReplies \/ BridgeFails \/ BridgeReplyLost

FairSpec == Spec /\ WF_vars(Progress)

-----------------------------------------------------------------------------
(* Properties.                                                             *)

(* The state shown as saved ("idle") means it: nothing is queued, and the   *)
(* document is, revision and hash, what was last confirmed on disk.         *)
IdleMeansPersisted == doc.persistState = "idle" => Claimed(doc)

(* An edit that was accepted and is not yet confirmed is carried, with its  *)
(* latest bytes, by the queued write or by the write in flight: neither a   *)
(* failed attempt, nor a lost reply, nor a reload may drop it.              *)
LatestEditOwned ==
    doc.editRevision > doc.lastPersistedRevision => Carried(doc)

(* One writer: a write is active exactly while the one flush in flight      *)
(* waits for its reply or proves its outcome.                               *)
OneWriter ==
    doc.active # NoWrite <=> flush.pc \in WriterStates

(* The queued write belongs to the current authority, so that the write     *)
(* loop never stops in front of it and flush never leaves it behind.        *)
PendingIsCurrent ==
    doc.pending # NoWrite => doc.pending.authority = doc.authority

(* No revision is claimed as persisted before the bridge recorded it on     *)
(* disk, unless the user gave it up by a reload: not by a stale reply, not  *)
(* by the proof of an unknown outcome.                                      *)
NoFalseClaim ==
    doc.lastPersistedRevision <= Greater(disk.revision, discarded)

(* A boundary flush that succeeded reached its cutoff, even when it joined  *)
(* a flush that was started for less.                                       *)
FlushHonoursCutoff ==
    \A c \in Callers :
        result[c] = "succeeded" => doc.lastPersistedRevision >= cutoff[c]

(* A write the user's reload has fenced is never confirmed: while it is in  *)
(* flight no step of its own makes anything persisted.                      *)
FencedWriteConfirmsNothing ==
    [][doc.active # NoWrite /\ doc.active.authority # doc.authority
       /\ doc'.authority = doc.authority
       => /\ doc'.persistedSha = doc.persistedSha
          /\ doc'.lastPersistedRevision = doc.lastPersistedRevision]_vars

(* "Saved" is true of the disk: as long as no other program wrote the file  *)
(* and the user reloaded nothing over an edit, an idle session holds the    *)
(* bytes of the file, whatever was refused, failed or lost in between.      *)
SavedIsOnDisk ==
    doc.persistState = "idle" /\ external = 0 /\ discarded = 0
        => disk.html = doc.html

(* Every boundary flush returns.                                            *)
FlushReturns ==
    \A c \in Callers :
        result[c] = "pending" ~> result[c] \in {"succeeded", "blocked", "failed"}

(* ARCHITECTURE_CONTRACT.md: idle is published only with no active and no   *)
(* pending write.                                                           *)
IdlePublication ==
    doc.persistState = "idle" => doc.active = NoWrite /\ doc.pending = NoWrite

(* INTERACTION_FLOW.md, "12.2": the autosave queue must be completed or its *)
(* failure be shown.                                                        *)
QueueSettles ==
    doc.persistState = "queued" ~> doc.persistState # "queued"
=============================================================================
