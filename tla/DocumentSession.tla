--------------------------- MODULE DocumentSession ---------------------------
(***************************************************************************)
(* The DocumentSession class: what the editor knows about the one document *)
(* it has open.  The state of a session is a record, and every method that *)
(* changes it is an operator from a session to the session it leaves       *)
(* behind, so that a handler that calls several methods without yielding   *)
(* to the event loop is one composition of them, and one action.           *)
(*                                                                         *)
(* Writes are objects the class compares by identity; here they are        *)
(* records, and the WeakMap from a write to the authority generation that  *)
(* owns it is a field of the record.                                       *)
(*                                                                         *)
(* Left out: error texts, the Canvas projection (canvasGeneration and      *)
(* canvasAuthority), documents with no source path ("preview-dirty"), and  *)
(* the route fields of a write, because the document keeps one route.      *)
(***************************************************************************)
EXTENDS Integers

CONSTANTS
    Html,         \* the documents that can be edited or found on disk
    NoHash,       \* a hash the session does not have (null)
    NoWrite,      \* an empty pendingWrite or activeWrite slot (null)
    MaxRevision,  \* bound: edits accepted in one behaviour
    MaxAuthority  \* bound: authority publications in one behaviour

ASSUME BoundAssumption ==
    /\ MaxRevision \in Nat
    /\ MaxAuthority \in Nat

(* SHA-256 is taken to be injective on the documents of one behaviour: a    *)
(* hash is a value of its own, equal to another only for equal documents.   *)
Sha256(h) == [sha256 |-> h]
Hash == {Sha256(h) : h \in Html}

ASSUME SentinelAssumption == NoHash \notin Hash

Revision == Nat
PersistState == {"idle", "queued", "writing", "failed", "conflict"}

Write == [html : Html, revision : Revision, expected : Hash,
          authority : Nat]

ASSUME NoWriteAssumption == NoWrite \notin Write

(* A source receipt: its sequence number and the hash it was issued for.    *)
Receipt == [seq : Nat, sha : Hash \cup {NoHash}]

Session == [html : Html,
            editRevision : Revision,
            lastPersistedRevision : Revision,
            persistState : PersistState,
            persistedSha : Hash,
            workingSha : Hash \cup {NoHash},
            receipt : Receipt,
            authority : Nat,
            pending : Write \cup {NoWrite},
            active : Write \cup {NoWrite}]

(* reset: the session of a document just opened on h at revision r.         *)
OpenedSession(h, r) ==
    [html |-> h, editRevision |-> r, lastPersistedRevision |-> r,
     persistState |-> "idle", persistedSha |-> Sha256(h),
     workingSha |-> Sha256(h), receipt |-> [seq |-> 1, sha |-> Sha256(h)],
     authority |-> 1, pending |-> NoWrite, active |-> NoWrite]

(* The write built for html h at revision r: it expects the disk to hold    *)
(* what the session last knew to be persisted when the write was built.     *)
CreateWrite(s, h, r) ==
    [html |-> h, revision |-> r, expected |-> s.persistedSha,
     authority |-> s.authority]

NextReceipt(s, sha) == [seq |-> s.receipt.seq + 1, sha |-> sha]

Greater(a, b) == IF a >= b THEN a ELSE b

(* The session still owns w: it is in a slot and no newer authority was     *)
(* published since.                                                         *)
Owns(s, w) == /\ w \in {s.active, s.pending}
              /\ w.authority = s.authority

(* What a session may claim and what it must carry, for the properties: its *)
(* document is what was last confirmed on disk, or its latest edit is in    *)
(* one of its two slots.                                                    *)
Claimed(s) == /\ s.pending = NoWrite
              /\ s.lastPersistedRevision >= s.editRevision
              /\ s.persistedSha = Sha256(s.html)

Carried(s) == \E w \in {s.pending, s.active} :
                 /\ w # NoWrite
                 /\ w.revision = s.editRevision
                 /\ w.html = s.html

-----------------------------------------------------------------------------
AcceptsEdit(s) == s.persistState # "conflict"

(* acceptEdit: the new bytes, revision, receipt and pending write appear    *)
(* together; the write replaces whatever was pending.                       *)
MutantStaysIdle(s, h, sha) ==
    LET r == s.editRevision + 1 IN
    [s EXCEPT !.html = h, !.editRevision = r, !.workingSha = sha,
              !.receipt = NextReceipt(s, sha),
              !.pending = CreateWrite(s, h, r)]
AcceptEdit(s, h, sha) ==
    LET r == s.editRevision + 1 IN
    [s EXCEPT !.html = h,
              !.editRevision = r,
              !.workingSha = sha,
              !.receipt = NextReceipt(s, sha),
              !.pending = CreateWrite(s, h, r),
              !.persistState = "queued"]

(* restorePendingWrite of a write rebuilt from memory; it refuses to        *)
(* replace work the session already owns.                                   *)
CanReconstruct(s) == /\ s.pending = NoWrite
                     /\ s.editRevision > s.lastPersistedRevision
Reconstruct(s) ==
    [s EXCEPT !.pending = CreateWrite(s, s.html, s.editRevision),
              !.persistState = "queued"]

CanBeginWrite(s) == /\ s.active = NoWrite
                    /\ s.pending # NoWrite
                    /\ s.pending.authority = s.authority
BeginWrite(s) ==
    [s EXCEPT !.active = s.pending, !.pending = NoWrite,
              !.persistState = "writing"]

(* restoreWrite after a failed attempt: a newer pending write wins;         *)
(* otherwise the attempt is queued again, provided it still matches.        *)
RestoreMatches(s) == \/ s.pending # NoWrite
                     \/ /\ s.active.revision = s.editRevision
                        /\ s.active.html = s.html
DropActive(s) == [s EXCEPT !.active = NoWrite]
MutantDropsAttempt(s) ==
    [s EXCEPT !.active = NoWrite, !.persistState = "queued"]
MutantKeepsAuthority(s) ==
    [s EXCEPT !.active = NoWrite, !.persistState = "queued",
              !.pending = IF @ # NoWrite THEN @ ELSE s.active]
RestoreWrite(s) ==
    [s EXCEPT !.active = NoWrite,
              !.pending = IF s.pending # NoWrite THEN s.pending
                          ELSE [s.active EXCEPT !.authority = s.authority],
              !.persistState = "queued"]

(* The write a failure is reported against once the attempt was restored:   *)
(* the restored attempt, or the attempt itself when a newer write won.      *)
FailureWrite(s) == IF s.pending # NoWrite THEN s.active
                   ELSE [s.active EXCEPT !.authority = s.authority]

RecordFailure(s, w, isConflict) ==
    IF Owns(s, w)
    THEN [s EXCEPT !.persistState = IF isConflict THEN "conflict"
                                    ELSE "failed"]
    ELSE s

(* acceptWriteConfirmation of the active write, once the caller has matched *)
(* the acknowledged bytes: the queued write, if any, is rebased on the new  *)
(* disk hash; a session with nothing newer becomes idle; a receipt issued   *)
(* without the confirmed hash is replaced, which is a new authority.        *)
MutantIgnoresFence(s, w, rev) == s.active = w /\ rev >= w.revision
AcceptsConfirmation(s, w, rev) ==
    /\ s.active = w
    /\ w.authority = s.authority
    /\ rev >= w.revision

Completes(s, w) == /\ s.editRevision = w.revision
                   /\ s.pending = NoWrite
                   /\ s.html = w.html

MutantClaimsCurrent(s, rev) == Greater(s.editRevision, rev)
ConfirmedRevision(s, rev) == Greater(s.lastPersistedRevision, rev)

Confirm(s, w, rev) ==
    LET sha       == Sha256(w.html)
        completes == Completes(s, w)
        repaired  == completes /\ s.receipt.sha # sha
        authority == IF repaired THEN s.authority + 1 ELSE s.authority
        next      == IF s.pending = NoWrite THEN NoWrite
                     ELSE [s.pending EXCEPT !.expected = sha,
                                            !.authority = authority]
    IN  [s EXCEPT !.active = NoWrite,
                  !.pending = next,
                  !.persistedSha = sha,
                  !.lastPersistedRevision = ConfirmedRevision(s, rev),
                  !.workingSha = IF completes THEN sha ELSE @,
                  !.persistState = IF next # NoWrite THEN "queued"
                                   ELSE IF completes THEN "idle" ELSE @,
                  !.authority = authority,
                  !.receipt = IF repaired THEN NextReceipt(s, sha) ELSE @]

(* confirmWorkingHtml: the hash of the current revision is now known.       *)
MutantStoresBytes(s) == [s EXCEPT !.workingSha = s.html]
ConfirmWorkingHtml(s) == [s EXCEPT !.workingSha = Sha256(s.html)]

(* publishAuthority as #acceptSourcePayload calls it: disk bytes h replace  *)
(* the document, the queue is dropped, the active write is fenced.          *)
AdoptSource(s, h) ==
    [s EXCEPT !.html = h,
              !.persistedSha = Sha256(h),
              !.workingSha = Sha256(h),
              !.lastPersistedRevision = s.editRevision,
              !.persistState = "idle",
              !.pending = NoWrite,
              !.authority = @ + 1,
              !.receipt = NextReceipt(s, Sha256(h))]

-----------------------------------------------------------------------------
(* What every method of a session preserves, whoever calls it.              *)

(* The write in the queue is the document of the current authority.         *)
QueuedIsLatest(s) ==
    s.pending # NoWrite => /\ s.pending.authority = s.authority
                           /\ s.pending.revision = s.editRevision
                           /\ s.pending.html = s.html

(* The write in flight is no newer than the session.                        *)
ActiveIsOlder(s) ==
    s.active # NoWrite => /\ s.active.authority <= s.authority
                          /\ s.active.revision <= s.editRevision

(* The session only looks idle over a write in flight that is fenced.       *)
FencedWhileIdle(s) ==
    s.active # NoWrite /\ s.persistState = "idle"
        => s.active.authority < s.authority

IdleClaims(s) == s.persistState = "idle" => Claimed(s)

LatestCarried(s) == s.editRevision > s.lastPersistedRevision => Carried(s)

NothingAhead(s) == s.lastPersistedRevision <= s.editRevision

SessionInv(s) ==
    /\ s \in Session
    /\ QueuedIsLatest(s)
    /\ ActiveIsOlder(s)
    /\ FencedWhileIdle(s)
    /\ IdleClaims(s)
    /\ LatestCarried(s)
    /\ NothingAhead(s)
=============================================================================
