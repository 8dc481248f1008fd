----------------------------- MODULE DocumentProofs -----------------------------
(***************************************************************************)
(* Proofs about the two halves of an open document: its content            *)
(* (DocumentWorkflow) and its comments (DraftSync).  The two have no       *)
(* variable in common; no proof about one uses anything of the other.      *)
(*                                                                         *)
(* DocumentWorkflow: for any set of documents and callers and without a    *)
(* bound on how often anything happens beyond MaxRevision, MaxAuthority    *)
(* and MaxExternal, which may be any numbers.  The inductive invariant     *)
(* says what the session satisfies on its own (SessionInv), who owns the   *)
(* active write, and that the file is never ahead of the document.         *)
(*                                                                         *)
(* DraftSync: for any finite set of comments and any bounds.  The          *)
(* inductive invariant (DraftInv) says that no snapshot, wherever it is,   *)
(* has anything that the user did not write, that the recovery record and  *)
(* the draft file together have everything, and what the number of an      *)
(* operation still tells about the snapshot it was given to.               *)
(***************************************************************************)
EXTENDS DocumentWorkflow, DraftSync, TLAPS

-----------------------------------------------------------------------------
(* What the methods of a session preserve, whoever calls them: the          *)
(* lemmas are about one session.                                            *)

(* A record of type Write is never the empty slot.                          *)
LEMMA WriteIsNotNoWrite == \A w \in Write : w # NoWrite
  BY NoWriteAssumption

(* The hash of a document is a hash.                                        *)
LEMMA Sha256Type == \A h \in Html : Sha256(h) \in Hash
  BY DEF Hash

LEMMA CreateWriteType ==
  ASSUME NEW s \in Session, NEW h \in Html, NEW r \in Revision
  PROVE  CreateWrite(s, h, r) \in Write
  BY DEF CreateWrite, Write, Session

LEMMA NextReceiptType ==
  ASSUME NEW s \in Session, NEW sha \in Hash \cup {NoHash}
  PROVE  NextReceipt(s, sha) \in Receipt
  BY DEF NextReceipt, Receipt, Session

LEMMA GreaterType ==
  ASSUME NEW a \in Nat, NEW b \in Nat
  PROVE  /\ Greater(a, b) \in Nat
         /\ Greater(a, b) >= a
         /\ Greater(a, b) >= b
         /\ Greater(a, b) = a \/ Greater(a, b) = b
  BY DEF Greater

-----------------------------------------------------------------------------
(* reset: a document just opened.                                           *)
LEMMA OpenedInv ==
  ASSUME NEW h \in Html, NEW r \in Revision
  PROVE  SessionInv(OpenedSession(h, r))
<1>. DEFINE s == OpenedSession(h, r)
<1>1. s \in Session
  BY Sha256Type DEF OpenedSession, Session, Receipt, PersistState, Revision
<1>2. s.pending = NoWrite /\ s.active = NoWrite
  BY DEF OpenedSession
<1>3. Claimed(s)
  BY DEF OpenedSession, Claimed, Revision
<1>4. s.editRevision = r /\ s.lastPersistedRevision = r
  BY DEF OpenedSession
<1>. QED
  BY <1>1, <1>2, <1>3, <1>4 DEF SessionInv, QueuedIsLatest, ActiveIsOlder,
     FencedWhileIdle, IdleClaims, LatestCarried, NothingAhead, Revision

(* acceptEdit.                                                              *)
LEMMA AcceptEditInv ==
  ASSUME NEW s, SessionInv(s), NEW h \in Html, NEW sha \in Hash \cup {NoHash}
  PROVE  SessionInv(AcceptEdit(s, h, sha))
<1>. DEFINE r == s.editRevision + 1
            w == CreateWrite(s, h, r)
            t == AcceptEdit(s, h, sha)
<1>0. s \in Session
  BY DEF SessionInv
<1>1. r \in Revision /\ s.editRevision \in Nat
  BY <1>0 DEF Session, Revision
<1>2. w \in Write /\ w # NoWrite
  BY <1>0, <1>1, CreateWriteType, WriteIsNotNoWrite
<1>3. t \in Session
  BY <1>0, <1>1, <1>2, NextReceiptType DEF AcceptEdit, Session, PersistState
<1>4. /\ t.pending = w /\ t.active = s.active
      /\ t.editRevision = r /\ t.html = h
      /\ t.authority = s.authority /\ t.persistState = "queued"
      /\ t.lastPersistedRevision = s.lastPersistedRevision
  BY <1>0 DEF AcceptEdit, Session
<1>5. w.revision = r /\ w.html = h /\ w.authority = s.authority
  BY DEF CreateWrite
<1>6. QueuedIsLatest(t) /\ LatestCarried(t)
  BY <1>2, <1>4, <1>5 DEF QueuedIsLatest, LatestCarried, Carried
<1>7. ActiveIsOlder(t)
  <2>1. CASE s.active = NoWrite
    BY <2>1, <1>4 DEF ActiveIsOlder
  <2>2. CASE s.active # NoWrite
    <3>1. s.active \in Write
      BY <1>0, <2>2 DEF Session
    <3>. QED
      BY <3>1, <2>2, <1>1, <1>4 DEF ActiveIsOlder, SessionInv, Write, Revision
  <2>. QED
    BY <2>1, <2>2
<1>8. NothingAhead(t)
  BY <1>0, <1>1, <1>4 DEF NothingAhead, SessionInv, Session, Revision
<1>. QED
  BY <1>3, <1>4, <1>6, <1>7, <1>8 DEF SessionInv, FencedWhileIdle, IdleClaims

(* restorePendingWrite of a rebuilt write.                                  *)
LEMMA ReconstructInv ==
  ASSUME NEW s, SessionInv(s), CanReconstruct(s)
  PROVE  /\ SessionInv(Reconstruct(s))
         /\ Reconstruct(s).pending # NoWrite
         /\ Reconstruct(s).active = s.active
         /\ Reconstruct(s).editRevision = s.editRevision
         /\ Reconstruct(s).lastPersistedRevision = s.lastPersistedRevision
         /\ Reconstruct(s).authority = s.authority
         /\ Reconstruct(s).persistedSha = s.persistedSha
<1>. DEFINE w == CreateWrite(s, s.html, s.editRevision)
            t == Reconstruct(s)
<1>0. s \in Session
  BY DEF SessionInv
<1>1. w \in Write /\ w # NoWrite
  BY <1>0, CreateWriteType, WriteIsNotNoWrite DEF Session
<1>2. t \in Session
  BY <1>0, <1>1 DEF Reconstruct, Session, PersistState
<1>3. /\ t.pending = w /\ t.active = s.active
      /\ t.editRevision = s.editRevision /\ t.html = s.html
      /\ t.authority = s.authority /\ t.persistState = "queued"
      /\ t.lastPersistedRevision = s.lastPersistedRevision
      /\ t.persistedSha = s.persistedSha
  BY <1>0 DEF Reconstruct, Session
<1>4. w.revision = s.editRevision /\ w.html = s.html /\ w.authority = s.authority
  BY DEF CreateWrite
<1>5. QueuedIsLatest(t) /\ LatestCarried(t)
  BY <1>1, <1>3, <1>4 DEF QueuedIsLatest, LatestCarried, Carried
<1>6. ActiveIsOlder(t) /\ NothingAhead(t)
  BY <1>3 DEF ActiveIsOlder, NothingAhead, SessionInv
<1>. QED
  BY <1>1, <1>2, <1>3, <1>5, <1>6 DEF SessionInv, FencedWhileIdle, IdleClaims

(* beginWrite: the queued write becomes the active one.                     *)
LEMMA BeginWriteInv ==
  ASSUME NEW s, SessionInv(s), CanBeginWrite(s)
  PROVE  /\ SessionInv(BeginWrite(s))
         /\ BeginWrite(s).active # NoWrite
         /\ BeginWrite(s).active.revision = s.editRevision
         /\ BeginWrite(s).editRevision = s.editRevision
         /\ BeginWrite(s).lastPersistedRevision = s.lastPersistedRevision
         /\ BeginWrite(s).authority = s.authority
         /\ BeginWrite(s).persistedSha = s.persistedSha
<1>. DEFINE t == BeginWrite(s)
<1>0. s \in Session
  BY DEF SessionInv
<1>1. s.pending \in Write /\ s.pending # NoWrite
  BY <1>0 DEF Session, CanBeginWrite
<1>2. t \in Session
  BY <1>0, <1>1 DEF BeginWrite, Session, PersistState
<1>3. /\ t.pending = NoWrite /\ t.active = s.pending
      /\ t.editRevision = s.editRevision /\ t.html = s.html
      /\ t.authority = s.authority /\ t.persistState = "writing"
      /\ t.lastPersistedRevision = s.lastPersistedRevision
      /\ t.persistedSha = s.persistedSha
  BY <1>0 DEF BeginWrite, Session
<1>4. /\ s.pending.authority = s.authority
      /\ s.pending.revision = s.editRevision
      /\ s.pending.html = s.html
  BY <1>1 DEF SessionInv, QueuedIsLatest
<1>5. s.authority \in Nat /\ s.editRevision \in Nat
  BY <1>0 DEF Session, Revision
<1>6. ActiveIsOlder(t) /\ QueuedIsLatest(t) /\ LatestCarried(t)
  BY <1>1, <1>3, <1>4, <1>5 DEF ActiveIsOlder, QueuedIsLatest, LatestCarried,
     Carried
<1>7. NothingAhead(t)
  BY <1>3 DEF NothingAhead, SessionInv
<1>. QED
  BY <1>1, <1>2, <1>3, <1>4, <1>6, <1>7 DEF SessionInv, FencedWhileIdle,
     IdleClaims

(* finishWrite of an attempt restoreWrite refused to queue again: what it   *)
(* carried was given up or confirmed, so nothing is lost with it.           *)
LEMMA DropActiveInv ==
  ASSUME NEW s, SessionInv(s), ~RestoreMatches(s)
  PROVE  /\ SessionInv(DropActive(s))
         /\ DropActive(s).active = NoWrite
         /\ DropActive(s).pending = s.pending
         /\ DropActive(s).editRevision = s.editRevision
         /\ DropActive(s).lastPersistedRevision = s.lastPersistedRevision
         /\ DropActive(s).authority = s.authority
         /\ DropActive(s).persistedSha = s.persistedSha
<1>. DEFINE t == DropActive(s)
<1>0. s \in Session
  BY DEF SessionInv
<1>1. t \in Session
  BY <1>0 DEF DropActive, Session
<1>2. /\ t.pending = s.pending /\ t.active = NoWrite
      /\ t.editRevision = s.editRevision /\ t.html = s.html
      /\ t.authority = s.authority /\ t.persistState = s.persistState
      /\ t.lastPersistedRevision = s.lastPersistedRevision
      /\ t.persistedSha = s.persistedSha
  BY <1>0 DEF DropActive, Session
<1>3. s.pending = NoWrite
  BY DEF RestoreMatches
<1>4. ~(s.editRevision > s.lastPersistedRevision)
  BY <1>3 DEF RestoreMatches, SessionInv, LatestCarried, Carried
<1>5. /\ QueuedIsLatest(t) /\ ActiveIsOlder(t) /\ FencedWhileIdle(t)
      /\ IdleClaims(t) /\ LatestCarried(t) /\ NothingAhead(t)
  BY <1>2, <1>3, <1>4 DEF QueuedIsLatest, ActiveIsOlder, FencedWhileIdle,
     IdleClaims, Claimed, LatestCarried, NothingAhead, SessionInv
<1>. QED
  BY <1>1, <1>2, <1>5 DEF SessionInv

(* restoreWrite of a failed attempt that still matches, or is superseded.   *)
LEMMA RestoreWriteInv ==
  ASSUME NEW s, SessionInv(s), s.active # NoWrite, RestoreMatches(s)
  PROVE  /\ SessionInv(RestoreWrite(s))
         /\ FailureWrite(s) \in Write
         /\ RestoreWrite(s).active = NoWrite
         /\ RestoreWrite(s).editRevision = s.editRevision
         /\ RestoreWrite(s).lastPersistedRevision = s.lastPersistedRevision
         /\ RestoreWrite(s).authority = s.authority
         /\ RestoreWrite(s).persistedSha = s.persistedSha
<1>. DEFINE t == RestoreWrite(s)
            a == [s.active EXCEPT !.authority = s.authority]
<1>0. s \in Session
  BY DEF SessionInv
<1>1. s.active \in Write /\ s.authority \in Nat
  BY <1>0 DEF Session
<1>2. /\ a \in Write
      /\ a.authority = s.authority
      /\ a.revision = s.active.revision
      /\ a.html = s.active.html
  BY <1>1 DEF Write
<1>3. a # NoWrite
  BY <1>2, WriteIsNotNoWrite
<1>4. t \in Session
  BY <1>0, <1>2 DEF RestoreWrite, Session, PersistState
<1>5. /\ t.pending = IF s.pending # NoWrite THEN s.pending ELSE a
      /\ t.active = NoWrite
      /\ t.editRevision = s.editRevision /\ t.html = s.html
      /\ t.authority = s.authority /\ t.persistState = "queued"
      /\ t.lastPersistedRevision = s.lastPersistedRevision
      /\ t.persistedSha = s.persistedSha
  BY <1>0 DEF RestoreWrite, Session
<1>6. /\ t.pending # NoWrite
      /\ t.pending.authority = s.authority
      /\ t.pending.revision = s.editRevision
      /\ t.pending.html = s.html
  <2>1. CASE s.pending # NoWrite
    BY <2>1, <1>5 DEF SessionInv, QueuedIsLatest
  <2>2. CASE s.pending = NoWrite
    BY <2>2, <1>2, <1>3, <1>5 DEF RestoreMatches
  <2>. QED
    BY <2>1, <2>2
<1>7. QueuedIsLatest(t) /\ LatestCarried(t)
  BY <1>5, <1>6 DEF QueuedIsLatest, LatestCarried, Carried
<1>8. NothingAhead(t)
  BY <1>5 DEF NothingAhead, SessionInv
<1>9. FailureWrite(s) \in Write
  BY <1>1, <1>2 DEF FailureWrite
<1>. QED
  BY <1>4, <1>5, <1>7, <1>8, <1>9 DEF SessionInv, ActiveIsOlder,
     FencedWhileIdle, IdleClaims

(* recordPersistenceFailure.                                                *)
LEMMA RecordFailureInv ==
  ASSUME NEW s, SessionInv(s), NEW w, NEW isConflict \in BOOLEAN
  PROVE  /\ SessionInv(RecordFailure(s, w, isConflict))
         /\ RecordFailure(s, w, isConflict).active = s.active
         /\ RecordFailure(s, w, isConflict).editRevision = s.editRevision
         /\ RecordFailure(s, w, isConflict).lastPersistedRevision
              = s.lastPersistedRevision
         /\ RecordFailure(s, w, isConflict).authority = s.authority
         /\ RecordFailure(s, w, isConflict).persistedSha = s.persistedSha
<1>. DEFINE t == RecordFailure(s, w, isConflict)
<1>0. s \in Session
  BY DEF SessionInv
<1>1. CASE ~Owns(s, w)
  BY <1>1 DEF RecordFailure
<1>2. CASE Owns(s, w)
  <2>1. t \in Session
    BY <1>0, <1>2 DEF RecordFailure, Session, PersistState
  <2>2. /\ t.pending = s.pending /\ t.active = s.active
        /\ t.editRevision = s.editRevision /\ t.html = s.html
        /\ t.authority = s.authority /\ t.persistState \in {"conflict", "failed"}
        /\ t.lastPersistedRevision = s.lastPersistedRevision
        /\ t.persistedSha = s.persistedSha
    BY <1>0, <1>2 DEF RecordFailure, Session
  <2>3. /\ QueuedIsLatest(t) /\ ActiveIsOlder(t) /\ LatestCarried(t)
        /\ NothingAhead(t)
    BY <2>2 DEF QueuedIsLatest, ActiveIsOlder, LatestCarried, Carried,
       NothingAhead, SessionInv
  <2>. QED
    BY <2>1, <2>2, <2>3 DEF SessionInv, FencedWhileIdle, IdleClaims
<1>. QED
  BY <1>1, <1>2

-----------------------------------------------------------------------------
(* acceptWriteConfirmation of the active write, at a revision the document  *)
(* has reached: it never claims more than the write carried, and whatever   *)
(* was accepted meanwhile stays queued.                                     *)
LEMMA ConfirmInv ==
  ASSUME NEW s, SessionInv(s), s.active # NoWrite,
         NEW rev \in Revision, rev <= s.editRevision,
         AcceptsConfirmation(s, s.active, rev)
  PROVE  /\ SessionInv(Confirm(s, s.active, rev))
         /\ Confirm(s, s.active, rev).active = NoWrite
         /\ Confirm(s, s.active, rev).editRevision = s.editRevision
         /\ Confirm(s, s.active, rev).lastPersistedRevision
              = Greater(s.lastPersistedRevision, rev)
         /\ Confirm(s, s.active, rev).lastPersistedRevision
              >= s.active.revision
<1>. DEFINE w == s.active
            sha == Sha256(w.html)
            completes == Completes(s, w)
            repaired == completes /\ s.receipt.sha # sha
            authority == IF repaired THEN s.authority + 1 ELSE s.authority
            next == IF s.pending = NoWrite THEN NoWrite
                    ELSE [s.pending EXCEPT !.expected = sha,
                                           !.authority = authority]
            t == Confirm(s, s.active, rev)
<1>0. s \in Session
  BY DEF SessionInv
<1>1. w \in Write /\ sha \in Hash
  BY <1>0, Sha256Type DEF Session, Write
<1>2. /\ authority \in Nat
      /\ s.pending # NoWrite => authority = s.authority
  <2>1. s.authority \in Nat
    BY <1>0 DEF Session
  <2>2. s.pending # NoWrite => ~completes
    BY DEF Completes
  <2>. QED
    BY <2>1, <2>2
<1>3. s.pending # NoWrite =>
        /\ next \in Write
        /\ next # NoWrite
        /\ next.authority = authority
        /\ next.revision = s.editRevision
        /\ next.html = s.html
  <2>. SUFFICES ASSUME s.pending # NoWrite
                PROVE  /\ next \in Write
                       /\ next # NoWrite
                       /\ next.authority = authority
                       /\ next.revision = s.editRevision
                       /\ next.html = s.html
    OBVIOUS
  <2>1. s.pending \in Write
    BY <1>0 DEF Session
  <2>2. next = [s.pending EXCEPT !.expected = sha, !.authority = authority]
    OBVIOUS
  <2>3. /\ next \in Write
        /\ next.authority = authority
        /\ next.revision = s.pending.revision
        /\ next.html = s.pending.html
    BY <1>1, <1>2, <2>1, <2>2 DEF Write
  <2>4. next # NoWrite
    BY <2>3, WriteIsNotNoWrite
  <2>. QED
    BY <2>3, <2>4 DEF SessionInv, QueuedIsLatest
<1>4. ConfirmedRevision(s, rev) = Greater(s.lastPersistedRevision, rev)
  BY DEF ConfirmedRevision
<1>5. /\ Greater(s.lastPersistedRevision, rev) \in Nat
      /\ Greater(s.lastPersistedRevision, rev) >= w.revision
      /\ Greater(s.lastPersistedRevision, rev) <= s.editRevision
  <2>1. /\ s.lastPersistedRevision \in Nat /\ s.editRevision \in Nat
        /\ rev \in Nat /\ w.revision \in Nat
    BY <1>0, <1>1 DEF Session, Revision, Write
  <2>2. rev >= w.revision
    BY DEF AcceptsConfirmation
  <2>3. s.lastPersistedRevision <= s.editRevision
    BY DEF SessionInv, NothingAhead
  <2>. QED
    BY <2>1, <2>2, <2>3 DEF Greater
<1>6. t = [s EXCEPT
             !.active = NoWrite, !.pending = next, !.persistedSha = sha,
             !.lastPersistedRevision = ConfirmedRevision(s, rev),
             !.workingSha = IF completes THEN sha ELSE @,
             !.persistState = IF next # NoWrite THEN "queued"
                              ELSE IF completes THEN "idle" ELSE @,
             !.authority = authority,
             !.receipt = IF repaired THEN NextReceipt(s, sha) ELSE @]
  BY DEF Confirm
<1>. HIDE DEF next, authority, repaired, completes, sha
<1>7. /\ t.active = NoWrite /\ t.pending = next /\ t.persistedSha = sha
      /\ t.lastPersistedRevision = Greater(s.lastPersistedRevision, rev)
      /\ t.editRevision = s.editRevision /\ t.html = s.html
      /\ t.authority = authority
      /\ t.persistState = IF next # NoWrite THEN "queued"
                          ELSE IF completes THEN "idle" ELSE s.persistState
  BY <1>0, <1>4, <1>6 DEF Session
<1>8. s.pending = NoWrite => next = NoWrite
  BY DEF next
<1>9. NextReceipt(s, sha) \in Receipt
  BY <1>0, <1>1, NextReceiptType
<1>10. t \in Session
  <2>. DEFINE working == IF completes THEN sha ELSE s.workingSha
              state == IF next # NoWrite THEN "queued"
                       ELSE IF completes THEN "idle" ELSE s.persistState
              receipt == IF repaired THEN NextReceipt(s, sha) ELSE s.receipt
              confirmed == ConfirmedRevision(s, rev)
  <2>1. next \in Write \cup {NoWrite}
    BY <1>3, <1>8
  <2>2. /\ working \in Hash \cup {NoHash}
        /\ state \in PersistState
        /\ receipt \in Receipt
        /\ confirmed \in Revision
    BY <1>0, <1>1, <1>4, <1>5, <1>9 DEF Session, PersistState, Revision
  <2>3. t = [s EXCEPT !.active = NoWrite, !.pending = next,
                      !.persistedSha = sha,
                      !.lastPersistedRevision = confirmed,
                      !.workingSha = working, !.persistState = state,
                      !.authority = authority, !.receipt = receipt]
    BY <1>0, <1>6 DEF Session
  <2>. HIDE DEF working, state, receipt, confirmed, t
  <2>. QED
    BY <1>0, <1>1, <1>2, <2>1, <2>2, <2>3 DEF Session
<1>11. QueuedIsLatest(t) /\ ActiveIsOlder(t) /\ FencedWhileIdle(t)
  BY <1>3, <1>7, <1>8 DEF QueuedIsLatest, ActiveIsOlder, FencedWhileIdle
<1>12. NothingAhead(t)
  BY <1>5, <1>7 DEF NothingAhead
<1>13. LatestCarried(t)
  <2>. SUFFICES ASSUME t.editRevision > t.lastPersistedRevision
                PROVE  Carried(t)
    BY DEF LatestCarried
  <2>1. s.editRevision > s.lastPersistedRevision
    BY <1>0, <1>7, GreaterType DEF Session, Revision
  <2>2. w.revision # s.editRevision
    BY <1>0, <1>1, <1>5, <1>7 DEF Session, Revision, Write
  <2>3. s.pending # NoWrite
    BY <2>1, <2>2 DEF SessionInv, LatestCarried, Carried
  <2>. QED
    BY <2>3, <1>3, <1>7 DEF Carried
<1>14. IdleClaims(t)
  <2>. SUFFICES ASSUME t.persistState = "idle"
                PROVE  Claimed(t)
    BY DEF IdleClaims
  <2>1. next = NoWrite
    BY <1>7
  <2>2. completes
    <3>1. s.active.authority = s.authority /\ s.authority \in Nat
      BY <1>0 DEF AcceptsConfirmation, Session
    <3>2. s.persistState # "idle"
      BY <3>1 DEF SessionInv, FencedWhileIdle
    <3>. QED
      BY <3>2, <2>1, <1>7
  <2>3. s.editRevision = w.revision /\ s.html = w.html
    BY <2>2 DEF completes, Completes
  <2>. QED
    BY <2>1, <2>3, <1>5, <1>7 DEF Claimed, sha
<1>. QED
  BY <1>5, <1>7, <1>10, <1>11, <1>12, <1>13, <1>14 DEF SessionInv

(* confirmWorkingHtml.                                                      *)
LEMMA ConfirmWorkingHtmlInv ==
  ASSUME NEW s, SessionInv(s)
  PROVE  SessionInv(ConfirmWorkingHtml(s))
<1>. DEFINE t == ConfirmWorkingHtml(s)
<1>0. s \in Session
  BY DEF SessionInv
<1>1. t \in Session
  BY <1>0, Sha256Type DEF ConfirmWorkingHtml, Session
<1>2. /\ t.pending = s.pending /\ t.active = s.active
      /\ t.editRevision = s.editRevision /\ t.html = s.html
      /\ t.authority = s.authority /\ t.persistState = s.persistState
      /\ t.lastPersistedRevision = s.lastPersistedRevision
      /\ t.persistedSha = s.persistedSha
  BY <1>0 DEF ConfirmWorkingHtml, Session
<1>. QED
  BY <1>1, <1>2 DEF SessionInv, QueuedIsLatest, ActiveIsOlder,
     FencedWhileIdle, IdleClaims, Claimed, LatestCarried, Carried,
     NothingAhead

(* publishAuthority of disk bytes: the write in flight is fenced.           *)
LEMMA AdoptSourceInv ==
  ASSUME NEW s, SessionInv(s), NEW h \in Html
  PROVE  /\ SessionInv(AdoptSource(s, h))
         /\ AdoptSource(s, h).active = s.active
         /\ AdoptSource(s, h).editRevision = s.editRevision
         /\ AdoptSource(s, h).lastPersistedRevision = s.editRevision
         /\ AdoptSource(s, h).authority = s.authority + 1
<1>. DEFINE t == AdoptSource(s, h)
<1>0. s \in Session
  BY DEF SessionInv
<1>1. Sha256(h) \in Hash /\ NextReceipt(s, Sha256(h)) \in Receipt
  BY <1>0, Sha256Type, NextReceiptType
<1>2. t \in Session
  <2>1. t = [s EXCEPT !.html = h, !.persistedSha = Sha256(h),
                      !.workingSha = Sha256(h),
                      !.lastPersistedRevision = s.editRevision,
                      !.persistState = "idle", !.pending = NoWrite,
                      !.authority = s.authority + 1,
                      !.receipt = NextReceipt(s, Sha256(h))]
    BY <1>0 DEF AdoptSource, Session
  <2>2. s.authority + 1 \in Nat /\ s.editRevision \in Revision
    BY <1>0 DEF Session
  <2>. HIDE DEF t
  <2>. QED
    BY <1>0, <1>1, <2>1, <2>2 DEF Session, PersistState
<1>3. /\ t.pending = NoWrite /\ t.active = s.active
      /\ t.editRevision = s.editRevision /\ t.html = h
      /\ t.authority = s.authority + 1 /\ t.persistState = "idle"
      /\ t.lastPersistedRevision = s.editRevision
      /\ t.persistedSha = Sha256(h)
  BY <1>0 DEF AdoptSource, Session
<1>4. s.editRevision \in Nat /\ s.authority \in Nat
  BY <1>0 DEF Session, Revision
<1>5. s.active # NoWrite =>
        /\ s.active.authority < s.authority + 1
        /\ s.active.revision <= s.editRevision
  <2>. SUFFICES ASSUME s.active # NoWrite
                PROVE  /\ s.active.authority < s.authority + 1
                       /\ s.active.revision <= s.editRevision
    OBVIOUS
  <2>1. s.active \in Write
    BY <1>0 DEF Session
  <2>. QED
    BY <2>1, <1>4 DEF SessionInv, ActiveIsOlder, Write
<1>6. QueuedIsLatest(t) /\ FencedWhileIdle(t) /\ IdleClaims(t)
  BY <1>3, <1>4, <1>5 DEF QueuedIsLatest, FencedWhileIdle, IdleClaims, Claimed
<1>7. ActiveIsOlder(t)
  <2>1. CASE s.active = NoWrite
    BY <2>1, <1>3 DEF ActiveIsOlder
  <2>2. CASE s.active # NoWrite
    <3>1. s.active \in Write
      BY <1>0, <2>2 DEF Session
    <3>. QED
      BY <3>1, <2>2, <1>3, <1>4, <1>5 DEF ActiveIsOlder, Write
  <2>. QED
    BY <2>1, <2>2
<1>8. LatestCarried(t) /\ NothingAhead(t)
  BY <1>3, <1>4 DEF LatestCarried, NothingAhead
<1>. QED
  BY <1>2, <1>3, <1>6, <1>7, <1>8 DEF SessionInv

(* recordPersistenceFailure of a conflict the file check found.             *)
LEMMA MarkConflictInv ==
  ASSUME NEW s, SessionInv(s)
  PROVE  SessionInv([s EXCEPT !.persistState = "conflict"])
<1>. DEFINE t == [s EXCEPT !.persistState = "conflict"]
<1>0. s \in Session
  BY DEF SessionInv
<1>1. t \in Session
  BY <1>0 DEF Session, PersistState
<1>2. /\ t.pending = s.pending /\ t.active = s.active
      /\ t.editRevision = s.editRevision /\ t.html = s.html
      /\ t.authority = s.authority /\ t.persistState = "conflict"
      /\ t.lastPersistedRevision = s.lastPersistedRevision
  BY <1>0 DEF Session
<1>. QED
  BY <1>1, <1>2 DEF SessionInv, QueuedIsLatest, ActiveIsOlder,
     FencedWhileIdle, IdleClaims, LatestCarried, Carried, NothingAhead
-----------------------------------------------------------------------------
(* The workflow.                                                            *)

(* A request is in flight exactly while a flush waits for its outcome.      *)
RequestHasWriter == request # "none" <=> flush.pc \in WriterStates

(* The file records no revision the document has not reached.               *)
DiskReached == disk.revision <= doc.editRevision

WriterInv ==
    /\ TypeOK
    /\ SessionInv(doc)
    /\ OneWriter
    /\ RequestHasWriter
    /\ DiskReached

-----------------------------------------------------------------------------
(* The ways a handler ends: with the flush finished, or in its write loop.  *)
LEMMA FinishType ==
  ASSUME TypeOK, NEW f \in FlushState,
         NEW outcome \in {"succeeded", "blocked", "failed"},
         Finish(f, outcome)
  PROVE  /\ flush' \in FlushState /\ flush'.pc = "none"
         /\ request' = "none"
         /\ waiting' \subseteq Flushers /\ resumed' \subseteq Flushers
         /\ cutoff' = cutoff
         /\ result' \in [Callers -> Results]
<1>1. NoFlush \in FlushState /\ NoFlush.pc = "none"
  BY DEF NoFlush, FlushState, Flushers
<1>2. resumed' \subseteq Flushers
  BY DEF Finish, TypeOK, Rechecking, Ended
<1>3. result' \in [Callers -> Results]
  BY DEF Finish, TypeOK, Results, Ended
<1>. QED
  BY <1>1, <1>2, <1>3 DEF Finish, TypeOK

LEMMA ProceedInv ==
  ASSUME NEW s, SessionInv(s), s.active = NoWrite,
         NEW f \in FlushState,
         Proceed(s, f)
  PROVE  /\ SessionInv(doc')
         /\ doc'.editRevision = s.editRevision
         /\ doc'.lastPersistedRevision = s.lastPersistedRevision
         /\ doc'.authority = s.authority
         /\ doc'.persistedSha = s.persistedSha
         /\ flush' \in FlushState
         /\ flush'.owner = f.owner
         /\ \/ /\ flush'.pc = "writing" /\ request' = "sent"
               /\ doc'.active # NoWrite
               /\ doc'.active.revision = s.editRevision
            \/ /\ flush'.pc = "retiring" /\ request' = "none"
               /\ doc'.active = NoWrite
<1>1. CASE CanBeginWrite(s)
  <2>1. /\ doc' = BeginWrite(s)
        /\ flush' = [f EXCEPT !.pc = "writing"]
        /\ request' = "sent"
    BY <1>1 DEF Proceed
  <2>2. /\ flush' \in FlushState /\ flush'.pc = "writing"
        /\ flush'.owner = f.owner
    BY <2>1 DEF FlushState
  <2>. QED
    BY <1>1, <2>1, <2>2, BeginWriteInv
<1>2. CASE ~CanBeginWrite(s)
  <2>1. /\ doc' = s
        /\ flush' = [f EXCEPT !.pc = "retiring"]
        /\ request' = "none"
    BY <1>2 DEF Proceed
  <2>2. /\ flush' \in FlushState /\ flush'.pc = "retiring"
        /\ flush'.owner = f.owner
    BY <2>1 DEF FlushState
  <2>. QED
    BY <2>1, <2>2
<1>. QED
  BY <1>1, <1>2

(* flush, whoever calls it.                                                 *)
LEMMA FlushStep ==
  ASSUME WriterInv, NEW c \in Flushers, Flush(c)
  PROVE  /\ SessionInv(doc')
         /\ doc'.editRevision = doc.editRevision
         /\ doc'.lastPersistedRevision = doc.lastPersistedRevision
         /\ doc'.authority = doc.authority
         /\ doc'.persistedSha = doc.persistedSha
         /\ flush' \in FlushState
         /\ doc'.active # NoWrite <=> flush'.pc \in WriterStates
         /\ request' # "none" <=> flush'.pc \in WriterStates
         /\ waiting' \subseteq Flushers
         /\ result' \in [Callers -> Results]
         /\ request' \in Requests
         /\ timer' = FALSE
<1>. DEFINE s == IF CanReconstruct(doc) THEN Reconstruct(doc) ELSE doc
<1>1. result' \in [Callers -> Results] /\ waiting' \subseteq Flushers
  BY DEF Flush, WriterInv, TypeOK, Results
<1>2. CASE UNCHANGED <<doc, flush, request>>
  BY <1>1, <1>2 DEF WriterInv, TypeOK, OneWriter, RequestHasWriter, Flush
<1>3. CASE /\ flush.pc = "none"
           /\ Proceed(s, [NoFlush EXCEPT !.owner = c])
  <2>1. doc.active = NoWrite
    BY <1>3 DEF WriterInv, OneWriter, WriterStates
  <2>2. /\ SessionInv(s) /\ s.active = NoWrite
        /\ s.editRevision = doc.editRevision
        /\ s.lastPersistedRevision = doc.lastPersistedRevision
        /\ s.authority = doc.authority
        /\ s.persistedSha = doc.persistedSha
    BY <2>1, ReconstructInv DEF WriterInv
  <2>3. [NoFlush EXCEPT !.owner = c] \in FlushState
    BY DEF NoFlush, FlushState, Flushers
  <2>. HIDE DEF s
  <2>4. /\ SessionInv(doc')
        /\ doc'.editRevision = s.editRevision
        /\ doc'.lastPersistedRevision = s.lastPersistedRevision
        /\ doc'.authority = s.authority
        /\ doc'.persistedSha = s.persistedSha
        /\ flush' \in FlushState
        /\ \/ /\ flush'.pc = "writing" /\ request' = "sent"
              /\ doc'.active # NoWrite
           \/ /\ flush'.pc = "retiring" /\ request' = "none"
              /\ doc'.active = NoWrite
    BY <1>3, <2>2, <2>3, ProceedInv
  <2>. QED
    BY <1>1, <2>2, <2>4 DEF WriterStates, Requests, Flush
<1>. QED
  BY <1>2, <1>3 DEF Flush

(* A failed attempt: nothing is claimed, and nothing is lost.               *)
LEMMA FailStep ==
  ASSUME WriterInv, doc.active # NoWrite,
         NEW kind \in {"rejected", "conflict", "protocol"}, Fail(kind)
  PROVE  /\ SessionInv(doc')
         /\ doc'.editRevision = doc.editRevision
         /\ doc'.lastPersistedRevision = doc.lastPersistedRevision
         /\ doc'.authority = doc.authority
         /\ doc'.persistedSha = doc.persistedSha
         /\ doc'.active = NoWrite
         /\ flush' \in FlushState /\ flush'.pc \in {"none", "freezing"}
         /\ request' = "none"
         /\ timer' \in BOOLEAN
         /\ waiting' \subseteq Flushers /\ resumed' \subseteq Flushers
         /\ cutoff' = cutoff
         /\ result' \in [Callers -> Results]
<1>0. SessionInv(doc) /\ TypeOK /\ flush \in FlushState
  BY DEF WriterInv, TypeOK
<1>1. CASE ~RestoreMatches(doc)
  <2>1. doc' = DropActive(doc) /\ Finish(flush, "failed") /\ UNCHANGED timer
    BY <1>1 DEF Fail
  <2>. QED
    BY <1>0, <1>1, <2>1, DropActiveInv, FinishType DEF TypeOK
<1>2. CASE RestoreMatches(doc) /\ kind = "rejected"
  <2>. DEFINE s == RestoreWrite(doc)
  <2>1. /\ doc' = RecordFailure(s, FailureWrite(doc), FALSE)
        /\ Finish(flush, "failed") /\ UNCHANGED timer
    BY <1>2 DEF Fail
  <2>2. /\ SessionInv(s) /\ s.active = NoWrite
        /\ s.editRevision = doc.editRevision
        /\ s.lastPersistedRevision = doc.lastPersistedRevision
        /\ s.authority = doc.authority
        /\ s.persistedSha = doc.persistedSha
    BY <1>0, <1>2, RestoreWriteInv
  <2>. HIDE DEF s
  <2>3. /\ SessionInv(doc') /\ doc'.active = NoWrite
        /\ doc'.editRevision = doc.editRevision
        /\ doc'.lastPersistedRevision = doc.lastPersistedRevision
        /\ doc'.authority = doc.authority
        /\ doc'.persistedSha = doc.persistedSha
    BY <2>1, <2>2, RecordFailureInv
  <2>. QED
    BY <1>0, <2>1, <2>3, FinishType DEF TypeOK
<1>3. CASE RestoreMatches(doc) /\ kind \in {"conflict", "protocol"}
  <2>1. /\ doc' = RestoreWrite(doc)
        /\ timer' = FALSE
        /\ flush' = [flush EXCEPT !.pc = "freezing",
                                  !.failed = FailureWrite(doc),
                                  !.conflict = (kind = "conflict")]
        /\ request' = "none"
        /\ UNCHANGED callers
    BY <1>3 DEF Fail
  <2>2. FailureWrite(doc) \in Write
    BY <1>0, <1>3, RestoreWriteInv
  <2>3. flush' \in FlushState /\ flush'.pc = "freezing"
    BY <1>0, <2>1, <2>2 DEF FlushState
  <2>. QED
    BY <1>0, <1>3, <2>1, <2>3, RestoreWriteInv DEF TypeOK, callers
<1>. QED
  BY <1>1, <1>2, <1>3

(* An accepted confirmation, directly or after a proof of the outcome.      *)
LEMMA ConfirmStep ==
  ASSUME WriterInv, doc.active # NoWrite,
         AcceptsConfirmation(doc, doc.active, disk.revision)
  PROVE  LET s == Confirm(doc, doc.active, disk.revision) IN
         /\ SessionInv(s) /\ s.active = NoWrite
         /\ s.editRevision = doc.editRevision
         /\ s.lastPersistedRevision
              = Greater(doc.lastPersistedRevision, disk.revision)
         /\ s.lastPersistedRevision >= doc.active.revision
<1>1. /\ SessionInv(doc) /\ disk.revision \in Revision
      /\ disk.revision <= doc.editRevision
  BY DEF WriterInv, TypeOK, DiskReached
<1>. QED
  BY <1>1, ConfirmInv

(* The bytes a save publishes, and the revision recorded with them.         *)
LEMMA LandedType ==
  ASSUME WriterInv, doc.active # NoWrite
  PROVE  /\ Landed(doc.active) \in [html : Html, revision : Revision]
         /\ Landed(doc.active).revision >= disk.revision
         /\ Landed(doc.active).revision <= doc.editRevision
         /\ doc.active \in Write
<1>1. /\ doc.active \in Write
      /\ disk \in [html : Html, revision : Revision]
      /\ disk.revision <= doc.editRevision
      /\ doc.active.revision <= doc.editRevision
      /\ doc.editRevision \in Nat
  BY DEF WriterInv, TypeOK, DiskReached, SessionInv, ActiveIsOlder, Session,
     Revision
<1>2. disk.revision \in Nat /\ doc.active.revision \in Nat
  BY <1>1 DEF Write, Revision
<1>3. /\ Greater(disk.revision, doc.active.revision) \in Nat
      /\ Greater(disk.revision, doc.active.revision) >= disk.revision
      /\ Greater(disk.revision, doc.active.revision) <= doc.editRevision
  BY <1>1, <1>2 DEF Greater
<1>4. Landed(doc.active)
        = [html |-> doc.active.html,
           revision |-> Greater(disk.revision, doc.active.revision)]
  BY DEF Landed
<1>5. doc.active.html \in Html
  BY <1>1 DEF Write
<1>. QED
  BY <1>1, <1>3, <1>4, <1>5 DEF Revision

-----------------------------------------------------------------------------
(* The inductive step, one handler at a time.                               *)
LEMMA WriterInvInit == Init => WriterInv
<1>. SUFFICES ASSUME Init PROVE WriterInv
  OBVIOUS
<1>1. InitialHtml \in Html /\ 0 \in Revision
  BY CallersAssumption DEF Revision
<1>2. SessionInv(doc) /\ doc.active = NoWrite
  BY <1>1, OpenedInv DEF Init, OpenedSession
<1>3. TypeOK
  <2>1. NoFlush \in FlushState /\ cutoff \in [Callers -> Revision]
    BY DEF Init, NoFlush, FlushState, Flushers, Revision
  <2>2. result \in [Callers -> Results] /\ request \in Requests
    BY DEF Init, Results, Requests
  <2>3. /\ disk \in [html : Html, revision : Revision]
        /\ external \in 0..MaxExternal
        /\ discarded \in Revision
    BY <1>1, CallersAssumption DEF Init
  <2>4. /\ source \in [pc : {"idle", "reading", "read", "settling"}, html : Html]
        /\ observed \in [pc : {"idle", "asked", "answered"}, seq : Nat,
                         sha : Hash \cup {NoHash}]
    BY <1>1 DEF Init, NoSource, NotObserving
  <2>. QED
    BY <1>2, <2>1, <2>2, <2>3, <2>4 DEF Init, TypeOK, SessionInv
<1>4. DiskReached
  BY DEF Init, DiskReached, OpenedSession
<1>. QED
  BY <1>2, <1>3, <1>4 DEF WriterInv, Init, OneWriter, RequestHasWriter, NoFlush,
     WriterStates

LEMMA RendererStep == WriterInv /\ Renderer => WriterInv'
<1>. SUFFICES ASSUME WriterInv, Renderer PROVE WriterInv'
  OBVIOUS
<1>0. /\ TypeOK /\ SessionInv(doc) /\ OneWriter /\ RequestHasWriter
      /\ DiskReached
  BY DEF WriterInv
<1>1. CASE TimerFires
  <2>1. Flush(Autosave) /\ UNCHANGED <<resumed, cutoff, outside>>
    BY <1>1 DEF TimerFires
  <2>2. Autosave \in Flushers
    BY DEF Flushers
  <2>3. /\ SessionInv(doc') /\ doc'.editRevision = doc.editRevision
        /\ flush' \in FlushState /\ OneWriter' /\ RequestHasWriter'
        /\ waiting' \subseteq Flushers /\ result' \in [Callers -> Results]
        /\ request' \in Requests /\ timer' \in BOOLEAN
    BY <2>1, <2>2, FlushStep DEF OneWriter, RequestHasWriter
  <2>4. doc' \in Session
    BY <2>3 DEF SessionInv
  <2>. QED
    BY <1>0, <2>1, <2>3, <2>4 DEF WriterInv, TypeOK, DiskReached, outside
<1>2. ASSUME NEW c \in Flushers, ResumeSatisfied(c)
      PROVE  WriterInv'
  <2>1. result' \in [Callers -> Results]
    BY <1>0, <1>2 DEF ResumeSatisfied, TypeOK, Results
  <2>2. resumed' \subseteq Flushers
    BY <1>0, <1>2 DEF ResumeSatisfied, TypeOK
  <2>. QED
    BY <1>0, <1>2, <2>1, <2>2
       DEF ResumeSatisfied, WriterInv, TypeOK, OneWriter, RequestHasWriter,
           DiskReached, outside
<1>3. ASSUME NEW c \in Flushers, ResumeAgain(c)
      PROVE  WriterInv'
  <2>1. /\ Flush(c) /\ resumed' = resumed \ {c}
        /\ UNCHANGED <<cutoff, outside>>
    BY <1>3 DEF ResumeAgain
  <2>2. /\ SessionInv(doc') /\ doc'.editRevision = doc.editRevision
        /\ flush' \in FlushState /\ OneWriter' /\ RequestHasWriter'
        /\ waiting' \subseteq Flushers /\ result' \in [Callers -> Results]
        /\ request' \in Requests /\ timer' \in BOOLEAN
    BY <2>1, FlushStep DEF OneWriter, RequestHasWriter
  <2>3. doc' \in Session /\ resumed' \subseteq Flushers
    BY <1>0, <2>1, <2>2 DEF SessionInv, TypeOK
  <2>. QED
    BY <1>0, <2>1, <2>2, <2>3 DEF WriterInv, TypeOK, DiskReached, outside
<1>4. CASE Acknowledged
  <2>. DEFINE s == Confirm(doc, doc.active, disk.revision)
  <2>1. doc.active # NoWrite /\ flush \in FlushState
    BY <1>0, <1>4 DEF Acknowledged, OneWriter, WriterStates, TypeOK
  <2>2. /\ AcceptsConfirmation(doc, doc.active, disk.revision)
        /\ Proceed(s, flush)
        /\ UNCHANGED <<timer, callers, outside>>
    BY <1>4 DEF Acknowledged
  <2>3. /\ SessionInv(s) /\ s.active = NoWrite
        /\ s.editRevision = doc.editRevision
    BY <2>1, <2>2, ConfirmStep
  <2>. HIDE DEF s
  <2>4. /\ SessionInv(doc')
        /\ doc'.editRevision = doc.editRevision
        /\ flush' \in FlushState
        /\ \/ /\ flush'.pc = "writing" /\ request' = "sent"
              /\ doc'.active # NoWrite
           \/ /\ flush'.pc = "retiring" /\ request' = "none"
              /\ doc'.active = NoWrite
    BY <2>1, <2>2, <2>3, ProceedInv
  <2>. QED
    BY <1>0, <2>2, <2>4
       DEF WriterInv, TypeOK, OneWriter, RequestHasWriter, DiskReached,
           SessionInv, WriterStates, Requests, callers, outside
<1>5. ASSUME NEW kind \in {"rejected", "conflict", "protocol"}, Fail(kind),
             doc.active # NoWrite, UNCHANGED outside
      PROVE  WriterInv'
  BY <1>0, <1>5, FailStep
     DEF WriterInv, TypeOK, OneWriter, RequestHasWriter, DiskReached,
         SessionInv, WriterStates, Requests, outside
<1>6. CASE WriteFails
  <2>1. /\ doc.active # NoWrite /\ Fail(ReplyFailure) /\ UNCHANGED outside
    BY <1>0, <1>6 DEF WriteFails, OneWriter, WriterStates
  <2>2. ReplyFailure \in {"rejected", "conflict", "protocol"}
    BY DEF ReplyFailure
  <2>. QED
    BY <2>1, <2>2, <1>5
<1>7. CASE ProofFails
  <2>1. doc.active # NoWrite /\ Fail("rejected") /\ UNCHANGED outside
    BY <1>0, <1>7 DEF ProofFails, OneWriter, WriterStates
  <2>. QED
    BY <2>1, <1>5
<1>8. CASE FreezeReturns
  <2>1. /\ doc' = RecordFailure(doc, flush.failed, flush.conflict)
        /\ Finish(flush, "failed")
        /\ UNCHANGED <<timer, outside>>
    BY <1>8 DEF FreezeReturns
  <2>2. doc.active = NoWrite /\ flush \in FlushState /\ flush.conflict \in BOOLEAN
    BY <1>0, <1>8 DEF FreezeReturns, OneWriter, WriterStates, TypeOK, FlushState
  <2>3. /\ SessionInv(doc') /\ doc'.active = NoWrite
        /\ doc'.editRevision = doc.editRevision
    BY <1>0, <2>1, <2>2, RecordFailureInv
  <2>. QED
    BY <1>0, <2>1, <2>2, <2>3, FinishType
       DEF WriterInv, TypeOK, OneWriter, RequestHasWriter, DiskReached,
           SessionInv, WriterStates, Requests, outside
<1>9. CASE StartProof
  <2>1. flush' \in FlushState /\ flush'.pc = "proving"
    BY <1>0, <1>9 DEF StartProof, TypeOK, FlushState
  <2>. QED
    BY <1>0, <1>9, <2>1
       DEF StartProof, WriterInv, TypeOK, OneWriter, RequestHasWriter,
           DiskReached, WriterStates, Requests, callers, outside
<1>10. CASE ProveRevision
  <2>1. flush' \in FlushState /\ flush'.pc = "comparing"
    BY <1>0, <1>10, Sha256Type DEF ProveRevision, TypeOK, FlushState
  <2>. QED
    BY <1>0, <1>10, <2>1
       DEF ProveRevision, WriterInv, TypeOK, OneWriter, RequestHasWriter,
           DiskReached, WriterStates, Requests, callers, outside
<1>11. CASE ProveBytes
  <2>1. /\ doc.active # NoWrite /\ flush \in FlushState
        /\ AcceptsConfirmation(doc, doc.active, disk.revision)
        /\ doc' = Confirm(doc, doc.active, disk.revision)
        /\ Finish(flush, "succeeded")
        /\ UNCHANGED <<timer, outside>>
    BY <1>0, <1>11 DEF ProveBytes, ProofMatches, OneWriter, WriterStates, TypeOK
  <2>2. /\ SessionInv(doc') /\ doc'.active = NoWrite
        /\ doc'.editRevision = doc.editRevision
    BY <2>1, ConfirmStep
  <2>. QED
    BY <1>0, <2>1, <2>2, FinishType
       DEF WriterInv, TypeOK, OneWriter, RequestHasWriter, DiskReached,
           SessionInv, WriterStates, Requests, outside
<1>12. CASE JournalRetired
  <2>1. /\ doc.active = NoWrite /\ flush \in FlushState
        /\ UNCHANGED <<doc, timer, outside>>
    BY <1>0, <1>12 DEF JournalRetired, OneWriter, WriterStates, TypeOK
  <2>2. PICK outcome \in {"succeeded", "blocked"} : Finish(flush, outcome)
    BY <1>12 DEF JournalRetired
  <2>. QED
    BY <1>0, <2>1, <2>2, FinishType
       DEF WriterInv, TypeOK, OneWriter, RequestHasWriter, DiskReached,
           WriterStates, outside
<1>13. CASE AcceptSource
  <2>1. source.html \in Html /\ doc.editRevision \in Revision
    BY <1>0 DEF TypeOK, Session
  <2>2. /\ SessionInv(doc') /\ doc'.active = doc.active
        /\ doc'.editRevision = doc.editRevision
    BY <1>0, <1>13, <2>1, AdoptSourceInv DEF AcceptSource
  <2>3. source' \in [pc : {"idle", "reading", "read", "settling"}, html : Html]
    BY <1>13, CallersAssumption DEF AcceptSource, NoSource
  <2>. QED
    BY <1>0, <1>13, <2>1, <2>2, <2>3
       DEF AcceptSource, WriterInv, TypeOK, OneWriter, RequestHasWriter,
           DiskReached, SessionInv, callers
<1>14. CASE EndSource
  <2>1. source' \in [pc : {"idle", "reading", "read", "settling"}, html : Html]
    BY <1>14, CallersAssumption DEF EndSource, NoSource
  <2>. QED
    BY <1>0, <1>14, <2>1
       DEF EndSource, WriterInv, TypeOK, OneWriter, RequestHasWriter,
           DiskReached, callers
<1>15. CASE EndObserve
  <2>1. /\ SessionInv(doc') /\ doc'.active = doc.active
        /\ doc'.editRevision = doc.editRevision
    <3>1. CASE ObservesConflict
      BY <1>0, <1>15, <3>1, MarkConflictInv
         DEF EndObserve, SessionInv, Session
    <3>2. CASE ~ObservesConflict
      BY <1>0, <1>15, <3>2 DEF EndObserve
    <3>. QED
      BY <3>1, <3>2
  <2>2. observed' \in [pc : {"idle", "asked", "answered"}, seq : Nat,
                       sha : Hash \cup {NoHash}]
    BY <1>15 DEF EndObserve, NotObserving
  <2>. QED
    BY <1>0, <1>15, <2>1, <2>2
       DEF EndObserve, WriterInv, TypeOK, OneWriter, RequestHasWriter,
           DiskReached, SessionInv, callers
<1>. QED
  BY <1>1, <1>2, <1>3, <1>4, <1>6, <1>7, <1>8, <1>9, <1>10, <1>11, <1>12,
     <1>13, <1>14, <1>15 DEF Renderer

LEMMA BridgeStep == WriterInv /\ Bridge => WriterInv'
<1>. SUFFICES ASSUME WriterInv, Bridge PROVE WriterInv'
  OBVIOUS
<1>0. /\ TypeOK /\ SessionInv(doc) /\ OneWriter /\ RequestHasWriter
      /\ DiskReached
  BY DEF WriterInv
<1>1. ASSUME UNCHANGED <<doc, timer, flush, callers, external, source,
                         observed, discarded>>,
             request # "none", request' \in Requests \ {"none"},
             disk' \in [html : Html, revision : Revision],
             disk'.revision <= doc.editRevision
      PROVE  WriterInv'
  BY <1>0, <1>1
     DEF WriterInv, TypeOK, OneWriter, RequestHasWriter, DiskReached, callers
<1>2. /\ disk \in [html : Html, revision : Revision]
      /\ disk.revision <= doc.editRevision
  BY <1>0 DEF TypeOK, DiskReached
<1>3. request # "none" =>
        /\ Landed(doc.active) \in [html : Html, revision : Revision]
        /\ Landed(doc.active).revision <= doc.editRevision
        /\ doc.active.html \in Html
  <2>. SUFFICES ASSUME request # "none"
                PROVE  /\ Landed(doc.active)
                            \in [html : Html, revision : Revision]
                       /\ Landed(doc.active).revision <= doc.editRevision
                       /\ doc.active.html \in Html
    OBVIOUS
  <2>1. doc.active # NoWrite
    BY <1>0 DEF OneWriter, RequestHasWriter
  <2>. QED
    BY <2>1, LandedType DEF Write
<1>4. CASE BridgeSaves
  BY <1>1, <1>2, <1>3, <1>4 DEF BridgeSaves, Requests
<1>5. CASE BridgeReplies
  BY <1>1, <1>2, <1>5 DEF BridgeReplies, Requests, outside
<1>6. CASE BridgeFails
  <2>1. CASE disk' = [disk EXCEPT !.html = doc.active.html]
    <3>1. request # "none" /\ request' \in Requests \ {"none"}
      BY <1>6 DEF BridgeFails, Requests
    <3>2. /\ disk' \in [html : Html, revision : Revision]
          /\ disk'.revision = disk.revision
      BY <1>2, <1>3, <2>1, <3>1
    <3>. QED
      BY <1>1, <1>2, <1>6, <3>1, <3>2 DEF BridgeFails
  <2>2. CASE disk' = disk \/ disk' = Landed(doc.active)
    <3>1. request # "none" /\ request' \in Requests \ {"none"}
      BY <1>6 DEF BridgeFails, Requests
    <3>2. /\ disk' \in [html : Html, revision : Revision]
          /\ disk'.revision <= doc.editRevision
      BY <1>2, <1>3, <2>2, <3>1
    <3>. QED
      BY <1>1, <1>6, <3>1, <3>2 DEF BridgeFails
  <2>. QED
    BY <1>6, <2>1, <2>2 DEF BridgeFails
<1>7. CASE BridgeReplyLost
  BY <1>1, <1>2, <1>7 DEF BridgeReplyLost, Requests, outside
<1>8. CASE BridgeReadsSource
  <2>1. source' \in [pc : {"idle", "reading", "read", "settling"}, html : Html]
    BY <1>2, <1>8 DEF BridgeReadsSource
  <2>. QED
    BY <1>0, <1>8, <2>1
       DEF BridgeReadsSource, WriterInv, TypeOK, OneWriter, RequestHasWriter,
           DiskReached, callers
<1>9. CASE BridgeStats
  <2>1. Sha256(disk.html) \in Hash
    BY <1>2, Sha256Type
  <2>2. observed' \in [pc : {"idle", "asked", "answered"}, seq : Nat,
                       sha : Hash \cup {NoHash}]
    BY <1>0, <1>9, <2>1 DEF BridgeStats, TypeOK
  <2>. QED
    BY <1>0, <1>9, <2>2
       DEF BridgeStats, WriterInv, TypeOK, OneWriter, RequestHasWriter,
           DiskReached, callers
<1>. QED
  BY <1>4, <1>5, <1>6, <1>7, <1>8, <1>9 DEF Bridge

LEMMA EnvironmentStep == WriterInv /\ Environment => WriterInv'
<1>. SUFFICES ASSUME WriterInv, Environment PROVE WriterInv'
  OBVIOUS
<1>0. /\ TypeOK /\ SessionInv(doc) /\ OneWriter /\ RequestHasWriter
      /\ DiskReached
  BY DEF WriterInv
<1>1. ASSUME NEW h \in Html, NEW sha \in Hash \cup {NoHash},
             EnqueueEdit(h, sha)
      PROVE  WriterInv'
  <2>1. doc' = AcceptEdit(doc, h, sha)
    BY <1>1 DEF EnqueueEdit
  <2>2. SessionInv(doc') /\ doc' \in Session
    BY <1>0, <2>1, AcceptEditInv DEF SessionInv
  <2>3. /\ doc'.active = doc.active
        /\ doc'.editRevision = doc.editRevision + 1
        /\ doc.editRevision \in Nat /\ disk.revision \in Nat
    BY <1>0, <2>1 DEF AcceptEdit, TypeOK, Session, Revision
  <2>. QED
    BY <1>0, <1>1, <2>2, <2>3
       DEF EnqueueEdit, WriterInv, TypeOK, OneWriter, RequestHasWriter,
           DiskReached, callers, outside
<1>2. CASE JournalConfirms
  <2>1. SessionInv(doc') /\ doc' \in Session
    BY <1>0, <1>2, ConfirmWorkingHtmlInv DEF JournalConfirms, SessionInv
  <2>2. doc'.active = doc.active /\ doc'.editRevision = doc.editRevision
    BY <1>0, <1>2 DEF JournalConfirms, ConfirmWorkingHtml, TypeOK, Session
  <2>. QED
    BY <1>0, <1>2, <2>1, <2>2
       DEF JournalConfirms, WriterInv, TypeOK, OneWriter, RequestHasWriter,
           DiskReached, callers, outside
<1>3. ASSUME NEW c \in Callers, BoundaryFlush(c)
      PROVE  WriterInv'
  <2>1. /\ Flush(c) /\ UNCHANGED <<resumed, outside>> /\ c \in Flushers
        /\ cutoff' = [cutoff EXCEPT ![c] = doc.editRevision]
    BY <1>3 DEF BoundaryFlush, Flushers
  <2>2. cutoff' \in [Callers -> Revision]
    BY <1>0, <2>1 DEF TypeOK, Session
  <2>3. /\ SessionInv(doc') /\ doc'.editRevision = doc.editRevision
        /\ flush' \in FlushState /\ OneWriter' /\ RequestHasWriter'
        /\ waiting' \subseteq Flushers /\ result' \in [Callers -> Results]
        /\ request' \in Requests /\ timer' \in BOOLEAN
    BY <2>1, FlushStep DEF OneWriter, RequestHasWriter
  <2>4. doc' \in Session
    BY <2>3 DEF SessionInv
  <2>. QED
    BY <1>0, <2>1, <2>2, <2>3, <2>4 DEF WriterInv, TypeOK, DiskReached, outside
<1>4. ASSUME NEW h \in Html, ExternalWrite(h)
      PROVE  WriterInv'
  <2>1. /\ disk' \in [html : Html, revision : Revision]
        /\ disk'.revision = disk.revision
    BY <1>0, <1>4 DEF ExternalWrite, TypeOK
  <2>2. external' \in 0..MaxExternal
    BY <1>0, <1>4, CallersAssumption DEF ExternalWrite, TypeOK
  <2>. QED
    BY <1>0, <1>4, <2>1, <2>2
       DEF ExternalWrite, WriterInv, TypeOK, OneWriter, RequestHasWriter,
           DiskReached, callers
<1>5. CASE BeginSource
  <2>1. source' \in [pc : {"idle", "reading", "read", "settling"}, html : Html]
    BY <1>0, <1>5 DEF BeginSource, TypeOK
  <2>. QED
    BY <1>0, <1>5, <2>1
       DEF BeginSource, WriterInv, TypeOK, OneWriter, RequestHasWriter,
           DiskReached, callers
<1>6. CASE BeginObserve
  <2>1. observed' \in [pc : {"idle", "asked", "answered"}, seq : Nat,
                       sha : Hash \cup {NoHash}]
    BY <1>0, <1>6 DEF BeginObserve, TypeOK, Session, Receipt
  <2>. QED
    BY <1>0, <1>6, <2>1
       DEF BeginObserve, WriterInv, TypeOK, OneWriter, RequestHasWriter,
           DiskReached, callers
<1>7. ASSUME NEW h \in Html, NEW known \in BOOLEAN,
             EnqueueEdit(h, IF known THEN Sha256(h) ELSE NoHash)
      PROVE  WriterInv'
  <2>1. (IF known THEN Sha256(h) ELSE NoHash) \in Hash \cup {NoHash}
    BY Sha256Type
  <2>. QED
    BY <1>1, <1>7, <2>1
<1>. QED
  BY <1>2, <1>3, <1>4, <1>5, <1>6, <1>7 DEF Environment

LEMMA WriterInvStutter == WriterInv /\ UNCHANGED vars => WriterInv'
  BY DEF vars, WriterInv, TypeOK, OneWriter, RequestHasWriter, DiskReached

(* The invariant the results below are read off.                            *)
THEOREM WriterInvariant == Spec => []WriterInv
<1>1. WriterInv /\ [Next]_vars => WriterInv'
  BY RendererStep, BridgeStep, EnvironmentStep, WriterInvStutter DEF Next
<1>. QED
  BY <1>1, WriterInvInit, PTL DEF Spec

-----------------------------------------------------------------------------
(* Every variable keeps its type.                                           *)
THEOREM TypeCorrect == Spec => []TypeOK
<1>1. WriterInv => TypeOK
  BY DEF WriterInv
<1>. QED
  BY <1>1, WriterInvariant, PTL

(* However flushes are started, joined, failed or proved after the fact, a  *)
(* write is active exactly while the one flush in flight waits for it.      *)
THEOREM SingleWriter == Spec => []OneWriter
<1>1. WriterInv => OneWriter
  BY DEF WriterInv
<1>. QED
  BY <1>1, WriterInvariant, PTL

(* A session shown as saved holds what was last confirmed on disk.          *)
THEOREM IdleIsPersisted == Spec => []IdleMeansPersisted
<1>1. WriterInv => IdleMeansPersisted
  BY DEF WriterInv, SessionInv, IdleClaims, IdleMeansPersisted
<1>. QED
  BY <1>1, WriterInvariant, PTL

(* No accepted edit is dropped: its latest bytes are in a slot until they   *)
(* are confirmed.                                                           *)
THEOREM EditsAreCarried == Spec => []LatestEditOwned
<1>1. WriterInv => LatestEditOwned
  BY DEF WriterInv, SessionInv, LatestCarried, LatestEditOwned
<1>. QED
  BY <1>1, WriterInvariant, PTL

(* The queued write is never fenced.                                        *)
THEOREM QueueIsCurrent == Spec => []PendingIsCurrent
<1>1. WriterInv => PendingIsCurrent
  BY DEF WriterInv, SessionInv, QueuedIsLatest, PendingIsCurrent
<1>. QED
  BY <1>1, WriterInvariant, PTL

-----------------------------------------------------------------------------
(* What is claimed as persisted changes in two ways only: an owned write is *)
(* confirmed at the revision of the file, or the user reloads the file.     *)
KeepsClaims ==
    /\ doc'.lastPersistedRevision = doc.lastPersistedRevision
    /\ doc'.persistedSha = doc.persistedSha
    /\ disk'.revision >= disk.revision
    /\ discarded' = discarded

ConfirmsOwned ==
    /\ doc.active # NoWrite
    /\ doc.active.authority = doc.authority
    /\ doc'.lastPersistedRevision
         = Greater(doc.lastPersistedRevision, disk.revision)
    /\ UNCHANGED <<disk, discarded>>

GivesUp ==
    /\ doc'.lastPersistedRevision = doc.editRevision
    /\ discarded' = doc.editRevision
    /\ doc'.authority # doc.authority
    /\ UNCHANGED disk

LEMMA ClaimsStep ==
  WriterInv /\ [Next]_vars =>
    /\ KeepsClaims \/ ConfirmsOwned \/ GivesUp
    /\ doc'.editRevision >= doc.editRevision
<1>. SUFFICES ASSUME WriterInv, [Next]_vars
              PROVE  /\ KeepsClaims \/ ConfirmsOwned \/ GivesUp
                     /\ doc'.editRevision >= doc.editRevision
  OBVIOUS
<1>0. /\ TypeOK /\ SessionInv(doc) /\ OneWriter /\ RequestHasWriter
      /\ DiskReached /\ doc \in Session
      /\ disk \in [html : Html, revision : Revision]
  BY DEF WriterInv, TypeOK
<1>01. disk.revision \in Nat /\ doc.editRevision \in Nat /\ doc.authority \in Nat
  BY <1>0 DEF Session, Revision
<1>1. ASSUME NEW c \in Flushers, Flush(c), UNCHANGED outside
      PROVE  KeepsClaims /\ doc'.editRevision = doc.editRevision
  <2>1. /\ doc'.lastPersistedRevision = doc.lastPersistedRevision
        /\ doc'.persistedSha = doc.persistedSha
        /\ doc'.editRevision = doc.editRevision
    BY <1>1, FlushStep
  <2>. QED
    BY <1>01, <1>1, <2>1 DEF KeepsClaims, outside
<1>2. ASSUME UNCHANGED <<doc, disk, discarded>>
      PROVE  KeepsClaims /\ doc'.editRevision = doc.editRevision
  BY <1>01, <1>2 DEF KeepsClaims
<1>3. ASSUME NEW kind \in {"rejected", "conflict", "protocol"}, Fail(kind),
             doc.active # NoWrite, UNCHANGED outside
      PROVE  KeepsClaims /\ doc'.editRevision = doc.editRevision
  BY <1>01, <1>3, FailStep DEF KeepsClaims, outside
<1>4. CASE TimerFires
  BY <1>01, <1>1, <1>4 DEF TimerFires, Flushers
<1>5. ASSUME NEW c \in Flushers, ResumeSatisfied(c) \/ ResumeAgain(c)
      PROVE  KeepsClaims /\ doc'.editRevision = doc.editRevision
  BY <1>1, <1>2, <1>5 DEF ResumeSatisfied, ResumeAgain, outside
<1>6. ASSUME NEW c \in Callers, BoundaryFlush(c)
      PROVE  KeepsClaims /\ doc'.editRevision = doc.editRevision
  BY <1>1, <1>6 DEF BoundaryFlush, Flushers
<1>7. CASE Acknowledged
  <2>. DEFINE s == Confirm(doc, doc.active, disk.revision)
  <2>1. /\ doc.active # NoWrite /\ flush \in FlushState
        /\ AcceptsConfirmation(doc, doc.active, disk.revision)
        /\ Proceed(s, flush) /\ UNCHANGED outside
    BY <1>0, <1>7 DEF Acknowledged, OneWriter, WriterStates, TypeOK
  <2>2. /\ SessionInv(s) /\ s.active = NoWrite
        /\ s.editRevision = doc.editRevision
        /\ s.lastPersistedRevision
             = Greater(doc.lastPersistedRevision, disk.revision)
    BY <2>1, ConfirmStep
  <2>. HIDE DEF s
  <2>3. /\ doc'.editRevision = s.editRevision
        /\ doc'.lastPersistedRevision = s.lastPersistedRevision
    BY <2>1, <2>2, ProceedInv
  <2>. QED
    BY <1>01, <2>1, <2>2, <2>3 DEF ConfirmsOwned, AcceptsConfirmation, outside
<1>8. CASE ProveBytes
  <2>1. /\ doc.active # NoWrite
        /\ AcceptsConfirmation(doc, doc.active, disk.revision)
        /\ doc' = Confirm(doc, doc.active, disk.revision)
        /\ UNCHANGED outside
    BY <1>0, <1>8 DEF ProveBytes, ProofMatches, OneWriter, WriterStates
  <2>2. /\ doc'.editRevision = doc.editRevision
        /\ doc'.lastPersistedRevision
             = Greater(doc.lastPersistedRevision, disk.revision)
    BY <2>1, ConfirmStep
  <2>. QED
    BY <1>01, <2>1, <2>2 DEF ConfirmsOwned, AcceptsConfirmation, outside
<1>9. CASE WriteFails
  <2>1. /\ doc.active # NoWrite /\ Fail(ReplyFailure) /\ UNCHANGED outside
    BY <1>0, <1>9 DEF WriteFails, OneWriter, WriterStates
  <2>2. ReplyFailure \in {"rejected", "conflict", "protocol"}
    BY DEF ReplyFailure
  <2>. QED
    BY <1>01, <1>3, <2>1, <2>2
<1>10. CASE ProofFails
  <2>1. doc.active # NoWrite /\ Fail("rejected") /\ UNCHANGED outside
    BY <1>0, <1>10 DEF ProofFails, OneWriter, WriterStates
  <2>. QED
    BY <1>01, <1>3, <2>1
<1>11. CASE FreezeReturns
  <2>1. flush.conflict \in BOOLEAN
    BY <1>0 DEF TypeOK, FlushState
  <2>. QED
    BY <1>0, <1>01, <1>11, <2>1, RecordFailureInv
       DEF FreezeReturns, KeepsClaims, outside
<1>12. CASE StartProof \/ ProveRevision \/ JournalRetired \/ EndSource
            \/ BridgeReplies \/ BridgeReplyLost \/ BridgeReadsSource
            \/ BridgeStats \/ BeginSource \/ BeginObserve
  BY <1>01, <1>2, <1>12
     DEF StartProof, ProveRevision, JournalRetired, EndSource, BridgeReplies,
         BridgeReplyLost, BridgeReadsSource, BridgeStats, BeginSource,
         BeginObserve, outside
<1>13. CASE AcceptSource
  <2>1. source.html \in Html
    BY <1>0 DEF TypeOK
  <2>. QED
    BY <1>0, <1>01, <1>13, <2>1, AdoptSourceInv DEF AcceptSource, GivesUp
<1>14. CASE EndObserve
  BY <1>0, <1>01, <1>14 DEF EndObserve, KeepsClaims, Session
<1>15. CASE BridgeSaves \/ BridgeFails
  <2>1. doc.active # NoWrite
    BY <1>0, <1>15 DEF BridgeSaves, BridgeFails, OneWriter, RequestHasWriter
  <2>2. Landed(doc.active).revision >= disk.revision
    BY <2>1, LandedType
  <2>3. disk' = disk \/ disk' = Landed(doc.active) \/ disk'.revision = disk.revision
    BY <1>0, <1>15 DEF BridgeSaves, BridgeFails
  <2>. QED
    BY <1>01, <1>15, <2>2, <2>3 DEF BridgeSaves, BridgeFails, KeepsClaims
<1>16. ASSUME NEW h \in Html, NEW sha, EnqueueEdit(h, sha)
       PROVE  KeepsClaims /\ doc'.editRevision >= doc.editRevision
  BY <1>0, <1>01, <1>16
     DEF EnqueueEdit, AcceptEdit, KeepsClaims, Session, outside
<1>17. CASE JournalConfirms
  BY <1>0, <1>01, <1>17
     DEF JournalConfirms, ConfirmWorkingHtml, KeepsClaims, Session, outside
<1>18. ASSUME NEW h \in Html, ExternalWrite(h)
       PROVE  KeepsClaims /\ doc'.editRevision = doc.editRevision
  BY <1>0, <1>01, <1>18 DEF ExternalWrite, KeepsClaims
<1>19. CASE UNCHANGED vars
  BY <1>01, <1>2, <1>19 DEF vars
<1>. QED
  BY <1>01, <1>4, <1>5, <1>6, <1>7, <1>8, <1>9, <1>10, <1>11, <1>12, <1>13,
     <1>14, <1>15, <1>16, <1>17, <1>18, <1>19
     DEF Next, Renderer, Bridge, Environment

(* No revision is claimed before the file records it, or was given up.      *)
THEOREM ClaimsAreTrue == Spec => []NoFalseClaim
<1>1. Init => NoFalseClaim
  BY DEF Init, OpenedSession, NoFalseClaim, Greater
<1>2. WriterInv /\ NoFalseClaim /\ [Next]_vars => NoFalseClaim'
  <2>. SUFFICES ASSUME WriterInv, NoFalseClaim, [Next]_vars
                PROVE  NoFalseClaim'
    OBVIOUS
  <2>1. /\ doc.lastPersistedRevision \in Nat /\ doc.editRevision \in Nat
        /\ disk.revision \in Nat /\ discarded \in Nat
        /\ doc.lastPersistedRevision <= doc.editRevision
    BY DEF WriterInv, TypeOK, Session, Revision, SessionInv, NothingAhead
  <2>2. disk'.revision \in Nat
    <3>1. WriterInv'
      BY RendererStep, BridgeStep, EnvironmentStep, WriterInvStutter DEF Next
    <3>. QED
      BY <3>1 DEF WriterInv, TypeOK, Revision
  <2>3. KeepsClaims \/ ConfirmsOwned \/ GivesUp
    BY ClaimsStep
  <2>4. CASE KeepsClaims
    BY <2>1, <2>2, <2>4 DEF KeepsClaims, NoFalseClaim, Greater
  <2>5. CASE ConfirmsOwned
    BY <2>1, <2>5 DEF ConfirmsOwned, NoFalseClaim, Greater
  <2>6. CASE GivesUp
    BY <2>1, <2>6 DEF GivesUp, NoFalseClaim, Greater
  <2>. QED
    BY <2>3, <2>4, <2>5, <2>6
<1>. QED
  BY <1>1, <1>2, WriterInvariant, PTL DEF Spec

(* While a fenced write is in flight, nothing it or its proof does makes    *)
(* anything persisted.                                                      *)
THEOREM FenceHolds == Spec => FencedWriteConfirmsNothing
<1>1. WriterInv /\ [Next]_vars =>
        [doc.active # NoWrite /\ doc.active.authority # doc.authority
           /\ doc'.authority = doc.authority
         => /\ doc'.persistedSha = doc.persistedSha
            /\ doc'.lastPersistedRevision = doc.lastPersistedRevision]_vars
  BY ClaimsStep DEF KeepsClaims, ConfirmsOwned, GivesUp
<1>. QED
  BY <1>1, WriterInvariant, PTL DEF Spec, FencedWriteConfirmsNothing

-----------------------------------------------------------------------------
(* What a boundary caller is told.  A caller is in one place at a time: it  *)
(* owns the flush in flight, or has joined it, or is about to run again;    *)
(* and a write that is in flight for an owner carries what it asked for.    *)
Owning(c) == flush.pc # "none" /\ flush.owner = c

InOnePlace ==
    \A c \in Callers :
        /\ Owning(c) => result[c] = "pending" /\ c \notin waiting \cup resumed
        /\ c \in waiting => /\ result[c] = "pending" /\ c \notin resumed
                            /\ flush.pc # "none"
        /\ c \in resumed => result[c] = "pending"

CutoffsReached == \A c \in Callers : cutoff[c] <= doc.editRevision

WriteReachesCutoff ==
    flush.pc \in WriterStates /\ flush.owner # Autosave
        => doc.active.revision >= cutoff[flush.owner]

CallerInv ==
    /\ InOnePlace
    /\ CutoffsReached
    /\ WriteReachesCutoff
    /\ FlushHonoursCutoff

(* Steps that leave the callers alone keep the invariant as long as the     *)
(* flush in flight keeps its owner and its write.                           *)
LEMMA CallersKept ==
  ASSUME WriterInv, WriterInv', CallerInv, [Next]_vars,
         UNCHANGED callers,
         flush'.owner = flush.owner,
         flush'.pc = "none" <=> flush.pc = "none",
         \/ flush'.pc \notin WriterStates
         \/ doc'.active = doc.active /\ flush.pc \in WriterStates
         \/ doc'.active.revision = doc.editRevision
  PROVE  CallerInv'
<1>1. /\ doc.lastPersistedRevision \in Nat /\ doc.editRevision \in Nat
      /\ doc'.lastPersistedRevision \in Nat /\ doc'.editRevision \in Nat
      /\ disk.revision \in Nat
      /\ cutoff \in [Callers -> Nat]
      /\ flush.owner \in Flushers
      /\ doc.lastPersistedRevision <= doc.editRevision
  BY DEF WriterInv, TypeOK, FlushState, Session, Revision, SessionInv,
     NothingAhead
<1>2. /\ KeepsClaims \/ ConfirmsOwned \/ GivesUp
      /\ doc'.editRevision >= doc.editRevision
  BY ClaimsStep
<1>3. doc'.lastPersistedRevision >= doc.lastPersistedRevision
  BY <1>1, <1>2 DEF KeepsClaims, ConfirmsOwned, GivesUp, Greater
<1>4. InOnePlace'
  BY DEF CallerInv, InOnePlace, Owning, callers
<1>5. CutoffsReached'
  BY <1>1, <1>2 DEF CallerInv, CutoffsReached, callers
<1>6. WriteReachesCutoff'
  BY <1>1 DEF CallerInv, WriteReachesCutoff, CutoffsReached, Flushers, callers
<1>7. FlushHonoursCutoff'
  BY <1>1, <1>3 DEF CallerInv, FlushHonoursCutoff, callers
<1>. QED
  BY <1>4, <1>5, <1>6, <1>7 DEF CallerInv

(* A flush ends: whoever it was for is told success only past its cutoff.   *)
LEMMA CallersFinished ==
  ASSUME WriterInv, WriterInv', CallerInv, [Next]_vars,
         NEW outcome \in {"succeeded", "blocked", "failed"},
         Finish(flush, outcome),
         flush.pc # "none",
         outcome = "succeeded" /\ flush.owner # Autosave
            => doc'.lastPersistedRevision >= cutoff[flush.owner]
  PROVE  CallerInv'
<1>1. /\ doc.lastPersistedRevision \in Nat /\ doc.editRevision \in Nat
      /\ doc'.lastPersistedRevision \in Nat /\ doc'.editRevision \in Nat
      /\ disk.revision \in Nat
      /\ cutoff \in [Callers -> Nat]
      /\ result \in [Callers -> Results]
      /\ flush.owner \in Flushers
      /\ doc.lastPersistedRevision <= doc.editRevision
  BY DEF WriterInv, TypeOK, FlushState, Session, Revision, SessionInv,
     NothingAhead
<1>2. /\ KeepsClaims \/ ConfirmsOwned \/ GivesUp
      /\ doc'.editRevision >= doc.editRevision
  BY ClaimsStep
<1>3. doc'.lastPersistedRevision >= doc.lastPersistedRevision
  BY <1>1, <1>2 DEF KeepsClaims, ConfirmsOwned, GivesUp, Greater
<1>4. flush'.pc = "none" /\ waiting' = {} /\ cutoff' = cutoff
  BY DEF Finish, NoFlush
<1>5. ASSUME NEW c \in Callers
      PROVE  \/ /\ result'[c] = outcome
                /\ c \notin resumed'
                /\ outcome = "succeeded" => c = flush.owner
             \/ /\ result'[c] = result[c]
                /\ c \in resumed' => result[c] = "pending"
  <2>1. CASE outcome = "succeeded"
    <3>1. /\ result'[c] = IF c = flush.owner THEN outcome ELSE result[c]
          /\ resumed' = resumed \cup waiting
      BY <2>1, <1>1 DEF Finish, Rechecking, Ended
    <3>. QED
      BY <3>1 DEF CallerInv, InOnePlace, Owning
  <2>2. CASE outcome # "succeeded"
    <3>1. /\ result'[c] = IF c = flush.owner \/ c \in waiting THEN outcome
                          ELSE result[c]
          /\ resumed' = resumed
      BY <2>2, <1>1 DEF Finish, Rechecking, Ended
    <3>. QED
      BY <2>2, <3>1 DEF CallerInv, InOnePlace, Owning
  <2>. QED
    BY <2>1, <2>2
<1>6. InOnePlace'
  <2>. SUFFICES ASSUME NEW c \in Callers
                PROVE  c \in resumed' => result'[c] = "pending"
    BY <1>4 DEF InOnePlace, Owning
  <2>. QED
    BY <1>5
<1>7. CutoffsReached'
  BY <1>1, <1>2, <1>4 DEF CallerInv, CutoffsReached
<1>8. WriteReachesCutoff'
  BY <1>4 DEF WriteReachesCutoff, WriterStates
<1>9. FlushHonoursCutoff'
  <2>. SUFFICES ASSUME NEW c \in Callers, result'[c] = "succeeded"
                PROVE  doc'.lastPersistedRevision >= cutoff[c]
    BY <1>4 DEF FlushHonoursCutoff
  <2>1. CASE result[c] = "succeeded"
    BY <1>1, <1>3, <2>1 DEF CallerInv, FlushHonoursCutoff
  <2>2. CASE result[c] # "succeeded"
    <3>1. outcome = "succeeded" /\ c = flush.owner
      BY <1>5, <2>2
    <3>. QED
      BY <3>1, CallersAssumption
  <2>. QED
    BY <2>1, <2>2
<1>. QED
  BY <1>6, <1>7, <1>8, <1>9 DEF CallerInv

(* flush is called by somebody who is in no other place, with a cutoff the  *)
(* document has reached.                                                    *)
LEMMA CallersFlush ==
  ASSUME WriterInv, WriterInv', CallerInv, [Next]_vars,
         NEW c \in Flushers, Flush(c),
         c \in Callers => /\ ~Owning(c) /\ c \notin waiting
                          /\ c \notin resumed'
                          /\ cutoff'[c] <= doc.editRevision,
         resumed' \subseteq resumed,
         \A b \in Callers : b # c => cutoff'[b] = cutoff[b]
  PROVE  CallerInv'
<1>1. /\ doc.lastPersistedRevision \in Nat /\ doc.editRevision \in Nat
      /\ cutoff \in [Callers -> Nat] /\ cutoff' \in [Callers -> Nat]
      /\ result \in [Callers -> Results]
  BY DEF WriterInv, TypeOK, Session, Revision
<1>2. /\ doc'.editRevision = doc.editRevision
      /\ doc'.lastPersistedRevision = doc.lastPersistedRevision
  BY FlushStep
<1>3. \A b \in Callers : b # c => result'[b] = result[b]
  BY <1>1 DEF Flush
<1>4. CutoffsReached'
  BY <1>1, <1>2 DEF CallerInv, CutoffsReached
<1>5. CASE /\ flush.pc # "none"
           /\ waiting' = waiting \cup {c}
           /\ c \in Callers => result'[c] = "pending"
           /\ UNCHANGED <<doc, flush, request>>
  <2>1. InOnePlace'
    BY <1>3, <1>5 DEF CallerInv, InOnePlace, Owning
  <2>2. WriteReachesCutoff'
    <3>. SUFFICES ASSUME flush.pc \in WriterStates, flush.owner # Autosave
                  PROVE  doc.active.revision >= cutoff'[flush.owner]
      BY <1>5 DEF WriteReachesCutoff
    <3>1. flush.owner \in Callers
      BY DEF WriterInv, TypeOK, FlushState, Flushers
    <3>2. flush.owner # c
      BY <1>5, <3>1 DEF Owning
    <3>. QED
      BY <3>1, <3>2 DEF CallerInv, WriteReachesCutoff
  <2>3. FlushHonoursCutoff'
    BY <1>1, <1>2, <1>3, <1>5 DEF CallerInv, FlushHonoursCutoff
  <2>. QED
    BY <1>4, <2>1, <2>2, <2>3 DEF CallerInv
<1>6. CASE /\ flush.pc = "none" /\ Drained(doc)
           /\ c \in Callers => result'[c] = "succeeded"
           /\ UNCHANGED <<doc, flush, request, waiting>>
  <2>1. InOnePlace'
    BY <1>3, <1>6 DEF CallerInv, InOnePlace, Owning
  <2>2. WriteReachesCutoff'
    BY <1>6 DEF WriteReachesCutoff, WriterStates
  <2>3. FlushHonoursCutoff'
    <3>. SUFFICES ASSUME NEW b \in Callers, result'[b] = "succeeded"
                  PROVE  doc.lastPersistedRevision >= cutoff'[b]
      BY <1>6 DEF FlushHonoursCutoff
    <3>1. CASE b = c
      BY <1>1, <1>6, <3>1 DEF Drained
    <3>2. CASE b # c
      BY <1>3, <3>2 DEF CallerInv, FlushHonoursCutoff
    <3>. QED
      BY <3>1, <3>2
  <2>. QED
    BY <1>4, <2>1, <2>2, <2>3 DEF CallerInv
<1>7. CASE /\ flush.pc = "none"
           /\ Proceed(IF CanReconstruct(doc) THEN Reconstruct(doc) ELSE doc,
                      [NoFlush EXCEPT !.owner = c])
           /\ c \in Callers => result'[c] = "pending"
           /\ UNCHANGED waiting
  <2>. DEFINE s == IF CanReconstruct(doc) THEN Reconstruct(doc) ELSE doc
  <2>1. SessionInv(s) /\ s.active = NoWrite /\ s.editRevision = doc.editRevision
    <3>1. doc.active = NoWrite /\ SessionInv(doc)
      BY <1>7 DEF WriterInv, OneWriter, WriterStates
    <3>. QED
      BY <3>1, ReconstructInv
  <2>2. /\ [NoFlush EXCEPT !.owner = c] \in FlushState
        /\ [NoFlush EXCEPT !.owner = c].owner = c
    BY DEF NoFlush, FlushState, Flushers
  <2>. HIDE DEF s
  <2>3. /\ flush'.owner = c
        /\ \/ flush'.pc = "writing" /\ doc'.active.revision = doc.editRevision
           \/ flush'.pc = "retiring"
    BY <1>7, <2>1, <2>2, ProceedInv DEF s
  <2>4. InOnePlace'
    BY <1>3, <1>7, <2>3 DEF CallerInv, InOnePlace, Owning
  <2>5. WriteReachesCutoff'
    BY <1>1, <2>3 DEF WriteReachesCutoff, WriterStates, Flushers
  <2>6. FlushHonoursCutoff'
    BY <1>1, <1>2, <1>3, <1>7 DEF CallerInv, FlushHonoursCutoff
  <2>. QED
    BY <1>4, <2>4, <2>5, <2>6 DEF CallerInv
<1>. QED
  BY <1>1, <1>5, <1>6, <1>7 DEF Flush

LEMMA CallerInvInit == Init => CallerInv
  BY DEF Init, CallerInv, InOnePlace, Owning, CutoffsReached,
     WriteReachesCutoff, FlushHonoursCutoff, OpenedSession, NoFlush,
     WriterStates

LEMMA CallerStep ==
  WriterInv /\ WriterInv' /\ CallerInv /\ [Next]_vars => CallerInv'
<1>. SUFFICES ASSUME WriterInv, WriterInv', CallerInv, [Next]_vars
              PROVE  CallerInv'
  OBVIOUS
<1>0. /\ TypeOK /\ SessionInv(doc) /\ OneWriter /\ RequestHasWriter
      /\ doc \in Session /\ flush \in FlushState
      /\ disk \in [html : Html, revision : Revision]
  BY DEF WriterInv, TypeOK
<1>1. ASSUME UNCHANGED callers, flush' = flush, doc'.active = doc.active
      PROVE  CallerInv'
  BY <1>1, CallersKept
<1>2. CASE TimerFires
  <2>1. /\ Flush(Autosave) /\ UNCHANGED <<resumed, cutoff>>
        /\ Autosave \in Flushers /\ Autosave \notin Callers
    BY <1>2, CallersAssumption DEF TimerFires, Flushers
  <2>. QED
    BY <2>1, CallersFlush
<1>3. ASSUME NEW c \in Callers, BoundaryFlush(c)
      PROVE  CallerInv'
  <2>1. /\ Flush(c) /\ UNCHANGED resumed /\ c \in Flushers
        /\ result[c] = "none"
        /\ cutoff' = [cutoff EXCEPT ![c] = doc.editRevision]
    BY <1>3 DEF BoundaryFlush, Flushers
  <2>2. ~Owning(c) /\ c \notin waiting /\ c \notin resumed
    BY <2>1 DEF CallerInv, InOnePlace
  <2>3. /\ cutoff'[c] <= doc.editRevision
        /\ \A b \in Callers : b # c => cutoff'[b] = cutoff[b]
    BY <1>0, <2>1 DEF TypeOK, Session, Revision
  <2>. QED
    BY <2>1, <2>2, <2>3, CallersFlush
<1>4. ASSUME NEW c \in Flushers, ResumeAgain(c)
      PROVE  CallerInv'
  <2>1. /\ Flush(c) /\ c \in resumed /\ resumed' = resumed \ {c}
        /\ UNCHANGED cutoff
    BY <1>4 DEF ResumeAgain
  <2>2. c \in Callers => /\ ~Owning(c) /\ c \notin waiting
                         /\ cutoff[c] <= doc.editRevision
    BY <2>1 DEF CallerInv, InOnePlace, CutoffsReached
  <2>. QED
    BY <2>1, <2>2, CallersFlush
<1>5. ASSUME NEW c \in Flushers, ResumeSatisfied(c)
      PROVE  CallerInv'
  <2>1. /\ c \in resumed /\ resumed' = resumed \ {c} /\ Satisfied(c)
        /\ result' = [b \in Callers |-> IF b = c THEN "succeeded"
                                        ELSE result[b]]
        /\ UNCHANGED <<doc, flush, waiting, cutoff>>
    BY <1>5 DEF ResumeSatisfied
  <2>2. InOnePlace'
    BY <2>1 DEF CallerInv, InOnePlace, Owning
  <2>3. FlushHonoursCutoff'
    <3>. SUFFICES ASSUME NEW b \in Callers, result'[b] = "succeeded"
                  PROVE  doc.lastPersistedRevision >= cutoff[b]
      BY <2>1 DEF FlushHonoursCutoff
    <3>1. CASE b = c
      BY <2>1, <3>1, CallersAssumption DEF Satisfied, CutoffReached
    <3>2. CASE b # c
      BY <2>1, <3>2 DEF CallerInv, FlushHonoursCutoff
    <3>. QED
      BY <3>1, <3>2
  <2>. QED
    BY <2>1, <2>2, <2>3
       DEF CallerInv, CutoffsReached, WriteReachesCutoff
<1>6. CASE Acknowledged
  <2>. DEFINE s == Confirm(doc, doc.active, disk.revision)
  <2>1. /\ doc.active # NoWrite /\ flush.pc = "writing"
        /\ AcceptsConfirmation(doc, doc.active, disk.revision)
        /\ Proceed(s, flush) /\ UNCHANGED callers
    BY <1>0, <1>6 DEF Acknowledged, OneWriter, WriterStates
  <2>2. /\ SessionInv(s) /\ s.active = NoWrite
        /\ s.editRevision = doc.editRevision
    BY <2>1, ConfirmStep
  <2>. HIDE DEF s
  <2>3. /\ flush'.owner = flush.owner
        /\ \/ flush'.pc = "writing" /\ doc'.active.revision = doc.editRevision
           \/ flush'.pc = "retiring"
    BY <1>0, <2>1, <2>2, ProceedInv
  <2>. QED
    BY <2>1, <2>3, CallersKept DEF WriterStates
<1>7. CASE StartProof \/ ProveRevision
  <2>1. /\ UNCHANGED <<doc, callers>>
        /\ flush.pc \in {"writing", "proving"}
        /\ flush'.owner = flush.owner
        /\ flush'.pc \in {"proving", "comparing"}
    BY <1>0, <1>7 DEF StartProof, ProveRevision, FlushState
  <2>. QED
    BY <2>1, CallersKept DEF WriterStates
<1>8. ASSUME NEW kind \in {"rejected", "conflict", "protocol"}, Fail(kind),
             flush.pc \in WriterStates
      PROVE  CallerInv'
  <2>1. CASE Finish(flush, "failed")
    BY <1>8, <2>1, CallersFinished DEF WriterStates
  <2>2. CASE ~Finish(flush, "failed")
    <3>1. /\ UNCHANGED callers
          /\ flush' = [flush EXCEPT !.pc = "freezing",
                                    !.failed = FailureWrite(doc),
                                    !.conflict = (kind = "conflict")]
      BY <1>8, <2>2 DEF Fail
    <3>2. flush'.owner = flush.owner /\ flush'.pc = "freezing"
      BY <1>0, <3>1 DEF FlushState
    <3>. QED
      BY <1>8, <3>1, <3>2, CallersKept DEF WriterStates
  <2>. QED
    BY <2>1, <2>2
<1>9. CASE WriteFails
  <2>1. ReplyFailure \in {"rejected", "conflict", "protocol"}
    BY DEF ReplyFailure
  <2>. QED
    BY <1>8, <1>9, <2>1 DEF WriteFails, WriterStates
<1>10. CASE ProofFails
  BY <1>8, <1>10 DEF ProofFails, WriterStates
<1>11. CASE FreezeReturns
  BY <1>11, CallersFinished DEF FreezeReturns
<1>12. CASE ProveBytes
  <2>1. /\ doc.active # NoWrite /\ flush.pc = "comparing"
        /\ AcceptsConfirmation(doc, doc.active, disk.revision)
        /\ doc' = Confirm(doc, doc.active, disk.revision)
        /\ Finish(flush, "succeeded")
    BY <1>0, <1>12 DEF ProveBytes, ProofMatches, OneWriter, WriterStates
  <2>2. doc'.lastPersistedRevision >= doc.active.revision
    BY <2>1, ConfirmStep
  <2>3. flush.owner # Autosave => doc.active.revision >= cutoff[flush.owner]
    BY <2>1 DEF CallerInv, WriteReachesCutoff, WriterStates
  <2>4. flush.owner # Autosave =>
          /\ cutoff[flush.owner] \in Nat
          /\ doc.active.revision \in Nat
          /\ doc'.lastPersistedRevision \in Nat
    BY <1>0, <2>1 DEF WriterInv, TypeOK, FlushState, Flushers, Session, Write,
       Revision
  <2>5. flush.owner # Autosave
          => doc'.lastPersistedRevision >= cutoff[flush.owner]
    BY <2>2, <2>3, <2>4
  <2>. QED
    BY <2>1, <2>5, CallersFinished
<1>13. CASE JournalRetired
  <2>1. /\ flush.pc = "retiring" /\ doc' = doc
        /\ Finish(flush, IF CutoffReached(doc, flush.owner) THEN "succeeded"
                         ELSE "blocked")
    BY <1>13 DEF JournalRetired
  <2>. QED
    BY <2>1, CallersFinished DEF CutoffReached
<1>14. CASE AcceptSource
  <2>1. source.html \in Html
    BY <1>0 DEF TypeOK
  <2>. QED
    BY <1>0, <1>1, <1>14, <2>1, AdoptSourceInv DEF AcceptSource
<1>15. CASE EndObserve
  BY <1>0, <1>1, <1>15 DEF EndObserve, Session
<1>16. ASSUME NEW h \in Html, NEW sha, EnqueueEdit(h, sha)
       PROVE  CallerInv'
  BY <1>0, <1>1, <1>16 DEF EnqueueEdit, AcceptEdit, Session
<1>17. CASE JournalConfirms
  BY <1>0, <1>1, <1>17 DEF JournalConfirms, ConfirmWorkingHtml, Session
<1>18. CASE \/ Bridge \/ EndSource \/ BeginSource \/ BeginObserve
            \/ \E h \in Html : ExternalWrite(h)
            \/ UNCHANGED vars
  <2>1. UNCHANGED <<callers, flush, doc>>
    BY <1>18
       DEF Bridge, BridgeSaves, BridgeReplies, BridgeFails, BridgeReplyLost,
           BridgeReadsSource, BridgeStats, EndSource, BeginSource,
           BeginObserve, ExternalWrite, vars, callers
  <2>. QED
    BY <1>1, <2>1
<1>. QED
  BY <1>2, <1>3, <1>4, <1>5, <1>6, <1>7, <1>9, <1>10, <1>11, <1>12, <1>13,
     <1>14, <1>15, <1>16, <1>17, <1>18 DEF Next, Renderer, Environment

(* A boundary caller that is told its flush succeeded finds everything up   *)
(* to its cutoff persisted, whichever flush it started or joined.           *)
THEOREM CutoffIsHonoured == Spec => []FlushHonoursCutoff
<1>1. WriterInv /\ WriterInv' /\ CallerInv /\ [Next]_vars => CallerInv'
  BY CallerStep
<1>2. CallerInv => FlushHonoursCutoff
  BY DEF CallerInv
<1>. QED
  BY <1>1, <1>2, CallerInvInit, WriterInvariant, PTL DEF Spec

-----------------------------------------------------------------------------
(* What "saved" says of the file, while no other program writes it and no   *)
(* edit was given up.  Before the first edit there is no write, so that a   *)
(* reload, which then gives up nothing, reads the document itself; a        *)
(* positive reply means that the file holds the bytes that were sent; and   *)
(* no write is fenced, so that nothing is in flight once the document is    *)
(* idle.                                                                    *)
Untouched(s) == s.editRevision = 0 => s.active = NoWrite /\ s.pending = NoWrite

NotFenced(s) == s.active # NoWrite => s.active.authority = s.authority

ReadsDocument ==
    doc.editRevision = 0 /\ external = 0 /\ source.pc = "read"
        => source.html = disk.html

ReplyIsTrue == request = "ok" /\ external = 0 => disk.html = doc.active.html

SavedInv ==
    /\ Untouched(doc)
    /\ discarded = 0 => NotFenced(doc)
    /\ ReadsDocument
    /\ ReplyIsTrue
    /\ SavedIsOnDisk

(* A step inside the session that leaves the document alone: it does not    *)
(* become idle, unless the file has its bytes.                              *)
KeepsDocument(s, t) ==
    /\ t.html = s.html
    /\ t.editRevision = s.editRevision
    /\ t.persistState = "idle" => s.persistState = "idle"

LEMMA ProceedKeeps ==
  ASSUME NEW s, SessionInv(s), s.active = NoWrite, Untouched(s), NEW f,
         Proceed(s, f)
  PROVE  /\ KeepsDocument(s, doc')
         /\ Untouched(doc')
         /\ NotFenced(doc')
         /\ request' # "ok"
<1>0. s \in Session
  BY DEF SessionInv
<1>1. CASE CanBeginWrite(s)
  <2>1. doc' = BeginWrite(s) /\ request' = "sent"
    BY <1>1 DEF Proceed
  <2>2. /\ doc'.html = s.html /\ doc'.editRevision = s.editRevision
        /\ doc'.persistState = "writing" /\ doc'.pending = NoWrite
        /\ doc'.active = s.pending /\ doc'.authority = s.authority
    BY <1>0, <2>1 DEF BeginWrite, Session
  <2>. QED
    BY <1>1, <2>1, <2>2 DEF KeepsDocument, Untouched, NotFenced, CanBeginWrite
<1>2. CASE ~CanBeginWrite(s)
  BY <1>2 DEF Proceed, KeepsDocument, NotFenced
<1>. QED
  BY <1>1, <1>2

LEMMA FlushKeeps ==
  ASSUME WriterInv, SavedInv, NEW c \in Flushers, Flush(c)
  PROVE  /\ KeepsDocument(doc, doc')
         /\ Untouched(doc')
         /\ discarded = 0 => NotFenced(doc')
         /\ request' = "ok" => request = "ok" /\ doc' = doc
<1>. DEFINE s == IF CanReconstruct(doc) THEN Reconstruct(doc) ELSE doc
<1>1. CASE UNCHANGED <<doc, flush, request>>
  BY <1>1 DEF KeepsDocument, SavedInv
<1>2. CASE flush.pc = "none" /\ Proceed(s, [NoFlush EXCEPT !.owner = c])
  <2>1. doc.active = NoWrite /\ SessionInv(doc) /\ doc \in Session
    BY <1>2 DEF WriterInv, OneWriter, WriterStates, SessionInv
  <2>2. /\ SessionInv(s) /\ s.active = NoWrite
        /\ s.editRevision = doc.editRevision
    BY <2>1, ReconstructInv
  <2>3. Untouched(s)
    <3>1. CanReconstruct(doc) => doc.editRevision # 0
      BY <2>1 DEF CanReconstruct, Session, Revision
    <3>. QED
      BY <3>1, <2>2 DEF Untouched, SavedInv
  <2>4. KeepsDocument(doc, s)
    BY <2>1, <2>2 DEF KeepsDocument, Reconstruct, Session
  <2>. HIDE DEF s
  <2>5. /\ KeepsDocument(s, doc') /\ Untouched(doc') /\ NotFenced(doc')
        /\ request' # "ok"
    BY <1>2, <2>2, <2>3, ProceedKeeps
  <2>. QED
    BY <2>4, <2>5 DEF KeepsDocument
<1>. QED
  BY <1>1, <1>2 DEF Flush

LEMMA FailKeeps ==
  ASSUME WriterInv, doc.active # NoWrite,
         NEW kind \in {"rejected", "conflict", "protocol"}, Fail(kind)
  PROVE  /\ KeepsDocument(doc, doc')
         /\ doc'.active = NoWrite
         /\ request' = "none"
<1>1. doc'.active = NoWrite /\ request' = "none"
  BY FailStep
<1>2. /\ doc \in Session /\ SessionInv(doc)
  BY DEF WriterInv, SessionInv
<1>3. CASE ~RestoreMatches(doc)
  BY <1>1, <1>2, <1>3 DEF Fail, DropActive, KeepsDocument, Session
<1>4. CASE RestoreMatches(doc)
  <2>. DEFINE s == RestoreWrite(doc)
  <2>1. SessionInv(s)
    BY <1>2, <1>4, RestoreWriteInv
  <2>2. /\ s \in Session
        /\ s.html = doc.html /\ s.editRevision = doc.editRevision
        /\ s.persistState = "queued"
    BY <1>2, <2>1 DEF RestoreWrite, Session, SessionInv
  <2>. HIDE DEF s
  <2>3. doc' = s \/ doc' = RecordFailure(s, FailureWrite(doc), FALSE)
    BY <1>4 DEF Fail, s
  <2>4. /\ doc'.html = s.html /\ doc'.editRevision = s.editRevision
        /\ doc'.persistState # "idle"
    BY <2>2, <2>3 DEF RecordFailure, Session
  <2>. QED
    BY <1>1, <2>2, <2>4 DEF KeepsDocument
<1>. QED
  BY <1>3, <1>4

(* A confirmation makes the document idle only when it carried the document.*)
LEMMA ConfirmKeeps ==
  ASSUME WriterInv, doc.active # NoWrite,
         AcceptsConfirmation(doc, doc.active, disk.revision)
  PROVE  LET s == Confirm(doc, doc.active, disk.revision)
         IN  /\ SessionInv(s) /\ s.active = NoWrite
             /\ s.html = doc.html /\ s.editRevision = doc.editRevision
             /\ s.persistState = "idle" => doc.html = doc.active.html
<1>. DEFINE s == Confirm(doc, doc.active, disk.revision)
<1>0. /\ doc \in Session /\ SessionInv(doc)
      /\ doc.authority \in Nat
  BY DEF WriterInv, SessionInv, Session
<1>1. SessionInv(s) /\ s.active = NoWrite /\ s.editRevision = doc.editRevision
  BY ConfirmStep
<1>2. doc.persistState # "idle"
  BY <1>0 DEF SessionInv, FencedWhileIdle, AcceptsConfirmation
<1>3. /\ s.html = doc.html
      /\ s.persistState = "idle"
           => \/ doc.persistState = "idle"
              \/ Completes(doc, doc.active)
  <2>. DEFINE completes == Completes(doc, doc.active)
              sha == Sha256(doc.active.html)
              repaired == completes /\ doc.receipt.sha # sha
              authority == IF repaired THEN doc.authority + 1
                           ELSE doc.authority
              next == IF doc.pending = NoWrite THEN NoWrite
                      ELSE [doc.pending EXCEPT !.expected = sha,
                                               !.authority = authority]
              rev == ConfirmedRevision(doc, disk.revision)
  <2>1. s = [doc EXCEPT
               !.active = NoWrite, !.pending = next, !.persistedSha = sha,
               !.lastPersistedRevision = rev,
               !.workingSha = IF completes THEN sha ELSE @,
               !.persistState = IF next # NoWrite THEN "queued"
                                ELSE IF completes THEN "idle" ELSE @,
               !.authority = authority,
               !.receipt = IF repaired THEN NextReceipt(doc, sha) ELSE @]
    BY DEF Confirm
  <2>. HIDE DEF s, next, authority, repaired, completes, sha, rev
  <2>2. /\ s.html = doc.html
        /\ s.persistState = IF next # NoWrite THEN "queued"
                            ELSE IF completes THEN "idle"
                            ELSE doc.persistState
    BY <1>0, <2>1 DEF Session
  <2>. QED
    BY <2>2 DEF completes
<1>. QED
  BY <1>1, <1>2, <1>3 DEF Completes

LEMMA SavedInvInit == Init => SavedInv
  BY DEF Init, SavedInv, Untouched, NotFenced, ReadsDocument, ReplyIsTrue,
     SavedIsOnDisk, OpenedSession, NoSource

(* What a step has to keep, when the file and the reload stay as they are.  *)
LEMMA SavedKept ==
  ASSUME SavedInv, UNCHANGED outside, KeepsDocument(doc, doc'),
         Untouched(doc'), discarded = 0 => NotFenced(doc'), ReplyIsTrue'
  PROVE  SavedInv'
<1>1. ReadsDocument'
  BY DEF SavedInv, ReadsDocument, KeepsDocument, outside
<1>2. SavedIsOnDisk'
  BY DEF SavedInv, SavedIsOnDisk, KeepsDocument, outside
<1>3. discarded' = 0 => NotFenced(doc')
  BY DEF outside
<1>. QED
  BY <1>1, <1>2, <1>3 DEF SavedInv

LEMMA SavedFlush ==
  ASSUME WriterInv, SavedInv, NEW c \in Flushers, Flush(c), UNCHANGED outside
  PROVE  SavedInv'
<1>1. /\ KeepsDocument(doc, doc') /\ Untouched(doc')
      /\ discarded = 0 => NotFenced(doc')
      /\ request' = "ok" => request = "ok" /\ doc' = doc
  BY FlushKeeps
<1>2. ReplyIsTrue'
  BY <1>1 DEF SavedInv, ReplyIsTrue, outside
<1>. QED
  BY <1>1, <1>2, SavedKept

LEMMA SavedFail ==
  ASSUME WriterInv, SavedInv, doc.active # NoWrite,
         NEW kind \in {"rejected", "conflict", "protocol"}, Fail(kind),
         UNCHANGED outside
  PROVE  SavedInv'
<1>1. /\ KeepsDocument(doc, doc') /\ doc'.active = NoWrite /\ request' = "none"
  BY FailKeeps
<1>2. Untouched(doc') /\ NotFenced(doc') /\ ReplyIsTrue'
  BY <1>1 DEF SavedInv, Untouched, NotFenced, ReplyIsTrue, KeepsDocument
<1>. QED
  BY <1>1, <1>2, SavedKept

(* The confirmed bytes are those of the file.                               *)
LEMMA SavedConfirm ==
  ASSUME WriterInv, SavedInv, doc.active # NoWrite,
         AcceptsConfirmation(doc, doc.active, disk.revision),
         external = 0 => disk.html = doc.active.html,
         NEW t, t = Confirm(doc, doc.active, disk.revision),
         KeepsDocument(t, doc'), Untouched(doc'), NotFenced(doc'),
         request' # "ok", UNCHANGED outside
  PROVE  SavedInv'
<1>1. /\ t.html = doc.html /\ t.editRevision = doc.editRevision
      /\ t.persistState = "idle" => doc.html = doc.active.html
  BY ConfirmKeeps
<1>2. SavedIsOnDisk'
  BY <1>1 DEF SavedIsOnDisk, KeepsDocument, outside
<1>3. ReadsDocument' /\ ReplyIsTrue'
  BY <1>1 DEF SavedInv, ReadsDocument, ReplyIsTrue, KeepsDocument, outside
<1>. QED
  BY <1>2, <1>3 DEF SavedInv

LEMMA SavedStep == WriterInv /\ SavedInv /\ [Next]_vars => SavedInv'
<1>. SUFFICES ASSUME WriterInv, SavedInv, [Next]_vars
              PROVE  SavedInv'
  OBVIOUS
<1>0. /\ TypeOK /\ SessionInv(doc) /\ OneWriter /\ RequestHasWriter
      /\ doc \in Session /\ doc.editRevision \in Nat /\ doc.authority \in Nat
  BY DEF WriterInv, SessionInv, Session, Revision
<1>1. CASE TimerFires
  BY <1>1, SavedFlush DEF TimerFires, Flushers
<1>2. ASSUME NEW c \in Callers, BoundaryFlush(c)
      PROVE  SavedInv'
  BY <1>2, SavedFlush DEF BoundaryFlush, Flushers
<1>3. ASSUME NEW c \in Flushers, ResumeAgain(c)
      PROVE  SavedInv'
  BY <1>3, SavedFlush DEF ResumeAgain
<1>4. CASE WriteFails
  <2>1. ReplyFailure \in {"rejected", "conflict", "protocol"}
    BY DEF ReplyFailure
  <2>. QED
    BY <1>0, <1>4, <2>1, SavedFail DEF WriteFails, OneWriter, WriterStates
<1>5. CASE ProofFails
  BY <1>0, <1>5, SavedFail DEF ProofFails, OneWriter, WriterStates
<1>6. CASE Acknowledged
  <2>. DEFINE t == Confirm(doc, doc.active, disk.revision)
  <2>1. /\ doc.active # NoWrite /\ request = "ok"
        /\ AcceptsConfirmation(doc, doc.active, disk.revision)
        /\ Proceed(t, flush) /\ UNCHANGED outside
    BY <1>0, <1>6 DEF Acknowledged, OneWriter, WriterStates
  <2>2. /\ SessionInv(t) /\ t.active = NoWrite
        /\ t.editRevision = doc.editRevision
    BY <2>1, ConfirmKeeps
  <2>3. Untouched(t)
    BY <2>1, <2>2 DEF SavedInv, Untouched
  <2>4. external = 0 => disk.html = doc.active.html
    BY <2>1 DEF SavedInv, ReplyIsTrue
  <2>. HIDE DEF t
  <2>5. /\ KeepsDocument(t, doc') /\ Untouched(doc') /\ NotFenced(doc')
        /\ request' # "ok"
    BY <2>1, <2>2, <2>3, ProceedKeeps
  <2>. QED
    BY <2>1, <2>4, <2>5, SavedConfirm DEF t
<1>7. CASE ProveBytes
  <2>. DEFINE t == Confirm(doc, doc.active, disk.revision)
  <2>1. /\ doc.active # NoWrite /\ disk.html = doc.active.html
        /\ AcceptsConfirmation(doc, doc.active, disk.revision)
        /\ doc' = t /\ UNCHANGED outside /\ request' = "none"
    BY <1>0, <1>7 DEF ProveBytes, ProofMatches, OneWriter, WriterStates, Finish
  <2>2. /\ t.active = NoWrite /\ t.editRevision = doc.editRevision
    BY <2>1, ConfirmKeeps
  <2>. HIDE DEF t
  <2>3. KeepsDocument(t, doc') /\ Untouched(doc') /\ NotFenced(doc')
    BY <2>1, <2>2 DEF KeepsDocument, Untouched, NotFenced, SavedInv
  <2>. QED
    BY <2>1, <2>3, SavedConfirm DEF t
<1>8. CASE FreezeReturns
  <2>1. /\ flush.conflict \in BOOLEAN /\ request' = "none"
        /\ doc' = RecordFailure(doc, flush.failed, flush.conflict)
        /\ UNCHANGED outside
    BY <1>0, <1>8 DEF TypeOK, FlushState, FreezeReturns, Finish
  <2>2. /\ KeepsDocument(doc, doc') /\ doc'.active = doc.active
        /\ doc'.pending = doc.pending /\ doc'.authority = doc.authority
    BY <1>0, <2>1 DEF RecordFailure, KeepsDocument, Session
  <2>3. Untouched(doc') /\ (discarded = 0 => NotFenced(doc')) /\ ReplyIsTrue'
    BY <2>1, <2>2 DEF SavedInv, Untouched, NotFenced, ReplyIsTrue,
       KeepsDocument
  <2>. QED
    BY <2>1, <2>2, <2>3, SavedKept
<1>9. CASE AcceptSource
  <2>1. /\ doc' = AdoptSource(doc, source.html) /\ source.pc = "read"
        /\ discarded' = doc.editRevision /\ source'.pc # "read"
        /\ UNCHANGED <<request, disk, external>>
    BY <1>9 DEF AcceptSource, NoSource
  <2>2. /\ doc'.html = source.html /\ doc'.pending = NoWrite
        /\ doc'.active = doc.active /\ doc'.editRevision = doc.editRevision
    BY <1>0, <2>1 DEF AdoptSource, Session
  <2>3. Untouched(doc')
    BY <2>2 DEF SavedInv, Untouched
  <2>4. discarded' = 0 => NotFenced(doc')
    BY <2>1, <2>2, <2>3 DEF Untouched, NotFenced
  <2>5. SavedIsOnDisk'
    BY <2>1, <2>2 DEF SavedInv, ReadsDocument, SavedIsOnDisk
  <2>6. ReadsDocument' /\ ReplyIsTrue'
    BY <2>1, <2>2 DEF SavedInv, ReadsDocument, ReplyIsTrue
  <2>. QED
    BY <2>3, <2>4, <2>5, <2>6 DEF SavedInv
<1>10. CASE EndObserve
  <2>1. UNCHANGED <<request, disk, external, source, discarded>>
    BY <1>10 DEF EndObserve
  <2>2. /\ KeepsDocument(doc, doc') /\ doc'.active = doc.active
        /\ doc'.pending = doc.pending /\ doc'.authority = doc.authority
    BY <1>0, <1>10 DEF EndObserve, KeepsDocument, Session
  <2>. QED
    BY <2>1, <2>2 DEF SavedInv, Untouched, NotFenced, ReplyIsTrue,
       KeepsDocument, ReadsDocument, SavedIsOnDisk
<1>11. CASE BridgeSaves \/ BridgeFails
  <2>1. /\ doc.active # NoWrite /\ request' # "ok"
        /\ UNCHANGED <<doc, external, source, discarded>>
    BY <1>0, <1>11 DEF BridgeSaves, BridgeFails, OneWriter, RequestHasWriter
  <2>2. doc.persistState = "idle" => discarded # 0
    BY <1>0, <2>1 DEF SavedInv, NotFenced, SessionInv, FencedWhileIdle
  <2>3. doc.editRevision # 0
    BY <2>1 DEF SavedInv, Untouched
  <2>. QED
    BY <2>1, <2>2, <2>3 DEF SavedInv, Untouched, ReplyIsTrue, ReadsDocument,
       SavedIsOnDisk
<1>12. CASE BridgeReplies
  BY <1>12 DEF BridgeReplies, outside, SavedInv, ReplyIsTrue, ReadsDocument,
     SavedIsOnDisk
<1>13. CASE BridgeReplyLost
  BY <1>13 DEF BridgeReplyLost, outside, SavedInv, ReplyIsTrue, ReadsDocument,
     SavedIsOnDisk
<1>14. CASE BridgeReadsSource
  BY <1>14 DEF BridgeReadsSource, SavedInv, ReplyIsTrue, ReadsDocument,
     SavedIsOnDisk
<1>15. ASSUME NEW h \in Html, ExternalWrite(h)
       PROVE  SavedInv'
  <2>1. external' # 0
    BY <1>0, <1>15 DEF ExternalWrite, TypeOK
  <2>. QED
    BY <1>15, <2>1 DEF ExternalWrite, SavedInv, ReplyIsTrue, ReadsDocument,
       SavedIsOnDisk
<1>16. ASSUME NEW h \in Html, NEW sha, EnqueueEdit(h, sha)
       PROVE  SavedInv'
  <2>1. /\ doc'.active = doc.active /\ doc'.authority = doc.authority
        /\ doc'.editRevision = doc.editRevision + 1
        /\ doc'.persistState = "queued"
        /\ UNCHANGED <<request, disk, external, source, discarded>>
    BY <1>0, <1>16 DEF EnqueueEdit, AcceptEdit, Session, outside
  <2>. QED
    BY <1>0, <2>1 DEF SavedInv, Untouched, NotFenced, ReplyIsTrue,
       ReadsDocument, SavedIsOnDisk
<1>17. CASE JournalConfirms
  <2>1. /\ KeepsDocument(doc, doc') /\ doc'.active = doc.active
        /\ doc'.pending = doc.pending /\ doc'.authority = doc.authority
        /\ UNCHANGED outside /\ request' = request
    BY <1>0, <1>17
       DEF JournalConfirms, ConfirmWorkingHtml, KeepsDocument, Session
  <2>2. Untouched(doc') /\ (discarded = 0 => NotFenced(doc')) /\ ReplyIsTrue'
    BY <2>1 DEF SavedInv, Untouched, NotFenced, ReplyIsTrue, KeepsDocument,
       outside
  <2>. QED
    BY <2>1, <2>2, SavedKept
<1>18. ASSUME UNCHANGED <<doc, disk, external, discarded>>,
              source' = source \/ source'.pc # "read",
              request' = request \/ request' # "ok"
       PROVE  SavedInv'
  BY <1>18 DEF SavedInv, ReplyIsTrue, ReadsDocument, SavedIsOnDisk
<1>19. CASE StartProof \/ ProveRevision \/ JournalRetired \/ BridgeStats
            \/ BeginObserve \/ \E c \in Flushers : ResumeSatisfied(c)
  BY <1>18, <1>19 DEF StartProof, ProveRevision, JournalRetired, Finish,
     BridgeStats, BeginObserve, ResumeSatisfied, outside
<1>20. CASE EndSource \/ BeginSource
  <2>1. source'.pc # "read"
    BY <1>0, <1>20 DEF EndSource, BeginSource, NoSource, TypeOK
  <2>. QED
    BY <1>18, <1>20, <2>1 DEF EndSource, BeginSource
<1>21. CASE UNCHANGED vars
  BY <1>18, <1>21 DEF vars
<1>. QED
  BY <1>1, <1>2, <1>3, <1>4, <1>5, <1>6, <1>7, <1>8, <1>9, <1>10, <1>11,
     <1>12, <1>13, <1>14, <1>15, <1>16, <1>17, <1>19, <1>20, <1>21
     DEF Next, Renderer, Bridge, Environment

(* The document shown as saved is the file, as long as nobody else writes   *)
(* it and no edit was given up for a reload.                                *)
THEOREM SavedIsTrue == Spec => []SavedIsOnDisk
<1>1. SavedInv => SavedIsOnDisk
  BY DEF SavedInv
<1>. QED
  BY <1>1, SavedInvInit, SavedStep, WriterInvariant, PTL DEF Spec

-----------------------------------------------------------------------------
(* The comments: w are those the user left, d those the user deleted.  B is *)
(* the draft file, A an older state of it, X a snapshot.                    *)

(* Nothing newer than what the user left, nothing deleted by anybody else.  *)
Fits(X, w, d) == /\ X.tombs \subseteq d
                 /\ \A i \in Ids : X.text[i] <= w[i] \/ i \in d

(* A draft has no text of a comment that it knows to be deleted.            *)
Clean(B) == \A i \in B.tombs : B.text[i] = 0
Sane(B, w, d) == Fits(B, w, d) /\ Clean(B)
Gone(w, d) == \A i \in d : w[i] = 0

(* A draft with the comments of the user; a snapshot which gives them when  *)
(* the deletions that B knows of are left out.                              *)
Has(B, w, d) == B.text = w /\ d \subseteq B.tombs
Whole(X, B, w, d) == X.text = w /\ d \subseteq X.tombs \cup B.tombs

(* B has everything of an older draft, or what replaced it.                 *)
Within(text, tombs, B) ==
    /\ tombs \subseteq B.tombs
    /\ \A i \in Ids : text[i] <= B.text[i] \/ i \in B.tombs
Older(A, B) == /\ A.revision <= B.revision
               /\ A.revision = B.revision => A = B
               /\ A.ops \subseteq B.ops
               /\ Within(A.text, A.tombs, B)

(* A snapshot that B would accept takes nothing from B.                     *)
Over(X, B) ==
    /\ X.expected <= B.revision
    /\ X.expected = B.revision =>
          \A i \in Ids : B.text[i] <= X.text[i] \/ i \in X.tombs \cup B.tombs

-----------------------------------------------------------------------------
(* The renderer's state s.  The operations that an acknowledgement or a     *)
(* recovery may still have in mind: that of the record, of the snapshot     *)
(* that waits, and of the write in flight if nothing newer waits.           *)
Snapshots(s) == (IF s.pending = None THEN {} ELSE {s.pending})
                \cup (IF s.run = None THEN {} ELSE {s.run.write, s.run.first})
Current(s) == s.run # None /\ s.run.current
Live(o, s) == \/ s.record # None /\ o = s.record.op
              \/ s.pending # None /\ o = s.pending.op
              \/ s.pending = None /\ Current(s) /\ o = s.run.first.op
Unsent(o, s, rq, B) == /\ o \notin B.ops
                       /\ \A X \in rq : X.op # o
                       /\ s.run # None => s.run.first.op # o

(* The project's draft file, and what the user did. *)
World(B, bz, w, d, n) ==
    /\ Sane(B, w, d) /\ Gone(w, d)
    /\ \A i \in Ids : w[i] <= n
    /\ bz # None => bz.op \in B.ops

(* No snapshot, wherever it is, can bring anything back or take anything.   *)
Sendable(s, rq, B, w, d) ==
    \A X \in Snapshots(s) \cup rq : Fits(X, w, d) /\ Over(X, B)

(* Operations get fresh numbers. *)
Numbered(s, rq, B) ==
    /\ \A X \in Snapshots(s) \cup rq : X.op <= s.ops
    /\ \A o \in B.ops : o <= s.ops
    /\ s.record # None => s.record.op <= s.ops

Ordered(s, ph, B) ==
    /\ s.recoveryOp = 0
    /\ s.run # None => s.run.write.op = s.run.first.op
    /\ s.run # None /\ s.run.at = "answered" => s.run.answer # None
    /\ s.revision <= B.revision
    /\ Within(s.ack.text, s.ack.tombs, B)
    /\ s.pending # None \/ Current(s) => ph = "open"

(* The recovery record, with the draft file, is what the user left, and an  *)
(* open document shows it.                                                  *)
Recorded(s, ph, B, w, d) ==
    /\ s.record = None => Has(B, w, d) /\ w = NoText
    /\ s.record # None => Whole(s.record, B, w, d) /\ s.record.tombs \subseteq d
    /\ ph = "open" =>
          /\ s.text = w
          /\ s.tombs = IF s.record = None THEN {} ELSE s.record.tombs

(* The record has the operation of the write that keeps it, or one that was *)
(* never sent.                                                              *)
Agreed(s, rq, B) ==
    s.record # None =>
       /\ Current(s) => \/ s.record.op = s.run.first.op
                        \/ Unsent(s.record.op, s, rq, B)
       /\ s.pending # None => \/ s.record.op = s.pending.op
                              \/ Unsent(s.record.op, s, rq, B)

(* What is shown waits, or is on its way, or has arrived. *)
Chained(s, ph, B, w, d) ==
    /\ s.pending # None => Whole(s.pending, B, w, d)
    /\ s.pending = None /\ Current(s) => Whole(s.run.first, B, w, d)
    /\ ph = "open" /\ s.pending = None /\ ~Current(s) => Has(B, w, d)

(* A live operation leaves, or has left, what is shown. *)
Applied(s, rq, B, w, d) ==
    /\ \A X \in Snapshots(s) \cup rq :
          Live(X.op, s) /\ X.op \notin B.ops => Whole(X, B, w, d)
    /\ \A o \in B.ops : Live(o, s) => Has(B, w, d)

(* The answer A to the write in flight.  It is true of some earlier state   *)
(* of the file; live operations that it names left what is shown; the       *)
(* deletions it does not know are in the snapshots that will be rebased.    *)
HasAnswer(s) == s.run # None /\ s.run.at = "answered"
True(s, A, B, w, d) ==
    /\ Older(A, B) /\ Sane(A, w, d)
    /\ s.run.write.expected <= A.revision
    /\ s.run.answer.ok => s.run.first.op \in A.ops
Telling(s, A, w, d) ==
    /\ \A o \in A.ops : Live(o, s) => Has(A, w, d)
    /\ Live(s.run.first.op, s) => d \subseteq s.run.write.tombs \cup A.tombs
Covering(s, A, d) ==
    Current(s) /\ s.run.first.op \in A.ops =>
       /\ d \subseteq s.tombs \cup A.tombs
       /\ s.pending # None => d \subseteq s.pending.tombs \cup A.tombs
Answered(s, B, w, d) ==
    HasAnswer(s) => /\ True(s, s.run.answer.base, B, w, d)
                    /\ Telling(s, s.run.answer.base, w, d)
                    /\ Covering(s, s.run.answer.base, d)

(* A workspace that was read and will be applied. *)
Usable(s, ph, A) == A.revision >= s.revision \/ ph = "away"
Reading(s, ph, rd, B, w, d) ==
    rd # None =>
       /\ rd.goal = "open" <=> ph = "away"
       /\ Older(rd.base, B) /\ Sane(rd.base, w, d)
       /\ Usable(s, ph, rd.base) =>
             /\ s.record = None => Has(rd.base, w, d)
             /\ s.record # None =>
                   /\ d \subseteq s.record.tombs \cup rd.base.tombs
                   /\ s.record.op \in rd.base.ops => Has(rd.base, w, d)
       /\ HasAnswer(s) => \/ Older(rd.base, s.run.answer.base)
                          \/ Older(s.run.answer.base, rd.base)

Kept(s, ph, rd, rq, B, w, d) ==
    /\ Sendable(s, rq, B, w, d)
    /\ Numbered(s, rq, B)
    /\ Ordered(s, ph, B)
    /\ Recorded(s, ph, B, w, d)
    /\ Agreed(s, rq, B)
    /\ Chained(s, ph, B, w, d)
    /\ Applied(s, rq, B, w, d)
    /\ Answered(s, B, w, d)
    /\ Reading(s, ph, rd, B, w, d)

DraftInv ==
    /\ DraftTypeOK
    /\ World(server, busy, wanted, deleted, count.changes)
    /\ Kept(draft, phase, read, requests, server, wanted, deleted)

-----------------------------------------------------------------------------
LEMMA MaxOfTwo ==
    ASSUME NEW a \in Nat, NEW b \in Nat
    PROVE  Max({a, b}) = IF a >= b THEN a ELSE b
<1>1. \E x \in {a, b} : \A y \in {a, b} : x >= y
  BY SMT
<1>2. Max({a, b}) \in {a, b} /\ \A y \in {a, b} : Max({a, b}) >= y
  BY <1>1 DEF Max
<1> QED
  BY <1>2, SMT

(* What a merge m gives: the newer text of each comment, unless either side  *)
(* knows that it was deleted.                                               *)
Merges(text, tombs, base, m) ==
    /\ m = [text |-> m.text, tombs |-> m.tombs]
    /\ m.text \in Text
    /\ m.tombs = tombs \cup base.tombs
    /\ \A i \in m.tombs : m.text[i] = 0
    /\ \A i \in Ids \ m.tombs :
          /\ m.text[i] \in {text[i], base.text[i]}
          /\ m.text[i] >= text[i] /\ m.text[i] >= base.text[i]

LEMMA MergeIs ==
    ASSUME NEW text \in Text, NEW tombs \in SUBSET Ids, NEW base,
           base.text \in Text, base.tombs \in SUBSET Ids, MaxChanges \in Nat
    PROVE  Merges(text, tombs, base, Merge(text, tombs, base))
<1> DEFINE f == [i \in Ids |-> IF i \in tombs \cup base.tombs THEN 0
                               ELSE Max({text[i], base.text[i]})]
           m == Merge(text, tombs, base)
<1>1. m = [text |-> f, tombs |-> tombs \cup base.tombs]
  BY DEF Merge
<1>2. \A i \in Ids : text[i] \in 0..MaxChanges /\ base.text[i] \in 0..MaxChanges
  BY DEF Text
<1>3. ASSUME NEW i \in Ids
      PROVE  Max({text[i], base.text[i]})
                = IF text[i] >= base.text[i] THEN text[i] ELSE base.text[i]
  BY <1>2, MaxOfTwo
<1>4. \A i \in Ids : f[i] = IF i \in tombs \cup base.tombs THEN 0
                            ELSE IF text[i] >= base.text[i] THEN text[i]
                            ELSE base.text[i]
  BY <1>3
<1>5. f \in Text
  <2>1. \A i \in Ids : f[i] \in 0..MaxChanges
    BY <1>2, <1>4
  <2> QED
    BY <2>1 DEF Text
<1> HIDE DEF f, m
<1>6. /\ m.tombs = tombs \cup base.tombs
      /\ m.text = f
      /\ m = [text |-> m.text, tombs |-> m.tombs]
  BY <1>1
<1>7. \A i \in m.tombs : m.text[i] = 0
  BY <1>4, <1>5, <1>6 DEF Text
<1>8. ASSUME NEW i \in Ids \ m.tombs
      PROVE  /\ m.text[i] \in {text[i], base.text[i]}
             /\ m.text[i] >= text[i] /\ m.text[i] >= base.text[i]
  BY <1>2, <1>4, <1>6
<1> QED
  BY <1>5, <1>6, <1>7, <1>8 DEF m, Merges

LEMMA RebaseIs ==
    ASSUME NEW X \in DraftWrite, NEW A \in Draft, MaxChanges \in Nat,
           NEW Y, Y = Rebase(X, A)
    PROVE  /\ Y \in DraftWrite
           /\ Y.op = X.op /\ Y.expected = A.revision
           /\ Y.tombs = X.tombs \cup A.tombs
           /\ \A i \in Y.tombs : Y.text[i] = 0
           /\ \A i \in Ids \ Y.tombs :
                 /\ Y.text[i] \in {X.text[i], A.text[i]}
                 /\ Y.text[i] >= X.text[i] /\ Y.text[i] >= A.text[i]
<1> DEFINE m == Merge(X.text, X.tombs, A)
<1>0. /\ X.text \in Text /\ X.tombs \in SUBSET Ids
      /\ A.text \in Text /\ A.tombs \in SUBSET Ids
  BY DEF DraftWrite, Draft
<1>1. /\ m.text \in Text
      /\ m.tombs = X.tombs \cup A.tombs
      /\ \A i \in m.tombs : m.text[i] = 0
      /\ \A i \in Ids \ m.tombs :
            /\ m.text[i] \in {X.text[i], A.text[i]}
            /\ m.text[i] >= X.text[i] /\ m.text[i] >= A.text[i]
  <2>1. Merges(X.text, X.tombs, A, m)
    BY <1>0, MergeIs
  <2> HIDE DEF m
  <2> QED
    BY <2>1 DEF Merges
<1>2. Y = [X EXCEPT !.expected = A.revision, !.text = m.text, !.tombs = m.tombs]
  BY DEF Rebase
<1> HIDE DEF m
<1>3. Y.op = X.op /\ Y.expected = A.revision /\ Y.text = m.text /\ Y.tombs = m.tombs
  BY <1>2 DEF DraftWrite
<1>4. Y \in DraftWrite
  BY <1>1, <1>2 DEF DraftWrite, Draft
<1> QED
  BY <1>1, <1>3, <1>4

LEMMA OlderIsReflexive ==
    ASSUME NEW B \in Draft, MaxChanges \in Nat PROVE Older(B, B)
BY DEF Older, Within, Draft, Text

LEMMA OlderIsTransitive ==
    ASSUME NEW A \in Draft, NEW B \in Draft, NEW C \in Draft,
           MaxChanges \in Nat,
           Older(A, B), Older(B, C)
    PROVE  Older(A, C)
<1>1. Within(A.text, A.tombs, C)
  BY DEF Older, Within, Draft, Text
<1>2. A.revision = C.revision => A = C
  BY DEF Older, Draft
<1> QED
  BY <1>1, <1>2 DEF Older, Draft

(* What an older draft has of the user's comments, a newer one has.         *)
LEMMA Grows ==
    ASSUME NEW B \in Draft, NEW w \in Text, NEW d \in SUBSET Ids,
           NEW text, NEW tombs, text = w, Within(text, tombs, B),
           d \subseteq B.tombs, Sane(B, w, d), Gone(w, d), MaxChanges \in Nat
    PROVE  Has(B, w, d)
<1>1. ASSUME NEW i \in Ids PROVE B.text[i] = w[i]
  <2>1. CASE i \in d
    BY <2>1 DEF Sane, Clean, Gone
  <2>2. CASE i \notin d
    <3>1. i \notin B.tombs
      BY <2>2 DEF Sane, Fits
    <3> QED
      BY <2>2, <3>1 DEF Sane, Fits, Within, Text, Draft
  <2> QED
    BY <2>1, <2>2
<1>2. B.text = w
  BY <1>1 DEF Draft, Text
<1> QED
  BY <1>2 DEF Has

LEMMA HasGrows ==
    ASSUME NEW A \in Draft, NEW B \in Draft, NEW w \in Text,
           NEW d \in SUBSET Ids, Has(A, w, d), Older(A, B),
           Sane(B, w, d), Gone(w, d), MaxChanges \in Nat
    PROVE  Has(B, w, d)
<1>1. d \subseteq B.tombs /\ A.text = w /\ Within(A.text, A.tombs, B)
  BY DEF Has, Older, Within
<1> QED
  BY <1>1, Grows

(* A rebased snapshot.                                                      *)
LEMMA RebaseFits ==
    ASSUME NEW X \in DraftWrite, NEW A \in Draft, NEW B \in Draft,
           NEW w \in Text, NEW d \in SUBSET Ids, MaxChanges \in Nat,
           Fits(X, w, d), Fits(A, w, d), Older(A, B)
    PROVE  Fits(Rebase(X, A), w, d) /\ Over(Rebase(X, A), B)
<1> DEFINE Y == Rebase(X, A)
<1>1. /\ Y \in DraftWrite
      /\ Y.op = X.op /\ Y.expected = A.revision
      /\ Y.tombs = X.tombs \cup A.tombs
      /\ \A i \in Y.tombs : Y.text[i] = 0
      /\ \A i \in Ids \ Y.tombs :
            /\ Y.text[i] \in {X.text[i], A.text[i]}
            /\ Y.text[i] >= X.text[i] /\ Y.text[i] >= A.text[i]
  BY RebaseIs
<1> HIDE DEF Y
<1>2. Fits(Y, w, d)
  BY <1>1 DEF Fits, Text, Draft, DraftWrite
<1>3. Over(Y, B)
  <2>1. Y.expected <= B.revision
    BY <1>1 DEF Older
  <2>2. ASSUME Y.expected = B.revision, NEW i \in Ids, i \notin Y.tombs
        PROVE  B.text[i] <= Y.text[i]
    BY <1>1, <2>2 DEF Older, Draft, Text, DraftWrite
  <2> QED
    BY <2>1, <2>2 DEF Over
<1> QED
  BY <1>2, <1>3 DEF Y

LEMMA RebaseWhole ==
    ASSUME NEW X \in DraftWrite, NEW A \in Draft,
           NEW w \in Text, NEW d \in SUBSET Ids, MaxChanges \in Nat,
           Fits(X, w, d), Fits(A, w, d), Gone(w, d),
           X.text = w, d \subseteq X.tombs \cup A.tombs
    PROVE  Rebase(X, A).text = w /\ d \subseteq Rebase(X, A).tombs
<1> DEFINE Y == Rebase(X, A)
<1>1. /\ Y \in DraftWrite
      /\ Y.tombs = X.tombs \cup A.tombs
      /\ \A i \in Y.tombs : Y.text[i] = 0
      /\ \A i \in Ids \ Y.tombs :
            /\ Y.text[i] \in {X.text[i], A.text[i]}
            /\ Y.text[i] >= X.text[i] /\ Y.text[i] >= A.text[i]
  BY RebaseIs
<1> HIDE DEF Y
<1>2. ASSUME NEW i \in Ids PROVE Y.text[i] = w[i]
  <2>1. CASE i \in Y.tombs
    BY <1>1, <2>1 DEF Fits, Gone
  <2>2. CASE i \notin Y.tombs
    BY <1>1, <2>2 DEF Fits, Text, Draft, DraftWrite
  <2> QED
    BY <2>1, <2>2
<1>3. Y.text = w
  BY <1>1, <1>2 DEF DraftWrite, Text
<1> QED
  BY <1>1, <1>3 DEF Y

-----------------------------------------------------------------------------
(* QueueDraft.                                                              *)

NextOp(s) == IF s.recoveryOp # 0 THEN s.recoveryOp ELSE s.ops + 1
Snapshot(s) == [op |-> NextOp(s), expected |-> s.revision,
                text |-> s.text, tombs |-> s.tombs]
NewRun(X) == [write |-> X, first |-> X, rebases |-> 0, at |-> "sent",
              answer |-> None, current |-> TRUE]
Known(s) == Merge(s.text, s.tombs, [text |-> NoText, tombs |-> s.ack.tombs])
               = s.ack

Quiet(s) == s.pending = None /\ ~s.error /\ Known(s)

(* t is what QueueDraft leaves of s.                                        *)
Skipping(s, t) == /\ Known(s) /\ s.pending = None
                  /\ t.pending = None /\ t.run = s.run
Waiting(s, t) == /\ s.run # None /\ t.run = s.run
                 /\ t.pending = Snapshot(s)
Starting(s, t) == /\ s.run = None /\ t.run = NewRun(Snapshot(s))
                  /\ t.pending = None
Queues(s, t) ==
    /\ t.text = s.text /\ t.tombs = s.tombs
    /\ t.revision = s.revision /\ t.ack = s.ack /\ t.recoveryOp = 0
    /\ t.record = IF s.text = NoText /\ s.tombs = {} THEN None
                  ELSE [op |-> NextOp(s), text |-> s.text, tombs |-> s.tombs]
    /\ t.ops = IF NextOp(s) >= s.ops THEN NextOp(s) ELSE s.ops
    /\ Skipping(s, t) \/ Waiting(s, t) \/ Starting(s, t)
    /\ Quiet(s) => Skipping(s, t)

LEMMA NextOpType ==
    ASSUME NEW s \in DraftRenderer PROVE NextOp(s) \in Nat
BY DEF DraftRenderer, NextOp

LEMMA SnapshotType ==
    ASSUME NEW s \in DraftRenderer PROVE Snapshot(s) \in DraftWrite
BY NextOpType DEF DraftRenderer, Snapshot, DraftWrite

LEMMA NewRunType ==
    ASSUME NEW X \in DraftWrite, DraftAssumption PROVE NewRun(X) \in Run
BY DEF DraftAssumption, NewRun, Run

LEMMA StartIs ==
    ASSUME NEW s \in DraftRenderer, DraftAssumption
    PROVE  /\ Start(s) \in DraftRenderer
           /\ s.pending = None \/ s.run # None => Start(s) = s
           /\ s.pending # None /\ s.run = None =>
                 Start(s) = [s EXCEPT !.pending = None,
                                      !.run = NewRun(s.pending)]
<1>1. CASE s.pending = None \/ s.run # None
  BY <1>1 DEF Start
<1>2. CASE s.pending # None /\ s.run = None
  <2>1. Start(s) = [s EXCEPT !.pending = None, !.run = NewRun(s.pending)]
    BY <1>2 DEF Start, NewRun
  <2>2. NewRun(s.pending) \in Run
    BY <1>2, NewRunType DEF DraftRenderer
  <2> QED
    BY <1>2, <2>1, <2>2 DEF DraftRenderer
<1> QED
  BY <1>1, <1>2

LEMMA QueueIs ==
    ASSUME NEW s \in DraftRenderer, DraftAssumption
    PROVE  QueueDraft(s) \in DraftRenderer /\ Queues(s, QueueDraft(s))
<1> DEFINE op == NextOp(s)
           X == Snapshot(s)
           top == IF op >= s.ops THEN op ELSE s.ops
           rec == IF s.text = NoText /\ s.tombs = {} THEN None
                  ELSE [op |-> op, text |-> s.text, tombs |-> s.tombs]
           k == [s EXCEPT !.recoveryOp = 0, !.ops = top, !.record = rec]
           q == Queue(k, X)
<1>1. op \in Nat /\ X \in DraftWrite
  BY NextOpType, SnapshotType
<1>2. Max({op, s.ops}) = top
  BY <1>1, MaxOfTwo DEF DraftRenderer
<1>3. QueueDraft(s) = Start(q)
  <2>1. Keep([s EXCEPT !.recoveryOp = 0, !.ops = top], op, s.text, s.tombs) = k
    BY DEF Keep, DraftRenderer
  <2> QED
    BY <1>2, <2>1 DEF QueueDraft, NextOp, Snapshot
<1>4. rec \in Record \cup {None}
  BY <1>1 DEF DraftRenderer, Record
<1>5. /\ k \in DraftRenderer
      /\ k.text = s.text /\ k.tombs = s.tombs /\ k.revision = s.revision
      /\ k.ack = s.ack /\ k.recoveryOp = 0 /\ k.record = rec /\ k.ops = top
      /\ k.pending = s.pending /\ k.run = s.run /\ k.error = s.error
  <2>1. top \in Nat
    BY <1>1 DEF DraftRenderer
  <2> HIDE DEF top, rec
  <2> QED
    BY <1>4, <2>1 DEF DraftRenderer
<1>6. X.text = s.text /\ X.tombs = s.tombs /\ X # None
  BY <1>1 DEF Snapshot, DraftAssumption
<1> HIDE DEF k, X, op
<1>7. CASE Quiet(s)
  <2>1. q = k
    BY <1>5, <1>6, <1>7 DEF Queue, Known, Quiet
  <2>2. QueueDraft(s) = k
    BY <1>3, <1>5, <1>7, <2>1, StartIs DEF Quiet
  <2> QED
    BY <1>5, <1>7, <2>2 DEF Queues, Skipping, Quiet, op
<1>8. CASE ~Quiet(s)
  <2>1. q = [k EXCEPT !.pending = X, !.error = FALSE]
    BY <1>5, <1>6, <1>8 DEF Queue, Known, Quiet
  <2>2. q \in DraftRenderer /\ q.pending = X /\ q.run = s.run
    BY <1>1, <1>5, <2>1 DEF DraftRenderer
  <2>3. /\ q.text = s.text /\ q.tombs = s.tombs /\ q.revision = s.revision
        /\ q.ack = s.ack /\ q.recoveryOp = 0 /\ q.record = rec /\ q.ops = top
    BY <1>5, <2>1 DEF DraftRenderer
  <2> HIDE DEF q
  <2>4. CASE s.run # None
    <3>1. QueueDraft(s) = q
      BY <1>3, <2>2, <2>4, StartIs
    <3> QED
      BY <1>8, <2>2, <2>3, <2>4, <3>1 DEF Queues, Waiting, X, op
  <2>5. CASE s.run = None
    <3>1. QueueDraft(s) = [q EXCEPT !.pending = None, !.run = NewRun(X)]
      BY <1>3, <1>6, <2>2, <2>5, StartIs
    <3>2. NewRun(X) \in Run
      BY <1>1, NewRunType
    <3> HIDE DEF rec, top
    <3>3. /\ QueueDraft(s) \in DraftRenderer
          /\ QueueDraft(s).pending = None /\ QueueDraft(s).run = NewRun(X)
      BY <2>2, <3>1, <3>2 DEF DraftRenderer
    <3>4. /\ QueueDraft(s).text = s.text /\ QueueDraft(s).tombs = s.tombs
          /\ QueueDraft(s).revision = s.revision /\ QueueDraft(s).ack = s.ack
          /\ QueueDraft(s).recoveryOp = 0
          /\ QueueDraft(s).record = rec /\ QueueDraft(s).ops = top
      BY <2>2, <2>3, <3>1 DEF DraftRenderer
    <3> QED
      BY <1>8, <2>5, <3>3, <3>4 DEF Queues, Starting, X, op, rec, top
  <2> QED
    BY <2>4, <2>5
<1> QED
  BY <1>7, <1>8

-----------------------------------------------------------------------------
(* What QueueDraft needs of s, and what it gives.  R is a workspace that is *)
(* being read, if any.                                                      *)

Ready(s, rq, B, w, d) ==
    /\ s.text = w /\ s.tombs \subseteq d /\ d \subseteq s.tombs \cup B.tombs
    /\ s.recoveryOp # 0 => s.record # None /\ s.recoveryOp = s.record.op
    /\ s.run # None => s.run.write.op = s.run.first.op
    /\ HasAnswer(s) => s.run.answer # None
    /\ s.revision <= B.revision
    /\ Within(s.ack.text, s.ack.tombs, B)
    /\ Sendable(s, rq, B, w, d)
    /\ Numbered(s, rq, B)

(* What an operation that is live stands for: needed when s is not about to *)
(* get a fresh one, or nothing is to be queued.                             *)
Standing(s, rq, B, w, d) ==
    /\ s.pending = None /\ Current(s) => Whole(s.run.first, B, w, d)
    /\ Applied(s, rq, B, w, d)
    /\ HasAnswer(s) => Telling(s, s.run.answer.base, w, d)

LEMMA SnapshotFits ==
    ASSUME NEW s \in DraftRenderer, NEW rq, NEW B \in Draft, NEW w \in Text,
           NEW d \in SUBSET Ids, DraftAssumption,
           Ready(s, rq, B, w, d), Sane(B, w, d)
    PROVE  LET X == Snapshot(s) IN
           /\ Fits(X, w, d) /\ Over(X, B) /\ Whole(X, B, w, d)
           /\ X.op = NextOp(s) /\ X.tombs = s.tombs /\ X.text = s.text
           /\ X \in DraftWrite /\ X # None
<1> DEFINE X == Snapshot(s)
<1>1. /\ X.op = NextOp(s) /\ X.tombs = s.tombs /\ X.text = s.text
      /\ X.expected = s.revision
  BY DEF Snapshot
<1>2. X \in DraftWrite /\ X # None
  BY SnapshotType DEF DraftAssumption
<1> HIDE DEF X
<1>3. Whole(X, B, w, d)
  BY <1>1 DEF Ready, Whole
<1>4. Fits(X, w, d)
  BY <1>1 DEF Ready, Fits, Text
<1>5. Over(X, B)
  <2>1. X.expected <= B.revision
    BY <1>1 DEF Ready
  <2>2. ASSUME NEW i \in Ids
        PROVE  B.text[i] <= X.text[i] \/ i \in X.tombs \cup B.tombs
    BY <1>1 DEF Ready, Sane, Fits
  <2> QED
    BY <2>1, <2>2 DEF Over
<1> QED
  BY <1>1, <1>2, <1>3, <1>4, <1>5 DEF X

LEMMA QueuedSnapshots ==
    ASSUME NEW s \in DraftRenderer, NEW t \in DraftRenderer, Queues(s, t),
           DraftAssumption
    PROVE  /\ Snapshots(t) \subseteq Snapshots(s) \cup {Snapshot(s)}
           /\ \/ t.run = s.run
              \/ s.run = None /\ t.run = NewRun(Snapshot(s))
           /\ (t.pending = None \/ t.pending = Snapshot(s))
<1>1. NewRun(Snapshot(s)).write = Snapshot(s)
      /\ NewRun(Snapshot(s)).first = Snapshot(s)
  BY DEF NewRun
<1> DEFINE X == Snapshot(s)
<1>2. NewRun(X) # None /\ X # None
  BY SnapshotType, NewRunType DEF DraftAssumption
<1> HIDE DEF X
<1>3. CASE Skipping(s, t)
  BY <1>3 DEF Skipping, Snapshots
<1>4. CASE Waiting(s, t)
  <2>1. t.run = s.run /\ t.pending = X
    BY <1>4 DEF Waiting, X
  <2> QED
    BY <2>1 DEF Snapshots, X
<1>5. CASE Starting(s, t)
  <2>1. s.run = None /\ t.run = NewRun(X) /\ t.pending = None
    BY <1>5 DEF Starting, X
  <2>2. Snapshots(t) = {X}
    BY <1>1, <1>2, <2>1 DEF Snapshots, X
  <2> QED
    BY <2>1, <2>2 DEF X
<1> QED
  BY <1>3, <1>4, <1>5 DEF Queues

(* When nothing is queued, the file has what is shown.                      *)
LEMMA SkippingHas ==
    ASSUME NEW s \in DraftRenderer, NEW t, NEW rq, NEW B \in Draft,
           NEW w \in Text,
           NEW d \in SUBSET Ids, DraftAssumption,
           Ready(s, rq, B, w, d), Sane(B, w, d), Gone(w, d), Skipping(s, t)
    PROVE  Has(B, w, d)
<1> DEFINE e == [text |-> NoText, tombs |-> s.ack.tombs]
           m == Merge(s.text, s.tombs, e)
<1>0. MaxChanges \in Nat
  BY DEF DraftAssumption
<1>1. /\ s.text \in Text /\ s.tombs \in SUBSET Ids
      /\ e.text \in Text /\ e.tombs \in SUBSET Ids
      /\ e.tombs = s.ack.tombs /\ e.text = NoText
  BY <1>0 DEF DraftRenderer, Text, NoText
<1>2. m = s.ack
  BY DEF Skipping, Known, Ready
<1> HIDE DEF e
<1> HIDE DEF m
<1>8. m = Merge(s.text, s.tombs, e)
  BY DEF m
<1>3. /\ m.tombs = s.tombs \cup e.tombs
      /\ \A i \in m.tombs : m.text[i] = 0
      /\ \A i \in Ids \ m.tombs : m.text[i] >= s.text[i]
  <2>1. Merges(s.text, s.tombs, e, m)
    BY <1>0, <1>1, <1>8, MergeIs
  <2> QED
    BY <2>1 DEF Merges
<1>4. s.tombs \subseteq B.tombs
  BY <1>1, <1>2, <1>3 DEF Ready, Within
<1>5. d \subseteq B.tombs
  BY <1>4 DEF Ready
<1>6. ASSUME NEW i \in Ids PROVE w[i] <= B.text[i] \/ i \in B.tombs
  <2>1. CASE i \in m.tombs
    BY <1>2, <2>1 DEF Ready, Within
  <2>2. CASE i \notin m.tombs
    <3>1. s.ack.text[i] >= w[i]
      BY <1>2, <1>3, <2>2 DEF Ready
    <3>2. s.ack.text[i] <= B.text[i] \/ i \in B.tombs
      BY DEF Ready, Within
    <3>3. s.ack.text[i] \in Nat /\ w[i] \in Nat /\ B.text[i] \in Nat
      BY DEF DraftRenderer, Text, Draft
    <3> QED
      BY <3>1, <3>2, <3>3
  <2> QED
    BY <2>1, <2>2
<1>7. Within(w, s.tombs, B)
  BY <1>4, <1>6 DEF Within
<1> QED
  BY <1>0, <1>5, <1>7, Grows

LEMMA QueuedSendable ==
    ASSUME NEW s \in DraftRenderer, NEW t \in DraftRenderer,
           NEW rq \in SUBSET DraftWrite,
           NEW B \in Draft, NEW w \in Text, NEW d \in SUBSET Ids,
           DraftAssumption, Ready(s, rq, B, w, d), Sane(B, w, d), Queues(s, t)
    PROVE  Sendable(t, rq, B, w, d)
<1>1. Fits(Snapshot(s), w, d) /\ Over(Snapshot(s), B)
  BY SnapshotFits
<1>2. Snapshots(t) \subseteq Snapshots(s) \cup {Snapshot(s)}
  BY QueuedSnapshots
<1> QED
  BY <1>1, <1>2 DEF Ready, Sendable

LEMMA QueuedNumbered ==
    ASSUME NEW s \in DraftRenderer, NEW t \in DraftRenderer,
           NEW rq \in SUBSET DraftWrite,
           NEW B \in Draft, NEW w \in Text, NEW d \in SUBSET Ids,
           DraftAssumption, Ready(s, rq, B, w, d), Sane(B, w, d), Queues(s, t)
    PROVE  Numbered(t, rq, B) /\ s.ops <= t.ops /\ NextOp(s) <= t.ops
<1>1. Snapshot(s).op = NextOp(s) /\ Snapshot(s) \in DraftWrite
  BY SnapshotFits
<1>2. Snapshots(t) \subseteq Snapshots(s) \cup {Snapshot(s)}
  BY QueuedSnapshots
<1>3. NextOp(s) \in Nat /\ s.ops \in Nat
  BY NextOpType DEF DraftRenderer
<1>4. s.ops <= t.ops /\ NextOp(s) <= t.ops /\ t.ops \in Nat
  BY <1>3 DEF Queues
<1>5. \A X \in Snapshots(s) \cup rq : X \in DraftWrite /\ X.op <= s.ops
  BY DEF Ready, Numbered, Snapshots, DraftRenderer, Run
<1>6. \A X \in Snapshots(t) \cup rq : X.op <= t.ops
  <2> SUFFICES ASSUME NEW X \in Snapshots(t) \cup rq PROVE X.op <= t.ops
    OBVIOUS
  <2>1. CASE X = Snapshot(s)
    BY <1>1, <1>4, <2>1
  <2>2. CASE X \in Snapshots(s) \cup rq
    BY <1>3, <1>4, <1>5, <2>2 DEF DraftWrite
  <2> QED
    BY <1>2, <2>1, <2>2
<1>7. \A o \in B.ops : o <= t.ops
  BY <1>3, <1>4 DEF Ready, Numbered, Draft
<1>8. t.record # None => t.record.op <= t.ops
  BY <1>4 DEF Queues
<1> QED
  BY <1>4, <1>6, <1>7, <1>8 DEF Numbered

LEMMA QueuedOrdered ==
    ASSUME NEW s \in DraftRenderer, NEW t \in DraftRenderer,
           NEW rq \in SUBSET DraftWrite,
           NEW B \in Draft, NEW w \in Text, NEW d \in SUBSET Ids,
           DraftAssumption, Ready(s, rq, B, w, d), Queues(s, t)
    PROVE  Ordered(t, "open", B)
<1>1. t.run = s.run \/ t.run = NewRun(Snapshot(s))
  BY QueuedSnapshots
<1>2. NewRun(Snapshot(s)).write.op = NewRun(Snapshot(s)).first.op
      /\ NewRun(Snapshot(s)).at = "sent"
  BY DEF NewRun
<1>3. t.run # None => t.run.write.op = t.run.first.op
  BY <1>1, <1>2 DEF Ready
<1>4. HasAnswer(t) => t.run.answer # None
  BY <1>1, <1>2 DEF Ready, HasAnswer
<1> QED
  BY <1>3, <1>4 DEF Ready, Queues, Ordered, HasAnswer

LEMMA QueuedRecorded ==
    ASSUME NEW s \in DraftRenderer, NEW t \in DraftRenderer,
           NEW rq \in SUBSET DraftWrite,
           NEW B \in Draft, NEW w \in Text, NEW d \in SUBSET Ids,
           DraftAssumption, Ready(s, rq, B, w, d), Sane(B, w, d), Gone(w, d),
           Queues(s, t)
    PROVE  Recorded(t, "open", B, w, d)
<1>0. MaxChanges \in Nat
  BY DEF DraftAssumption
<1> DEFINE r == [op |-> NextOp(s), text |-> s.text, tombs |-> s.tombs]
<1>1. r \in Record /\ r # None /\ r.text = s.text /\ r.tombs = s.tombs
  BY NextOpType DEF DraftRenderer, Record, DraftAssumption
<1> HIDE DEF r
<1>2. t.record = IF s.text = NoText /\ s.tombs = {} THEN None ELSE r
  BY DEF Queues, r
<1>3. t.text = w /\ t.tombs = s.tombs
  BY DEF Queues, Ready
<1>4. CASE s.text = NoText /\ s.tombs = {}
  <2>1. w = NoText /\ d \subseteq B.tombs
    BY <1>4 DEF Ready
  <2>2. Within(w, {}, B)
    BY <2>1 DEF Within, NoText, Draft, Text
  <2>3. Has(B, w, d)
    BY <1>0, <2>1, <2>2, Grows
  <2> QED
    BY <1>2, <1>3, <1>4, <2>1, <2>3 DEF Recorded
<1>5. CASE ~(s.text = NoText /\ s.tombs = {})
  BY <1>1, <1>2, <1>3, <1>5 DEF Recorded, Ready, Whole
<1> QED
  BY <1>4, <1>5

(* The operation of the snapshot is fresh, unless it is the record's.       *)
LEMMA FreshOp ==
    ASSUME NEW s \in DraftRenderer, NEW rq \in SUBSET DraftWrite,
           NEW B \in Draft, NEW w \in Text, NEW d \in SUBSET Ids,
           Ready(s, rq, B, w, d), s.recoveryOp = 0
    PROVE  /\ NextOp(s) \notin B.ops
           /\ \A X \in Snapshots(s) \cup rq : X.op # NextOp(s)
           /\ Unsent(NextOp(s), s, rq, B)
<1>1. NextOp(s) = s.ops + 1 /\ s.ops \in Nat
  BY DEF NextOp, DraftRenderer
<1>2. \A X \in Snapshots(s) \cup rq : X.op <= s.ops
  BY DEF Ready, Numbered
<1>3. \A o \in B.ops : o <= s.ops
  BY DEF Ready, Numbered
<1>4. s.run # None => s.run.first \in Snapshots(s)
  BY DEF Snapshots
<1>5. NextOp(s) \notin B.ops
  BY <1>1, <1>3
<1>6. \A X \in Snapshots(s) \cup rq : X.op # NextOp(s)
  BY <1>1, <1>2
<1> QED
  BY <1>4, <1>5, <1>6 DEF Unsent

LEMMA QueuedLive ==
    ASSUME NEW s \in DraftRenderer, NEW t \in DraftRenderer,
           NEW rq \in SUBSET DraftWrite,
           NEW B \in Draft, NEW w \in Text, NEW d \in SUBSET Ids,
           DraftAssumption, Ready(s, rq, B, w, d), Queues(s, t)
    PROVE  /\ \A o : Live(o, t) => \/ o = NextOp(s)
                                   \/ Skipping(s, t) /\ Live(o, s)
           /\ s.recoveryOp # 0 => Live(NextOp(s), s)
<1>1. t.record # None => t.record.op = NextOp(s)
  BY DEF Queues
<1>2. ASSUME NEW o, Live(o, t)
      PROVE  \/ o = NextOp(s)
             \/ Skipping(s, t) /\ Live(o, s)
  <2>1. CASE Skipping(s, t)
    BY <1>1, <1>2, <2>1 DEF Skipping, Live, Current
  <2>2. CASE Waiting(s, t)
    <3>1. t.pending.op = NextOp(s)
      BY <2>2 DEF Waiting, Snapshot
    <3>2. t.pending # None
      BY <2>2, SnapshotType DEF Waiting, DraftAssumption
    <3> QED
      BY <1>1, <1>2, <3>1, <3>2 DEF Live
  <2>3. CASE Starting(s, t)
    <3>1. t.pending = None /\ t.run.first.op = NextOp(s)
      BY <2>3 DEF Starting, NewRun, Snapshot
    <3> QED
      BY <1>1, <1>2, <3>1 DEF Live
  <2> QED
    BY <2>1, <2>2, <2>3 DEF Queues
<1>3. s.recoveryOp # 0 => Live(NextOp(s), s)
  BY DEF Ready, NextOp, Live
<1> QED
  BY <1>2, <1>3

LEMMA QueuedAgreed ==
    ASSUME NEW s \in DraftRenderer, NEW t \in DraftRenderer,
           NEW rq \in SUBSET DraftWrite,
           NEW B \in Draft, NEW w \in Text, NEW d \in SUBSET Ids,
           Ready(s, rq, B, w, d), Queues(s, t),
           s.recoveryOp # 0 => Agreed(s, rq, B)
    PROVE  Agreed(t, rq, B)
<1> SUFFICES ASSUME t.record # None
             PROVE  /\ Current(t) => \/ t.record.op = t.run.first.op
                                     \/ Unsent(t.record.op, t, rq, B)
                    /\ t.pending # None => \/ t.record.op = t.pending.op
                                           \/ Unsent(t.record.op, t, rq, B)
  BY DEF Agreed
<1>1. t.record.op = NextOp(s)
  BY DEF Queues
<1>2. t.pending # None => t.record.op = t.pending.op
  BY <1>1 DEF Queues, Skipping, Waiting, Starting, Snapshot
<1>3. CASE Starting(s, t)
  <2>1. t.run.first.op = NextOp(s)
    BY <1>3 DEF Starting, NewRun, Snapshot
  <2> QED
    BY <1>1, <1>2, <2>1
<1>4. CASE t.run = s.run
  <2>1. CASE s.recoveryOp = 0
    <3>1. Unsent(NextOp(s), s, rq, B)
      BY <2>1, FreshOp
    <3> QED
      BY <1>1, <1>2, <1>4, <3>1 DEF Unsent
  <2>2. CASE s.recoveryOp # 0
    <3>1. s.record # None /\ NextOp(s) = s.record.op
      BY <2>2 DEF Ready, NextOp
    <3> QED
      BY <1>1, <1>2, <1>4, <2>2, <3>1 DEF Agreed, Unsent, Current
  <2> QED
    BY <2>1, <2>2
<1> QED
  BY <1>3, <1>4 DEF Queues, Skipping, Waiting

LEMMA QueuedChained ==
    ASSUME NEW s \in DraftRenderer, NEW t \in DraftRenderer,
           NEW rq \in SUBSET DraftWrite,
           NEW B \in Draft, NEW w \in Text, NEW d \in SUBSET Ids,
           DraftAssumption, Ready(s, rq, B, w, d), Queues(s, t),
           Sane(B, w, d), Gone(w, d),
           Skipping(s, t) => Standing(s, rq, B, w, d)
    PROVE  Chained(t, "open", B, w, d)
<1>1. Whole(Snapshot(s), B, w, d) /\ Snapshot(s) # None
  BY SnapshotFits
<1>2. CASE Skipping(s, t)
  <2>1. Has(B, w, d)
    BY <1>2, SkippingHas
  <2>2. t.pending = None /\ s.pending = None /\ t.run = s.run
    BY <1>2 DEF Skipping
  <2> QED
    BY <1>2, <2>1, <2>2 DEF Chained, Standing, Current
<1>3. CASE Waiting(s, t)
  BY <1>1, <1>3 DEF Chained, Waiting
<1>4. CASE Starting(s, t)
  <2>1. /\ NewRun(Snapshot(s)).first = Snapshot(s)
        /\ NewRun(Snapshot(s)).current
    BY DEF NewRun
  <2>2. t.run # None
    BY <1>4, SnapshotType, NewRunType DEF Starting, DraftAssumption
  <2> QED
    BY <1>1, <1>4, <2>1, <2>2 DEF Chained, Starting, Current
<1> QED
  BY <1>2, <1>3, <1>4 DEF Queues

LEMMA QueuedApplied ==
    ASSUME NEW s \in DraftRenderer, NEW t \in DraftRenderer,
           NEW rq \in SUBSET DraftWrite,
           NEW B \in Draft, NEW w \in Text, NEW d \in SUBSET Ids,
           DraftAssumption, Ready(s, rq, B, w, d), Queues(s, t),
           Sane(B, w, d), Gone(w, d),
           s.recoveryOp # 0 \/ Skipping(s, t) => Standing(s, rq, B, w, d)
    PROVE  Applied(t, rq, B, w, d)
<1>1. Whole(Snapshot(s), B, w, d) /\ Snapshot(s).op = NextOp(s)
  BY SnapshotFits
<1>2. Snapshots(t) \subseteq Snapshots(s) \cup {Snapshot(s)}
  BY QueuedSnapshots
<1>3. \A o : Live(o, t) => \/ o = NextOp(s)
                           \/ Skipping(s, t) /\ Live(o, s)
  BY QueuedLive
<1>4. s.recoveryOp # 0 => Live(NextOp(s), s)
  BY QueuedLive
<1>5. s.recoveryOp = 0 => /\ NextOp(s) \notin B.ops
                          /\ \A X \in Snapshots(s) \cup rq : X.op # NextOp(s)
  BY FreshOp
<1>6. ASSUME NEW X \in Snapshots(t) \cup rq, Live(X.op, t), X.op \notin B.ops
      PROVE  Whole(X, B, w, d)
  <2>1. CASE X = Snapshot(s)
    BY <1>1, <2>1
  <2>2. CASE X \in Snapshots(s) \cup rq
    <3>1. Live(X.op, s) /\ Standing(s, rq, B, w, d)
      BY <1>3, <1>4, <1>5, <1>6, <2>2
    <3> QED
      BY <1>6, <2>2, <3>1 DEF Standing, Applied
  <2> QED
    BY <1>2, <1>6, <2>1, <2>2
<1>7. ASSUME NEW o \in B.ops, Live(o, t) PROVE Has(B, w, d)
  <2>1. Live(o, s) /\ Standing(s, rq, B, w, d)
    BY <1>3, <1>4, <1>5, <1>7
  <2> QED
    BY <1>7, <2>1 DEF Standing, Applied
<1> QED
  BY <1>6, <1>7 DEF Applied

LEMMA QueuedAnswered ==
    ASSUME NEW s \in DraftRenderer, NEW t \in DraftRenderer,
           NEW rq \in SUBSET DraftWrite,
           NEW B \in Draft, NEW w \in Text, NEW d \in SUBSET Ids,
           DraftAssumption, Ready(s, rq, B, w, d), Queues(s, t),
           s.recoveryOp # 0 \/ Skipping(s, t) => Standing(s, rq, B, w, d),
           HasAnswer(s) =>
               /\ True(s, s.run.answer.base, B, w, d)
               /\ Current(s) /\ s.run.first.op \in s.run.answer.base.ops =>
                     d \subseteq s.tombs \cup s.run.answer.base.tombs
    PROVE  Answered(t, B, w, d)
<1> SUFFICES ASSUME HasAnswer(t)
             PROVE  /\ True(t, t.run.answer.base, B, w, d)
                    /\ Telling(t, t.run.answer.base, w, d)
                    /\ Covering(t, t.run.answer.base, d)
  BY DEF Answered
<1> DEFINE A == t.run.answer.base
<1>1. t.run = s.run
  <2>1. NewRun(Snapshot(s)).at = "sent"
    BY DEF NewRun
  <2> QED
    BY <2>1, QueuedSnapshots DEF HasAnswer
<1>2. HasAnswer(s) /\ A = s.run.answer.base
  BY <1>1 DEF HasAnswer
<1> HIDE DEF A
<1>3. True(t, A, B, w, d)
  BY <1>1, <1>2 DEF True
<1>4. \A o : Live(o, t) => \/ o = NextOp(s)
                           \/ Skipping(s, t) /\ Live(o, s)
  BY QueuedLive
<1>5. s.recoveryOp # 0 => Live(NextOp(s), s)
  BY QueuedLive
<1>6. s.recoveryOp = 0 => /\ NextOp(s) \notin B.ops
                          /\ \A X \in Snapshots(s) \cup rq : X.op # NextOp(s)
  BY FreshOp
<1>7. A.ops \subseteq B.ops
  BY <1>3 DEF True, Older
<1>8. s.run.first \in Snapshots(s)
  BY <1>2 DEF HasAnswer, Snapshots
<1>9. Telling(t, A, w, d)
  <2>1. ASSUME NEW o \in A.ops, Live(o, t) PROVE Has(A, w, d)
    <3>1. Live(o, s) /\ Standing(s, rq, B, w, d)
      BY <1>4, <1>5, <1>6, <1>7, <2>1
    <3> QED
      BY <1>2, <2>1, <3>1 DEF Standing, Telling
  <2>2. ASSUME Live(t.run.first.op, t)
        PROVE  d \subseteq t.run.write.tombs \cup A.tombs
    <3>1. Live(s.run.first.op, s) /\ Standing(s, rq, B, w, d)
      BY <1>1, <1>4, <1>5, <1>6, <1>8, <2>2
    <3> QED
      BY <1>1, <1>2, <3>1 DEF Standing, Telling
  <2> QED
    BY <2>1, <2>2 DEF Telling
<1>10. Covering(t, A, d)
  <2>1. t.pending = None \/ t.pending.tombs = s.tombs
    <3>1. Snapshot(s).tombs = s.tombs
      BY DEF Snapshot
    <3> QED
      BY <3>1, QueuedSnapshots
  <2>2. t.tombs = s.tombs
    BY DEF Queues
  <2> QED
    BY <1>1, <1>2, <2>1, <2>2 DEF Covering, Current
<1> QED
  BY <1>3, <1>9, <1>10 DEF A

LEMMA QueuedReading ==
    ASSUME NEW s \in DraftRenderer, NEW t \in DraftRenderer, NEW rd \in Reads,
           NEW rq \in SUBSET DraftWrite,
           NEW B \in Draft, NEW w \in Text, NEW d \in SUBSET Ids,
           DraftAssumption, Ready(s, rq, B, w, d), Queues(s, t), Gone(w, d),
           s.recoveryOp = 0, rd.goal # "open",
           Older(rd.base, B), Sane(rd.base, w, d),
           rd.base.revision >= s.revision => d \subseteq s.tombs \cup rd.base.tombs,
           HasAnswer(s) => \/ Older(rd.base, s.run.answer.base)
                           \/ Older(s.run.answer.base, rd.base)
    PROVE  Reading(t, "open", rd, B, w, d)
<1> DEFINE A == rd.base
<1>0. A \in Draft /\ MaxChanges \in Nat
  BY DEF Reads, DraftAssumption
<1>1. HasAnswer(t) => t.run = s.run
  <2>1. NewRun(Snapshot(s)).at = "sent"
    BY DEF NewRun
  <2> QED
    BY <2>1, QueuedSnapshots DEF HasAnswer
<1>2. NextOp(s) \notin A.ops
  BY FreshOp DEF Older
<1> HIDE DEF A
<1>3. ASSUME Usable(t, "open", A)
      PROVE  /\ t.record = None => Has(A, w, d)
             /\ t.record # None =>
                   /\ d \subseteq t.record.tombs \cup A.tombs
                   /\ t.record.op \in A.ops => Has(A, w, d)
  <2>1. A.revision >= s.revision
    BY <1>3 DEF Usable, Queues
  <2>2. d \subseteq s.tombs \cup A.tombs
    BY <2>1 DEF A
  <2> DEFINE r == [op |-> NextOp(s), text |-> s.text, tombs |-> s.tombs]
  <2>3. r \in Record /\ r # None /\ r.op = NextOp(s) /\ r.tombs = s.tombs
    BY NextOpType DEF DraftRenderer, Record, DraftAssumption
  <2> HIDE DEF r
  <2>4. t.record = IF s.text = NoText /\ s.tombs = {} THEN None ELSE r
    BY DEF Queues, r
  <2>5. CASE s.text = NoText /\ s.tombs = {}
    <3>1. w = NoText /\ d \subseteq A.tombs
      BY <2>2, <2>5 DEF Ready
    <3>2. Within(w, {}, A)
      BY <1>0, <3>1 DEF Within, NoText, Draft, Text
    <3>3. Has(A, w, d)
      BY <1>0, <3>1, <3>2, Grows DEF A
    <3> QED
      BY <2>4, <2>5, <3>3
  <2>6. CASE ~(s.text = NoText /\ s.tombs = {})
    BY <1>2, <2>2, <2>3, <2>4, <2>6
  <2> QED
    BY <2>5, <2>6
<1>4. HasAnswer(t) => \/ Older(A, t.run.answer.base)
                      \/ Older(t.run.answer.base, A)
  BY <1>1 DEF HasAnswer, A
<1> QED
  BY <1>3, <1>4 DEF Reading, A

(* Together. *)
AnswerReady(s, B, w, d) ==
    HasAnswer(s) =>
        /\ True(s, s.run.answer.base, B, w, d)
        /\ Current(s) /\ s.run.first.op \in s.run.answer.base.ops =>
              d \subseteq s.tombs \cup s.run.answer.base.tombs
ReadReady(s, rd, B, w, d) ==
    rd # None =>
        /\ s.recoveryOp = 0 /\ rd.goal # "open"
        /\ Older(rd.base, B) /\ Sane(rd.base, w, d)
        /\ rd.base.revision >= s.revision =>
              d \subseteq s.tombs \cup rd.base.tombs
        /\ HasAnswer(s) => \/ Older(rd.base, s.run.answer.base)
                           \/ Older(s.run.answer.base, rd.base)

LEMMA QueuedKept ==
    ASSUME NEW s \in DraftRenderer, NEW t \in DraftRenderer,
           NEW rd \in Reads \cup {None},
           NEW rq \in SUBSET DraftWrite,
           NEW B \in Draft, NEW w \in Text, NEW d \in SUBSET Ids,
           DraftAssumption, Queues(s, t), Sane(B, w, d), Gone(w, d),
           Ready(s, rq, B, w, d),
           AnswerReady(s, B, w, d), ReadReady(s, rd, B, w, d),
           s.recoveryOp # 0 \/ Skipping(s, t) => Standing(s, rq, B, w, d),
           s.recoveryOp # 0 => Agreed(s, rq, B)
    PROVE  Kept(t, "open", rd, rq, B, w, d)
<1>1. Sendable(t, rq, B, w, d) /\ Numbered(t, rq, B) /\ Ordered(t, "open", B)
  BY QueuedSendable, QueuedNumbered, QueuedOrdered
<1>2. Recorded(t, "open", B, w, d) /\ Agreed(t, rq, B)
  BY QueuedRecorded, QueuedAgreed
<1>3. Chained(t, "open", B, w, d) /\ Applied(t, rq, B, w, d)
  BY QueuedChained, QueuedApplied
<1>4. Answered(t, B, w, d)
  BY QueuedAnswered DEF AnswerReady
<1>5. Reading(t, "open", rd, B, w, d)
  <2>1. CASE rd = None
    BY <2>1 DEF Reading
  <2>2. CASE rd \in Reads
    <3>1. rd # None
      BY <2>2 DEF DraftAssumption
    <3> QED
      BY <2>2, <3>1, QueuedReading DEF ReadReady
  <2> QED
    BY <2>1, <2>2
<1> QED
  BY <1>1, <1>2, <1>3, <1>4, <1>5 DEF Kept

(* An open document is ready at any time.                                   *)
LEMMA OpenIsReady ==
    ASSUME NEW s \in DraftRenderer, NEW rd \in Reads \cup {None},
           NEW rq \in SUBSET DraftWrite,
           NEW B \in Draft, NEW w \in Text, NEW d \in SUBSET Ids,
           Kept(s, "open", rd, rq, B, w, d)
    PROVE  /\ Ready(s, rq, B, w, d) /\ Standing(s, rq, B, w, d)
           /\ AnswerReady(s, B, w, d) /\ ReadReady(s, rd, B, w, d)
           /\ s.recoveryOp = 0
<1> USE DEF Kept
<1>1. s.text = w /\ s.tombs \subseteq d /\ d \subseteq s.tombs \cup B.tombs
  BY DEF Recorded, Whole, Has
<1>2. Ready(s, rq, B, w, d)
  BY <1>1 DEF Ready, Ordered, HasAnswer
<1>3. Standing(s, rq, B, w, d)
  BY DEF Standing, Chained, Answered
<1>4. AnswerReady(s, B, w, d)
  BY DEF AnswerReady, Answered, Covering
<1>5. ASSUME rd # None PROVE ReadReady(s, rd, B, w, d)
  <2>1. rd.base.revision >= s.revision => d \subseteq s.tombs \cup rd.base.tombs
    BY <1>5 DEF Reading, Recorded, Usable, Has
  <2> QED
    BY <1>5, <2>1 DEF ReadReady, Reading, Ordered
<1> QED
  BY <1>2, <1>3, <1>4, <1>5 DEF ReadReady, Ordered

LEMMA QueuingAgain ==
    ASSUME NEW s \in DraftRenderer, NEW rd \in Reads \cup {None},
           NEW rq \in SUBSET DraftWrite,
           NEW B \in Draft, NEW w \in Text, NEW d \in SUBSET Ids,
           DraftAssumption, Sane(B, w, d), Gone(w, d),
           Kept(s, "open", rd, rq, B, w, d)
    PROVE  /\ QueueDraft(s) \in DraftRenderer
           /\ Kept(QueueDraft(s), "open", rd, rq, B, w, d)
<1>1. QueueDraft(s) \in DraftRenderer /\ Queues(s, QueueDraft(s))
  BY QueueIs
<1> QED
  BY <1>1, OpenIsReady, QueuedKept

(* A write that is sent.                                                    *)
LEMMA SendKeeps ==
    ASSUME NEW s \in DraftRenderer, NEW ph, NEW rd,
           NEW rq \in SUBSET DraftWrite,
           NEW B \in Draft, NEW w \in Text, NEW d \in SUBSET Ids,
           NEW Z, s.run = None => Z = {},
           s.run # None => Z \subseteq {s.run.write},
           Kept(s, ph, rd, rq, B, w, d)
    PROVE  /\ Kept(s, ph, rd, rq \cup Z, B, w, d)
           /\ rq \cup Z \subseteq DraftWrite
<1>1. Z \subseteq Snapshots(s) /\ Z \subseteq DraftWrite
  BY DEF Snapshots, DraftRenderer, Run
<1>2. Snapshots(s) \cup (rq \cup Z) = Snapshots(s) \cup rq
  BY <1>1
<1>3. \A X \in Z : s.run # None /\ X.op = s.run.first.op
  BY DEF Kept, Ordered
<1>4. \A o : Unsent(o, s, rq, B) => Unsent(o, s, rq \cup Z, B)
  BY <1>3 DEF Unsent
<1>5. /\ Sendable(s, rq \cup Z, B, w, d) /\ Numbered(s, rq \cup Z, B)
      /\ Applied(s, rq \cup Z, B, w, d)
  BY <1>2 DEF Kept, Sendable, Numbered, Applied
<1>6. Agreed(s, rq \cup Z, B)
  BY <1>4 DEF Kept, Agreed
<1> QED
  BY <1>1, <1>5, <1>6 DEF Kept

LEMMA SentIs ==
    ASSUME NEW s
    PROVE  /\ s.run = None => Sent(s) = {}
           /\ s.run # None => Sent(s) \subseteq {s.run.write}
BY DEF Sent

LEMMA BecomesKeeps ==
    ASSUME NEW s \in DraftRenderer, NEW ph, NEW rd, NEW B \in Draft,
           NEW w \in Text,
           NEW d \in SUBSET Ids, requests \in SUBSET DraftWrite,
           Becomes(s), Kept(s, ph, rd, requests, B, w, d)
    PROVE  /\ Kept(draft', ph, rd, requests', B, w, d)
           /\ draft' \in DraftRenderer /\ requests' \subseteq DraftWrite
BY SentIs, SendKeeps DEF Becomes

-----------------------------------------------------------------------------
(* The user.                                                                *)

(* The user's comments become w2 and d2, and s those of s1.                 *)
LEMMA UserChanges ==
    ASSUME NEW s \in DraftRenderer, NEW s1 \in DraftRenderer,
           NEW rd \in Reads \cup {None},
           NEW rq \in SUBSET DraftWrite, NEW B \in Draft,
           NEW w \in Text, NEW d \in SUBSET Ids,
           NEW w2 \in Text, NEW d2 \in SUBSET Ids, DraftAssumption,
           Kept(s, "open", rd, rq, B, w, d), Sane(B, w, d), Gone(w2, d2),
           NEW text, NEW tombs, s1 = [s EXCEPT !.text = text,
           !.tombs = tombs],
           text = w2, tombs \subseteq d2, d2 \subseteq tombs \cup (d \ s.tombs),
           d \subseteq d2, \A i \in Ids : w[i] <= w2[i] \/ i \in d2,
           ~Has(B, w2, d2)
    PROVE  /\ Changed(s1) \in DraftRenderer
           /\ Kept(Changed(s1), "open", rd, rq, B, w2, d2)
           /\ Sane(B, w2, d2)
<1>1. \A X : (\A i \in Ids : X.text[i] \in Nat) /\ Fits(X, w, d) => Fits(X, w2, d2)
  BY DEF Fits, Text
<1>2. \A A \in Draft : Sane(A, w, d) => Sane(A, w2, d2)
  BY <1>1 DEF Sane, Draft, Text
<1>3. Sane(B, w2, d2)
  BY <1>2
<1>4. /\ s1.text = w2 /\ s1.tombs = tombs /\ s1.record = s.record
      /\ s1.recoveryOp = s.recoveryOp /\ s1.revision = s.revision
      /\ s1.ack = s.ack /\ s1.pending = s.pending /\ s1.run = s.run
      /\ s1.ops = s.ops
  BY DEF DraftRenderer
<1>5. Snapshots(s1) = Snapshots(s)
  BY <1>4 DEF Snapshots
<1>6. \A X \in Snapshots(s) \cup rq : X \in DraftWrite
  BY DEF Snapshots, DraftRenderer, Run
<1>7. Sendable(s1, rq, B, w2, d2)
  BY <1>1, <1>5, <1>6 DEF Kept, Sendable, DraftWrite, Text
<1>8. /\ Ready(s, rq, B, w, d) /\ AnswerReady(s, B, w, d)
      /\ ReadReady(s, rd, B, w, d) /\ s.recoveryOp = 0
  BY OpenIsReady
<1>9. Ready(s1, rq, B, w2, d2)
  <2>1. Numbered(s1, rq, B)
    BY <1>4, <1>5, <1>8 DEF Ready, Numbered
  <2>2. d2 \subseteq tombs \cup B.tombs
    BY <1>8 DEF Ready
  <2> QED
    BY <1>4, <1>7, <1>8, <2>1, <2>2 DEF Ready, HasAnswer
<1>10. AnswerReady(s1, B, w2, d2)
  <2>1. HasAnswer(s) => s.run.answer.base \in Draft
    BY <1>8 DEF HasAnswer, Ready, DraftRenderer, Run, AnswerType
  <2>2. HasAnswer(s) => True(s1, s.run.answer.base, B, w2, d2)
    BY <1>2, <1>4, <1>8, <2>1 DEF AnswerReady, True
  <2> QED
    BY <1>4, <1>8, <2>2 DEF AnswerReady, HasAnswer, Current
<1>11. ReadReady(s1, rd, B, w2, d2)
  <2>1. rd # None => rd.base \in Draft
    BY DEF Reads
  <2> QED
    BY <1>2, <1>4, <1>8, <2>1 DEF ReadReady, HasAnswer
<1>12. QueueDraft(s1) \in DraftRenderer /\ Queues(s1, QueueDraft(s1))
  BY QueueIs
<1>13. ~Skipping(s1, QueueDraft(s1))
  BY <1>3, <1>9, <1>12, SkippingHas
<1>14. Kept(QueueDraft(s1), "open", rd, rq, B, w2, d2)
  BY <1>3, <1>4, <1>8, <1>9, <1>10, <1>11, <1>12, <1>13, QueuedKept
<1> QED
  BY <1>3, <1>12, <1>14, QueuingAgain DEF Changed

-----------------------------------------------------------------------------
(* Steps of the user.                                                       *)

Facts == /\ DraftAssumption /\ DraftInv
TypesNow ==
    /\ MaxChanges \in Nat
    /\ draft \in DraftRenderer /\ read \in Reads \cup {None}
    /\ requests \in SUBSET DraftWrite /\ server \in Draft
    /\ wanted \in Text /\ deleted \in SUBSET Ids

LEMMA Now ==
    ASSUME Facts
    PROVE  /\ DraftAssumption /\ DraftTypeOK /\ TypesNow
           /\ World(server, busy, wanted, deleted, count.changes)
           /\ Sane(server, wanted, deleted) /\ Gone(wanted, deleted)
           /\ Kept(draft, phase, read, requests, server, wanted, deleted)
BY DEF Facts, DraftInv, DraftTypeOK, TypesNow, World, DraftAssumption

LEMMA FlushDraftStep ==
    ASSUME Facts, FlushDraft PROVE DraftInv'
<1> USE Now
<1>1. phase = "open" /\ Becomes(QueueDraft(draft))
  BY DEF FlushDraft
<1>2. /\ QueueDraft(draft) \in DraftRenderer
      /\ Kept(QueueDraft(draft), "open", read, requests, server, wanted, deleted)
  BY <1>1, QueuingAgain DEF TypesNow
<1>3. /\ Kept(draft', "open", read, requests', server, wanted, deleted)
      /\ draft' \in DraftRenderer /\ requests' \subseteq DraftWrite
  BY <1>1, <1>2, BecomesKeeps DEF TypesNow
<1>4. UNCHANGED <<phase, read, server, pointer, busy, wanted, deleted>>
  BY DEF FlushDraft, bridge, user
<1>5. count' = [count EXCEPT !.flushes = @ + 1] /\ count.flushes < MaxFlushes
  BY DEF FlushDraft, Counts
<1>6. DraftTypeOK' /\ count'.changes = count.changes
  BY <1>3, <1>4, <1>5 DEF DraftTypeOK, DraftAssumption
<1> QED
  BY <1>1, <1>3, <1>4, <1>6 DEF DraftInv

LEMMA TextIs ==
    ASSUME NEW f \in Text, NEW i \in Ids, NEW n \in 0..MaxChanges
    PROVE  [f EXCEPT ![i] = n] \in Text
BY DEF Text

(* The rest of a change, whatever the change was.                           *)
LEMMA ChangeStep ==
    ASSUME Facts, phase = "open", count.changes < MaxChanges,
           NEW text, NEW tombs,
           [draft EXCEPT !.text = text, !.tombs = tombs] \in DraftRenderer,
           Becomes(Changed([draft EXCEPT !.text = text, !.tombs = tombs])),
           wanted' \in Text, deleted' \in SUBSET Ids,
           text = wanted', tombs \subseteq deleted',
           deleted' \subseteq tombs \cup (deleted \ draft.tombs),
           deleted \subseteq deleted', Gone(wanted', deleted'),
           \A i \in Ids : wanted[i] <= wanted'[i] \/ i \in deleted',
           \A i \in Ids : wanted'[i] <= count.changes + 1,
           ~Has(server, wanted', deleted'),
           Counts("changes"), UNCHANGED <<phase, read, bridge>>
    PROVE  DraftInv'
<1> USE Now
<1> DEFINE s == [draft EXCEPT !.text = text, !.tombs = tombs]
<1>1. /\ Changed(s) \in DraftRenderer
      /\ Kept(Changed(s), "open", read, requests, server, wanted', deleted')
      /\ Sane(server, wanted', deleted')
  <2> HIDE DEF s
  <2>1. s \in DraftRenderer /\ s = [draft EXCEPT !.text = text, !.tombs = tombs]
    BY DEF s
  <2> QED
    BY ZenonT(60), <2>1, UserChanges DEF TypesNow
<1> HIDE DEF s
<1>2. /\ Kept(draft', "open", read, requests', server, wanted', deleted')
      /\ draft' \in DraftRenderer /\ requests' \subseteq DraftWrite
  BY <1>1, BecomesKeeps DEF TypesNow, s
<1>3. UNCHANGED <<phase, read, server, pointer, busy>>
  BY DEF bridge
<1>4. count' = [count EXCEPT !.changes = @ + 1]
  BY DEF Counts
<1>5. DraftTypeOK' /\ count'.changes = count.changes + 1
  BY <1>2, <1>3, <1>4 DEF DraftTypeOK, DraftAssumption
<1>6. World(server', busy', wanted', deleted', count'.changes)
  BY <1>1, <1>3, <1>5 DEF World
<1> QED
  BY <1>2, <1>3, <1>5, <1>6 DEF DraftInv

LEMMA Shown ==
    ASSUME Facts, phase = "open"
    PROVE  /\ draft.text = wanted /\ draft.tombs \subseteq deleted
           /\ count.changes \in 0..MaxChanges
           /\ \A i \in Ids : wanted[i] <= count.changes
           /\ \A i \in Ids : wanted[i] \in Nat
           /\ \A i \in Ids : server.text[i] \in Nat
<1> USE Now
<1>1. draft.text = wanted /\ draft.tombs \subseteq deleted
  BY DEF Kept, Recorded
<1>2. count.changes \in 0..MaxChanges
  BY DEF DraftTypeOK
<1>3. \A i \in Ids : wanted[i] \in Nat /\ server.text[i] \in Nat
  BY DEF TypesNow, Text, Draft
<1> QED
  BY <1>1, <1>2, <1>3 DEF World

LEMMA CommitStep ==
    ASSUME Facts, NEW i \in Ids, CommitComment(i) PROVE DraftInv'
<1> USE Now
<1> DEFINE n == count.changes + 1
<1>1. /\ phase = "open" /\ count.changes < MaxChanges
      /\ wanted[i] = 0 /\ i \notin deleted
      /\ wanted' = [wanted EXCEPT ![i] = n] /\ deleted' = deleted
      /\ Becomes(Changed([draft EXCEPT !.text[i] = n, !.tombs = @ \ {i}]))
      /\ Counts("changes") /\ UNCHANGED <<phase, read, bridge>>
  BY DEF CommitComment
<1>2. /\ draft.text = wanted /\ draft.tombs \subseteq deleted
      /\ n \in 0..MaxChanges
      /\ \A j \in Ids : wanted[j] <= count.changes /\ wanted[j] \in Nat
      /\ \A j \in Ids : server.text[j] \in Nat
  BY <1>1, Shown DEF TypesNow
<1> HIDE DEF n
<1>3. wanted' \in Text
  BY <1>1, <1>2, TextIs DEF TypesNow
<1>4. [draft EXCEPT !.text[i] = n, !.tombs = @ \ {i}]
         = [draft EXCEPT !.text = wanted', !.tombs = draft.tombs]
  <2>1. draft.tombs \ {i} = draft.tombs
    BY <1>1, <1>2
  <2> QED
    BY <1>1, <1>2, <2>1 DEF TypesNow, DraftRenderer
<1>5. [draft EXCEPT !.text = wanted', !.tombs = draft.tombs] \in DraftRenderer
  BY <1>3 DEF TypesNow, DraftRenderer
<1>6. \A j \in Ids : wanted'[j] = IF j = i THEN n ELSE wanted[j]
  BY <1>1 DEF TypesNow, Text
<1>7. /\ Gone(wanted', deleted')
      /\ \A j \in Ids : wanted[j] <= wanted'[j]
      /\ \A j \in Ids : wanted'[j] <= n
  <2>1. n \in Nat /\ count.changes \in Nat
    BY <1>1, Shown DEF n
  <2>2. Gone(wanted', deleted')
    BY <1>1, <1>6 DEF Gone, TypesNow
  <2> QED
    BY <1>1, <1>2, <1>6, <2>1, <2>2 DEF n
<1>8. ~Has(server, wanted', deleted')
  <2>1. server.text[i] <= wanted[i]
    BY <1>1 DEF Sane, Fits
  <2>2. wanted'[i] = n /\ n > 0
    BY <1>1, <1>6, Shown DEF n
  <2>3. ~(n <= wanted[i])
    BY <1>1, <1>2, <2>2
  <2>4. Has(server, wanted', deleted') => server.text[i] = wanted'[i]
    BY DEF Has
  <2> QED
    BY <2>1, <2>2, <2>3, <2>4
<1> QED
  BY <1>1, <1>2, <1>3, <1>4, <1>5, <1>7, <1>8, ChangeStep DEF n, TypesNow

LEMMA EditStep ==
    ASSUME Facts, NEW i \in Ids, EditComment(i) PROVE DraftInv'
<1> USE Now
<1> DEFINE n == count.changes + 1
<1>1. /\ phase = "open" /\ count.changes < MaxChanges
      /\ draft.text[i] # 0
      /\ wanted' = [wanted EXCEPT ![i] = n] /\ deleted' = deleted
      /\ Becomes(Changed([draft EXCEPT !.text[i] = n]))
      /\ Counts("changes") /\ UNCHANGED <<phase, read, bridge>>
  BY DEF EditComment
<1>2. /\ draft.text = wanted /\ draft.tombs \subseteq deleted
      /\ n \in 0..MaxChanges
      /\ \A j \in Ids : wanted[j] <= count.changes /\ wanted[j] \in Nat
      /\ \A j \in Ids : server.text[j] \in Nat
  BY <1>1, Shown DEF TypesNow
<1> HIDE DEF n
<1>3. wanted' \in Text
  BY <1>1, <1>2, TextIs DEF TypesNow
<1>4. [draft EXCEPT !.text[i] = n]
         = [draft EXCEPT !.text = wanted', !.tombs = draft.tombs]
  BY <1>1, <1>2 DEF TypesNow, DraftRenderer
<1>5. [draft EXCEPT !.text = wanted', !.tombs = draft.tombs] \in DraftRenderer
  BY <1>3 DEF TypesNow, DraftRenderer
<1>6. \A j \in Ids : wanted'[j] = IF j = i THEN n ELSE wanted[j]
  BY <1>1 DEF TypesNow, Text
<1>7. i \notin deleted
  BY <1>1, <1>2 DEF Gone
<1>8. /\ Gone(wanted', deleted')
      /\ \A j \in Ids : wanted[j] <= wanted'[j]
      /\ \A j \in Ids : wanted'[j] <= n
  <2>1. n \in Nat /\ count.changes \in Nat
    BY <1>1, Shown DEF n
  <2>2. Gone(wanted', deleted')
    BY <1>1, <1>6, <1>7 DEF Gone, TypesNow
  <2> QED
    BY <1>1, <1>2, <1>6, <2>1, <2>2 DEF n
<1>9. ~Has(server, wanted', deleted')
  <2>1. server.text[i] <= wanted[i]
    BY <1>7 DEF Sane, Fits
  <2>2. wanted'[i] = n /\ n > wanted[i]
    BY <1>1, <1>2, <1>6, Shown DEF n
  <2>3. ~(n <= wanted[i])
    BY <1>1, <1>2, <2>2
  <2>4. Has(server, wanted', deleted') => server.text[i] = wanted'[i]
    BY DEF Has
  <2> QED
    BY <2>1, <2>2, <2>3, <2>4
<1> QED
  BY <1>1, <1>2, <1>3, <1>4, <1>5, <1>8, <1>9, ChangeStep DEF n, TypesNow

LEMMA DeleteStep ==
    ASSUME Facts, NEW i \in Ids, DeleteComment(i) PROVE DraftInv'
<1> USE Now
<1> DEFINE tombs == draft.tombs \cup {i}
<1>1. /\ phase = "open" /\ count.changes < MaxChanges
      /\ draft.text[i] # 0
      /\ wanted' = [wanted EXCEPT ![i] = 0] /\ deleted' = deleted \cup {i}
      /\ Becomes(Changed([draft EXCEPT !.text[i] = 0, !.tombs = @ \cup {i}]))
      /\ Counts("changes") /\ UNCHANGED <<phase, read, bridge>>
  BY DEF DeleteComment
<1>2. /\ draft.text = wanted /\ draft.tombs \subseteq deleted
      /\ \A j \in Ids : wanted[j] <= count.changes /\ wanted[j] \in Nat
      /\ count.changes \in Nat
  BY <1>1, Shown DEF TypesNow
<1>3. wanted' \in Text
  <2>1. 0 \in 0..MaxChanges
    BY DEF TypesNow
  <2> QED
    BY <1>1, <2>1, TextIs DEF TypesNow
<1>4. [draft EXCEPT !.text[i] = 0, !.tombs = @ \cup {i}]
         = [draft EXCEPT !.text = wanted', !.tombs = tombs]
  BY <1>1, <1>2 DEF TypesNow, DraftRenderer
<1>5. [draft EXCEPT !.text = wanted', !.tombs = tombs] \in DraftRenderer
  BY <1>3 DEF TypesNow, DraftRenderer
<1>6. \A j \in Ids : wanted'[j] = IF j = i THEN 0 ELSE wanted[j]
  BY <1>1 DEF TypesNow, Text
<1>7. i \notin deleted
  BY <1>1, <1>2 DEF Gone
<1>8. /\ Gone(wanted', deleted')
      /\ \A j \in Ids : wanted[j] <= wanted'[j] \/ j \in deleted'
      /\ \A j \in Ids : wanted'[j] <= count.changes + 1
  <2>1. Gone(wanted', deleted')
    BY <1>1, <1>6 DEF Gone, TypesNow
  <2> QED
    BY <1>1, <1>2, <1>6, <2>1
<1>9. ~Has(server, wanted', deleted')
  BY <1>1, <1>7 DEF Has, Sane, Fits
<1>10. /\ tombs \subseteq deleted' /\ deleted \subseteq deleted'
       /\ deleted' \subseteq tombs \cup (deleted \ draft.tombs)
       /\ deleted' \in SUBSET Ids
  BY <1>1, <1>2 DEF TypesNow
<1> HIDE DEF tombs
<1> QED
  BY <1>1, <1>3, <1>4, <1>5, <1>8, <1>9, <1>10, ChangeStep

-----------------------------------------------------------------------------
(* The write in flight: its failure.                                        *)

(* Snapshots that were there, operations that were live.                    *)
Calms(s, t) == /\ Snapshots(t) \subseteq Snapshots(s)
               /\ t.record = s.record /\ t.ops = s.ops
               /\ \A o : Live(o, t) => Live(o, s)

LEMMA Shrinks ==
    ASSUME NEW s \in DraftRenderer, NEW t \in DraftRenderer,
           NEW rq \in SUBSET DraftWrite, NEW B, NEW w, NEW d,
           Calms(s, t),
           Sendable(s, rq, B, w, d), Numbered(s, rq, B), Applied(s, rq, B, w, d)
    PROVE  /\ Sendable(t, rq, B, w, d)
           /\ Numbered(t, rq, B)
           /\ Applied(t, rq, B, w, d)
<1>1. Sendable(t, rq, B, w, d)
  BY DEF Sendable, Calms
<1>2. Numbered(t, rq, B)
  BY DEF Numbered, Calms
<1>3. Applied(t, rq, B, w, d)
  BY DEF Applied, Calms
<1> QED
  BY <1>1, <1>2, <1>3

(* A write that ends and leaves nothing, or what it was to record.          *)
LEMMA EndsKept ==
    ASSUME NEW s \in DraftRenderer, NEW ph, NEW rd,
           NEW rq \in SUBSET DraftWrite,
           NEW B \in Draft, NEW w \in Text, NEW d \in SUBSET Ids,
           DraftAssumption, Kept(s, ph, rd, rq, B, w, d), s.run # None,
           NEW p \in DraftWrite \cup {None}, NEW e \in BOOLEAN,
           NEW t, t = [s EXCEPT !.pending = p, !.error = e, !.run = None],
           p = IF s.pending = None /\ s.run.current THEN s.run.first ELSE s.pending
    PROVE  t \in DraftRenderer /\ Kept(t, ph, rd, rq, B, w, d)
<1> USE DEF Kept
<1>1. /\ t \in DraftRenderer
      /\ t.text = s.text /\ t.tombs = s.tombs /\ t.record = s.record
      /\ t.recoveryOp = s.recoveryOp /\ t.revision = s.revision
      /\ t.ack = s.ack /\ t.pending = p /\ t.run = None /\ t.ops = s.ops
  BY DEF DraftRenderer
<1>2. s.run.current <=> Current(s)
  BY DEF Current
<1>3. s.run.first # None
  BY DEF DraftRenderer, Run, DraftAssumption
<1>4. Snapshots(t) \subseteq Snapshots(s)
  BY <1>1 DEF Snapshots
<1>5. \A o : Live(o, t) => Live(o, s)
  BY <1>1, <1>2, <1>3 DEF Live, Current
<1>6. /\ Sendable(t, rq, B, w, d) /\ Numbered(t, rq, B)
      /\ Applied(t, rq, B, w, d)
  <2>1. Calms(s, t)
    BY <1>1, <1>4, <1>5 DEF Calms
  <2> QED
    BY <1>1, <2>1, Shrinks
<1>7. Ordered(t, ph, B) /\ Recorded(t, ph, B, w, d)
  BY <1>1, <1>2 DEF Ordered, Recorded, Current
<1>8. Agreed(t, rq, B)
  BY <1>1, <1>2 DEF Agreed, Unsent, Current
<1>9. Chained(t, ph, B, w, d)
  BY <1>1, <1>2, <1>3 DEF Chained, Current
<1>10. Answered(t, B, w, d) /\ Reading(t, ph, rd, B, w, d)
  BY <1>1 DEF Answered, Reading, HasAnswer, Usable
<1> QED
  BY <1>1, <1>6, <1>7, <1>8, <1>9, <1>10

LEMMA FailureKept ==
    ASSUME NEW s \in DraftRenderer, NEW ph, NEW rd,
           NEW rq \in SUBSET DraftWrite,
           NEW B \in Draft, NEW w \in Text, NEW d \in SUBSET Ids,
           DraftAssumption, Kept(s, ph, rd, rq, B, w, d), s.run # None
    PROVE  /\ Failure(s) \in DraftRenderer
           /\ Kept(Failure(s), ph, rd, rq, B, w, d)
<1> DEFINE p == IF s.pending = None /\ s.run.current THEN s.run.first ELSE s.pending
<1>1. p \in DraftWrite \cup {None}
  BY DEF DraftRenderer, Run
<1>2. CASE s.run.current
  <2>1. Failure(s) = [s EXCEPT !.pending = p, !.error = TRUE, !.run = None]
    BY <1>2 DEF Failure
  <2> HIDE DEF p
  <2>2. p = IF s.pending = None /\ s.run.current THEN s.run.first ELSE s.pending
    BY DEF p
  <2> QED
    BY <1>1, <2>1, <2>2, EndsKept
<1>3. CASE ~s.run.current
  <2>1. Failure(s) = [s EXCEPT !.pending = p, !.error = s.error, !.run = None]
    BY <1>3 DEF Failure, DraftRenderer
  <2> HIDE DEF p
  <2>2. p = IF s.pending = None /\ s.run.current THEN s.run.first ELSE s.pending
    BY DEF p
  <2>3. s.error \in BOOLEAN
    BY DEF DraftRenderer
  <2> QED
    BY <1>1, <2>1, <2>2, <2>3, EndsKept
<1> QED
  BY <1>2, <1>3

-----------------------------------------------------------------------------
(* The write in flight: A is what the bridge has answered.                  *)

AnswerFits(s, A, rd, B, w, d) ==
    /\ Older(A, B) /\ Sane(A, w, d)
    /\ s.run.write.expected <= A.revision
    /\ Telling(s, A, w, d) /\ Covering(s, A, d)
    /\ rd # None => Older(rd.base, A) \/ Older(A, rd.base)

LEMMA AnswerThatCame ==
    ASSUME NEW s \in DraftRenderer, NEW ph, NEW rd, NEW rq, NEW B, NEW w,
           NEW d,
           Kept(s, ph, rd, rq, B, w, d), HasAnswer(s)
    PROVE  /\ AnswerFits(s, s.run.answer.base, rd, B, w, d)
           /\ s.run.answer \in AnswerType /\ s.run.answer.base \in Draft
           /\ s.run.answer.ok => s.run.first.op \in s.run.answer.base.ops
<1>1. s.run.answer \in AnswerType
  BY DEF Kept, Ordered, HasAnswer, DraftRenderer, Run
<1>2. s.run.answer.base \in Draft
  BY <1>1 DEF AnswerType
<1> QED
  BY <1>1, <1>2 DEF Kept, Answered, True, Reading, AnswerFits

(* The file itself always fits.                                             *)
LEMMA FileFits ==
    ASSUME NEW s \in DraftRenderer, NEW ph, NEW rd,
           NEW rq \in SUBSET DraftWrite,
           NEW B \in Draft, NEW w \in Text, NEW d \in SUBSET Ids,
           DraftAssumption, Kept(s, ph, rd, rq, B, w, d), s.run # None,
           Sane(B, w, d)
    PROVE  AnswerFits(s, B, rd, B, w, d)
<1> USE DEF Kept
<1>1. Older(B, B)
  BY OlderIsReflexive DEF DraftAssumption
<1>2. s.run.write \in Snapshots(s) /\ s.run.write.op = s.run.first.op
  BY DEF Snapshots, Ordered
<1>3. s.run.write.expected <= B.revision
  BY <1>2 DEF Sendable, Over
<1>4. Telling(s, B, w, d)
  BY <1>2 DEF Telling, Applied, Has, Whole
<1>5. Covering(s, B, d)
  BY DEF Covering, Ordered, Recorded, Chained, Has, Whole
<1>6. rd # None => Older(rd.base, B)
  BY DEF Reading
<1> QED
  BY <1>1, <1>3, <1>4, <1>5, <1>6 DEF AnswerFits

(* The write is rebased and sent again.                                     *)
LEMMA RebasedKept ==
    ASSUME NEW s \in DraftRenderer, NEW ph, NEW rd,
           NEW rq \in SUBSET DraftWrite,
           NEW A \in Draft,
           NEW B \in Draft, NEW w \in Text, NEW d \in SUBSET Ids,
           DraftAssumption, Kept(s, ph, rd, rq, B, w, d), s.run # None,
           AnswerFits(s, A, rd, B, w, d), Gone(w, d), s.run.rebases < MaxRebases,
           NEW t, t = [s EXCEPT !.run.write = Rebase(s.run.write, A),
                                !.run.rebases = @ + 1, !.run.at = "sent",
                                !.run.answer = None]
    PROVE  t \in DraftRenderer /\ Kept(t, ph, rd, rq, B, w, d)
<1> USE DEF Kept
<1> DEFINE X == s.run.write
           Y == Rebase(X, A)
           r == [s.run EXCEPT !.write = Y, !.rebases = @ + 1, !.at = "sent",
                              !.answer = None]
<1>0. MaxChanges \in Nat /\ MaxRebases \in Nat
  BY DEF DraftAssumption
<1>1. s.run \in Run /\ X \in DraftWrite /\ X \in Snapshots(s)
  BY DEF DraftRenderer, Run, Snapshots
<1> HIDE DEF X
<1>2. Y \in DraftWrite /\ Y.op = X.op
  BY <1>0, <1>1, RebaseIs
<1>3. Fits(X, w, d) /\ X.op = s.run.first.op
  BY <1>1 DEF Sendable, Ordered, X
<1>4. Fits(Y, w, d) /\ Over(Y, B)
  BY <1>0, <1>1, <1>3, RebaseFits DEF AnswerFits, Sane
<1>5. ASSUME Live(X.op, s), X.op \notin B.ops PROVE Whole(Y, B, w, d)
  <2>1. X.text = w
    BY <1>1, <1>5 DEF Applied, Whole
  <2>2. d \subseteq X.tombs \cup A.tombs
    BY <1>3, <1>5 DEF AnswerFits, Telling, X
  <2> QED
    BY <1>0, <1>1, <1>3, <2>1, <2>2, RebaseWhole DEF AnswerFits, Sane, Whole
<1> HIDE DEF Y
<1>6. /\ r \in Run /\ r.write = Y /\ r.first = s.run.first /\ r.at = "sent"
      /\ r.current = s.run.current /\ r # None
  <2>1. s.run.rebases + 1 \in 0..MaxRebases
    BY <1>0, <1>1 DEF Run
  <2>2. r \in Run
    BY <1>1, <1>2, <2>1 DEF Run
  <2>3. r # None
    BY <2>2 DEF DraftAssumption
  <2> QED
    BY <1>1, <2>2, <2>3 DEF Run
<1>7. t = [s EXCEPT !.run = r]
  BY <1>1 DEF Y, X, DraftRenderer
<1> HIDE DEF r
<1>8. /\ t \in DraftRenderer
      /\ t.text = s.text /\ t.tombs = s.tombs /\ t.record = s.record
      /\ t.recoveryOp = s.recoveryOp /\ t.revision = s.revision
      /\ t.ack = s.ack /\ t.pending = s.pending /\ t.run = r /\ t.ops = s.ops
  BY <1>6, <1>7 DEF DraftRenderer
<1>9. Current(t) = Current(s) /\ ~HasAnswer(t)
  BY <1>6, <1>8 DEF Current, HasAnswer
<1>10. Snapshots(t) \subseteq Snapshots(s) \cup {Y}
  BY <1>6, <1>8 DEF Snapshots
<1>11. \A o : Live(o, t) <=> Live(o, s)
  BY <1>6, <1>8, <1>9 DEF Live
<1>12. Sendable(t, rq, B, w, d)
  BY <1>4, <1>10 DEF Sendable
<1>13. Numbered(t, rq, B)
  BY <1>1, <1>2, <1>8, <1>10 DEF Numbered
<1>14. Applied(t, rq, B, w, d)
  BY <1>2, <1>5, <1>10, <1>11 DEF Applied
<1>15. Ordered(t, ph, B) /\ Recorded(t, ph, B, w, d)
  BY <1>2, <1>3, <1>6, <1>8, <1>9 DEF Ordered, Recorded
<1>16. Agreed(t, rq, B)
  BY <1>6, <1>8, <1>9 DEF Agreed, Unsent
<1>17. Chained(t, ph, B, w, d)
  BY <1>6, <1>8, <1>9 DEF Chained
<1>18. Answered(t, B, w, d) /\ Reading(t, ph, rd, B, w, d)
  BY <1>8, <1>9 DEF Answered, Reading, Usable
<1> QED
  BY <1>8, <1>12, <1>13, <1>14, <1>15, <1>16, <1>17, <1>18

-----------------------------------------------------------------------------
(* The write in flight: its success, A being what the bridge has then.      *)

Acked(s, A, p) == [s EXCEPT !.revision = Max({@, A.revision}),
                            !.ack = Aggregate(A), !.pending = p,
                            !.error = FALSE]

LEMMA AckedIs ==
    ASSUME NEW s \in DraftRenderer, NEW A \in Draft,
           NEW p \in DraftWrite \cup {None}
    PROVE  LET a == Acked(s, A, p) IN
           /\ a \in DraftRenderer
           /\ a.text = s.text /\ a.tombs = s.tombs /\ a.record = s.record
           /\ a.recoveryOp = s.recoveryOp /\ a.run = s.run /\ a.ops = s.ops
           /\ a.pending = p /\ a.error = FALSE
           /\ a.ack = [text |-> A.text, tombs |-> A.tombs]
           /\ a.revision >= s.revision /\ a.revision >= A.revision
           /\ a.revision \in {s.revision, A.revision}
<1>1. s.revision \in Nat /\ A.revision \in Nat
  BY DEF DraftRenderer, Draft
<1>2. /\ Max({s.revision, A.revision}) \in Nat
      /\ Max({s.revision, A.revision}) >= s.revision
      /\ Max({s.revision, A.revision}) >= A.revision
      /\ Max({s.revision, A.revision}) \in {s.revision, A.revision}
  BY <1>1, MaxOfTwo
<1> DEFINE m == Max({s.revision, A.revision})
<1>3. Acked(s, A, p) = [s EXCEPT !.revision = m,
                                 !.ack = [text |-> A.text, tombs |-> A.tombs],
                                 !.pending = p, !.error = FALSE]
  BY DEF Acked, Aggregate
<1>4. [text |-> A.text, tombs |-> A.tombs] \in [text : Text, tombs : SUBSET Ids]
  BY DEF Draft
<1> HIDE DEF m
<1> QED
  BY <1>2, <1>3, <1>4 DEF DraftRenderer, m

(* Comments that the bridge just acknowledged are not queued again.         *)
LEMMA AcknowledgedIsKnown ==
    ASSUME NEW s \in DraftRenderer, NEW A \in Draft, DraftAssumption,
           Clean(A),
           s.text = A.text, s.tombs = {},
           s.ack = [text |-> A.text, tombs |-> A.tombs]
    PROVE  Known(s)
<1> DEFINE e == [text |-> NoText, tombs |-> s.ack.tombs]
           m == Merge(s.text, s.tombs, e)
<1>1. /\ s.text \in Text /\ s.tombs \in SUBSET Ids
      /\ e.text \in Text /\ e.tombs \in SUBSET Ids
      /\ e.tombs = A.tombs /\ e.text = NoText /\ MaxChanges \in Nat
  BY DEF DraftAssumption, DraftRenderer, Text, NoText, Draft
<1> HIDE DEF e
<1>2. Merges(s.text, s.tombs, e, m)
  BY <1>1, MergeIs
<1> HIDE DEF m
<1>3. /\ m = [text |-> m.text, tombs |-> m.tombs]
      /\ m.text \in Text /\ m.tombs = A.tombs
  BY <1>1, <1>2 DEF Merges
<1>4. ASSUME NEW i \in Ids PROVE m.text[i] = A.text[i]
  <2>1. CASE i \in A.tombs
    BY <1>2, <1>3, <2>1 DEF Merges, Clean
  <2>2. CASE i \notin A.tombs
    <3>1. m.text[i] \in {A.text[i], e.text[i]} /\ m.text[i] >= A.text[i]
      BY <1>2, <1>3, <2>2 DEF Merges
    <3>2. e.text[i] = 0 /\ A.text[i] \in Nat
      BY <1>1 DEF NoText, Draft, Text
    <3> QED
      BY <3>1, <3>2
  <2> QED
    BY <2>1, <2>2
<1>5. m.text = A.text
  BY <1>3, <1>4 DEF Draft, Text
<1>6. m = s.ack
  BY <1>3, <1>5
<1> QED
  BY <1>6 DEF Known, m, e

(* With nothing newer waiting, what is left is settled: t is what the       *)
(* acknowledgement leaves of a.                                             *)
Settles(a, A, op, t) ==
    /\ t.text = A.text /\ t.tombs = {} /\ t.revision = a.revision
    /\ t.ack = a.ack /\ t.pending = None /\ t.recoveryOp = 0
    /\ t.record = IF A.text = NoText THEN None
                  ELSE [op |-> op, text |-> A.text, tombs |-> {}]
    /\ t.ops >= a.ops

LEMMA KeepIs ==
    ASSUME NEW s \in DraftRenderer, NEW op \in Nat, NEW text \in Text
    PROVE  LET t == Keep(s, op, text, {}) IN
           /\ t \in DraftRenderer
           /\ t = [s EXCEPT !.record = t.record]
           /\ t.record = IF text = NoText THEN None
                         ELSE [op |-> op, text |-> text, tombs |-> {}]
           /\ t.text = s.text /\ t.tombs = s.tombs /\ t.revision = s.revision
           /\ t.ack = s.ack /\ t.pending = s.pending /\ t.run = s.run
           /\ t.recoveryOp = s.recoveryOp /\ t.ops = s.ops
<1> DEFINE r == IF text = NoText THEN None
                ELSE [op |-> op, text |-> text, tombs |-> {}]
<1>1. r \in Record \cup {None}
  BY DEF Record
<1>2. Keep(s, op, text, {}) = [s EXCEPT !.record = r]
  BY DEF Keep
<1> HIDE DEF r
<1>3. LET t == [s EXCEPT !.record = r] IN
      /\ t \in DraftRenderer /\ t.record = r
      /\ t.text = s.text /\ t.tombs = s.tombs /\ t.revision = s.revision
      /\ t.ack = s.ack /\ t.pending = s.pending /\ t.run = s.run
      /\ t.recoveryOp = s.recoveryOp /\ t.ops = s.ops
  BY <1>1 DEF DraftRenderer
<1> QED
  BY <1>2, <1>3 DEF r

LEMMA EmitIs ==
    ASSUME NEW a \in DraftRenderer, NEW A \in Draft, DraftAssumption,
           Clean(A),
           a.pending = None, a.error = FALSE, a.run # None, a.recoveryOp = 0,
           a.ack = [text |-> A.text, tombs |-> A.tombs]
    PROVE  LET t == Emit(a, A.text, {}) IN
           /\ t \in DraftRenderer
           /\ t.text = A.text /\ t.tombs = {} /\ t.revision = a.revision
           /\ t.ack = a.ack /\ t.pending = None /\ t.run = a.run
           /\ t.recoveryOp = 0 /\ t.ops >= a.ops
<1> DEFINE e == [a EXCEPT !.text = A.text, !.tombs = {}]
           t == QueueDraft(e)
<1>1. /\ e \in DraftRenderer /\ e.text = A.text /\ e.tombs = {}
      /\ e.pending = None /\ e.error = FALSE /\ e.run = a.run
      /\ e.ack = a.ack /\ e.revision = a.revision /\ e.ops = a.ops
      /\ e.recoveryOp = 0
  BY DEF DraftRenderer, Draft
<1>2. Emit(a, A.text, {}) = t
  BY DEF Emit
<1> HIDE DEF e
<1>3. Known(e)
  BY <1>1, AcknowledgedIsKnown
<1>4. t \in DraftRenderer /\ Queues(e, t)
  BY <1>1, QueueIs
<1> HIDE DEF t
<1>5. t.pending = None /\ t.run = a.run
  BY <1>1, <1>3, <1>4 DEF Queues, Quiet, Skipping
<1>6. t.ops >= a.ops
  <2>1. NextOp(e) \in Nat /\ e.ops \in Nat
    BY <1>1, NextOpType DEF DraftRenderer
  <2> QED
    BY <1>1, <1>4, <2>1 DEF Queues
<1>7. /\ t.text = A.text /\ t.tombs = {} /\ t.revision = a.revision
      /\ t.ack = a.ack /\ t.recoveryOp = 0
  BY <1>1, <1>4 DEF Queues
<1> QED
  BY <1>2, <1>4, <1>5, <1>6, <1>7

LEMMA AcknowledgedIs ==
    ASSUME NEW a \in DraftRenderer, NEW A \in Draft, NEW X, X.op \in Nat,
           NEW n, DraftAssumption, Clean(A),
           a.pending = None, a.error = FALSE, a.run # None, a.recoveryOp = 0,
           a.ack = [text |-> A.text, tombs |-> A.tombs], a.text = A.text
    PROVE  LET t == DraftAcknowledged(a, X, A, n) IN
           /\ t \in DraftRenderer /\ t.run = a.run
           /\ Settles(a, A, X.op, t)
<1> DEFINE E == Emit(a, A.text, {})
           told == IF n > 0 \/ a.tombs # {} THEN E ELSE a
           t == Keep(told, X.op, A.text, {})
<1>0. A.text \in Text /\ a.ops \in Nat
  BY DEF Draft, DraftRenderer
<1>1. DraftAcknowledged(a, X, A, n) = t
  BY DEF DraftAcknowledged
<1>2. /\ E \in DraftRenderer
      /\ E.text = A.text /\ E.tombs = {} /\ E.revision = a.revision
      /\ E.ack = a.ack /\ E.pending = None /\ E.run = a.run
      /\ E.recoveryOp = 0 /\ E.ops >= a.ops
  BY EmitIs
<1> HIDE DEF E
<1>3. /\ told \in DraftRenderer
      /\ told.text = A.text /\ told.tombs = {} /\ told.revision = a.revision
      /\ told.ack = a.ack /\ told.pending = None /\ told.run = a.run
      /\ told.recoveryOp = 0 /\ told.ops >= a.ops
  BY <1>0, <1>2
<1> HIDE DEF told
<1>4. /\ t \in DraftRenderer
      /\ t.record = IF A.text = NoText THEN None
                    ELSE [op |-> X.op, text |-> A.text, tombs |-> {}]
      /\ t.text = told.text /\ t.tombs = told.tombs
      /\ t.revision = told.revision
      /\ t.ack = told.ack /\ t.pending = told.pending /\ t.run = told.run
      /\ t.recoveryOp = told.recoveryOp /\ t.ops = told.ops
  BY <1>0, <1>3, KeepIs
<1> HIDE DEF t
<1> QED
  BY <1>1, <1>3, <1>4 DEF Settles

(* The draft file has what is shown, and nothing is on its way.             *)
LEMMA SettledKept ==
    ASSUME NEW s \in DraftRenderer, NEW t \in DraftRenderer,
           NEW rd \in Reads \cup {None},
           NEW rq \in SUBSET DraftWrite, NEW A \in Draft,
           NEW B \in Draft, NEW w \in Text, NEW d \in SUBSET Ids,
           DraftAssumption, Kept(s, "open", rd, rq, B, w, d), s.run # None,
           Sane(B, w, d), Gone(w, d), AnswerFits(s, A, rd, B, w, d),
           s.run.first.op \in A.ops, Has(A, w, d),
           NEW a, a.revision >= A.revision, a.revision \in {s.revision,
           A.revision},
           a.ack = [text |-> A.text, tombs |-> A.tombs], a.ops = s.ops,
           Settles(a, A, s.run.write.op, t), t.run = None
    PROVE  Kept(t, "open", rd, rq, B, w, d)
<1> USE DEF Kept
<1> DEFINE o == s.run.first.op
<1>0. MaxChanges \in Nat /\ s.run.write.op = o
  BY DEF DraftAssumption, Ordered
<1>1. Has(B, w, d)
  BY <1>0, HasGrows DEF AnswerFits
<1>2. A.text = w /\ d \subseteq A.tombs /\ d \subseteq B.tombs
  BY <1>1 DEF Has
<1>3. o \in B.ops /\ o <= s.ops /\ o \in Nat
  <2>1. o \in B.ops
    BY DEF AnswerFits, Older
  <2> QED
    BY <2>1 DEF Numbered, Draft
<1>4. t.ops >= s.ops /\ t.ops \in Nat /\ s.ops \in Nat
  BY DEF Settles, DraftRenderer
<1> HIDE DEF o
<1> DEFINE r == [op |-> o, text |-> w, tombs |-> {}]
<1>5. r \in Record /\ r # None /\ r.op = o /\ r.text = w /\ r.tombs = {}
  BY <1>3 DEF Record, DraftAssumption
<1> HIDE DEF r
<1>6. /\ t.text = w /\ t.tombs = {} /\ t.pending = None /\ t.recoveryOp = 0
      /\ t.record = IF w = NoText THEN None ELSE r
      /\ t.revision = a.revision
      /\ t.ack = [text |-> A.text, tombs |-> A.tombs]
  BY <1>0, <1>2 DEF Settles, r
<1>7. Snapshots(t) = {} /\ ~Current(t) /\ ~HasAnswer(t)
  BY <1>6 DEF Snapshots, Current, HasAnswer
<1>8. \A x : Live(x, t) => x = o
  BY <1>5, <1>6, <1>7 DEF Live
<1>9. Sendable(t, rq, B, w, d)
  BY <1>7 DEF Sendable
<1>10. Numbered(t, rq, B)
  <2>1. \A X \in rq : X.op <= t.ops
    BY <1>4 DEF Numbered, DraftWrite
  <2>2. \A x \in B.ops : x <= t.ops
    BY <1>4 DEF Numbered, Draft
  <2>3. t.record # None => t.record.op <= t.ops
    BY <1>3, <1>4, <1>5, <1>6
  <2> QED
    BY <1>7, <2>1, <2>2, <2>3 DEF Numbered
<1>11. Ordered(t, "open", B)
  <2>1. Within(A.text, A.tombs, B) /\ A.revision <= B.revision
    BY DEF AnswerFits, Older
  <2>2. t.revision <= B.revision
    BY <1>6, <2>1 DEF Ordered
  <2> QED
    BY <1>6, <1>7, <2>1, <2>2 DEF Ordered
<1>12. Recorded(t, "open", B, w, d)
  BY <1>1, <1>2, <1>5, <1>6 DEF Recorded, Whole
<1>13. Agreed(t, rq, B)
  BY <1>6, <1>7 DEF Agreed
<1>14. Chained(t, "open", B, w, d)
  BY <1>1, <1>6, <1>7 DEF Chained
<1>15. Applied(t, rq, B, w, d)
  BY <1>1, <1>3, <1>7, <1>8 DEF Applied
<1>16. Answered(t, B, w, d)
  BY <1>7 DEF Answered
<1>17. ASSUME rd # None, rd.base.revision >= t.revision PROVE Has(rd.base, w, d)
  <2>1. /\ rd.base \in Draft /\ rd.base.revision \in Nat /\ A.revision \in Nat
        /\ s.revision \in Nat
    BY <1>17 DEF Reads, Draft, DraftRenderer
  <2>2. rd.base.revision >= A.revision
    BY <1>6, <1>17, <2>1
  <2>3. Older(A, rd.base)
    <3>1. CASE Older(A, rd.base)
      BY <3>1
    <3>2. CASE Older(rd.base, A)
      <4>1. rd.base = A
        BY <2>1, <2>2, <3>2 DEF Older
      <4> QED
        BY <3>2, <4>1
    <3> QED
      BY <1>17, <3>1, <3>2 DEF AnswerFits
  <2>4. Sane(rd.base, w, d)
    BY <1>17 DEF Reading
  <2> QED
    BY <1>0, <2>1, <2>3, <2>4, HasGrows
<1>18. Reading(t, "open", rd, B, w, d)
  BY <1>7, <1>17 DEF Reading, Usable, Has
<1> QED
  BY <1>9, <1>10, <1>11, <1>12, <1>13, <1>14, <1>15, <1>16, <1>18

(* A newer snapshot is rebased and sent: Y.                                 *)
LEMMA NextKept ==
    ASSUME NEW s \in DraftRenderer, NEW t \in DraftRenderer,
           NEW rd \in Reads \cup {None},
           NEW rq \in SUBSET DraftWrite, NEW A \in Draft,
           NEW B \in Draft, NEW w \in Text, NEW d \in SUBSET Ids,
           DraftAssumption, Kept(s, "open", rd, rq, B, w, d),
           AnswerFits(s, A, rd, B, w, d),
           s.pending # None,
           NEW Y \in DraftWrite, Y.op = s.pending.op,
           Fits(Y, w, d), Over(Y, B), Whole(Y, B, w, d),
           t.revision >= s.revision, t.revision \in {s.revision, A.revision},
           t.ack = [text |-> A.text, tombs |-> A.tombs],
           t.text = s.text, t.tombs = s.tombs, t.record = s.record,
           t.recoveryOp = s.recoveryOp, t.ops = s.ops,
           t.pending = None, t.run = NewRun(Y)
    PROVE  Kept(t, "open", rd, rq, B, w, d)
<1> USE DEF Kept
<1>1. /\ t.run # None /\ t.run.write = Y /\ t.run.first = Y
      /\ t.run.at = "sent" /\ t.run.current
  BY NewRunType DEF NewRun, DraftAssumption
<1>2. Snapshots(t) = {Y} /\ Current(t) /\ ~HasAnswer(t)
  BY <1>1 DEF Snapshots, Current, HasAnswer
<1>3. \A x : Live(x, t) => Live(x, s)
  BY <1>1 DEF Live
<1>4. Sendable(t, rq, B, w, d)
  BY <1>2 DEF Sendable
<1>5. Numbered(t, rq, B)
  BY <1>2 DEF Numbered, Snapshots
<1>6. Ordered(t, "open", B)
  BY <1>1 DEF Ordered, AnswerFits, Older
<1>7. Recorded(t, "open", B, w, d)
  BY DEF Recorded
<1>8. Agreed(t, rq, B)
  BY <1>1, <1>2 DEF Agreed, Unsent
<1>9. Chained(t, "open", B, w, d)
  BY <1>1, <1>2 DEF Chained
<1>10. Applied(t, rq, B, w, d)
  BY <1>2, <1>3 DEF Applied
<1>11. Answered(t, B, w, d)
  BY <1>2 DEF Answered
<1>12. Reading(t, "open", rd, B, w, d)
  <2>1. CASE rd = None
    BY <2>1 DEF Reading
  <2>2. CASE rd # None
    <3>1. rd.base.revision \in Nat /\ s.revision \in Nat /\ t.revision \in Nat
      BY <2>2 DEF Reads, Draft, DraftRenderer
    <3>2. Usable(t, "open", rd.base) => Usable(s, "open", rd.base)
      BY <3>1 DEF Usable
    <3> QED
      BY <1>2, <3>2 DEF Reading
  <2> QED
    BY <2>1, <2>2
<1> QED
  BY <1>4, <1>5, <1>6, <1>7, <1>8, <1>9, <1>10, <1>11, <1>12

LEMMA SuccessKept ==
    ASSUME NEW s \in DraftRenderer, NEW ph, NEW rd \in Reads \cup {None},
           NEW rq \in SUBSET DraftWrite, NEW A \in Draft,
           NEW B \in Draft, NEW w \in Text, NEW d \in SUBSET Ids,
           DraftAssumption, Kept(s, ph, rd, rq, B, w, d), s.run # None,
           Sane(B, w, d), Gone(w, d), AnswerFits(s, A, rd, B, w, d),
           s.run.first.op \in A.ops
    PROVE  /\ Success(s, A) \in DraftRenderer
           /\ Kept(Success(s, A), ph, rd, rq, B, w, d)
<1> DEFINE Y == Rebase(s.pending, A)
           p == IF s.pending = None \/ Aggregate(Y) = Aggregate(A)
                THEN None ELSE Y
           a == Acked(s, A, p)
           told == DraftAcknowledged(a, s.run.write, A, s.run.rebases)
           k == [told EXCEPT !.run = None]
<1>0. MaxChanges \in Nat
  BY DEF DraftAssumption
<1>1. CASE ~s.run.current
  <2>1. Success(s, A) = [s EXCEPT !.pending = s.pending, !.error = s.error,
                                  !.run = None]
    BY <1>1 DEF Success, DraftRenderer
  <2>2. s.pending \in DraftWrite \cup {None} /\ s.error \in BOOLEAN
    BY DEF DraftRenderer
  <2> QED
    BY <1>1, <2>1, <2>2, EndsKept
<1>2. CASE s.run.current
  <2>1. ph = "open" /\ Current(s) /\ s.text = w /\ s.recoveryOp = 0
    BY <1>2 DEF Kept, Ordered, Recorded, Current
  <2>2. ASSUME s.pending # None
        PROVE  /\ Y \in DraftWrite /\ Y # None /\ Y.op = s.pending.op
               /\ Y.text = w /\ d \subseteq Y.tombs
               /\ Fits(Y, w, d) /\ Over(Y, B) /\ Whole(Y, B, w, d)
    <3> DEFINE X == s.pending
    <3>1. X \in DraftWrite /\ X \in Snapshots(s)
      BY <2>2 DEF DraftRenderer, Snapshots
    <3>2. Fits(X, w, d) /\ Fits(A, w, d) /\ Older(A, B)
      BY <3>1 DEF Kept, Sendable, AnswerFits, Sane
    <3>3. X.text = w
      BY <2>2 DEF Kept, Chained, Whole
    <3>4. d \subseteq X.tombs \cup A.tombs
      BY <2>1, <2>2 DEF AnswerFits, Covering
    <3> HIDE DEF X
    <3>5. Rebase(X, A).text = w /\ d \subseteq Rebase(X, A).tombs
      BY <1>0, <3>1, <3>2, <3>3, <3>4, RebaseWhole
    <3>6. Fits(Rebase(X, A), w, d) /\ Over(Rebase(X, A), B)
      BY <1>0, <3>1, <3>2, RebaseFits
    <3>7. Rebase(X, A) \in DraftWrite /\ Rebase(X, A).op = X.op
      BY <1>0, <3>1, RebaseIs
    <3> QED
      BY <3>5, <3>6, <3>7 DEF X, Whole, DraftAssumption
  <2>3. p \in DraftWrite \cup {None}
    BY <2>2
  <2>4. Success(s, A) = Start(k)
    BY <1>2 DEF Success, Acked
  <2> HIDE DEF Y
  <2>5. p = None => Has(A, w, d)
    <3>1. CASE s.pending = None
      BY <2>1, <3>1 DEF AnswerFits, Telling, Live
    <3>2. CASE s.pending # None /\ Aggregate(Y) = Aggregate(A)
      <4>1. Y.text = A.text /\ Y.tombs = A.tombs
        BY <3>2 DEF Aggregate
      <4> QED
        BY <2>2, <3>2, <4>1 DEF Has
    <3> QED
      BY <2>2, <3>1, <3>2
  <2>6. p # None => p = Y /\ s.pending # None
    OBVIOUS
  <2> HIDE DEF p
  <2>7. /\ a \in DraftRenderer
        /\ a.text = s.text /\ a.tombs = s.tombs /\ a.record = s.record
        /\ a.recoveryOp = s.recoveryOp /\ a.run = s.run /\ a.ops = s.ops
        /\ a.pending = p /\ a.error = FALSE
        /\ a.ack = [text |-> A.text, tombs |-> A.tombs]
        /\ a.revision >= s.revision /\ a.revision >= A.revision
        /\ a.revision \in {s.revision, A.revision}
    BY <2>3, AckedIs
  <2> HIDE DEF a
  <2>8. CASE p = None
    <3>1. s.run.write.op \in Nat /\ Clean(A) /\ A.text = w
      BY <2>5, <2>8 DEF DraftRenderer, Run, DraftWrite, AnswerFits, Sane, Has
    <3>2. /\ told \in DraftRenderer /\ told.run = a.run
          /\ Settles(a, A, s.run.write.op, told)
      BY ZenonT(60), <2>1, <2>7, <2>8, <3>1, AcknowledgedIs
    <3> HIDE DEF told
    <3>3. /\ k \in DraftRenderer /\ k.run = None
          /\ k.text = told.text /\ k.tombs = told.tombs
          /\ k.record = told.record
          /\ k.recoveryOp = told.recoveryOp /\ k.ops = told.ops
          /\ k.pending = told.pending /\ k.ack = told.ack
          /\ k.revision = told.revision
      BY <3>2 DEF DraftRenderer
    <3> HIDE DEF k
    <3>4. Settles(a, A, s.run.write.op, k)
      BY <3>2, <3>3 DEF Settles
    <3>5. Kept(k, "open", rd, rq, B, w, d)
      BY <2>1, <2>5, <2>7, <2>8, <3>3, <3>4, SettledKept
    <3>6. Start(k) = k
      BY <3>3, <3>4, StartIs DEF Settles
    <3> QED
      BY <2>1, <2>4, <3>3, <3>5, <3>6
  <2>9. CASE p # None
    <3>1. told = a
      BY <2>7, <2>9 DEF DraftAcknowledged
    <3> HIDE DEF told
    <3>2. k \in DraftRenderer /\ k.run = None /\ k.pending = Y
      BY <2>6, <2>7, <2>9, <3>1 DEF DraftRenderer
    <3>3. /\ k.text = s.text /\ k.tombs = s.tombs /\ k.record = s.record
          /\ k.recoveryOp = s.recoveryOp /\ k.ops = s.ops
          /\ k.ack = a.ack /\ k.revision = a.revision
      BY <2>7, <3>1 DEF DraftRenderer
    <3> HIDE DEF k
    <3> DEFINE t == Start(k)
    <3>4. t \in DraftRenderer /\ t = [k EXCEPT !.pending = None, !.run = NewRun(Y)]
      BY <2>2, <2>6, <2>9, <3>2, StartIs
    <3>5. /\ t.text = s.text /\ t.tombs = s.tombs /\ t.record = s.record
          /\ t.recoveryOp = s.recoveryOp /\ t.ops = s.ops
          /\ t.ack = [text |-> A.text, tombs |-> A.tombs]
          /\ t.revision = a.revision /\ t.pending = None /\ t.run = NewRun(Y)
      BY <2>7, <3>2, <3>3, <3>4 DEF DraftRenderer
    <3> HIDE DEF t
    <3>6. Kept(t, "open", rd, rq, B, w, d)
      BY <2>1, <2>2, <2>6, <2>7, <2>9, <3>4, <3>5, NextKept
    <3> QED
      BY <2>1, <2>4, <3>4, <3>6 DEF t
  <2> QED
    BY <2>8, <2>9
<1> QED
  BY <1>1, <1>2

LEMMA ReconcileKept ==
    ASSUME NEW s \in DraftRenderer, NEW ph, NEW rd \in Reads \cup {None},
           NEW rq \in SUBSET DraftWrite, NEW A \in Draft,
           NEW B \in Draft, NEW w \in Text, NEW d \in SUBSET Ids,
           DraftAssumption, Kept(s, ph, rd, rq, B, w, d), s.run # None,
           Sane(B, w, d), Gone(w, d), AnswerFits(s, A, rd, B, w, d)
    PROVE  /\ Reconcile(s, A) \in DraftRenderer
           /\ Kept(Reconcile(s, A), ph, rd, rq, B, w, d)
<1>1. s.run.write.op = s.run.first.op
  BY DEF Kept, Ordered
<1>2. CASE Reconcile(s, A) = Failure(s)
  BY <1>2, FailureKept
<1>3. CASE Reconcile(s, A) = Success(s, A) /\ s.run.write.op \in A.ops
  BY <1>1, <1>3, SuccessKept
<1>4. CASE /\ s.run.rebases < MaxRebases
           /\ Reconcile(s, A) = [s EXCEPT !.run.write = Rebase(s.run.write, A),
                                          !.run.rebases = @ + 1, !.run.at = "sent",
                                          !.run.answer = None]
  BY <1>4, RebasedKept
<1>5. ~(s.run.rebases >= MaxRebases) => s.run.rebases < MaxRebases
  BY DEF DraftRenderer, Run, DraftAssumption
<1> QED
  BY <1>2, <1>3, <1>4, <1>5 DEF Reconcile

-----------------------------------------------------------------------------
(* Steps of the write in flight.                                            *)

Counters == [changes : 0..MaxChanges, flushes : 0..MaxFlushes,
             opens : 0..MaxOpens, reloads : 0..MaxReloads,
             faults : 0..MaxFaults, crashes : 0..MaxCrashes]

LEMMA CountersNow ==
    ASSUME Facts
    PROVE  /\ count \in Counters
           /\ Counts("opens") /\ count.opens < MaxOpens =>
                 count' \in Counters /\ count'.changes = count.changes
           /\ Counts("reloads") /\ count.reloads < MaxReloads =>
                 count' \in Counters /\ count'.changes = count.changes
           /\ Counts("faults") /\ count.faults < MaxFaults =>
                 count' \in Counters /\ count'.changes = count.changes
           /\ Counts("crashes") /\ count.crashes < MaxCrashes =>
                 count' \in Counters /\ count'.changes = count.changes
<1>1. count \in Counters
  BY Now DEF DraftTypeOK, Counters
<1>2. /\ MaxOpens \in Nat /\ MaxReloads \in Nat
      /\ MaxFaults \in Nat /\ MaxCrashes \in Nat
  BY Now DEF DraftAssumption
<1>3. Counts("opens") /\ count.opens < MaxOpens =>
         count' \in Counters /\ count'.changes = count.changes
  BY <1>1, <1>2 DEF Counts, Counters
<1>4. Counts("reloads") /\ count.reloads < MaxReloads =>
         count' \in Counters /\ count'.changes = count.changes
  BY <1>1, <1>2 DEF Counts, Counters
<1>5. Counts("faults") /\ count.faults < MaxFaults =>
         count' \in Counters /\ count'.changes = count.changes
  BY <1>1, <1>2 DEF Counts, Counters
<1>6. Counts("crashes") /\ count.crashes < MaxCrashes =>
         count' \in Counters /\ count'.changes = count.changes
  BY <1>1, <1>2 DEF Counts, Counters
<1> QED
  BY <1>1, <1>3, <1>4, <1>5, <1>6

(* The rest of a step that leaves the draft file and the user alone.        *)
LEMMA OtherStep ==
    ASSUME Facts, UNCHANGED <<server, wanted, deleted>>,
           Kept(draft', phase', read', requests', server, wanted, deleted),
           draft' \in DraftRenderer, phase' \in {"open", "away"},
           read' \in Reads \cup {None}, requests' \subseteq DraftWrite,
           pointer' \in Nat, busy' = busy \/ busy' = None,
           count' \in Counters, count'.changes = count.changes
    PROVE  DraftInv'
<1> USE Now
<1>1. DraftTypeOK'
  BY DEF DraftTypeOK, Counters
<1>2. World(server', busy', wanted', deleted', count'.changes)
  BY DEF World
<1> QED
  BY <1>1, <1>2 DEF DraftInv

LEMMA FewerRequests ==
    ASSUME NEW s, NEW ph, NEW rd, NEW rq, NEW rest, rest \subseteq rq,
           NEW B, NEW w, NEW d, Kept(s, ph, rd, rq, B, w, d)
    PROVE  Kept(s, ph, rd, rest, B, w, d)
<1> USE DEF Kept
<1>1. Sendable(s, rest, B, w, d) /\ Numbered(s, rest, B)
      /\ Applied(s, rest, B, w, d)
  BY DEF Sendable, Numbered, Applied
<1>2. Agreed(s, rest, B)
  BY DEF Agreed, Unsent
<1> QED
  BY <1>1, <1>2

(* Only what is known of the outcome of the write changes.                  *)
LEMMA OutcomeChanges ==
    ASSUME NEW s \in DraftRenderer, NEW ph, NEW rd,
           NEW rq \in SUBSET DraftWrite,
           NEW B \in Draft, NEW w, NEW d, DraftAssumption,
           Kept(s, ph, rd, rq, B, w, d), s.run # None,
           NEW at \in {"answered", "unknown"},
           NEW answer \in AnswerType \cup {None},
           at = "answered" <=> answer # None,
           answer # None => /\ answer.base = B
                            /\ AnswerFits(s, B, rd, B, w, d)
                            /\ answer.ok => s.run.first.op \in B.ops,
           NEW t, t = [s EXCEPT !.run.at = at, !.run.answer = answer]
    PROVE  t \in DraftRenderer /\ Kept(t, ph, rd, rq, B, w, d)
<1> USE DEF Kept
<1> DEFINE r == [s.run EXCEPT !.at = at, !.answer = answer]
<1>1. s.run \in Run
  BY DEF DraftRenderer
<1>2. /\ r \in Run /\ r # None /\ r.write = s.run.write
      /\ r.first = s.run.first
      /\ r.current = s.run.current /\ r.at = at /\ r.answer = answer
  BY <1>1 DEF Run, DraftAssumption
<1>3. t = [s EXCEPT !.run = r]
  BY <1>1 DEF DraftRenderer
<1> HIDE DEF r
<1>4. /\ t \in DraftRenderer /\ t.run = r
      /\ t.text = s.text /\ t.tombs = s.tombs /\ t.record = s.record
      /\ t.recoveryOp = s.recoveryOp /\ t.revision = s.revision
      /\ t.ack = s.ack /\ t.pending = s.pending /\ t.ops = s.ops
  BY <1>2, <1>3 DEF DraftRenderer
<1>5. Snapshots(t) = Snapshots(s) /\ (Current(t) <=> Current(s))
  BY <1>2, <1>4 DEF Snapshots, Current
<1>6. \A o : Live(o, t) <=> Live(o, s)
  BY <1>2, <1>4, <1>5 DEF Live
<1>7. \A o : Unsent(o, s, rq, B) => Unsent(o, t, rq, B)
  BY <1>2, <1>4 DEF Unsent
<1>8. /\ Sendable(t, rq, B, w, d) /\ Numbered(t, rq, B)
      /\ Applied(t, rq, B, w, d)
  <2>1. Calms(s, t)
    BY <1>4, <1>5, <1>6 DEF Calms
  <2> QED
    BY <1>4, <2>1, Shrinks
<1>9. Ordered(t, ph, B) /\ Recorded(t, ph, B, w, d)
  BY <1>2, <1>4, <1>5 DEF Ordered, Recorded
<1>10. Agreed(t, rq, B)
  BY <1>2, <1>4, <1>5, <1>7 DEF Agreed
<1>11. Chained(t, ph, B, w, d)
  BY <1>2, <1>4, <1>5 DEF Chained
<1>12. HasAnswer(t) <=> at = "answered"
  BY <1>2, <1>4 DEF HasAnswer
<1>13. Answered(t, B, w, d)
  <2>1. CASE at = "answered"
    <3>1. t.run.answer.base = B
      BY <1>2, <1>4, <2>1
    <3>2. True(t, B, B, w, d) /\ Telling(t, B, w, d)
      BY <1>2, <1>4, <1>6, <2>1 DEF True, Telling, AnswerFits
    <3>3. Covering(t, B, d)
      BY <1>2, <1>4, <1>5, <2>1 DEF Covering, AnswerFits
    <3> QED
      BY <3>1, <3>2, <3>3 DEF Answered
  <2> QED
    BY <1>12, <2>1 DEF Answered
<1>14. Reading(t, ph, rd, B, w, d)
  <2>1. HasAnswer(t) => t.run.answer.base = B
    BY <1>2, <1>4, <1>12
  <2>2. \A A : Usable(t, ph, A) <=> Usable(s, ph, A)
    BY <1>4 DEF Usable
  <2> QED
    BY <1>4, <2>1, <2>2 DEF Reading
<1> QED
  BY <1>4, <1>8, <1>9, <1>10, <1>11, <1>13, <1>14

LEMMA AnswerStep ==
    ASSUME Facts, Answer PROVE DraftInv'
<1> USE Now
<1> DEFINE A == draft.run.answer.base
           s == IF ~draft.run.answer.ok THEN Reconcile(draft, A)
                ELSE IF A.revision <= draft.run.write.expected
                THEN Failure(draft)
                ELSE Success(draft, A)
<1>1. /\ draft.run # None /\ HasAnswer(draft) /\ Becomes(s)
      /\ UNCHANGED <<phase, read, server, pointer, busy, wanted, deleted, count>>
  BY DEF Answer, HasAnswer, bridge, user
<1>2. /\ AnswerFits(draft, A, read, server, wanted, deleted)
      /\ draft.run.answer \in AnswerType /\ A \in Draft
      /\ draft.run.answer.ok => draft.run.first.op \in A.ops
  BY <1>1, AnswerThatCame DEF TypesNow
<1> HIDE DEF A
<1>3. /\ s \in DraftRenderer
      /\ Kept(s, phase, read, requests, server, wanted, deleted)
  <2>1. /\ Reconcile(draft, A) \in DraftRenderer
        /\ Kept(Reconcile(draft, A), phase, read, requests, server, wanted, deleted)
    BY <1>1, <1>2, ReconcileKept DEF TypesNow
  <2>2. /\ Failure(draft) \in DraftRenderer
        /\ Kept(Failure(draft), phase, read, requests, server, wanted, deleted)
    BY <1>1, FailureKept DEF TypesNow
  <2>3. draft.run.answer.ok =>
           /\ Success(draft, A) \in DraftRenderer
           /\ Kept(Success(draft, A), phase, read, requests, server, wanted, deleted)
    BY <1>1, <1>2, SuccessKept DEF TypesNow
  <2> QED
    BY <2>1, <2>2, <2>3
<1> HIDE DEF s
<1>4. /\ Kept(draft', phase, read, requests', server, wanted, deleted)
      /\ draft' \in DraftRenderer /\ requests' \subseteq DraftWrite
  BY <1>1, <1>3, BecomesKeeps DEF TypesNow
<1> QED
  BY <1>1, <1>4, CountersNow, OtherStep DEF DraftTypeOK

LEMMA LoadAuthorityStep ==
    ASSUME Facts, LoadAuthority PROVE DraftInv'
<1> USE Now
<1> DEFINE s == IF Readable THEN Reconcile(draft, server) ELSE Failure(draft)
<1>1. /\ draft.run # None /\ Becomes(s)
      /\ UNCHANGED <<phase, read, server, pointer, busy, wanted, deleted, count>>
  BY DEF LoadAuthority, bridge, user
<1>2. AnswerFits(draft, server, read, server, wanted, deleted)
  BY <1>1, FileFits DEF TypesNow
<1>3. /\ s \in DraftRenderer
      /\ Kept(s, phase, read, requests, server, wanted, deleted)
  <2>1. CASE Readable
    <3>1. s = Reconcile(draft, server)
      BY <2>1
    <3> QED
      BY <1>1, <1>2, <3>1, ReconcileKept DEF TypesNow
  <2>2. CASE ~Readable
    <3>1. s = Failure(draft)
      BY <2>2
    <3> QED
      BY <1>1, <3>1, FailureKept DEF TypesNow
  <2> QED
    BY <2>1, <2>2
<1> HIDE DEF s
<1>4. /\ Kept(draft', phase, read, requests', server, wanted, deleted)
      /\ draft' \in DraftRenderer /\ requests' \subseteq DraftWrite
  BY <1>1, <1>3, BecomesKeeps DEF TypesNow
<1> QED
  BY <1>1, <1>4, CountersNow, OtherStep DEF DraftTypeOK

LEMMA RefusedStep ==
    ASSUME Facts, Refused PROVE DraftInv'
<1> USE Now
<1>1. /\ draft.run # None /\ draft' = Failure(draft)
      /\ requests' = requests \ {draft.run.write}
      /\ UNCHANGED <<phase, read, server, pointer, busy, wanted, deleted>>
      /\ count' \in Counters /\ count'.changes = count.changes
  BY CountersNow DEF Refused, bridge, user
<1>2. /\ Failure(draft) \in DraftRenderer
      /\ Kept(Failure(draft), phase, read, requests, server, wanted, deleted)
  BY <1>1, FailureKept DEF TypesNow
<1>3. Kept(draft', phase, read, requests', server, wanted, deleted)
  BY <1>1, <1>2, FewerRequests
<1> QED
  BY <1>1, <1>2, <1>3, OtherStep DEF DraftTypeOK

(* The outcome of the write in flight becomes unknown. *)
LEMMA UnknownKept ==
    ASSUME Facts, draft.run # None,
           NEW t, t = [draft EXCEPT !.run.at = "unknown", !.run.answer = None]
    PROVE  /\ t \in DraftRenderer
           /\ Kept(t, phase, read, requests, server, wanted, deleted)
<1> USE Now
<1> DEFINE at == "unknown"
           a == None
<1>1. /\ at \in {"answered", "unknown"} /\ a \in AnswerType \cup {None}
      /\ at # "answered" /\ a = None
  OBVIOUS
<1>2. t = [draft EXCEPT !.run.at = at, !.run.answer = a]
  OBVIOUS
<1> HIDE DEF at, a
<1> QED
  BY <1>1, <1>2, OutcomeChanges DEF TypesNow

LEMMA UnansweredStep ==
    ASSUME Facts, Unanswered PROVE DraftInv'
<1> USE Now
<1>1. /\ draft.run # None
      /\ draft' = [draft EXCEPT !.run.at = "unknown", !.run.answer = None]
      /\ UNCHANGED <<phase, read, requests, server, pointer, busy, wanted, deleted>>
      /\ count' \in Counters /\ count'.changes = count.changes
  BY CountersNow DEF Unanswered, bridge, user
<1>2. /\ draft' \in DraftRenderer
      /\ Kept(draft', phase, read, requests, server, wanted, deleted)
  BY <1>1, UnknownKept
<1> QED
  BY <1>1, <1>2, OtherStep DEF DraftTypeOK

LEMMA CrashStep ==
    ASSUME Facts, Crash PROVE DraftInv'
<1> USE Now
<1>1. /\ requests' = {} /\ busy' = None
      /\ UNCHANGED <<phase, read, server, pointer, wanted, deleted>>
      /\ count' \in Counters /\ count'.changes = count.changes
  BY CountersNow DEF Crash, user
<1>2. /\ draft' \in DraftRenderer
      /\ Kept(draft', phase, read, requests, server, wanted, deleted)
  <2>1. CASE draft' = draft
    BY <2>1 DEF TypesNow
  <2>2. CASE /\ draft.run # None
             /\ draft' = [draft EXCEPT !.run.at = "unknown", !.run.answer = None]
    BY <2>2, UnknownKept
  <2> QED
    BY <2>1, <2>2 DEF Crash
<1>3. Kept(draft', phase, read, requests', server, wanted, deleted)
  BY <1>1, <1>2, FewerRequests
<1> QED
  BY <1>1, <1>2, <1>3, OtherStep DEF DraftTypeOK

-----------------------------------------------------------------------------
(* Answers of the bridge.                                                   *)

LEMMA ReplyKept ==
    ASSUME Facts, NEW r, NEW ok \in BOOLEAN, Reply(r, ok, server),
           ok => r.op \in server.ops
    PROVE  /\ draft' \in DraftRenderer
           /\ Kept(draft', phase, read, requests, server, wanted, deleted)
<1> USE Now
<1> DEFINE a == [ok |-> ok, base |-> server]
<1>1. CASE draft' = draft
  BY <1>1 DEF TypesNow
<1>2. CASE /\ draft.run # None /\ draft.run.write = r
           /\ draft' = [draft EXCEPT !.run.at = "answered", !.run.answer = a]
  <2>1. a \in AnswerType /\ a # None /\ a.base = server /\ (a.ok <=> ok)
    BY DEF AnswerType, TypesNow, DraftAssumption
  <2>2. ok => draft.run.first.op \in server.ops
    BY <1>2 DEF Kept, Ordered
  <2>3. AnswerFits(draft, server, read, server, wanted, deleted)
    BY <1>2, FileFits DEF TypesNow
  <2> HIDE DEF a
  <2> QED
    BY <1>2, <2>1, <2>2, <2>3, OutcomeChanges DEF TypesNow
<1> QED
  BY <1>1, <1>2 DEF Reply

LEMMA ReplayStep ==
    ASSUME Facts, NEW r \in requests, Replay(r) PROVE DraftInv'
<1> USE Now
<1>1. /\ requests' = requests \ {r} /\ Reply(r, TRUE, server)
      /\ r.op \in server.ops
      /\ UNCHANGED <<phase, read, server, pointer, busy, wanted, deleted, count>>
  BY DEF Replay, bridge, user
<1>2. /\ draft' \in DraftRenderer
      /\ Kept(draft', phase, read, requests, server, wanted, deleted)
  BY <1>1, ReplyKept
<1>3. Kept(draft', phase, read, requests', server, wanted, deleted)
  BY <1>1, <1>2, FewerRequests
<1> QED
  BY <1>1, <1>2, <1>3, CountersNow, OtherStep DEF DraftTypeOK

LEMMA ConflictStep ==
    ASSUME Facts, NEW r \in requests, Conflict(r) PROVE DraftInv'
<1> USE Now
<1>1. /\ requests' = requests \ {r} /\ Reply(r, FALSE, server)
      /\ UNCHANGED <<phase, read, server, pointer, busy, wanted, deleted, count>>
  BY DEF Conflict, bridge, user
<1>2. /\ draft' \in DraftRenderer
      /\ Kept(draft', phase, read, requests, server, wanted, deleted)
  BY <1>1, ReplyKept
<1>3. Kept(draft', phase, read, requests', server, wanted, deleted)
  BY <1>1, <1>2, FewerRequests
<1> QED
  BY <1>1, <1>2, <1>3, CountersNow, OtherStep DEF DraftTypeOK

LEMMA PointStep ==
    ASSUME Facts, Point PROVE DraftInv'
<1> USE Now
<1>1. /\ busy # None /\ busy' = None /\ pointer' = server.revision
      /\ Reply(busy, TRUE, server)
      /\ UNCHANGED <<phase, read, requests, server, wanted, deleted, count>>
  BY DEF Point, user
<1>2. busy.op \in server.ops
  BY <1>1 DEF World
<1>3. /\ draft' \in DraftRenderer
      /\ Kept(draft', phase, read, requests, server, wanted, deleted)
  BY <1>1, <1>2, ReplyKept
<1>4. pointer' \in Nat
  BY <1>1 DEF TypesNow, Draft
<1> QED
  BY <1>1, <1>3, <1>4, CountersNow, OtherStep DEF DraftTypeOK

-----------------------------------------------------------------------------
(* A write is applied: C is the new draft file.                             *)

Writes(r, B, C) ==
    /\ C.revision = B.revision + 1
    /\ C.tombs = B.tombs \cup r.tombs
    /\ C.ops = B.ops \cup {r.op}
    /\ \A i \in Ids : C.text[i] = IF i \in C.tombs THEN 0 ELSE r.text[i]

LEMMA WrittenIs ==
    ASSUME NEW r \in DraftWrite, NEW B \in Draft, NEW C \in Draft,
           NEW w \in Text, NEW d \in SUBSET Ids, MaxChanges \in Nat,
           Writes(r, B, C), Fits(r, w, d), Over(r, B),
           r.expected = B.revision, Sane(B, w, d), Gone(w, d)
    PROVE  /\ Sane(C, w, d) /\ Older(B, C)
           /\ Whole(r, B, w, d) => Has(C, w, d)
<1>0. /\ B.revision \in Nat
      /\ \A i \in Ids : /\ B.text[i] \in Nat /\ r.text[i] \in Nat
                        /\ w[i] \in Nat /\ C.text[i] \in Nat
  BY DEF Draft, Text, DraftWrite
<1>1. C.tombs \subseteq d
  BY DEF Writes, Fits, Sane
<1>2. Sane(C, w, d)
  BY <1>0, <1>1 DEF Writes, Fits, Sane, Clean, Draft
<1>3. Within(B.text, B.tombs, C)
  BY <1>0 DEF Writes, Within, Over
<1>4. Older(B, C)
  BY <1>0, <1>3 DEF Writes, Older
<1>5. ASSUME Whole(r, B, w, d) PROVE Has(C, w, d)
  <2>1. \A i \in Ids : C.text[i] = w[i]
    BY <1>1, <1>5 DEF Writes, Whole, Gone
  <2>2. C.text = w
    BY <2>1 DEF Draft, Text
  <2> QED
    BY <1>5, <2>2 DEF Writes, Whole, Has
<1> QED
  BY <1>2, <1>4, <1>5

LEMMA WrittenKept ==
    ASSUME NEW s \in DraftRenderer, NEW ph, NEW rd \in Reads \cup {None},
           NEW rq \in SUBSET DraftWrite, NEW r \in rq,
           NEW B \in Draft, NEW C \in Draft,
           NEW w \in Text, NEW d \in SUBSET Ids, DraftAssumption,
           Kept(s, ph, rd, rq, B, w, d), Sane(B, w, d), Gone(w, d),
           Writes(r, B, C), r.expected = B.revision, r.op \notin B.ops
    PROVE  Kept(s, ph, rd, rq, C, w, d) /\ Sane(C, w, d)
<1> USE DEF Kept
<1>0. MaxChanges \in Nat /\ r \in DraftWrite
  BY DEF DraftAssumption
<1>1. Fits(r, w, d) /\ Over(r, B)
  BY DEF Sendable
<1>2. /\ Sane(C, w, d) /\ Older(B, C)
      /\ Whole(r, B, w, d) => Has(C, w, d)
  BY <1>0, <1>1, WrittenIs
<1>3. Has(B, w, d) => Has(C, w, d)
  BY <1>0, <1>2, HasGrows
<1>4. /\ B.revision \in Nat /\ C.revision = B.revision + 1
      /\ B.tombs \subseteq C.tombs /\ C.ops = B.ops \cup {r.op}
  BY DEF Writes, Draft
<1>5. \A X : Whole(X, B, w, d) => Whole(X, C, w, d)
  BY <1>4 DEF Whole
<1>6. \A A \in Draft : Older(A, B) => Older(A, C)
  BY <1>0, <1>2, OlderIsTransitive
<1>7. Sendable(s, rq, C, w, d)
  <2>1. \A X \in Snapshots(s) \cup rq : X.expected \in Nat
    BY DEF Snapshots, DraftRenderer, Run, DraftWrite
  <2>2. \A X \in Snapshots(s) \cup rq : Over(X, C)
    BY <1>4, <2>1 DEF Sendable, Over
  <2> QED
    BY <2>2 DEF Sendable
<1>8. Numbered(s, rq, C)
  BY <1>4 DEF Numbered
<1>9. Ordered(s, ph, C)
  <2>1. s.revision <= C.revision
    BY <1>4 DEF Ordered, DraftRenderer
  <2>2. Within(s.ack.text, s.ack.tombs, C)
    <3>1. \A i \in Ids : /\ s.ack.text[i] \in Nat /\ B.text[i] \in Nat
                         /\ C.text[i] \in Nat
      BY <1>0 DEF DraftRenderer, Draft, Text
    <3> QED
      BY <1>2, <3>1 DEF Ordered, Within, Older
  <2> QED
    BY <2>1, <2>2 DEF Ordered
<1>10. Recorded(s, ph, C, w, d)
  BY <1>3, <1>5 DEF Recorded
<1>11. Agreed(s, rq, C)
  BY <1>4 DEF Agreed, Unsent
<1>12. Chained(s, ph, C, w, d)
  BY <1>3, <1>5 DEF Chained
<1>13. Applied(s, rq, C, w, d)
  <2>1. \A X \in Snapshots(s) \cup rq :
           Live(X.op, s) /\ X.op \notin C.ops => Whole(X, C, w, d)
    BY <1>4, <1>5 DEF Applied
  <2>2. ASSUME NEW o \in C.ops, Live(o, s) PROVE Has(C, w, d)
    <3>1. CASE o \in B.ops
      BY <1>3, <2>2, <3>1 DEF Applied
    <3>2. CASE o = r.op
      BY <1>2, <2>2, <3>2 DEF Applied
    <3> QED
      BY <1>4, <3>1, <3>2
  <2> QED
    BY <2>1, <2>2 DEF Applied
<1>14. Answered(s, C, w, d)
  <2>1. HasAnswer(s) => s.run.answer.base \in Draft
    BY AnswerThatCame
  <2> QED
    BY <1>6, <2>1 DEF Answered, True
<1>15. Reading(s, ph, rd, C, w, d)
  <2>1. rd # None => rd.base \in Draft
    BY DEF Reads
  <2> QED
    BY <1>6, <2>1 DEF Reading
<1> QED
  BY <1>2, <1>7, <1>8, <1>9, <1>10, <1>11, <1>12, <1>13, <1>14, <1>15

LEMMA ApplyStep ==
    ASSUME Facts, NEW r \in requests, Apply(r) PROVE DraftInv'
<1> USE Now
<1> DEFINE tombs == server.tombs \cup r.tombs
           text == [i \in Ids |-> IF i \in tombs THEN 0 ELSE r.text[i]]
<1>1. /\ r.op \notin server.ops /\ r.expected = server.revision
      /\ requests' = requests \ {r} /\ busy' = r
      /\ server' = [revision |-> server.revision + 1, text |-> text,
                    tombs |-> tombs, ops |-> server.ops \cup {r.op}]
      /\ UNCHANGED <<draft, phase, read, pointer, wanted, deleted, count>>
  BY DEF Apply, user
<1>2. r \in DraftWrite /\ MaxChanges \in Nat
  BY DEF TypesNow
<1>3. text \in Text /\ tombs \in SUBSET Ids
  BY <1>2 DEF Text, TypesNow, DraftWrite, Draft
<1>4. server' \in Draft
  BY <1>1, <1>2, <1>3 DEF TypesNow, Draft, DraftWrite
<1>5. Writes(r, server, server')
  BY <1>1 DEF Writes
<1> HIDE DEF text, tombs
<1>6. /\ Kept(draft, phase, read, requests, server', wanted, deleted)
      /\ Sane(server', wanted, deleted)
  BY <1>1, <1>4, <1>5, WrittenKept DEF TypesNow
<1>7. Kept(draft, phase, read, requests', server', wanted, deleted)
  BY <1>1, <1>6, FewerRequests
<1>8. DraftTypeOK'
  BY <1>1, <1>2, <1>4 DEF DraftTypeOK
<1>9. World(server', busy', wanted', deleted', count'.changes)
  BY <1>1, <1>5, <1>6 DEF World, Writes
<1> QED
  BY <1>1, <1>7, <1>8, <1>9 DEF DraftInv

-----------------------------------------------------------------------------
(* A session that ends: t has the record of s, and its write is retired.    *)

Retires(s, t) == /\ t.record = s.record /\ t.ops = s.ops /\ t.pending = None
                 /\ t.run \in {None, Retire(s)}

LEMMA RetireIs ==
    ASSUME NEW s \in DraftRenderer, s.run # None, DraftAssumption
    PROVE  LET r == Retire(s) IN
           /\ r \in Run /\ r # None /\ r.write = s.run.write
           /\ r.first = s.run.first
           /\ ~r.current /\ r.at = s.run.at /\ r.answer = s.run.answer
<1>1. s.run \in Run
  BY DEF DraftRenderer
<1>2. Retire(s) = [s.run EXCEPT !.current = FALSE]
  BY DEF Retire
<1>3. Retire(s) \in Run
  BY <1>1, <1>2 DEF Run
<1> QED
  BY <1>1, <1>2, <1>3 DEF Run, DraftAssumption

LEMMA RetiredIs ==
    ASSUME NEW s \in DraftRenderer, NEW t \in DraftRenderer, NEW ph, NEW rd,
           NEW rq \in SUBSET DraftWrite,
           NEW B, NEW w, NEW d, DraftAssumption,
           Kept(s, ph, rd, rq, B, w, d), Retires(s, t)
    PROVE  /\ ~Current(t)
           /\ Sendable(t, rq, B, w, d) /\ Numbered(t, rq, B)
           /\ Applied(t, rq, B, w, d) /\ Answered(t, B, w, d)
           /\ t.run # None => t.run.write.op = t.run.first.op
           /\ HasAnswer(t) => t.run.answer # None
<1> USE DEF Kept
<1>1. t.run # None =>
        /\ s.run # None
        /\ t.run.write = s.run.write /\ t.run.first = s.run.first
        /\ ~t.run.current /\ t.run.at = s.run.at
        /\ t.run.answer = s.run.answer
  <2>1. s.run = None => Retire(s) = None
    BY DEF Retire
  <2> QED
    BY <2>1, RetireIs DEF Retires
<1>2. ~Current(t)
  BY <1>1 DEF Current
<1>3. Calms(s, t)
  <2>1. Snapshots(t) \subseteq Snapshots(s)
    BY <1>1 DEF Snapshots, Retires
  <2>2. \A o : Live(o, t) => Live(o, s)
    BY <1>2 DEF Live, Retires
  <2> QED
    BY <2>1, <2>2 DEF Calms, Retires
<1>4. /\ Sendable(t, rq, B, w, d) /\ Numbered(t, rq, B)
      /\ Applied(t, rq, B, w, d)
  BY <1>3, Shrinks
<1>5. /\ t.run # None => t.run.write.op = t.run.first.op
      /\ HasAnswer(t) => t.run.answer # None
  BY <1>1 DEF Ordered, HasAnswer
<1>6. Answered(t, B, w, d)
  <2> SUFFICES ASSUME HasAnswer(t)
               PROVE  /\ True(t, t.run.answer.base, B, w, d)
                      /\ Telling(t, t.run.answer.base, w, d)
                      /\ Covering(t, t.run.answer.base, d)
    BY DEF Answered
  <2>1. HasAnswer(s) /\ t.run.answer = s.run.answer
    BY <1>1 DEF HasAnswer
  <2>2. True(t, t.run.answer.base, B, w, d)
    BY <1>1, <2>1 DEF Answered, True, HasAnswer
  <2>3. Telling(t, t.run.answer.base, w, d)
    BY <1>1, <1>3, <2>1 DEF Answered, Telling, HasAnswer, Calms
  <2> QED
    BY <1>2, <2>2, <2>3 DEF Covering
<1> QED
  BY <1>2, <1>4, <1>5, <1>6

LEMMA NothingIsText ==
    ASSUME MaxChanges \in Nat PROVE NoText \in Text
BY DEF NoText, Text

LEMMA AwayKept ==
    ASSUME NEW s \in DraftRenderer, NEW t \in DraftRenderer, NEW ph, NEW rd,
           NEW rq \in SUBSET DraftWrite, NEW B \in Draft,
           NEW w \in Text, NEW d \in SUBSET Ids, DraftAssumption,
           Kept(s, ph, rd, rq, B, w, d), Retires(s, t),
           t.recoveryOp = 0, t.revision = 0,
           t.ack = [text |-> NoText, tombs |-> {}]
    PROVE  Kept(t, "away", None, rq, B, w, d)
<1>1. /\ ~Current(t) /\ t.pending = None
      /\ Sendable(t, rq, B, w, d) /\ Numbered(t, rq, B)
      /\ Applied(t, rq, B, w, d) /\ Answered(t, B, w, d)
      /\ t.run # None => t.run.write.op = t.run.first.op
      /\ HasAnswer(t) => t.run.answer # None
  BY RetiredIs DEF Retires
<1>2. Ordered(t, "away", B)
  <2>1. Within(NoText, {}, B)
    BY DEF Within, NoText, Draft, Text
  <2>2. 0 <= B.revision
    BY DEF Draft
  <2> QED
    BY <1>1, <2>1, <2>2 DEF Ordered, HasAnswer
<1>3. Recorded(t, "away", B, w, d)
  BY DEF Recorded, Kept, Retires
<1>4. /\ Agreed(t, rq, B) /\ Chained(t, "away", B, w, d)
      /\ Reading(t, "away", None, B, w, d)
  BY <1>1 DEF Agreed, Chained, Reading
<1> QED
  BY <1>1, <1>2, <1>3, <1>4 DEF Kept

LEMMA LeaveStep ==
    ASSUME Facts, Leave PROVE DraftInv'
<1> USE Now
<1> DEFINE t == [Renewed(draft, 0, [text |-> NoText, tombs |-> {}])
                 EXCEPT !.text = NoText, !.tombs = {}, !.recoveryOp = 0]
<1>1. /\ Becomes(t) /\ phase' = "away" /\ read' = None
      /\ UNCHANGED <<server, pointer, busy, wanted, deleted, count>>
  BY DEF Leave, bridge, user
<1>2. /\ t \in DraftRenderer /\ Retires(draft, t)
      /\ t.recoveryOp = 0 /\ t.revision = 0
      /\ t.ack = [text |-> NoText, tombs |-> {}]
  <2>1. Retire(draft) \in Run \cup {None}
    BY RetireIs DEF Retire, TypesNow
  <2>2. NoText \in Text
    BY NothingIsText DEF TypesNow
  <2> QED
    BY <2>1, <2>2 DEF Renewed, Retires, TypesNow, DraftRenderer
<1> HIDE DEF t
<1>3. Kept(t, "away", None, requests, server, wanted, deleted)
  BY <1>2, AwayKept DEF TypesNow
<1>4. /\ Kept(draft', "away", None, requests', server, wanted, deleted)
      /\ draft' \in DraftRenderer /\ requests' \subseteq DraftWrite
  BY <1>1, <1>2, <1>3, BecomesKeeps DEF TypesNow
<1> QED
  BY <1>1, <1>4, CountersNow, OtherStep DEF DraftTypeOK

LEMMA ReloadStep ==
    ASSUME Facts, Reload PROVE DraftInv'
<1> USE Now
<1>1. /\ phase' = "away" /\ read' = None
      /\ draft' = [text |-> NoText, tombs |-> {}, record |-> draft.record,
                   recoveryOp |-> 0, revision |-> 0,
                   ack |-> [text |-> NoText, tombs |-> {}], pending |-> None,
                   error |-> FALSE, run |-> None, ops |-> draft.ops]
      /\ UNCHANGED <<requests, server, pointer, busy, wanted, deleted>>
      /\ count' \in Counters /\ count'.changes = count.changes
  BY CountersNow DEF Reload, bridge, user
<1>2. NoText \in Text
  BY NothingIsText DEF TypesNow
<1>3. /\ draft' \in DraftRenderer /\ Retires(draft, draft')
      /\ draft'.recoveryOp = 0 /\ draft'.revision = 0
      /\ draft'.ack = [text |-> NoText, tombs |-> {}]
  BY <1>1, <1>2 DEF Retires, TypesNow, DraftRenderer
<1>4. Kept(draft', "away", None, requests, server, wanted, deleted)
  BY <1>3, AwayKept DEF TypesNow
<1> QED
  BY <1>1, <1>3, <1>4, OtherStep DEF DraftTypeOK

LEMMA ReadWorkspaceStep ==
    ASSUME Facts, NEW goal \in Goals, ReadWorkspace(goal) PROVE DraftInv'
<1> USE Now
<1> DEFINE rd == [goal |-> goal, base |-> server]
<1>1. /\ goal = "open" <=> phase = "away"
      /\ read' = rd
      /\ UNCHANGED <<draft, phase, requests, server, pointer, busy, wanted, deleted>>
      /\ count' \in Counters /\ count'.changes = count.changes
  BY CountersNow DEF ReadWorkspace, bridge, user
<1>2. rd \in Reads /\ rd # None /\ rd.goal = goal /\ rd.base = server
  BY DEF Reads, TypesNow, DraftAssumption
<1> HIDE DEF rd
<1>3. Older(server, server)
  BY OlderIsReflexive DEF TypesNow
<1>4. draft.record = None => Has(server, wanted, deleted)
  BY DEF Kept, Recorded
<1>5. draft.record # None =>
        /\ deleted \subseteq draft.record.tombs \cup server.tombs
        /\ draft.record.op \in server.ops => Has(server, wanted, deleted)
  BY DEF Kept, Recorded, Whole, Applied, Live
<1>6. HasAnswer(draft) => Older(draft.run.answer.base, server)
  BY DEF Kept, Answered, True
<1>7. Reading(draft, phase, rd, server, wanted, deleted)
  BY <1>1, <1>2, <1>3, <1>4, <1>5, <1>6 DEF Reading
<1>8. Kept(draft, phase, rd, requests, server, wanted, deleted)
  BY <1>7 DEF Kept
<1>9. read' \in Reads \cup {None} /\ draft' \in DraftRenderer
  BY <1>1, <1>2 DEF TypesNow
<1>10. /\ phase' \in {"open", "away"}
       /\ requests' \subseteq DraftWrite
       /\ pointer' \in Nat
  BY <1>1 DEF DraftTypeOK
<1> QED
  BY <1>1, <1>8, <1>9, <1>10, OtherStep

LEMMA ApplyRegistrationStep ==
    ASSUME Facts, ApplyRegistration PROVE DraftInv'
<1> USE Now
<1> DEFINE A == read.base
           s == Renewed(draft, A.revision, Aggregate(A))
           t == QueueDraft(s)
<1>1. /\ read # None /\ read.goal = "register" /\ read' = None
      /\ Becomes(t)
      /\ UNCHANGED <<phase, server, pointer, busy, wanted, deleted, count>>
  BY DEF ApplyRegistration, bridge, user
<1>2. /\ A \in Draft
      /\ A.text \in Text
      /\ A.tombs \in SUBSET Ids
      /\ A.revision \in Nat
  BY <1>1 DEF TypesNow, Reads, Draft
<1>3. Older(A, server) /\ phase = "open"
  BY <1>1 DEF Kept, Reading, DraftTypeOK
<1> HIDE DEF A
<1>4. /\ s \in DraftRenderer /\ Retires(draft, s)
      /\ s.revision = A.revision /\ s.recoveryOp = draft.recoveryOp
      /\ s.text = draft.text /\ s.tombs = draft.tombs /\ s.pending = None
      /\ s.ack.text = A.text /\ s.ack.tombs = A.tombs
  <2>1. Retire(draft) \in Run \cup {None}
    BY RetireIs DEF Retire, TypesNow
  <2> QED
    BY <1>2, <2>1 DEF Renewed, Retires, TypesNow, DraftRenderer, Aggregate
<1> HIDE DEF s
<1>5. /\ ~Current(s)
      /\ Sendable(s, requests, server, wanted, deleted)
      /\ Numbered(s, requests, server)
      /\ Applied(s, requests, server, wanted, deleted)
      /\ Answered(s, server, wanted, deleted)
      /\ s.run # None => s.run.write.op = s.run.first.op
      /\ HasAnswer(s) => s.run.answer # None
  BY <1>4, RetiredIs DEF TypesNow
<1>6. /\ Ready(draft, requests, server, wanted, deleted)
      /\ draft.recoveryOp = 0
  BY <1>3, OpenIsReady DEF TypesNow
<1>7. Ready(s, requests, server, wanted, deleted)
  BY <1>3, <1>4, <1>5, <1>6 DEF Ready, Older
<1>8. /\ Standing(s, requests, server, wanted, deleted)
      /\ AnswerReady(s, server, wanted, deleted)
      /\ ReadReady(s, None, server, wanted, deleted)
  BY <1>5 DEF Standing, Answered, AnswerReady, ReadReady
<1>9. t \in DraftRenderer /\ Queues(s, t)
  BY <1>4, QueueIs
<1> HIDE DEF t
<1>10. Kept(t, "open", None, requests, server, wanted, deleted)
  BY <1>4, <1>6, <1>7, <1>8, <1>9, QueuedKept DEF TypesNow
<1>11. /\ Kept(draft', "open", None, requests', server, wanted, deleted)
       /\ draft' \in DraftRenderer /\ requests' \subseteq DraftWrite
  BY <1>1, <1>9, <1>10, BecomesKeeps DEF TypesNow
<1> QED
  BY <1>1, <1>3, <1>11, CountersNow, OtherStep DEF DraftTypeOK

-----------------------------------------------------------------------------
(* Recovery: what record and a draft A of the bridge give.                  *)

Recovers(record, A, w, d) ==
    /\ record = None => Has(A, w, d)
    /\ record # None => /\ record.text = w /\ record.tombs \subseteq d
                        /\ d \subseteq record.tombs \cup A.tombs
                        /\ record.op \in A.ops => Has(A, w, d)

LEMMA RecoveredIs ==
    ASSUME NEW record \in Record \cup {None}, NEW A \in Draft,
           NEW w \in Text, NEW d \in SUBSET Ids, MaxChanges \in Nat,
           Sane(A, w, d), Gone(w, d), Recovers(record, A, w, d)
    PROVE  LET found == Recovered(record, A) IN
           /\ found.text = w
           /\ found.tombs =
                 IF record = None THEN {}
                 ELSE IF record.op \in A.ops THEN {}
                 ELSE record.tombs \cup A.tombs
           /\ found.op \in Nat
           /\ found.op # 0 => record # None /\ found.op = record.op
<1> DEFINE found == Recovered(record, A)
           m == Merge(record.text, record.tombs, A)
           n == Merge(A.text, A.tombs, A)
<1>0. A.text \in Text /\ A.tombs \in SUBSET Ids
  BY DEF Draft
<1>1. CASE record = None
  <2>1. found = [text |-> A.text, tombs |-> {}, op |-> 0]
    BY <1>1 DEF Recovered
  <2> QED
    BY <1>1, <2>1 DEF Recovers, Has
<1>2. CASE record # None /\ record.op \in A.ops
  <2>1. found = [text |-> n.text, tombs |-> {}, op |-> 0]
    BY <1>2 DEF Recovered
  <2>2. Merges(A.text, A.tombs, A, n)
    BY <1>0, MergeIs
  <2> HIDE DEF n
  <2>3. A.text = w /\ A.tombs \subseteq d
    BY <1>2 DEF Recovers, Has, Sane, Fits
  <2>4. \A i \in Ids : n.text[i] = w[i]
    BY <2>2, <2>3 DEF Merges, Gone
  <2>5. n.text = w
    BY <2>2, <2>4 DEF Merges, Text
  <2> QED
    BY <1>2, <2>1, <2>5
<1>3. CASE record # None /\ record.op \notin A.ops
  <2>1. found = [text |-> m.text, tombs |-> m.tombs, op |-> record.op]
    BY <1>3 DEF Recovered
  <2>2. Merges(record.text, record.tombs, A, m)
    BY <1>0, <1>3, MergeIs DEF Record
  <2> HIDE DEF m
  <2>3. /\ record.text = w /\ record.tombs \subseteq d /\ A.tombs \subseteq d
        /\ d \subseteq record.tombs \cup A.tombs /\ record.op \in Nat
    BY <1>3 DEF Recovers, Sane, Fits, Record
  <2>4. ASSUME NEW i \in Ids PROVE m.text[i] = w[i]
    <3>1. CASE i \in m.tombs
      BY <2>2, <2>3, <3>1 DEF Merges, Gone
    <3>2. CASE i \notin m.tombs
      <4>1. i \notin d /\ m.text[i] \in {w[i], A.text[i]} /\ m.text[i] >= w[i]
        BY <2>2, <2>3, <3>2 DEF Merges
      <4>2. A.text[i] <= w[i]
        BY <4>1 DEF Sane, Fits
      <4>3. w[i] \in Nat /\ A.text[i] \in Nat
        BY <1>0 DEF Text
      <4> QED
        BY <4>1, <4>2, <4>3
    <3> QED
      BY <3>1, <3>2
  <2>5. m.text = w
    BY <2>2, <2>4 DEF Merges, Text
  <2>6. m.tombs = record.tombs \cup A.tombs
    BY <2>2 DEF Merges
  <2> QED
    BY <1>3, <2>1, <2>3, <2>5, <2>6
<1> QED
  BY <1>1, <1>2, <1>3

(* What is read can always be recovered from.                               *)
LEMMA ReadRecovers ==
    ASSUME NEW s, NEW ph, NEW rd \in Reads \cup {None}, rd # None,
           NEW rq, NEW B, NEW w, NEW d,
           Kept(s, ph, rd, rq, B, w, d), Usable(s, ph, rd.base)
    PROVE  /\ Recovers(s.record, rd.base, w, d)
           /\ rd.base \in Draft /\ Older(rd.base, B) /\ Sane(rd.base, w, d)
BY DEF Kept, Reading, Recovers, Recorded, Whole, Reads

LEMMA FileRecovers ==
    ASSUME NEW s, NEW ph, NEW rd, NEW rq, NEW B, NEW w, NEW d,
           Kept(s, ph, rd, rq, B, w, d)
    PROVE  Recovers(s.record, B, w, d)
BY DEF Kept, Recovers, Recorded, Whole, Applied, Live

(* The record and a draft are recovered from into a session s; u has the    *)
(* text, the deletions and the operation that were found.                   *)
Finds(s, A, u) ==
    LET found == Recovered(s.record, A) IN
    u = [s EXCEPT !.recoveryOp = found.op,
                  !.text = found.text, !.tombs = found.tombs]

Found(s, A, B, w, d, u) ==
    /\ u \in DraftRenderer
    /\ u.text = w /\ u.tombs \subseteq d /\ d \subseteq u.tombs \cup B.tombs
    /\ u.tombs = IF s.record = None THEN {}
                 ELSE IF s.record.op \in A.ops THEN {}
                 ELSE s.record.tombs \cup A.tombs
    /\ u.recoveryOp # 0 => u.record # None /\ u.recoveryOp = u.record.op
    /\ u.record = s.record /\ u.revision = s.revision /\ u.ack = s.ack
    /\ u.pending = s.pending /\ u.run = s.run /\ u.ops = s.ops

LEMMA FoundIs ==
    ASSUME NEW s \in DraftRenderer, NEW A \in Draft, NEW u,
           NEW B \in Draft, NEW w \in Text, NEW d \in SUBSET Ids,
           MaxChanges \in Nat, Sane(A, w, d), Gone(w, d), Older(A, B),
           Recovers(s.record, A, w, d), Finds(s, A, u)
    PROVE  Found(s, A, B, w, d, u)
<1> DEFINE found == Recovered(s.record, A)
<1>0. s.record \in Record \cup {None}
  BY DEF DraftRenderer
<1>1. /\ found.text = w
      /\ found.tombs = IF s.record = None THEN {}
                       ELSE IF s.record.op \in A.ops THEN {}
                       ELSE s.record.tombs \cup A.tombs
      /\ found.op \in Nat
      /\ found.op # 0 => s.record # None /\ found.op = s.record.op
  BY <1>0, RecoveredIs
<1>2. u = [s EXCEPT !.recoveryOp = found.op,
                    !.text = found.text, !.tombs = found.tombs]
  BY DEF Finds
<1> HIDE DEF found
<1>3. found.tombs \subseteq d /\ d \subseteq found.tombs \cup B.tombs
  BY <1>1 DEF Recovers, Has, Sane, Fits, Older, Within
<1> QED
  BY <1>1, <1>2, <1>3 DEF DraftRenderer, Found

(* Another context: what was going on is retired.                           *)
LEMMA OpenedKept ==
    ASSUME Facts, read # None, read.goal = "open",
           NEW t, t = Hydrated(Renewed(draft, read.base.revision,
                                       Aggregate(read.base)), read.base)
    PROVE  /\ t \in DraftRenderer
           /\ Kept(t, "open", None, requests, server, wanted, deleted)
<1> USE Now
<1> DEFINE A == read.base
           s == Renewed(draft, A.revision, Aggregate(A))
           found == Recovered(s.record, A)
           u == [s EXCEPT !.recoveryOp = found.op,
                          !.text = found.text, !.tombs = found.tombs]
<1>1. t = QueueDraft(u) /\ Finds(s, A, u)
  BY DEF Hydrated, Finds
<1> HIDE DEF u, found
<1>2. /\ A \in Draft /\ Older(A, server) /\ Sane(A, wanted, deleted)
      /\ Recovers(draft.record, A, wanted, deleted)
  <2>1. phase = "away"
    BY DEF Kept, Reading
  <2>2. Usable(draft, phase, A)
    BY <2>1 DEF Usable
  <2> QED
    BY <2>2, ReadRecovers DEF TypesNow
<1>3. A.text \in Text /\ A.tombs \in SUBSET Ids /\ A.revision \in Nat
  BY <1>2 DEF Draft
<1> HIDE DEF A
<1>4. /\ s \in DraftRenderer /\ Retires(draft, s)
      /\ s.revision = A.revision /\ s.pending = None
      /\ s.ack.text = A.text /\ s.ack.tombs = A.tombs
  <2>1. Retire(draft) \in Run \cup {None}
    BY RetireIs DEF Retire, TypesNow
  <2> QED
    BY <1>3, <2>1 DEF Renewed, Retires, TypesNow, DraftRenderer, Aggregate
<1>5. s.record = draft.record
  BY <1>4 DEF Retires
<1> HIDE DEF s
<1>6. /\ u \in DraftRenderer
      /\ u.text = wanted /\ u.tombs \subseteq deleted
      /\ deleted \subseteq u.tombs \cup server.tombs
      /\ u.recoveryOp # 0 => u.record # None /\ u.recoveryOp = u.record.op
      /\ u.record = s.record /\ u.revision = s.revision /\ u.ack = s.ack
      /\ u.pending = s.pending /\ u.run = s.run /\ u.ops = s.ops
  <2>1. Recovers(s.record, A, wanted, deleted)
    BY <1>2, <1>5
  <2>2. /\ s \in DraftRenderer /\ server \in Draft /\ wanted \in Text
        /\ deleted \in SUBSET Ids /\ MaxChanges \in Nat
    BY <1>4 DEF TypesNow
  <2>3. Found(s, A, server, wanted, deleted, u)
    BY <1>1, <1>2, <2>1, <2>2, FoundIs
  <2> QED
    BY <2>3 DEF Found
<1>7. Retires(draft, u)
  BY <1>4, <1>6 DEF Retires
<1>8. /\ ~Current(u)
      /\ Sendable(u, requests, server, wanted, deleted)
      /\ Numbered(u, requests, server)
      /\ Applied(u, requests, server, wanted, deleted)
      /\ Answered(u, server, wanted, deleted)
      /\ u.run # None => u.run.write.op = u.run.first.op
      /\ HasAnswer(u) => u.run.answer # None
  BY <1>6, <1>7, RetiredIs DEF TypesNow
<1>9. Ready(u, requests, server, wanted, deleted)
  BY <1>2, <1>4, <1>6, <1>8 DEF Ready, Older
<1>10. /\ Standing(u, requests, server, wanted, deleted)
       /\ AnswerReady(u, server, wanted, deleted)
       /\ ReadReady(u, None, server, wanted, deleted)
       /\ Agreed(u, requests, server)
  BY <1>4, <1>6, <1>8 DEF Standing, Answered, AnswerReady, ReadReady, Agreed
<1>11. t \in DraftRenderer /\ Queues(u, t)
  BY <1>1, <1>6, QueueIs
<1> QED
  BY <1>6, <1>9, <1>10, <1>11, QueuedKept DEF TypesNow

(* The same context: what was going on goes on.                             *)
LEMMA RefreshedKept ==
    ASSUME Facts, read # None, read.goal = "refresh",
           read.base.revision >= draft.revision,
           NEW t, t = Hydrated([draft EXCEPT !.revision = read.base.revision,
                                             !.ack = Aggregate(read.base)],
                               read.base)
    PROVE  /\ t \in DraftRenderer
           /\ Kept(t, "open", None, requests, server, wanted, deleted)
<1> USE Now
<1> DEFINE A == read.base
           s == [draft EXCEPT !.revision = A.revision, !.ack = Aggregate(A)]
           found == Recovered(s.record, A)
           u == [s EXCEPT !.recoveryOp = found.op,
                          !.text = found.text, !.tombs = found.tombs]
<1>1. t = QueueDraft(u) /\ Finds(s, A, u)
  BY DEF Hydrated, Finds
<1> HIDE DEF u, found
<1>2. /\ A \in Draft /\ Older(A, server) /\ Sane(A, wanted, deleted)
      /\ Recovers(draft.record, A, wanted, deleted) /\ phase = "open"
  <2>1. phase = "open"
    BY DEF Kept, Reading, DraftTypeOK
  <2>2. Usable(draft, phase, A)
    BY DEF Usable
  <2> QED
    BY <2>1, <2>2, ReadRecovers DEF TypesNow
<1>3. A.text \in Text /\ A.tombs \in SUBSET Ids /\ A.revision \in Nat
  BY <1>2 DEF Draft
<1> HIDE DEF A
<1>4. /\ s \in DraftRenderer /\ s.revision = A.revision
      /\ s.ack.text = A.text /\ s.ack.tombs = A.tombs
      /\ s.record = draft.record /\ s.pending = draft.pending
      /\ s.run = draft.run /\ s.ops = draft.ops
  BY <1>3 DEF TypesNow, DraftRenderer, Aggregate
<1> HIDE DEF s
<1>5. /\ u \in DraftRenderer
      /\ u.text = wanted /\ u.tombs \subseteq deleted
      /\ deleted \subseteq u.tombs \cup server.tombs
      /\ u.tombs = IF draft.record = None THEN {}
                   ELSE IF draft.record.op \in A.ops THEN {}
                   ELSE draft.record.tombs \cup A.tombs
      /\ u.recoveryOp # 0 => u.record # None /\ u.recoveryOp = u.record.op
      /\ u.record = draft.record /\ u.revision = A.revision /\ u.ack = s.ack
      /\ u.pending = draft.pending /\ u.run = draft.run /\ u.ops = draft.ops
  <2>1. Recovers(s.record, A, wanted, deleted)
    BY <1>2, <1>4
  <2>2. /\ s \in DraftRenderer /\ server \in Draft /\ wanted \in Text
        /\ deleted \in SUBSET Ids /\ MaxChanges \in Nat
    BY <1>4 DEF TypesNow
  <2>3. Found(s, A, server, wanted, deleted, u)
    BY <1>1, <1>2, <2>1, <2>2, FoundIs
  <2> QED
    BY <1>4, <2>3 DEF Found
<1>6. /\ Snapshots(u) = Snapshots(draft)
      /\ Current(u) <=> Current(draft)
      /\ HasAnswer(u) <=> HasAnswer(draft)
  BY <1>5 DEF Snapshots, Current, HasAnswer
<1>7. /\ \A o : Live(o, u) <=> Live(o, draft)
      /\ \A o : Unsent(o, draft, requests, server)
                   => Unsent(o, u, requests, server)
  BY <1>5, <1>6 DEF Live, Unsent
<1>8. /\ Sendable(u, requests, server, wanted, deleted)
      /\ Numbered(u, requests, server)
      /\ Applied(u, requests, server, wanted, deleted)
  <2>1. Calms(draft, u)
    BY <1>5, <1>6, <1>7 DEF Calms
  <2> QED
    BY <1>5, <2>1, Shrinks DEF Kept, TypesNow
<1>9. /\ Ready(draft, requests, server, wanted, deleted)
      /\ Standing(draft, requests, server, wanted, deleted)
      /\ AnswerReady(draft, server, wanted, deleted)
  BY <1>2, OpenIsReady DEF TypesNow
<1>10. Ready(u, requests, server, wanted, deleted)
  BY <1>2, <1>4, <1>5, <1>6, <1>8, <1>9 DEF Ready, Older
<1>11. Standing(u, requests, server, wanted, deleted)
  BY <1>5, <1>6, <1>7, <1>8, <1>9 DEF Standing, Telling
<1>12. Agreed(u, requests, server)
  BY <1>5, <1>6, <1>7 DEF Kept, Agreed
<1>13. AnswerReady(u, server, wanted, deleted)
  <2> SUFFICES ASSUME HasAnswer(u)
               PROVE  /\ True(u, u.run.answer.base, server, wanted, deleted)
                      /\ Current(u) /\ u.run.first.op \in u.run.answer.base.ops =>
                            deleted \subseteq u.tombs \cup u.run.answer.base.tombs
    BY DEF AnswerReady
  <2>1. /\ True(u, u.run.answer.base, server, wanted, deleted)
        /\ Telling(draft, draft.run.answer.base, wanted, deleted)
        /\ Covering(draft, draft.run.answer.base, deleted)
    BY <1>5, <1>6 DEF Kept, Answered, True
  <2>2. ASSUME Current(draft), draft.run.first.op \in draft.run.answer.base.ops
        PROVE  deleted \subseteq u.tombs \cup draft.run.answer.base.tombs
    <3>1. deleted \subseteq draft.tombs \cup draft.run.answer.base.tombs
      BY <2>1, <2>2 DEF Covering
    <3>2. draft.tombs = IF draft.record = None THEN {} ELSE draft.record.tombs
      BY <1>2 DEF Kept, Recorded
    <3>3. CASE draft.record # None /\ draft.record.op \in A.ops
      <4>1. draft.record.op \in server.ops
        BY <1>2, <3>3 DEF Older
      <4>2. draft.record.op = draft.run.first.op
        BY <2>2, <3>3, <4>1 DEF Kept, Agreed, Unsent
      <4>3. Live(draft.run.first.op, draft)
        BY <3>3, <4>2 DEF Live
      <4> QED
        BY <2>1, <2>2, <4>3 DEF Telling, Has
    <3>4. CASE draft.record = None \/ draft.record.op \notin A.ops
      BY <1>5, <3>1, <3>2, <3>4
    <3> QED
      BY <3>3, <3>4
  <2> QED
    BY <1>5, <1>6, <2>1, <2>2
<1>14. ReadReady(u, None, server, wanted, deleted)
  BY DEF ReadReady
<1>15. t \in DraftRenderer /\ Queues(u, t)
  BY <1>1, <1>5, QueueIs
<1> QED
  BY <1>5, <1>10, <1>11, <1>12, <1>13, <1>14, <1>15, QueuedKept DEF TypesNow

LEMMA ApplyWorkspaceStep ==
    ASSUME Facts, ApplyWorkspace PROVE DraftInv'
<1> USE Now
<1> DEFINE A == read.base
           opened == Hydrated(Renewed(draft, A.revision, Aggregate(A)), A)
           refreshed == Hydrated([draft EXCEPT !.revision = A.revision,
                                               !.ack = Aggregate(A)], A)
           t == IF read.goal = "open" THEN opened
                ELSE IF A.revision >= draft.revision THEN refreshed ELSE draft
<1>1. /\ read # None /\ read.goal \in {"open", "refresh"}
      /\ phase' = "open" /\ read' = None /\ Becomes(t)
      /\ UNCHANGED <<server, pointer, busy, wanted, deleted, count>>
  BY DEF ApplyWorkspace, bridge, user
<1>2. /\ t \in DraftRenderer
      /\ Kept(t, "open", None, requests, server, wanted, deleted)
  <2>1. CASE read.goal = "open"
    <3>1. /\ opened \in DraftRenderer
          /\ Kept(opened, "open", None, requests, server, wanted, deleted)
      BY <1>1, <2>1, OpenedKept
    <3> HIDE DEF opened
    <3> QED
      BY <2>1, <3>1
  <2>2. CASE read.goal = "refresh" /\ A.revision >= draft.revision
    <3>1. /\ refreshed \in DraftRenderer
          /\ Kept(refreshed, "open", None, requests, server, wanted, deleted)
      BY <1>1, <2>2, RefreshedKept
    <3> HIDE DEF refreshed
    <3> QED
      BY <2>2, <3>1
  <2>3. CASE read.goal = "refresh" /\ ~(A.revision >= draft.revision)
    <3>1. t = draft /\ phase = "open"
      BY <1>1, <2>3 DEF Kept, Reading, DraftTypeOK
    <3>2. Reading(draft, "open", None, server, wanted, deleted)
      BY DEF Reading
    <3> HIDE DEF t
    <3> QED
      BY <3>1, <3>2 DEF Kept, TypesNow
  <2> QED
    BY <1>1, <2>1, <2>2, <2>3
<1> HIDE DEF t
<1>3. /\ Kept(draft', "open", None, requests', server, wanted, deleted)
      /\ draft' \in DraftRenderer /\ requests' \subseteq DraftWrite
  BY <1>1, <1>2, BecomesKeeps DEF TypesNow
<1> QED
  BY <1>1, <1>3, CountersNow, OtherStep DEF DraftTypeOK

-----------------------------------------------------------------------------
(* The invariant.                                                           *)

LEMMA DraftInitially ==
    ASSUME DraftAssumption, DraftInit PROVE DraftInv
<1> USE DEF DraftInit
<1>0. /\ MaxChanges \in Nat /\ MaxFlushes \in Nat /\ MaxOpens \in Nat
      /\ MaxReloads \in Nat /\ MaxFaults \in Nat /\ MaxCrashes \in Nat
  BY DEF DraftAssumption
<1>1. NoText \in Text /\ \A i \in Ids : NoText[i] = 0
  BY <1>0, NothingIsText DEF NoText
<1>2. DraftTypeOK
  BY <1>0, <1>1 DEF DraftTypeOK, DraftRenderer, Draft
<1>3. Has(server, wanted, deleted) /\ Sane(server, wanted, deleted)
  BY <1>1 DEF Has, Sane, Fits, Clean
<1>4. World(server, busy, wanted, deleted, count.changes)
  BY <1>1, <1>3 DEF World, Gone
<1>5. /\ Snapshots(draft) = {} /\ ~Current(draft) /\ ~HasAnswer(draft)
  BY DEF Snapshots, Current, HasAnswer
<1>6. /\ Sendable(draft, requests, server, wanted, deleted)
      /\ Numbered(draft, requests, server)
      /\ Applied(draft, requests, server, wanted, deleted)
  BY <1>5 DEF Sendable, Numbered, Applied
<1>7. Ordered(draft, phase, server)
  BY <1>1, <1>5 DEF Ordered, Within
<1>8. /\ Recorded(draft, phase, server, wanted, deleted)
      /\ Agreed(draft, requests, server)
      /\ Chained(draft, phase, server, wanted, deleted)
  BY <1>3, <1>5 DEF Recorded, Agreed, Chained
<1>9. /\ Answered(draft, server, wanted, deleted)
      /\ Reading(draft, phase, read, server, wanted, deleted)
  BY <1>5 DEF Answered, Reading
<1> QED
  BY <1>2, <1>4, <1>6, <1>7, <1>8, <1>9 DEF DraftInv, Kept

LEMMA DraftStutters ==
    ASSUME DraftInv, UNCHANGED draftVars PROVE DraftInv'
BY DEF DraftInv, DraftTypeOK, draftVars

LEMMA DraftSteps ==
    ASSUME Facts, [DraftNext]_draftVars PROVE DraftInv'
<1>1. ASSUME NEW i \in Ids, CommitComment(i) \/ EditComment(i) \/ DeleteComment(i)
      PROVE  DraftInv'
  BY <1>1, CommitStep, EditStep, DeleteStep
<1>2. CASE FlushDraft
  BY <1>2, FlushDraftStep
<1>3. CASE Answer \/ Unanswered \/ Refused \/ LoadAuthority
  BY <1>3, AnswerStep, UnansweredStep, RefusedStep, LoadAuthorityStep
<1>4. CASE Leave \/ Reload \/ ApplyWorkspace \/ ApplyRegistration
  BY <1>4, LeaveStep, ReloadStep, ApplyWorkspaceStep, ApplyRegistrationStep
<1>5. ASSUME NEW goal \in Goals, ReadWorkspace(goal) PROVE DraftInv'
  BY <1>5, ReadWorkspaceStep
<1>6. ASSUME NEW r \in requests, Replay(r) \/ Conflict(r) \/ Apply(r)
      PROVE  DraftInv'
  BY <1>6, ReplayStep, ConflictStep, ApplyStep
<1>7. CASE Point \/ Crash
  BY <1>7, PointStep, CrashStep
<1>8. CASE UNCHANGED draftVars
  BY <1>8, DraftStutters DEF Facts
<1> QED
  BY <1>1, <1>2, <1>3, <1>4, <1>5, <1>6, <1>7, <1>8 DEF DraftNext

(* The inductive invariant: whatever is late, lost, refused or read too     *)
(* early, the recovery record, the draft file and the snapshots under way   *)
(* stay in the relations named above.                                       *)
THEOREM DraftInvariance == DraftSpec => []DraftInv
<1>1. DraftInit => DraftInv
  BY DraftAssumption, DraftInitially
<1>2. DraftInv /\ [DraftNext]_draftVars => DraftInv'
  BY DraftAssumption, DraftSteps DEF Facts
<1> QED
  BY <1>1, <1>2, PTL DEF DraftSpec

(* Type correctness of the draft's renderer, requests and file.             *)
THEOREM DraftTypeCorrect == DraftSpec => []DraftTypeOK
<1>1. DraftInv => DraftTypeOK
  BY DEF DraftInv
<1> QED
  BY <1>1, DraftInvariance, PTL

(* An open document shows what the user did: no acknowledgement, conflict,  *)
(* refresh or reopening (handleDraftSessionEvent, #persist,                 *)
(* hydrateWorkspace, recoverDraft) drops a comment, turns it back or brings *)
(* a deleted one back, however late the answers and the writes are.         *)
THEOREM OpenShowsTheUsersWork == DraftSpec => []ShowsTheUsersWork
<1>1. DraftInv => ShowsTheUsersWork
  BY DEF DraftInv, Kept, Recorded, ShowsTheUsersWork
<1> QED
  BY <1>1, DraftInvariance, PTL

(* Whenever the application stops, the recovery record and the draft file   *)
(* give the comments back (persistDraftSnapshot and recoverDraft).          *)
THEOREM ReopeningBringsBack == DraftSpec => []ReopenBringsBack
<1>1. DraftInv => ReopenBringsBack
  <2> SUFFICES ASSUME DraftInv PROVE ReopenBringsBack
    OBVIOUS
  <2>1. Facts
    BY DraftAssumption DEF Facts
  <2>2. Recovers(draft.record, server, wanted, deleted)
    BY <2>1, Now, FileRecovers
  <2>3. draft.record \in Record \cup {None} /\ MaxChanges \in Nat
    BY <2>1, Now DEF TypesNow, DraftRenderer
  <2>4. /\ server \in Draft /\ wanted \in Text /\ deleted \in SUBSET Ids
        /\ Sane(server, wanted, deleted) /\ Gone(wanted, deleted)
    BY <2>1, Now DEF TypesNow
  <2>5. Recovered(draft.record, server).text = wanted
    BY <2>2, <2>3, <2>4, RecoveredIs
  <2> QED
    BY <2>5 DEF ReopenBringsBack
<1> QED
  BY <1>1, DraftInvariance, PTL

(* With nothing left to record (inspectDraft) the draft file has the        *)
(* comments, and no older write that is still under way can change that.    *)
THEOREM SettledIsStored == DraftSpec => []SettledMeansStored
<1>1. DraftInv => SettledMeansStored
  BY DEF DraftInv, Kept, Chained, Has, SettledMeansStored, Settled, Current
<1> QED
  BY <1>1, DraftInvariance, PTL
=============================================================================
