------------------------- MODULE RecoveryJournalProofs -------------------------
(***************************************************************************)
(* The recovery journal, for every number of documents, edits, failures    *)
(* and crashes: what is called protected is in a file, no retirement takes *)
(* work with it, and the revisions of record, document and file stay in    *)
(* order.  The session is never fenced here, which makes its own           *)
(* invariant stronger.  The rest says how the session, the two slots of    *)
(* the journal queue, the record on disk and the source file agree.  They  *)
(* agree only while the application runs: a crash leaves nothing but the   *)
(* two files, and opening the document again has to rebuild all of it from *)
(* them.                                                                   *)
(***************************************************************************)
EXTENDS RecoveryJournal, TLAPS

(* Nothing here publishes a newer authority: the write in flight is never   *)
(* fenced.                                                                  *)
Unfenced(s) == s.active # NoWrite => s.active.authority = s.authority

(* The two slots hold work newer than what was confirmed, in order.         *)
WritesAhead(s) ==
    /\ s.pending # NoWrite => s.pending.revision > s.lastPersistedRevision
    /\ s.active # NoWrite => s.active.revision > s.lastPersistedRevision
    /\ s.pending # NoWrite /\ s.active # NoWrite
          => s.pending.revision > s.active.revision

(* The hash of the working document, where one is known, is its hash.       *)
WorkingKnown(s) == s.workingSha \in {NoHash, Sha256(s.html)}

JournaledInv(s) ==
    /\ SessionInv(s)
    /\ Unfenced(s)
    /\ WritesAhead(s)
    /\ WorkingKnown(s)

(* The session knows the file, but for the write whose answer is due.       *)
FileKnown ==
    IF landed
    THEN /\ doc.active # NoWrite
         /\ disk.html = doc.active.html
         /\ disk.revision = doc.active.revision
    ELSE /\ doc.persistedSha = Sha256(disk.html)
         /\ disk.revision <= doc.lastPersistedRevision

(* A record is no newer than the document, and a record of the current      *)
(* revision is the document.                                                *)
Matches(s, r) ==
    r # NoJournal => /\ r.revision <= s.editRevision
                     /\ r.revision = s.editRevision => r.html = s.html

RecordsMatch ==
    /\ Matches(doc, journal)
    /\ Matches(doc, checkpoint)
    /\ Matches(doc, inFlight.record)
    /\ Matches(doc, queued.record)

(* The source file f has what a record protects, or something newer.        *)
Covered(s, f, r) ==
    r # NoJournal => /\ r.revision <= s.lastPersistedRevision
                     /\ \/ r.html = f.html
                        \/ r.revision < f.revision

(* Whatever record a retirement will find is covered by the source file.    *)
RemovesCovered ==
    /\ inFlight.kind = "remove" => Covered(doc, disk, journal)
    /\ queued.kind = "remove" => /\ Covered(doc, disk, journal)
                                 /\ Covered(doc, disk, inFlight.record)

(* The checkpoint of the current revision is the record on disk, unless the *)
(* source file has taken over.                                              *)
CheckpointStored ==
    checkpoint # NoJournal /\ checkpoint.revision = doc.editRevision
        => \/ journal = checkpoint
           \/ /\ disk.html = doc.html
              /\ doc.editRevision = doc.lastPersistedRevision

(* A finished commit is on disk until it settles; commits carry a record    *)
(* and retirements none; the second slot only fills behind the first.       *)
QueueInOrder ==
    /\ inFlight.kind = "commit" /\ inFlight.outcome = "done"
          => journal = inFlight.record
    /\ inFlight.kind = "commit" <=> inFlight.record # NoJournal
    /\ queued.kind = "commit" <=> queued.record # NoJournal
    /\ queued.kind # "none" => inFlight.kind # "none"
    /\ queued.outcome \in {"none", "waiting"}

RunningInv ==
    /\ JournaledInv(doc)
    /\ FileKnown
    /\ RecordsMatch
    /\ RemovesCovered
    /\ CheckpointStored
    /\ QueueInOrder

JournalInv == TypeOK /\ (running => RunningInv)

-----------------------------------------------------------------------------
(* A session that goes on with the same document: its revision grows with   *)
(* every change of its bytes, and what was persisted stays persisted.       *)
GoesOn(s, t) ==
    /\ t.editRevision >= s.editRevision
    /\ t.editRevision = s.editRevision => t.html = s.html
    /\ t.lastPersistedRevision >= s.lastPersistedRevision

(* A record of type Write is never the empty slot.                          *)
LEMMA WriteIsNotNoWrite == \A w \in Write : w # NoWrite
  BY NoWriteAssumption

(* The hash of a document is a hash.                                        *)
LEMMA Sha256Type == \A h \in Html : Sha256(h) \in Hash
  BY DEF Hash

LEMMA CreateWriteType ==
  ASSUME NEW s \in Session, NEW h \in Html, NEW r \in Revision
  PROVE  CreateWrite(s, h, r) \in Write
  BY DEF CreateWrite, Write, Session

LEMMA NextReceiptType ==
  ASSUME NEW s \in Session, NEW sha \in Hash \cup {NoHash}
  PROVE  NextReceipt(s, sha) \in Receipt
  BY DEF NextReceipt, Receipt, Session

(* Equal hashes are hashes of equal documents.                              *)
LEMMA Sha256Injective == \A g, h : Sha256(g) = Sha256(h) => g = h
<1>. SUFFICES ASSUME NEW g, NEW h, Sha256(g) = Sha256(h)
              PROVE  g = h
  OBVIOUS
<1>1. Sha256(g).sha256 = g /\ Sha256(h).sha256 = h
  BY DEF Sha256
<1>. QED
  BY <1>1

(* A write makes a record of the same document and revision.                *)
LEMMA RecordOfType ==
  ASSUME NEW w \in Write
  PROVE  /\ RecordOf(w) \in Record
         /\ RecordOf(w) # NoJournal
         /\ RecordOf(w).html = w.html
         /\ RecordOf(w).revision = w.revision
<1>1. RecordOf(w) \in Record
  BY DEF RecordOf, Record, Write
<1>. QED
  BY <1>1, JournalAssumption DEF RecordOf

(* reset.                                                                   *)
LEMMA OpenedJournaled ==
  ASSUME NEW h \in Html, NEW r \in Revision
  PROVE  JournaledInv(OpenedSession(h, r))
<1>. DEFINE s == OpenedSession(h, r)
<1>1. s \in Session
  BY Sha256Type DEF OpenedSession, Session, Receipt, PersistState, Revision
<1>2. /\ s.pending = NoWrite /\ s.active = NoWrite
      /\ s.editRevision = r /\ s.lastPersistedRevision = r
      /\ s.persistedSha = Sha256(s.html) /\ s.workingSha = Sha256(s.html)
  BY DEF OpenedSession
<1>3. SessionInv(s)
  BY <1>1, <1>2 DEF SessionInv, QueuedIsLatest, ActiveIsOlder,
     FencedWhileIdle, IdleClaims, Claimed, LatestCarried, NothingAhead, Revision
<1>. QED
  BY <1>2, <1>3 DEF JournaledInv, Unfenced, WritesAhead, WorkingKnown

(* acceptEdit: the new write is newer than everything before it.            *)
LEMMA AcceptEditJournaled ==
  ASSUME NEW s, JournaledInv(s), NEW h \in Html, NEW sha \in {NoHash, Sha256(h)}
  PROVE  LET t == AcceptEdit(s, h, sha)
         IN  /\ JournaledInv(t)
             /\ GoesOn(s, t)
             /\ t.pending \in Write
             /\ t.editRevision = s.editRevision + 1
             /\ t.active = s.active
             /\ t.persistedSha = s.persistedSha
             /\ t.lastPersistedRevision = s.lastPersistedRevision
<1>. DEFINE r == s.editRevision + 1
            t == AcceptEdit(s, h, sha)
<1>0. /\ SessionInv(s)
      /\ s \in Session
      /\ s.editRevision \in Nat /\ s.lastPersistedRevision \in Nat
      /\ sha \in Hash \cup {NoHash}
      /\ s.active # NoWrite => s.active \in Write
  BY Sha256Type DEF JournaledInv, SessionInv, Session, Revision
<1>1. t \in Session
  <2>1. r \in Revision /\ CreateWrite(s, h, r) \in Write
    BY <1>0, CreateWriteType DEF Revision
  <2>. QED
    BY <1>0, <2>1, NextReceiptType DEF AcceptEdit, Session, PersistState
<1>2. /\ t.pending = CreateWrite(s, h, r) /\ t.active = s.active
      /\ t.editRevision = r /\ t.html = h /\ t.workingSha = sha
      /\ t.authority = s.authority /\ t.persistState = "queued"
      /\ t.persistedSha = s.persistedSha
      /\ t.lastPersistedRevision = s.lastPersistedRevision
  BY <1>0 DEF AcceptEdit, Session
<1>3. /\ t.pending \in Write /\ t.pending # NoWrite
      /\ t.pending.revision = r /\ t.pending.html = h
      /\ t.pending.authority = s.authority
  BY <1>0, <1>2, CreateWriteType, WriteIsNotNoWrite DEF CreateWrite, Revision
<1>4. s.active # NoWrite => s.active.revision <= s.editRevision
                            /\ s.active.revision \in Nat
  BY <1>0 DEF SessionInv, ActiveIsOlder, Write, Revision
<1>5. s.lastPersistedRevision <= s.editRevision
  BY <1>0 DEF SessionInv, NothingAhead
<1>6. WritesAhead(t)
  BY <1>0, <1>2, <1>3, <1>4, <1>5 DEF WritesAhead, JournaledInv
<1>7. Unfenced(t) /\ WorkingKnown(t) /\ GoesOn(s, t)
  BY <1>0, <1>2 DEF Unfenced, WorkingKnown, JournaledInv, GoesOn
<1>8. QueuedIsLatest(t) /\ LatestCarried(t)
  BY <1>2, <1>3 DEF QueuedIsLatest, LatestCarried, Carried
<1>9. ActiveIsOlder(t) /\ NothingAhead(t)
  BY <1>0, <1>2, <1>4, <1>5 DEF ActiveIsOlder, NothingAhead, SessionInv
<1>10. SessionInv(t)
  BY <1>1, <1>2, <1>8, <1>9 DEF SessionInv, FencedWhileIdle, IdleClaims
<1>. QED
  BY <1>2, <1>3, <1>6, <1>7, <1>10 DEF JournaledInv

(* beginWrite.                                                              *)
LEMMA BeginWriteJournaled ==
  ASSUME NEW s, JournaledInv(s), CanBeginWrite(s)
  PROVE  LET t == BeginWrite(s)
         IN  /\ JournaledInv(t)
             /\ GoesOn(s, t)
             /\ t.editRevision = s.editRevision
             /\ t.html = s.html
             /\ t.persistedSha = s.persistedSha
             /\ t.lastPersistedRevision = s.lastPersistedRevision
<1>. DEFINE t == BeginWrite(s)
<1>0. /\ SessionInv(s)
      /\ s \in Session
      /\ s.editRevision \in Nat /\ s.lastPersistedRevision \in Nat
  BY DEF JournaledInv, SessionInv, Session, Revision
<1>1. t \in Session
  BY <1>0 DEF BeginWrite, CanBeginWrite, Session, PersistState
<1>2. /\ t.pending = NoWrite /\ t.active = s.pending
      /\ t.editRevision = s.editRevision /\ t.html = s.html
      /\ t.workingSha = s.workingSha
      /\ t.authority = s.authority /\ t.persistState = "writing"
      /\ t.persistedSha = s.persistedSha
      /\ t.lastPersistedRevision = s.lastPersistedRevision
  BY <1>0 DEF BeginWrite, Session
<1>3. WritesAhead(t) /\ Unfenced(t) /\ WorkingKnown(t) /\ GoesOn(s, t)
  BY <1>0, <1>2 DEF WritesAhead, Unfenced, WorkingKnown, JournaledInv, GoesOn,
     CanBeginWrite
<1>4. /\ s.pending # NoWrite /\ s.pending.authority = s.authority
      /\ s.pending.revision = s.editRevision /\ s.pending.html = s.html
      /\ s.authority \in Nat
  BY <1>0 DEF SessionInv, QueuedIsLatest, CanBeginWrite, Session
<1>5. /\ QueuedIsLatest(t) /\ ActiveIsOlder(t) /\ LatestCarried(t)
      /\ NothingAhead(t)
  BY <1>0, <1>2, <1>4 DEF QueuedIsLatest, ActiveIsOlder, LatestCarried, Carried,
     NothingAhead, SessionInv
<1>6. SessionInv(t)
  BY <1>1, <1>2, <1>5 DEF SessionInv, FencedWhileIdle, IdleClaims
<1>. QED
  BY <1>2, <1>3, <1>6 DEF JournaledInv

(* restoreWrite and recordPersistenceFailure of an attempt that failed: its *)
(* write, or the newer one, is queued.                                      *)
LEMMA FailedJournaled ==
  ASSUME NEW s, JournaledInv(s), s.active # NoWrite
  PROVE  LET t == RecordFailure(RestoreWrite(s), FailureWrite(s), FALSE)
         IN  /\ JournaledInv(t)
             /\ GoesOn(s, t)
             /\ t.pending \in Write
             /\ t.editRevision = s.editRevision
             /\ t.html = s.html
             /\ t.persistedSha = s.persistedSha
             /\ t.lastPersistedRevision = s.lastPersistedRevision
<1>. DEFINE a == [s.active EXCEPT !.authority = s.authority]
            m == RestoreWrite(s)
            t == RecordFailure(m, FailureWrite(s), FALSE)
<1>0. /\ SessionInv(s)
      /\ s \in Session
      /\ s.editRevision \in Nat /\ s.lastPersistedRevision \in Nat
      /\ s.active \in Write /\ s.authority \in Nat
  BY DEF JournaledInv, SessionInv, Session, Revision
<1>1. s.active.revision > s.lastPersistedRevision
  BY DEF JournaledInv, WritesAhead
<1>2. RestoreMatches(s)
  <2>1. s.editRevision > s.lastPersistedRevision
    BY <1>0, <1>1 DEF SessionInv, ActiveIsOlder, Write, Revision
  <2>2. Carried(s)
    BY <1>0, <2>1 DEF SessionInv, LatestCarried
  <2>. QED
    BY <2>2 DEF Carried, RestoreMatches
<1>5. /\ a \in Write /\ a # NoWrite /\ a.revision = s.active.revision
      /\ a.html = s.active.html /\ a.authority = s.authority
  BY <1>0, WriteIsNotNoWrite DEF Write
<1>3. m \in Session
  BY <1>0, <1>5 DEF RestoreWrite, Session, PersistState
<1>4. t \in Session /\ t.persistState # "idle"
  BY <1>3 DEF RecordFailure, RestoreWrite, Session, PersistState
<1>6. /\ m \in Session
      /\ m.pending = IF s.pending # NoWrite THEN s.pending ELSE a
      /\ m.active = NoWrite /\ m.authority = s.authority
      /\ m.editRevision = s.editRevision /\ m.html = s.html
      /\ m.workingSha = s.workingSha
      /\ m.persistedSha = s.persistedSha
      /\ m.lastPersistedRevision = s.lastPersistedRevision
  BY <1>0, <1>3 DEF RestoreWrite, Session
<1>. HIDE DEF m, a
<1>7. /\ t.pending = m.pending /\ t.active = m.active
      /\ t.authority = m.authority
      /\ t.editRevision = m.editRevision /\ t.html = m.html
      /\ t.workingSha = m.workingSha
      /\ t.persistedSha = m.persistedSha
      /\ t.lastPersistedRevision = m.lastPersistedRevision
  BY <1>6 DEF RecordFailure, Session
<1>8. t.pending \in Write /\ t.pending.revision > s.lastPersistedRevision
  BY <1>0, <1>1, <1>5, <1>6, <1>7 DEF Session, JournaledInv, WritesAhead
<1>. HIDE DEF t
<1>9. Unfenced(t) /\ WritesAhead(t)
  BY <1>6, <1>7, <1>8 DEF Unfenced, WritesAhead
<1>10. WorkingKnown(t) /\ GoesOn(s, t)
  BY <1>0, <1>6, <1>7 DEF WorkingKnown, JournaledInv, GoesOn
<1>11. /\ t.pending # NoWrite /\ t.pending.authority = t.authority
       /\ t.pending.revision = t.editRevision /\ t.pending.html = t.html
  <2>1. CASE s.pending # NoWrite
    BY <2>1, <1>0, <1>6, <1>7 DEF SessionInv, QueuedIsLatest
  <2>2. CASE s.pending = NoWrite
    BY <2>2, <1>2, <1>5, <1>6, <1>7 DEF RestoreMatches
  <2>. QED
    BY <2>1, <2>2
<1>12. /\ QueuedIsLatest(t) /\ LatestCarried(t) /\ ActiveIsOlder(t)
       /\ NothingAhead(t) /\ FencedWhileIdle(t) /\ IdleClaims(t)
  BY <1>0, <1>4, <1>6, <1>7, <1>11 DEF QueuedIsLatest, LatestCarried, Carried,
     ActiveIsOlder, NothingAhead, FencedWhileIdle, IdleClaims, SessionInv
<1>13. SessionInv(t)
  BY <1>4, <1>12 DEF SessionInv
<1>. QED
  BY <1>6, <1>7, <1>8, <1>9, <1>10, <1>13 DEF JournaledInv, m, t

(* acceptWriteConfirmation at the write's own revision: an empty queue      *)
(* means that the document itself was confirmed.                            *)
LEMMA ConfirmJournaled ==
  ASSUME NEW s, JournaledInv(s), s.active # NoWrite
  PROVE  LET t == Confirm(s, s.active, s.active.revision)
         IN  /\ JournaledInv(t)
             /\ GoesOn(s, t)
             /\ t.editRevision = s.editRevision
             /\ t.html = s.html
             /\ t.persistedSha = Sha256(s.active.html)
             /\ t.lastPersistedRevision = s.active.revision
             /\ t.pending # NoWrite => t.pending \in Write
             /\ t.pending = NoWrite => /\ s.active.revision = s.editRevision
                                       /\ s.active.html = s.html
<1>. DEFINE w == s.active
            t == Confirm(s, w, w.revision)
<1>0. /\ SessionInv(s)
      /\ s \in Session
      /\ s.editRevision \in Nat /\ s.lastPersistedRevision \in Nat
      /\ w \in Write /\ w.revision \in Nat /\ s.authority \in Nat
  BY DEF JournaledInv, SessionInv, Session, Revision, Write
<1>1. /\ w.revision <= s.editRevision
      /\ w.revision > s.lastPersistedRevision
      /\ w.authority = s.authority
  BY <1>0 DEF JournaledInv, SessionInv, ActiveIsOlder, WritesAhead, Unfenced
<1>. DEFINE sha == Sha256(w.html)
            completes == Completes(s, w)
            repaired == completes /\ s.receipt.sha # sha
            authority == IF repaired THEN s.authority + 1 ELSE s.authority
            state == IF s.pending # NoWrite THEN "queued"
                     ELSE IF completes THEN "idle" ELSE s.persistState
            working == IF completes THEN sha ELSE s.workingSha
            issued == IF repaired THEN NextReceipt(s, sha) ELSE s.receipt
            next == IF s.pending = NoWrite THEN NoWrite
                    ELSE [s.pending EXCEPT !.expected = sha,
                                           !.authority = authority]
<1>2. /\ authority \in Nat /\ sha \in Hash
      /\ working \in Hash \cup {NoHash} /\ issued \in Receipt
      /\ state \in PersistState
      /\ s.pending # NoWrite => authority = s.authority
  BY <1>0, Sha256Type, NextReceiptType DEF Write, Session, PersistState,
     Completes
<1>3. s.pending = NoWrite => w.revision = s.editRevision /\ w.html = s.html
  <2>1. s.editRevision > s.lastPersistedRevision
    BY <1>0, <1>1
  <2>. QED
    BY <1>0, <2>1 DEF SessionInv, LatestCarried, Carried
<1>4. s.pending = NoWrite <=> completes
  BY <1>3 DEF Completes
<1>. HIDE DEF authority, sha
<1>5. s.pending # NoWrite =>
        /\ next \in Write /\ next # NoWrite
        /\ next.authority = authority
        /\ next.revision = s.editRevision /\ next.html = s.html
  <2>. SUFFICES ASSUME s.pending # NoWrite
                PROVE  /\ next \in Write /\ next # NoWrite
                       /\ next.authority = authority
                       /\ next.revision = s.editRevision /\ next.html = s.html
    OBVIOUS
  <2>1. /\ s.pending \in Write
        /\ s.pending.revision = s.editRevision /\ s.pending.html = s.html
    BY <1>0 DEF Session, SessionInv, QueuedIsLatest
  <2>2. /\ next \in Write /\ next.authority = authority
        /\ next.revision = s.pending.revision /\ next.html = s.pending.html
    BY <1>2, <2>1 DEF Write
  <2>. QED
    BY <2>1, <2>2, WriteIsNotNoWrite
<1>6. next # NoWrite <=> s.pending # NoWrite
  BY <1>5
<1>7. ConfirmedRevision(s, w.revision) = w.revision
  BY <1>0, <1>1 DEF ConfirmedRevision, Greater
<1>8. t = [s EXCEPT !.active = NoWrite, !.pending = next,
                    !.persistedSha = sha, !.lastPersistedRevision = w.revision,
                    !.workingSha = working, !.persistState = state,
                    !.authority = authority, !.receipt = issued]
  BY <1>0, <1>6, <1>7 DEF Confirm, Session, sha, authority
<1>. HIDE DEF t, next, completes, repaired, state, working, issued
<1>9. /\ t \in Session
      /\ t.active = NoWrite /\ t.pending = next /\ t.persistedSha = sha
      /\ t.lastPersistedRevision = w.revision /\ t.workingSha = working
      /\ t.persistState = state /\ t.authority = authority
      /\ t.html = s.html /\ t.editRevision = s.editRevision
  <2>1. next \in Write \cup {NoWrite}
    BY <1>5, <1>6
  <2>. QED
    BY <1>0, <1>2, <1>8, <2>1 DEF Session, Revision
<1>10. WorkingKnown(t)
  <2>1. CASE completes
    BY <2>1, <1>3, <1>4, <1>9 DEF WorkingKnown, working, sha
  <2>2. CASE ~completes
    BY <2>2, <1>9 DEF WorkingKnown, working, JournaledInv
  <2>. QED
    BY <2>1, <2>2
<1>11. s.pending # NoWrite => s.editRevision > w.revision
  BY <1>0 DEF JournaledInv, SessionInv, QueuedIsLatest, WritesAhead
<1>12. WritesAhead(t) /\ Unfenced(t) /\ GoesOn(s, t)
  BY <1>0, <1>1, <1>5, <1>6, <1>9, <1>11 DEF WritesAhead, Unfenced, GoesOn
<1>13. QueuedIsLatest(t) /\ ActiveIsOlder(t) /\ FencedWhileIdle(t)
  BY <1>5, <1>6, <1>9 DEF QueuedIsLatest, ActiveIsOlder, FencedWhileIdle
<1>14. LatestCarried(t) /\ NothingAhead(t)
  BY <1>0, <1>1, <1>3, <1>5, <1>6, <1>9 DEF LatestCarried, Carried, NothingAhead
<1>15. IdleClaims(t)
  <2>1. CASE s.pending = NoWrite
    BY <2>1, <1>0, <1>3, <1>6, <1>9 DEF IdleClaims, Claimed, sha
  <2>2. CASE s.pending # NoWrite
    BY <2>2, <1>9 DEF IdleClaims, state
  <2>. QED
    BY <2>1, <2>2
<1>16. SessionInv(t)
  BY <1>9, <1>13, <1>14, <1>15 DEF SessionInv
<1>. QED
  BY <1>3, <1>5, <1>6, <1>9, <1>10, <1>12, <1>16 DEF JournaledInv, t, sha

(* confirmWorkingHtml, from a record of the current revision.               *)
LEMMA ProvenJournaled ==
  ASSUME NEW s, JournaledInv(s)
  PROVE  LET t == [s EXCEPT !.workingSha = Sha256(s.html)]
         IN  /\ JournaledInv(t)
             /\ GoesOn(s, t)
             /\ t.editRevision = s.editRevision
             /\ t.html = s.html
             /\ t.active = s.active
             /\ t.persistedSha = s.persistedSha
             /\ t.lastPersistedRevision = s.lastPersistedRevision
<1>. DEFINE t == [s EXCEPT !.workingSha = Sha256(s.html)]
<1>0. /\ SessionInv(s)
      /\ s \in Session
      /\ s.editRevision \in Nat /\ s.lastPersistedRevision \in Nat
  BY DEF JournaledInv, SessionInv, Session, Revision
<1>1. t \in Session
  BY <1>0, Sha256Type DEF Session
<1>2. /\ t.pending = s.pending /\ t.active = s.active
      /\ t.persistState = s.persistState
      /\ t.editRevision = s.editRevision /\ t.html = s.html
      /\ t.workingSha = Sha256(s.html)
      /\ t.authority = s.authority
      /\ t.persistedSha = s.persistedSha
      /\ t.lastPersistedRevision = s.lastPersistedRevision
  BY <1>0 DEF Session
<1>3. SessionInv(t)
  BY <1>0, <1>1, <1>2 DEF SessionInv, QueuedIsLatest, ActiveIsOlder,
     FencedWhileIdle, IdleClaims, Claimed, LatestCarried, Carried, NothingAhead
<1>. QED
  BY <1>0, <1>2, <1>3 DEF JournaledInv, Unfenced, WritesAhead, WorkingKnown,
     GoesOn

(* recoverAutosave: the record becomes the document, at a revision of its   *)
(* own above the file's and the record's.                                   *)
LEMMA RecoveredJournaled ==
  ASSUME NEW r \in Record, disk \in [html : Html, revision : Revision]
  PROVE  /\ JournaledInv(Recovered(r))
         /\ Recovered(r).pending \in Write
         /\ Recovered(r).editRevision > r.revision
         /\ Recovered(r).html = r.html
         /\ Recovered(r).active = NoWrite
         /\ Recovered(r).persistedSha = Sha256(disk.html)
         /\ Recovered(r).lastPersistedRevision = disk.revision
<1>. DEFINE opened == OpenedSession(disk.html, disk.revision)
            next == RecoveredRevision(r)
            state == IF r.expected = Sha256(disk.html) THEN "queued"
                     ELSE "conflict"
            receipted == NextReceipt(opened, Sha256(r.html))
            s == [opened EXCEPT !.html = r.html, !.editRevision = next,
                                !.workingSha = Sha256(r.html),
                                !.authority = @ + 1,
                                !.receipt = receipted,
                                !.persistState = state]
            w == [CreateWrite(s, r.html, next) EXCEPT !.expected = r.expected]
            t == [s EXCEPT !.pending = w]
<1>0. t = Recovered(r)
  BY DEF Recovered
<1>1. /\ r.html \in Html /\ r.revision \in Nat /\ r.expected \in Hash
      /\ disk.html \in Html /\ disk.revision \in Nat
  BY DEF Record, Revision
<1>2. /\ next \in Nat /\ next > r.revision /\ next > disk.revision
  BY <1>1 DEF RecoveredRevision, Greater
<1>3. SessionInv(opened)
  BY <1>1, OpenedJournaled DEF Revision, JournaledInv
<1>4. /\ opened \in Session
      /\ opened.active = NoWrite /\ opened.authority = 1
      /\ opened.persistedSha = Sha256(disk.html)
      /\ opened.lastPersistedRevision = disk.revision
  BY <1>3 DEF SessionInv, OpenedSession
<1>5. /\ receipted \in Receipt
      /\ Sha256(r.html) \in Hash
  BY <1>1, <1>4, NextReceiptType, Sha256Type
<1>6. state \in {"queued", "conflict"}
  OBVIOUS
<1>. HIDE DEF opened, next, state, receipted
<1>7. /\ s \in Session
      /\ s.html = r.html /\ s.editRevision = next
      /\ s.workingSha = Sha256(r.html)
      /\ s.authority = 2 /\ s.persistState = state
      /\ s.active = NoWrite
      /\ s.persistedSha = Sha256(disk.html)
      /\ s.lastPersistedRevision = disk.revision
  <2>1. s = [opened EXCEPT !.html = r.html, !.editRevision = next,
                           !.workingSha = Sha256(r.html), !.authority = 2,
                           !.receipt = receipted, !.persistState = state]
    BY <1>4 DEF Session
  <2>. HIDE DEF s
  <2>. QED
    BY <1>1, <1>2, <1>4, <1>5, <1>6, <2>1 DEF Session, PersistState, Revision
<1>. HIDE DEF s
<1>8. /\ w \in Write /\ w # NoWrite
      /\ w.html = r.html /\ w.revision = next /\ w.authority = s.authority
  <2>1. CreateWrite(s, r.html, next) \in Write
    BY <1>1, <1>2, <1>7, CreateWriteType DEF Revision
  <2>2. w \in Write
    BY <2>1, <1>1 DEF Write
  <2>3. w.html = r.html /\ w.revision = next /\ w.authority = s.authority
    BY <2>1 DEF CreateWrite, Write
  <2>. QED
    BY <2>2, <2>3, WriteIsNotNoWrite
<1>. HIDE DEF w
<1>9. /\ t \in Session
      /\ t.pending = w /\ t.active = NoWrite
      /\ t.editRevision = next /\ t.html = r.html
      /\ t.workingSha = Sha256(r.html)
      /\ t.authority = s.authority /\ t.persistState = state
      /\ t.persistedSha = Sha256(disk.html)
      /\ t.lastPersistedRevision = disk.revision
  BY <1>7, <1>8 DEF Session
<1>. HIDE DEF t
<1>10. SessionInv(t)
  <2>1. QueuedIsLatest(t) /\ ActiveIsOlder(t) /\ FencedWhileIdle(t)
    BY <1>8, <1>9 DEF QueuedIsLatest, ActiveIsOlder, FencedWhileIdle
  <2>2. IdleClaims(t)
    BY <1>6, <1>9 DEF IdleClaims
  <2>3. LatestCarried(t) /\ NothingAhead(t)
    BY <1>1, <1>2, <1>8, <1>9 DEF LatestCarried, Carried, NothingAhead
  <2>. QED
    BY <1>9, <2>1, <2>2, <2>3 DEF SessionInv
<1>11. Unfenced(t) /\ WritesAhead(t) /\ WorkingKnown(t)
  BY <1>1, <1>2, <1>8, <1>9 DEF Unfenced, WritesAhead, WorkingKnown
<1>. QED
  BY <1>0, <1>2, <1>8, <1>9, <1>10, <1>11 DEF JournaledInv

-----------------------------------------------------------------------------
(* What a document that goes on keeps of a record.                          *)
LEMMA MatchesKept ==
  ASSUME NEW s \in Session, NEW t \in Session, GoesOn(s, t),
         NEW r \in Journal, Matches(s, r)
  PROVE  Matches(t, r)
<1>1. CASE r = NoJournal
  BY <1>1 DEF Matches
<1>2. CASE r # NoJournal
  BY <1>2 DEF Matches, GoesOn, Journal, Record, Session, Revision
<1>. QED
  BY <1>1, <1>2

LEMMA CoveredKept ==
  ASSUME NEW s \in Session, NEW t \in Session, GoesOn(s, t),
         NEW f, NEW r \in Journal, Covered(s, f, r)
  PROVE  Covered(t, f, r)
<1>1. CASE r = NoJournal
  BY <1>1 DEF Covered
<1>2. CASE r # NoJournal
  BY <1>2 DEF Covered, GoesOn, Journal, Record, Session, Revision
<1>. QED
  BY <1>1, <1>2

(* The types of what the steps handle, for the steps to cite.               *)
LEMMA Types ==
  ASSUME TypeOK
  PROVE  /\ doc \in Session
         /\ doc.editRevision \in Nat /\ doc.lastPersistedRevision \in Nat
         /\ disk.html \in Html /\ disk.revision \in Nat
         /\ journal \in Journal /\ receipt \in Journal
         /\ checkpoint \in Journal
         /\ inFlight \in Operation /\ queued \in Operation
         /\ inFlight.record \in Journal /\ queued.record \in Journal
         /\ generation \in Nat
  BY DEF TypeOK, Session, Revision, Operation

(* #scheduleRecoveryJournal: the operation takes the free slot, or waits    *)
(* behind the one in flight.                                                *)
LEMMA EnqueueEffect ==
  ASSUME TypeOK, NEW kind \in {"commit", "remove"}, NEW r \in Journal,
         Enqueue(kind, r)
  PROVE  /\ generation' \in Nat
         /\ \E op \in Operation :
               /\ op.kind = kind /\ op.record = r /\ op.outcome = "waiting"
               /\ \/ /\ inFlight.kind = "none"
                     /\ inFlight' = op
                     /\ queued' = queued
                  \/ /\ inFlight.kind # "none"
                     /\ inFlight' = inFlight
                     /\ queued' = op
<1>. DEFINE op == [kind |-> kind, record |-> r, generation |-> generation + 1,
                   outcome |-> "waiting"]
<1>1. generation \in Nat
  BY DEF TypeOK
<1>2. op \in Operation
  BY <1>1 DEF Operation
<1>3. op.kind = kind /\ op.record = r /\ op.outcome = "waiting"
  OBVIOUS
<1>4. /\ generation' = generation + 1
      /\ \/ inFlight.kind = "none" /\ inFlight' = op /\ queued' = queued
         \/ inFlight.kind # "none" /\ inFlight' = inFlight /\ queued' = op
  BY DEF Enqueue
<1>. HIDE DEF op
<1>. QED
  BY <1>1, <1>2, <1>3, <1>4

(* The parts of the invariant that are about records and the queue.         *)
QueueParts == RecordsMatch /\ RemovesCovered /\ QueueInOrder

(* A commit of a record that matches can always be scheduled: it is ahead   *)
(* of nothing that waits to be retired.                                     *)
LEMMA CommitScheduled ==
  ASSUME TypeOK, QueueParts, doc' \in Session, GoesOn(doc, doc'),
         NEW r \in Record, Matches(doc', r), Enqueue("commit", r),
         UNCHANGED <<disk, journal, checkpoint>>
  PROVE  /\ QueueParts'
         /\ generation' \in Nat
         /\ inFlight' \in Operation /\ queued' \in Operation
<1>0. r \in Journal /\ r # NoJournal
  BY JournalAssumption DEF Journal
<1>1. generation' \in Nat
  BY <1>0, EnqueueEffect
<1>2. PICK op \in Operation :
        /\ op.kind = "commit" /\ op.record = r /\ op.outcome = "waiting"
        /\ \/ /\ inFlight.kind = "none" /\ inFlight' = op /\ queued' = queued
           \/ /\ inFlight.kind # "none" /\ inFlight' = inFlight
              /\ queued' = op
  BY <1>0, EnqueueEffect
<1>3. /\ Matches(doc', journal) /\ Matches(doc', checkpoint)
      /\ Matches(doc', inFlight.record) /\ Matches(doc', queued.record)
  BY Types, MatchesKept DEF QueueParts, RecordsMatch
<1>4. /\ inFlight.kind = "remove" => Covered(doc', disk, journal)
      /\ queued.kind = "remove" => /\ Covered(doc', disk, journal)
                                   /\ Covered(doc', disk, inFlight.record)
  BY Types, CoveredKept DEF QueueParts, RemovesCovered
<1>5. RecordsMatch'
  BY <1>2, <1>3 DEF RecordsMatch
<1>6. RemovesCovered'
  BY <1>2, <1>4 DEF RemovesCovered, QueueParts, QueueInOrder
<1>7. QueueInOrder'
  BY <1>0, <1>2 DEF QueueInOrder, QueueParts
<1>8. inFlight' \in Operation /\ queued' \in Operation
  BY <1>2, Types
<1>. QED
  BY <1>1, <1>5, <1>6, <1>7, <1>8 DEF QueueParts

(* A retirement may be scheduled when the file has the whole document: then *)
(* it covers every record there is.                                         *)
LEMMA RemoveScheduled ==
  ASSUME TypeOK, QueueParts, doc' \in Session, GoesOn(doc, doc'),
         doc'.lastPersistedRevision = doc'.editRevision,
         disk.html = doc'.html, disk.revision = doc'.editRevision,
         ScheduleRemove,
         UNCHANGED <<disk, journal, checkpoint>>
  PROVE  /\ QueueParts'
         /\ generation' \in Nat
         /\ inFlight' \in Operation /\ queued' \in Operation
<1>0. NoJournal \in Journal
  BY DEF Journal
<1>1. generation' \in Nat
  BY <1>0, EnqueueEffect DEF ScheduleRemove
<1>2. PICK op \in Operation :
        /\ op.kind = "remove" /\ op.record = NoJournal
        /\ op.outcome = "waiting"
        /\ \/ /\ inFlight.kind = "none" /\ inFlight' = op /\ queued' = queued
           \/ /\ inFlight.kind # "none" /\ inFlight' = inFlight
              /\ queued' = op
  BY <1>0, EnqueueEffect DEF ScheduleRemove
<1>3. /\ Matches(doc', journal) /\ Matches(doc', checkpoint)
      /\ Matches(doc', inFlight.record) /\ Matches(doc', queued.record)
  BY Types, MatchesKept DEF QueueParts, RecordsMatch
<1>4. ASSUME NEW r \in Journal, Matches(doc', r)
      PROVE  Covered(doc', disk, r)
  <2>1. CASE r = NoJournal
    BY <2>1 DEF Covered
  <2>2. CASE r # NoJournal
    <3>1. r.revision \in Nat /\ doc'.editRevision \in Nat
      BY <2>2 DEF Journal, Record, Revision, Session
    <3>. QED
      BY <1>4, <2>2, <3>1 DEF Matches, Covered
  <2>. QED
    BY <2>1, <2>2
<1>5. Covered(doc', disk, journal) /\ Covered(doc', disk, inFlight.record)
  BY <1>3, <1>4, Types
<1>6. RecordsMatch'
  BY <1>2, <1>3 DEF RecordsMatch, Matches
<1>7. RemovesCovered'
  BY <1>2, <1>5 DEF RemovesCovered, QueueParts, QueueInOrder
<1>8. QueueInOrder'
  BY <1>2 DEF QueueInOrder, QueueParts
<1>9. inFlight' \in Operation /\ queued' \in Operation
  BY <1>2, Types
<1>. QED
  BY <1>1, <1>6, <1>7, <1>8, <1>9 DEF QueueParts

(* While the files and the evidence stay, a document that goes on keeps     *)
(* what its checkpoint says.                                                *)
LEMMA CheckpointKept ==
  ASSUME TypeOK, CheckpointStored, Matches(doc, checkpoint),
         doc' \in Session, GoesOn(doc, doc'), NothingAhead(doc'),
         UNCHANGED <<disk, journal, checkpoint>>
  PROVE  CheckpointStored'
<1>. SUFFICES ASSUME checkpoint # NoJournal,
                     checkpoint.revision = doc'.editRevision
              PROVE  \/ journal = checkpoint
                     \/ /\ disk.html = doc'.html
                        /\ doc'.editRevision = doc'.lastPersistedRevision
  BY DEF CheckpointStored
<1>1. /\ doc.editRevision \in Nat /\ doc.lastPersistedRevision \in Nat
      /\ doc'.editRevision \in Nat /\ doc'.lastPersistedRevision \in Nat
  BY Types DEF Session, Revision
<1>2. checkpoint.revision = doc.editRevision
      /\ doc'.editRevision = doc.editRevision
  BY <1>1 DEF Matches, GoesOn
<1>. QED
  BY <1>1, <1>2 DEF CheckpointStored, GoesOn, NothingAhead

(* The write in the queue makes a record of the document.                   *)
LEMMA PendingMatches ==
  ASSUME NEW s, SessionInv(s), s.pending # NoWrite
  PROVE  /\ RecordOf(s.pending) \in Record
         /\ Matches(s, RecordOf(s.pending))
<1>1. s.pending \in Write /\ s.editRevision \in Nat
  BY DEF SessionInv, Session, Revision
<1>. QED
  BY <1>1, RecordOfType DEF SessionInv, QueuedIsLatest, Matches

(* A session goes on when nothing happens to it.                            *)
LEMMA StaysTheSame ==
  ASSUME NEW s \in Session
  PROVE  GoesOn(s, s)
  BY DEF GoesOn, Session, Revision

-----------------------------------------------------------------------------
(* The invariant holds for the document just opened...                      *)
LEMMA JournalInvInit == Init => JournalInv
<1>. SUFFICES ASSUME Init
              PROVE  JournalInv
  OBVIOUS
<1>1. InitialHtml \in Html /\ 0 \in Revision
  BY JournalAssumption DEF Revision
<1>2. JournaledInv(doc)
  BY <1>1, OpenedJournaled DEF Init
<1>3. NoOperation \in Operation
  BY DEF NoOperation, Operation, Journal
<1>4. TypeOK
  <2>1. doc \in Session
    BY <1>2 DEF JournaledInv, SessionInv
  <2>2. disk \in [html : Html, revision : Revision]
    BY <1>1 DEF Init
  <2>3. /\ {journal, receipt, checkpoint} \subseteq Journal
        /\ {inFlight, queued} \subseteq Operation
        /\ generation \in Nat
        /\ {landed, running} \subseteq BOOLEAN
    BY <1>3 DEF Init, Journal
  <2>4. crashes \in 0..MaxCrashes /\ failures \in 0..MaxFailures
    BY JournalAssumption DEF Init
  <2>. QED
    BY <2>1, <2>2, <2>3, <2>4 DEF TypeOK
<1>5. FileKnown
  BY DEF FileKnown, Init, OpenedSession
<1>6. RecordsMatch /\ RemovesCovered /\ CheckpointStored /\ QueueInOrder
  BY DEF RecordsMatch, Matches, RemovesCovered, CheckpointStored, QueueInOrder,
     Init, NoOperation
<1>. QED
  BY <1>2, <1>4, <1>5, <1>6 DEF JournalInv, RunningInv

(* ...and every step keeps it.  An edit schedules its own record.           *)
LEMMA EditStep ==
  ASSUME JournalInv, NEW h \in Html, NEW sha \in {NoHash, Sha256(h)},
         Edit(h, sha)
  PROVE  JournalInv'
<1>0. TypeOK /\ RunningInv /\ running
  BY DEF JournalInv, Edit
<1>1. /\ JournaledInv(doc')
      /\ GoesOn(doc, doc')
      /\ doc'.pending \in Write
      /\ doc'.active = doc.active
      /\ doc'.persistedSha = doc.persistedSha
      /\ doc'.lastPersistedRevision = doc.lastPersistedRevision
  BY <1>0, AcceptEditJournaled DEF RunningInv, Edit
<1>2. /\ SessionInv(doc') /\ doc' \in Session /\ NothingAhead(doc')
      /\ doc'.pending # NoWrite
  BY <1>1, WriteIsNotNoWrite DEF JournaledInv, SessionInv
<1>3. /\ UNCHANGED <<disk, journal, receipt, checkpoint, landed, running,
                     crashes, failures>>
      /\ Enqueue("commit", RecordOf(doc'.pending))
  BY DEF Edit, ScheduleCommit, evidence, history
<1>4. RecordOf(doc'.pending) \in Record
      /\ Matches(doc', RecordOf(doc'.pending))
  BY <1>2, PendingMatches
<1>5. /\ QueueParts'
      /\ generation' \in Nat
      /\ inFlight' \in Operation /\ queued' \in Operation
  BY <1>0, <1>1, <1>2, <1>3, <1>4, CommitScheduled DEF RunningInv, QueueParts
<1>6. CheckpointStored'
  BY <1>0, <1>1, <1>2, <1>3, CheckpointKept DEF RunningInv, RecordsMatch
<1>7. FileKnown'
  BY <1>0, <1>1, <1>3 DEF RunningInv, FileKnown
<1>8. TypeOK'
  BY <1>0, <1>2, <1>3, <1>5 DEF TypeOK
<1>. QED
  BY <1>1, <1>3, <1>5, <1>6, <1>7, <1>8 DEF JournalInv, RunningInv, QueueParts

(* Protecting a document that is about to be left schedules the write it    *)
(* has, or one built from its bytes.                                        *)
LEMMA ProtectStep ==
  ASSUME JournalInv, Protect
  PROVE  JournalInv'
<1>. DEFINE w == IF doc.pending # NoWrite THEN doc.pending
                 ELSE CreateWrite(doc, doc.html, doc.editRevision)
<1>0. TypeOK /\ RunningInv /\ running
  BY DEF JournalInv, Protect
<1>1. /\ JournaledInv(doc) /\ SessionInv(doc) /\ doc \in Session
      /\ NothingAhead(doc) /\ GoesOn(doc, doc)
  BY <1>0, StaysTheSame DEF RunningInv, JournaledInv, SessionInv
<1>2. /\ UNCHANGED <<doc, disk, journal, receipt, checkpoint, landed, running,
                     crashes, failures>>
      /\ Enqueue("commit", RecordOf(w))
  BY DEF Protect, ScheduleCommit, evidence, history
<1>3. RecordOf(w) \in Record /\ Matches(doc, RecordOf(w))
  <2>1. CASE doc.pending # NoWrite
    BY <1>1, <2>1, PendingMatches
  <2>2. CASE doc.pending = NoWrite
    <3>1. doc.html \in Html /\ doc.editRevision \in Nat
      BY <1>1 DEF Session, Revision
    <3>2. w \in Write /\ w.revision = doc.editRevision /\ w.html = doc.html
      BY <1>1, <2>2, <3>1, CreateWriteType DEF CreateWrite, Revision
    <3>. QED
      BY <3>1, <3>2, RecordOfType DEF Matches
  <2>. QED
    BY <2>1, <2>2
<1>. HIDE DEF w
<1>4. /\ QueueParts'
      /\ generation' \in Nat
      /\ inFlight' \in Operation /\ queued' \in Operation
  BY <1>0, <1>1, <1>2, <1>3, CommitScheduled DEF RunningInv, QueueParts
<1>5. CheckpointStored' /\ FileKnown'
  BY <1>0, <1>2 DEF RunningInv, CheckpointStored, FileKnown
<1>6. TypeOK'
  BY <1>0, <1>2, <1>4 DEF TypeOK
<1>. QED
  BY <1>1, <1>2, <1>4, <1>5, <1>6 DEF JournalInv, RunningInv, QueueParts

(* A write of the autosave loop is sent.                                    *)
LEMMA SendSaveStep ==
  ASSUME JournalInv, SendSave
  PROVE  JournalInv'
<1>0. TypeOK /\ RunningInv /\ running /\ CanBeginWrite(doc)
  BY DEF JournalInv, SendSave
<1>1. /\ JournaledInv(doc')
      /\ GoesOn(doc, doc')
      /\ doc'.persistedSha = doc.persistedSha
      /\ doc'.lastPersistedRevision = doc.lastPersistedRevision
  BY <1>0, BeginWriteJournaled DEF RunningInv, SendSave
<1>2. SessionInv(doc') /\ doc' \in Session /\ NothingAhead(doc')
  BY <1>1 DEF JournaledInv, SessionInv
<1>3. UNCHANGED <<disk, journal, receipt, checkpoint, generation, inFlight,
                  queued, landed, running, crashes, failures>>
  BY DEF SendSave, evidence, history
<1>4. RecordsMatch' /\ RemovesCovered'
  BY <1>0, <1>1, <1>2, <1>3, Types, MatchesKept, CoveredKept
     DEF RunningInv, RecordsMatch, RemovesCovered
<1>5. CheckpointStored'
  BY <1>0, <1>1, <1>2, <1>3, CheckpointKept DEF RunningInv, RecordsMatch
<1>6. FileKnown'
  BY <1>0, <1>1, <1>3 DEF RunningInv, FileKnown, CanBeginWrite
<1>7. TypeOK' /\ QueueInOrder'
  BY <1>0, <1>2, <1>3 DEF TypeOK, RunningInv, QueueInOrder
<1>. QED
  BY <1>1, <1>4, <1>5, <1>6, <1>7 DEF JournalInv, RunningInv

(* The bytes land: the file moves past everything that was confirmed, so    *)
(* what it covered it still covers.                                         *)
LEMMA SaveLandsStep ==
  ASSUME JournalInv, SaveLands
  PROVE  /\ JournalInv'
         /\ disk'.revision > disk.revision
<1>0. TypeOK /\ RunningInv /\ running
  BY DEF JournalInv, SaveLands
<1>1. /\ doc.active # NoWrite /\ ~landed /\ landed'
      /\ disk' = [html |-> doc.active.html, revision |-> doc.active.revision]
      /\ UNCHANGED <<doc, journal, receipt, checkpoint, generation, inFlight,
                     queued, running, crashes, failures>>
  BY DEF SaveLands, evidence, history
<1>2. /\ doc \in Session /\ doc.active \in Write
      /\ doc.active.html \in Html /\ doc.active.revision \in Nat
      /\ doc.editRevision \in Nat /\ doc.lastPersistedRevision \in Nat
      /\ disk.revision \in Nat
  BY <1>0, <1>1, Types DEF Session, Write, Revision
<1>3. /\ doc.active.revision > doc.lastPersistedRevision
      /\ disk.revision <= doc.lastPersistedRevision
      /\ doc.active.revision <= doc.editRevision
  BY <1>0, <1>1 DEF RunningInv, JournaledInv, WritesAhead, FileKnown,
     SessionInv, ActiveIsOlder
<1>4. disk'.revision > disk.revision
  BY <1>1, <1>2, <1>3
<1>5. ASSUME NEW r \in Journal, Covered(doc, disk, r)
      PROVE  Covered(doc, disk', r)
  <2>1. CASE r = NoJournal
    BY <2>1 DEF Covered
  <2>2. CASE r # NoJournal
    <3>1. r.revision \in Nat /\ r.revision <= doc.lastPersistedRevision
      BY <1>5, <2>2 DEF Journal, Record, Revision, Covered
    <3>. QED
      BY <3>1, <1>1, <1>2, <1>3 DEF Covered
  <2>. QED
    BY <2>1, <2>2
<1>6. RemovesCovered'
  BY <1>0, <1>1, <1>5, Types DEF RunningInv, RemovesCovered
<1>7. CheckpointStored'
  BY <1>0, <1>1, <1>2, <1>3 DEF RunningInv, CheckpointStored
<1>8. FileKnown' /\ RecordsMatch' /\ QueueInOrder' /\ JournaledInv(doc')
  BY <1>0, <1>1 DEF RunningInv, FileKnown, RecordsMatch, QueueInOrder
<1>9. TypeOK'
  <2>1. disk' \in [html : Html, revision : Revision]
    BY <1>1, <1>2 DEF Revision
  <2>. QED
    BY <1>0, <1>1, <2>1 DEF TypeOK
<1>. QED
  BY <1>4, <1>6, <1>7, <1>8, <1>9 DEF JournalInv, RunningInv

(* The acknowledgement: what is still queued is recorded again, and when    *)
(* nothing is, the file has the document and covers every record.           *)
LEMMA SaveAcknowledgedStep ==
  ASSUME JournalInv, SaveAcknowledged
  PROVE  JournalInv'
<1>0. TypeOK /\ RunningInv /\ running /\ landed
  BY DEF JournalInv, SaveAcknowledged
<1>1. /\ doc.active # NoWrite
      /\ disk.html = doc.active.html /\ disk.revision = doc.active.revision
  BY <1>0 DEF RunningInv, FileKnown
<1>2. /\ doc' = Confirm(doc, doc.active, doc.active.revision)
      /\ landed' = FALSE
      /\ UNCHANGED <<disk, journal, receipt, checkpoint, running, crashes,
                     failures>>
      /\ IF doc'.pending # NoWrite
         THEN Enqueue("commit", RecordOf(doc'.pending)) ELSE ScheduleRemove
  BY <1>1 DEF SaveAcknowledged, ScheduleCommit, evidence, history
<1>3. /\ JournaledInv(doc')
      /\ GoesOn(doc, doc')
      /\ doc'.editRevision = doc.editRevision
      /\ doc'.html = doc.html
      /\ doc'.persistedSha = Sha256(disk.html)
      /\ doc'.lastPersistedRevision = disk.revision
      /\ doc'.pending = NoWrite => /\ disk.revision = doc.editRevision
                                   /\ disk.html = doc.html
  BY <1>0, <1>1, <1>2, ConfirmJournaled DEF RunningInv
<1>4. SessionInv(doc') /\ doc' \in Session /\ NothingAhead(doc')
  BY <1>3 DEF JournaledInv, SessionInv
<1>5. /\ QueueParts'
      /\ generation' \in Nat
      /\ inFlight' \in Operation /\ queued' \in Operation
  <2>0. QueueParts
    BY <1>0 DEF RunningInv, QueueParts
  <2>1. CASE doc'.pending # NoWrite
    BY <1>0, <1>2, <1>3, <1>4, <2>0, <2>1, PendingMatches, CommitScheduled
  <2>2. CASE doc'.pending = NoWrite
    BY <1>0, <1>2, <1>3, <1>4, <2>0, <2>2, RemoveScheduled
  <2>. QED
    BY <2>1, <2>2
<1>6. CheckpointStored'
  BY <1>0, <1>2, <1>3, <1>4, CheckpointKept DEF RunningInv, RecordsMatch
<1>7. FileKnown'
  BY <1>0, <1>2, <1>3, Types DEF FileKnown
<1>8. TypeOK'
  BY <1>0, <1>2, <1>4, <1>5 DEF TypeOK
<1>. QED
  BY <1>3, <1>5, <1>6, <1>7, <1>8 DEF JournalInv, RunningInv, QueueParts

(* A save fails before its bytes land: its write is queued and recorded.    *)
LEMMA SaveFailsStep ==
  ASSUME JournalInv, SaveFails
  PROVE  JournalInv'
<1>0. TypeOK /\ RunningInv /\ running /\ ~landed /\ doc.active # NoWrite
  BY DEF JournalInv, SaveFails
<1>1. /\ JournaledInv(doc')
      /\ GoesOn(doc, doc')
      /\ doc'.pending \in Write
      /\ doc'.persistedSha = doc.persistedSha
      /\ doc'.lastPersistedRevision = doc.lastPersistedRevision
  BY <1>0, FailedJournaled DEF RunningInv, SaveFails
<1>2. /\ SessionInv(doc') /\ doc' \in Session /\ NothingAhead(doc')
      /\ doc'.pending # NoWrite
  BY <1>1, WriteIsNotNoWrite DEF JournaledInv, SessionInv
<1>3. /\ UNCHANGED <<disk, journal, receipt, checkpoint, landed, running,
                     crashes>>
      /\ failures < MaxFailures /\ failures' = failures + 1
      /\ Enqueue("commit", RecordOf(doc'.pending))
  BY DEF SaveFails, ScheduleCommit, evidence, history
<1>4. RecordOf(doc'.pending) \in Record
      /\ Matches(doc', RecordOf(doc'.pending))
  BY <1>2, PendingMatches
<1>5. /\ QueueParts'
      /\ generation' \in Nat
      /\ inFlight' \in Operation /\ queued' \in Operation
  BY <1>0, <1>1, <1>2, <1>3, <1>4, CommitScheduled DEF RunningInv, QueueParts
<1>6. CheckpointStored'
  BY <1>0, <1>1, <1>2, <1>3, CheckpointKept DEF RunningInv, RecordsMatch
<1>7. FileKnown'
  BY <1>0, <1>1, <1>3 DEF RunningInv, FileKnown
<1>8. failures' \in 0..MaxFailures
  BY <1>0, <1>3, JournalAssumption DEF TypeOK
<1>9. TypeOK'
  BY <1>0, <1>2, <1>3, <1>5, <1>8 DEF TypeOK
<1>. QED
  BY <1>1, <1>5, <1>6, <1>7, <1>9 DEF JournalInv, RunningInv, QueueParts

-----------------------------------------------------------------------------
(* The store writes a record only over an older one, or over itself.        *)
LEMMA CommitKeepsCheckpoint ==
  ASSUME TypeOK, RunningInv, inFlight.kind = "commit",
         CommitAllowed(inFlight.record),
         journal' = inFlight.record, UNCHANGED <<doc, disk, checkpoint>>
  PROVE  CheckpointStored'
<1>1. inFlight.record # NoJournal /\ Matches(doc, inFlight.record)
  BY DEF RunningInv, QueueInOrder, RecordsMatch
<1>2. inFlight.record.revision \in Nat /\ doc.editRevision \in Nat
  BY <1>1, Types DEF Journal, Record, Revision
<1>3. inFlight.record.revision <= doc.editRevision
  BY <1>1 DEF Matches
<1>4. journal # NoJournal => \/ journal.revision < inFlight.record.revision
                             \/ journal = inFlight.record
  BY DEF CommitAllowed
<1>. SUFFICES ASSUME checkpoint # NoJournal,
                     checkpoint.revision = doc.editRevision
              PROVE  \/ inFlight.record = checkpoint
                     \/ /\ disk.html = doc.html
                        /\ doc.editRevision = doc.lastPersistedRevision
  BY DEF CheckpointStored
<1>. QED
  BY <1>2, <1>3, <1>4 DEF RunningInv, CheckpointStored

(* The outcome of the operation in flight becomes known; its record may now *)
(* be on disk.                                                              *)
LEMMA StoreRecords ==
  ASSUME JournalInv, running,
         NEW o \in {"done", "failed"},
         inFlight' = [inFlight EXCEPT !.outcome = o],
         \/ o = "failed" /\ UNCHANGED journal
         \/ /\ inFlight.kind = "commit"
            /\ CommitAllowed(inFlight.record)
            /\ journal' = inFlight.record,
         UNCHANGED <<doc, disk, receipt, checkpoint, generation, queued, landed,
                     running, crashes>>,
         failures' \in 0..MaxFailures
  PROVE  JournalInv'
<1>0. TypeOK /\ RunningInv
  BY DEF JournalInv
<1>1. /\ inFlight' \in Operation
      /\ inFlight'.kind = inFlight.kind
      /\ inFlight'.record = inFlight.record
      /\ inFlight'.outcome = o
  BY <1>0, Types DEF Operation
<1>2. CheckpointStored'
  BY <1>0, CommitKeepsCheckpoint DEF RunningInv, CheckpointStored
<1>3. RecordsMatch'
  BY <1>0, <1>1 DEF RunningInv, RecordsMatch
<1>4. RemovesCovered'
  BY <1>0, <1>1 DEF RunningInv, RemovesCovered
<1>5. QueueInOrder'
  BY <1>0, <1>1 DEF RunningInv, QueueInOrder
<1>6. FileKnown' /\ JournaledInv(doc')
  BY <1>0 DEF RunningInv, FileKnown
<1>7. journal' \in Journal
  BY <1>0, Types
<1>8. TypeOK'
  BY <1>0, <1>1, <1>7 DEF TypeOK
<1>. QED
  BY <1>2, <1>3, <1>4, <1>5, <1>6, <1>8 DEF JournalInv, RunningInv

LEMMA StoreCommitsStep ==
  ASSUME JournalInv, StoreCommits
  PROVE  JournalInv'
<1>1. /\ running /\ inFlight.kind = "commit"
      /\ UNCHANGED <<doc, disk, receipt, checkpoint, generation, queued, landed,
                     running, crashes, failures>>
  BY DEF StoreCommits, history
<1>2. failures' \in 0..MaxFailures
  BY <1>1 DEF JournalInv, TypeOK
<1>3. CASE CommitAllowed(inFlight.record)
  BY <1>1, <1>2, <1>3, StoreRecords DEF StoreCommits
<1>4. CASE ~CommitAllowed(inFlight.record)
  BY <1>1, <1>2, <1>4, StoreRecords DEF StoreCommits
<1>. QED
  BY <1>3, <1>4

(* The file system refuses, before or after the record was replaced.        *)
LEMMA StoreFailsStep ==
  ASSUME JournalInv, StoreFails
  PROVE  JournalInv'
<1>1. /\ running
      /\ inFlight' = [inFlight EXCEPT !.outcome = "failed"]
      /\ \/ UNCHANGED journal
         \/ /\ inFlight.kind = "commit"
            /\ CommitAllowed(inFlight.record)
            /\ journal' = inFlight.record
      /\ UNCHANGED <<doc, disk, receipt, checkpoint, generation, queued, landed,
                     running, crashes>>
  BY DEF StoreFails, history
<1>2. failures' \in 0..MaxFailures
  BY JournalAssumption DEF JournalInv, TypeOK, StoreFails
<1>. QED
  BY <1>1, <1>2, StoreRecords

(* A record that is removed was covered by the source file.                 *)
LEMMA StoreRemovesStep ==
  ASSUME JournalInv, StoreRemoves
  PROVE  /\ JournalInv'
         /\ journal' # journal => Covered(doc, disk, journal)
<1>0. TypeOK /\ RunningInv /\ running /\ inFlight.kind = "remove"
  BY DEF JournalInv, StoreRemoves
<1>1. /\ UNCHANGED <<doc, disk, receipt, checkpoint, generation, queued, landed,
                     running, crashes, failures>>
      /\ journal' \in {journal, NoJournal}
  BY DEF StoreRemoves, history
<1>2. /\ inFlight' \in Operation
      /\ inFlight'.kind = "remove"
      /\ inFlight'.record = inFlight.record
  <2>1. inFlight' = [inFlight EXCEPT !.outcome = "done"]
        \/ inFlight' = [inFlight EXCEPT !.outcome = "failed"]
    BY DEF StoreRemoves
  <2>. QED
    BY <1>0, <2>1, Types DEF Operation
<1>3. Covered(doc, disk, journal)
  BY <1>0 DEF RunningInv, RemovesCovered
<1>4. CheckpointStored'
  <2>. SUFFICES ASSUME checkpoint # NoJournal,
                       checkpoint.revision = doc.editRevision
                PROVE  \/ journal' = checkpoint
                       \/ /\ disk.html = doc.html
                          /\ doc.editRevision = doc.lastPersistedRevision
    BY <1>1 DEF CheckpointStored
  <2>1. \/ journal = checkpoint
        \/ /\ disk.html = doc.html
           /\ doc.editRevision = doc.lastPersistedRevision
    BY <1>0 DEF RunningInv, CheckpointStored
  <2>2. ASSUME journal = checkpoint
        PROVE  /\ disk.html = doc.html
               /\ doc.editRevision = doc.lastPersistedRevision
    <3>1. /\ doc.editRevision \in Nat /\ doc.lastPersistedRevision \in Nat
          /\ disk.revision \in Nat
      BY <1>0, Types
    <3>2. doc.lastPersistedRevision <= doc.editRevision
      BY <1>0 DEF RunningInv, JournaledInv, SessionInv, NothingAhead
    <3>3. journal.html = doc.html
      BY <1>0, <2>2 DEF RunningInv, RecordsMatch, Matches
    <3>4. doc.editRevision <= doc.lastPersistedRevision
      BY <1>3, <2>2 DEF Covered
    <3>5. disk.revision <= doc.lastPersistedRevision
      <4>1. CASE ~landed
        BY <1>0, <4>1 DEF RunningInv, FileKnown
      <4>2. CASE landed
        <5>1. /\ doc.active \in Write /\ doc.active.revision \in Nat
              /\ doc.active.revision > doc.lastPersistedRevision
              /\ doc.active.revision <= doc.editRevision
          BY <1>0, <4>2, Types DEF RunningInv, FileKnown, JournaledInv,
             WritesAhead, SessionInv, ActiveIsOlder, Session, Write, Revision
        <5>. QED
          BY <5>1, <3>1, <3>4
      <4>. QED
        BY <4>1, <4>2
    <3>6. journal.html = disk.html
      BY <1>3, <2>2, <3>1, <3>2, <3>4, <3>5 DEF Covered
    <3>. QED
      BY <3>1, <3>2, <3>3, <3>4, <3>6
  <2>. QED
    BY <2>1, <2>2
<1>5. RecordsMatch' /\ RemovesCovered'
  BY <1>0, <1>1, <1>2 DEF RunningInv, RecordsMatch, Matches, RemovesCovered,
     Covered
<1>6. QueueInOrder' /\ FileKnown' /\ JournaledInv(doc')
  BY <1>0, <1>1, <1>2 DEF RunningInv, QueueInOrder, FileKnown
<1>7. TypeOK'
  BY <1>0, <1>1, <1>2 DEF TypeOK, Journal
<1>. QED
  BY <1>3, <1>4, <1>5, <1>6, <1>7 DEF JournalInv, RunningInv

-----------------------------------------------------------------------------
(* The operation behind the settled one starts.                             *)
LEMMA NextStarts ==
  ASSUME JournalInv, running, RunNext, doc' \in Session, GoesOn(doc, doc'),
         UNCHANGED <<disk, journal>>, Matches(doc', checkpoint')
  PROVE  /\ QueueParts'
         /\ inFlight' \in Operation /\ queued' \in Operation
<1>0. TypeOK /\ RunningInv
  BY DEF JournalInv
<1>1. /\ inFlight' = queued /\ queued' = NoOperation
      /\ NoOperation.kind = "none" /\ NoOperation.record = NoJournal
      /\ NoOperation.outcome = "none"
      /\ NoOperation \in Operation
  BY DEF RunNext, NoOperation, Operation, Journal
<1>2. Matches(doc', journal) /\ Matches(doc', queued.record)
  BY <1>0, Types, MatchesKept DEF RunningInv, RecordsMatch
<1>3. queued.kind = "remove" => Covered(doc', disk, journal)
  BY <1>0, Types, CoveredKept DEF RunningInv, RemovesCovered
<1>4. RecordsMatch' /\ RemovesCovered'
  BY <1>1, <1>2, <1>3 DEF RecordsMatch, RemovesCovered, Matches
<1>5. QueueInOrder'
  BY <1>0, <1>1 DEF RunningInv, QueueInOrder
<1>. QED
  BY <1>0, <1>1, <1>4, <1>5, Types DEF QueueParts

(* A commit that counts proves the revision it carried, which is the        *)
(* document's: its record is the checkpoint, and it is on disk.             *)
LEMMA SettleCommitStep ==
  ASSUME JournalInv, SettleCommit
  PROVE  JournalInv'
<1>0. /\ TypeOK /\ RunningInv /\ running /\ inFlight.kind = "commit"
      /\ RunNext
      /\ UNCHANGED <<disk, journal, generation, landed, running, crashes,
                     failures>>
  BY DEF JournalInv, SettleCommit, history
<1>1. /\ inFlight.record # NoJournal /\ inFlight.record \in Journal
      /\ Matches(doc, inFlight.record) /\ Matches(doc, checkpoint)
      /\ JournaledInv(doc) /\ doc \in Session
      /\ journal \in Journal /\ receipt \in Journal /\ checkpoint \in Journal
      /\ NoJournal \in Journal
  BY <1>0, Types DEF RunningInv, QueueInOrder, RecordsMatch, Journal
<1>2. /\ JournaledInv(doc') /\ GoesOn(doc, doc') /\ doc'.active = doc.active
      /\ doc'.persistedSha = doc.persistedSha
      /\ doc'.html = doc.html /\ doc'.editRevision = doc.editRevision
      /\ doc'.lastPersistedRevision = doc.lastPersistedRevision
  <2>1. CASE inFlight.outcome = "done" /\ CommitCounts
    <3>1. inFlight.record.html = doc.html
      BY <1>1, <2>1 DEF CommitCounts, Matches
    <3>2. doc' = [doc EXCEPT !.workingSha = Sha256(doc.html)]
      BY <2>1, <3>1 DEF SettleCommit
    <3>. QED
      BY <1>1, <3>2, ProvenJournaled
  <2>2. CASE ~(inFlight.outcome = "done" /\ CommitCounts)
    BY <1>1, <2>2, StaysTheSame DEF SettleCommit
  <2>. QED
    BY <2>1, <2>2
<1>3. doc' \in Session
  BY <1>2 DEF JournaledInv, SessionInv
<1>4. /\ receipt' \in {receipt, inFlight.record}
      /\ \/ checkpoint' \in {checkpoint, NoJournal}
         \/ /\ inFlight.outcome = "done"
            /\ checkpoint' = inFlight.record
  BY DEF SettleCommit
<1>5. Matches(doc', checkpoint')
  BY <1>1, <1>2, <1>4 DEF Matches
<1>6. /\ QueueParts'
      /\ inFlight' \in Operation /\ queued' \in Operation
  BY <1>0, <1>2, <1>3, <1>5, NextStarts
<1>7. CheckpointStored'
  <2>1. CASE checkpoint' \in {checkpoint, NoJournal}
    BY <1>0, <1>2, <2>1 DEF RunningInv, CheckpointStored
  <2>2. CASE inFlight.outcome = "done" /\ checkpoint' = inFlight.record
    <3>1. journal = inFlight.record
      BY <1>0, <2>2 DEF RunningInv, QueueInOrder
    <3>. QED
      BY <1>0, <2>2, <3>1 DEF CheckpointStored
  <2>. QED
    BY <1>4, <2>1, <2>2
<1>8. FileKnown'
  BY <1>0, <1>2 DEF RunningInv, FileKnown
<1>9. TypeOK'
  BY <1>0, <1>1, <1>3, <1>4, <1>6 DEF TypeOK
<1>. QED
  BY <1>2, <1>6, <1>7, <1>8, <1>9 DEF JournalInv, RunningInv, QueueParts

LEMMA SettleRemoveStep ==
  ASSUME JournalInv, SettleRemove
  PROVE  JournalInv'
<1>0. /\ TypeOK /\ RunningInv /\ running /\ RunNext
      /\ receipt' \in {receipt, NoJournal}
      /\ checkpoint' \in {checkpoint, NoJournal}
      /\ UNCHANGED <<doc, disk, journal, generation, landed, running, crashes,
                     failures>>
  BY DEF JournalInv, SettleRemove, history
<1>1. /\ doc' \in Session /\ GoesOn(doc, doc')
      /\ NoJournal \in Journal
  BY <1>0, Types, StaysTheSame DEF Journal
<1>2. Matches(doc', checkpoint')
  BY <1>0 DEF RunningInv, RecordsMatch, Matches
<1>3. /\ QueueParts'
      /\ inFlight' \in Operation /\ queued' \in Operation
  BY <1>0, <1>1, <1>2, NextStarts
<1>4. CheckpointStored' /\ FileKnown' /\ JournaledInv(doc')
  BY <1>0 DEF RunningInv, CheckpointStored, FileKnown
<1>5. TypeOK'
  BY <1>0, <1>1, <1>3 DEF TypeOK
<1>. QED
  BY <1>3, <1>4, <1>5 DEF JournalInv, RunningInv, QueueParts

-----------------------------------------------------------------------------
(* A crash leaves the two files, and nothing that has to agree with them.   *)
LEMMA CrashStep ==
  ASSUME JournalInv, Crash
  PROVE  JournalInv'
<1>1. crashes' \in 0..MaxCrashes
  BY JournalAssumption DEF JournalInv, TypeOK, Crash
<1>2. TypeOK' /\ ~running'
  BY <1>1 DEF JournalInv, TypeOK, Crash, evidence
<1>. QED
  BY <1>2 DEF JournalInv

(* Opening again rebuilds the agreement from the two files: an equal record *)
(* is retired, and any other becomes the document.                          *)
LEMMA ReopenStep ==
  ASSUME JournalInv, Reopen
  PROVE  JournalInv'
<1>0. /\ TypeOK
      /\ running' /\ landed' = FALSE /\ queued' = NoOperation
      /\ receipt' = journal /\ checkpoint' = journal
      /\ generation' = generation + 1
      /\ UNCHANGED <<disk, journal, crashes, failures>>
  BY DEF JournalInv, Reopen
<1>1. /\ disk.html \in Html /\ disk.revision \in Nat
      /\ disk \in [html : Html, revision : Revision]
      /\ NoJournal \in Journal
      /\ NoOperation \in Operation
      /\ NoOperation.kind = "none" /\ NoOperation.record = NoJournal
      /\ NoOperation.outcome = "none"
      /\ generation + 1 \in Nat
  BY <1>0, Types DEF TypeOK, NoOperation, Operation, Journal
<1>2. journal # NoJournal => journal \in Record /\ journal.revision \in Nat
  BY <1>0, Types DEF Journal, Record, Revision
<1>3. /\ JournaledInv(doc')
      /\ doc'.persistedSha = Sha256(disk.html)
      /\ disk.revision <= doc'.lastPersistedRevision
      /\ Matches(doc', journal)
      /\ Matches(doc', inFlight'.record)
      /\ inFlight' \in Operation
      /\ inFlight'.kind = "remove" => Covered(doc', disk, journal)
      /\ inFlight'.outcome # "done"
      /\ inFlight'.kind = "commit" <=> inFlight'.record # NoJournal
      /\ CheckpointStored'
  <2>1. CASE journal = NoJournal
    <3>1. /\ doc' = OpenedSession(disk.html, disk.revision)
          /\ inFlight' = NoOperation
      BY <2>1 DEF Reopen
    <3>2. /\ JournaledInv(doc')
          /\ doc'.persistedSha = Sha256(disk.html)
          /\ disk.revision <= doc'.lastPersistedRevision
      BY <1>1, <3>1, OpenedJournaled DEF OpenedSession, Revision
    <3>. QED
      BY <1>0, <1>1, <2>1, <3>1, <3>2 DEF Matches, CheckpointStored
  <2>2. CASE journal # NoJournal /\ journal.html = disk.html
    <3>. DEFINE n == ReconciledRevision(journal)
    <3>1. n \in Nat /\ n >= disk.revision /\ n >= journal.revision
      BY <1>1, <1>2, <2>2 DEF ReconciledRevision, Greater
    <3>2. /\ doc' = OpenedSession(disk.html, n)
          /\ inFlight' = [kind |-> "remove", record |-> NoJournal,
                          generation |-> generation + 1,
                          outcome |-> "waiting"]
      BY <2>2 DEF Reopen
    <3>. HIDE DEF n
    <3>3. /\ JournaledInv(doc')
          /\ doc'.persistedSha = Sha256(disk.html)
          /\ doc'.html = disk.html
          /\ doc'.editRevision = n
          /\ doc'.lastPersistedRevision = n
      BY <1>1, <3>1, <3>2, OpenedJournaled DEF OpenedSession, Revision
    <3>4. inFlight' \in Operation
      BY <1>1, <3>2 DEF Operation
    <3>5. Matches(doc', journal) /\ Covered(doc', disk, journal)
      BY <2>2, <3>1, <3>3 DEF Matches, Covered
    <3>. QED
      BY <1>0, <2>2, <3>1, <3>2, <3>3, <3>4, <3>5 DEF Matches, CheckpointStored
  <2>3. CASE journal # NoJournal /\ journal.html # disk.html
    <3>. DEFINE op == [kind |-> "commit", record |-> RecordOf(doc'.pending),
                       generation |-> generation + 1, outcome |-> "waiting"]
    <3>1. doc' = Recovered(journal) /\ inFlight' = op
      BY <2>3 DEF Reopen
    <3>2. /\ JournaledInv(doc')
          /\ doc'.pending \in Write
          /\ doc'.editRevision > journal.revision
          /\ doc'.persistedSha = Sha256(disk.html)
          /\ doc'.lastPersistedRevision = disk.revision
      BY <1>1, <1>2, <2>3, <3>1, RecoveredJournaled
    <3>3. /\ RecordOf(doc'.pending) \in Record
          /\ RecordOf(doc'.pending) # NoJournal
          /\ Matches(doc', RecordOf(doc'.pending))
      BY <3>2, WriteIsNotNoWrite, PendingMatches, RecordOfType
         DEF JournaledInv
    <3>4. /\ op \in Operation
          /\ op.record = RecordOf(doc'.pending)
          /\ op.kind = "commit" /\ op.outcome = "waiting"
      BY <1>1, <3>3 DEF Operation, Journal
    <3>. HIDE DEF op
    <3>5. doc'.editRevision \in Nat
      BY <3>2 DEF JournaledInv, SessionInv, Session, Revision
    <3>6. Matches(doc', journal) /\ CheckpointStored'
      BY <1>0, <1>2, <2>3, <3>2, <3>5 DEF Matches, CheckpointStored
    <3>. QED
      BY <1>1, <3>1, <3>2, <3>3, <3>4, <3>6
  <2>. QED
    BY <2>1, <2>2, <2>3
<1>4. FileKnown'
  BY <1>0, <1>3 DEF FileKnown
<1>5. RecordsMatch'
  BY <1>0, <1>1, <1>3 DEF RecordsMatch, Matches
<1>6. RemovesCovered'
  BY <1>0, <1>1, <1>3 DEF RemovesCovered
<1>7. QueueInOrder'
  BY <1>0, <1>1, <1>3 DEF QueueInOrder
<1>8. TypeOK'
  <2>1. doc' \in Session
    BY <1>3 DEF JournaledInv, SessionInv
  <2>2. running' = TRUE
    BY DEF Reopen
  <2>. QED
    BY <1>0, <1>1, <1>3, <2>1, <2>2 DEF TypeOK
<1>. QED
  BY <1>3, <1>4, <1>5, <1>6, <1>7, <1>8 DEF JournalInv, RunningInv

-----------------------------------------------------------------------------
LEMMA JournalInvStep == JournalInv /\ [Next]_vars => JournalInv'
<1>. SUFFICES ASSUME JournalInv, [Next]_vars
              PROVE  JournalInv'
  OBVIOUS
<1>1. CASE UNCHANGED vars
  BY <1>1 DEF vars, JournalInv, TypeOK, RunningInv, FileKnown, RecordsMatch,
     RemovesCovered, CheckpointStored, QueueInOrder
<1>2. ASSUME NEW h \in Html, NEW known \in BOOLEAN,
             Edit(h, IF known THEN Sha256(h) ELSE NoHash)
      PROVE  JournalInv'
  <2>. DEFINE sha == IF known THEN Sha256(h) ELSE NoHash
  <2>1. sha \in {NoHash, Sha256(h)} /\ Edit(h, sha)
    BY <1>2
  <2>. QED
    BY <2>1, EditStep
<1>3. CASE Protect
  BY <1>3, ProtectStep
<1>4. CASE SendSave
  BY <1>4, SendSaveStep
<1>5. CASE SaveLands
  BY <1>5, SaveLandsStep
<1>6. CASE SaveAcknowledged
  BY <1>6, SaveAcknowledgedStep
<1>7. CASE SaveFails
  BY <1>7, SaveFailsStep
<1>8. CASE StoreCommits
  BY <1>8, StoreCommitsStep
<1>9. CASE StoreRemoves
  BY <1>9, StoreRemovesStep
<1>10. CASE StoreFails
  BY <1>10, StoreFailsStep
<1>11. CASE SettleCommit
  BY <1>11, SettleCommitStep
<1>12. CASE SettleRemove
  BY <1>12, SettleRemoveStep
<1>13. CASE Crash
  BY <1>13, CrashStep
<1>14. CASE Reopen
  BY <1>14, ReopenStep
<1>. QED
  BY <1>1, <1>2, <1>3, <1>4, <1>5, <1>6, <1>7, <1>8, <1>9, <1>10, <1>11,
     <1>12, <1>13, <1>14 DEF Next

LEMMA JournalInvariant == Spec => []JournalInv
  BY JournalInvInit, JournalInvStep, PTL DEF Spec

(* Every variable of the journal keeps its type.                            *)
THEOREM TypeCorrect == Spec => []TypeOK
<1>1. JournalInv => TypeOK
  BY DEF JournalInv
<1>. QED
  BY <1>1, JournalInvariant, PTL

(* What the user is told is protected is in a file, after whatever crashes  *)
(* and failures.                                                            *)
THEOREM ProtectionIsStored == Spec => []ProtectedMeansStored
<1>1. JournalInv => ProtectedMeansStored
  <2>. SUFFICES ASSUME TypeOK, RunningInv, Protected
                PROVE  \/ journal # NoJournal /\ journal.html = doc.html
                       \/ disk.html = doc.html
    BY DEF JournalInv, ProtectedMeansStored
  <2>0. /\ SessionInv(doc) /\ doc \in Session
        /\ doc.active # NoWrite => doc.active.authority = doc.authority
        /\ doc.authority \in Nat
    BY Types DEF RunningInv, JournaledInv, Unfenced, Session
  <2>1. CASE SourcePersisted
    <3>1. doc.persistedSha = Sha256(doc.html)
      BY <2>0, <2>1 DEF SourcePersisted, SessionInv, IdleClaims, Claimed
    <3>2. doc.active = NoWrite
      BY <2>0, <2>1 DEF SourcePersisted, SessionInv, FencedWhileIdle
    <3>3. doc.persistedSha = Sha256(disk.html)
      BY <3>2 DEF RunningInv, FileKnown
    <3>. QED
      BY <3>1, <3>3, Sha256Injective
  <2>2. CASE Checkpointed
    <3>1. checkpoint.html = doc.html
      <4>1. Sha256(checkpoint.html) = doc.workingSha
        BY <2>2 DEF Checkpointed
      <4>2. doc.workingSha # NoHash
        <5>1. checkpoint.html \in Html
          BY <2>2, Types DEF Checkpointed, Journal, Record
        <5>. QED
          BY <4>1, <5>1, Sha256Type, SentinelAssumption
      <4>3. Sha256(checkpoint.html) = Sha256(doc.html)
        BY <4>1, <4>2 DEF RunningInv, JournaledInv, WorkingKnown
      <4>. QED
        BY <4>3, Sha256Injective
    <3>. QED
      BY <2>2, <3>1 DEF RunningInv, CheckpointStored, Checkpointed
  <2>. QED
    BY <2>1, <2>2 DEF Protected
<1>. QED
  BY <1>1, JournalInvariant, PTL

(* The document is never behind its record: the store never refuses an edit *)
(* as stale because of an earlier crash.                                    *)
THEOREM DocumentIsNotBehind == Spec => []DocumentNotBehind
<1>1. JournalInv => DocumentNotBehind
  BY DEF JournalInv, RunningInv, RecordsMatch, Matches, DocumentNotBehind
<1>. QED
  BY <1>1, JournalInvariant, PTL

(* A retirement never takes work with it: the record it deletes is one the  *)
(* source file has, or has moved past.                                      *)
THEOREM RemovalIsSafe == Spec => RemovalLosesNothing
<1>1. JournalInv /\ [Next]_vars
        => (journal # NoJournal /\ journal' = NoJournal
              => \/ disk.html = journal.html
                 \/ disk.revision > journal.revision)
  <2>. SUFFICES ASSUME JournalInv, Next, journal # NoJournal,
                       journal' = NoJournal
                PROVE  \/ disk.html = journal.html
                       \/ disk.revision > journal.revision
    BY DEF vars
  <2>0. TypeOK
    BY DEF JournalInv
  <2>1. CASE StoreRemoves
    <3>1. Covered(doc, disk, journal)
      BY <2>1, StoreRemovesStep
    <3>2. journal.revision \in Nat /\ disk.revision \in Nat
      BY <2>0, Types DEF Journal, Record, Revision
    <3>. QED
      BY <3>1, <3>2 DEF Covered
  <2>2. CASE StoreCommits \/ StoreFails
    <3>1. running /\ journal' = inFlight.record /\ inFlight.kind = "commit"
      BY <2>2 DEF StoreCommits, StoreFails
    <3>2. inFlight.record # NoJournal
      BY <3>1 DEF JournalInv, RunningInv, QueueInOrder
    <3>. QED
      BY <3>1, <3>2
  <2>3. CASE ~(StoreRemoves \/ StoreCommits \/ StoreFails)
    BY <2>3 DEF Next, Edit, Protect, SendSave, SaveLands, SaveAcknowledged,
       SaveFails, SettleCommit, SettleRemove, Crash, Reopen, evidence
  <2>. QED
    BY <2>1, <2>2, <2>3
<1>. QED
  BY <1>1, JournalInvariant, PTL DEF Spec, RemovalLosesNothing

(* The revision recorded with the file grows with every change of the file, *)
(* across crashes and recoveries.                                           *)
THEOREM FileRevisionsAdvance == Spec => RevisionsAdvance
<1>1. JournalInv /\ [Next]_vars
        => (disk' # disk => disk'.revision > disk.revision)
  <2>. SUFFICES ASSUME JournalInv, Next, disk' # disk
                PROVE  disk'.revision > disk.revision
    BY DEF vars
  <2>1. SaveLands
    BY DEF Next, Edit, Protect, SendSave, SaveAcknowledged, SaveFails,
       StoreCommits, StoreRemoves, StoreFails, SettleCommit, SettleRemove,
       Crash, Reopen
  <2>. QED
    BY <2>1, SaveLandsStep
<1>. QED
  BY <1>1, JournalInvariant, PTL DEF Spec, RevisionsAdvance
=============================================================================
