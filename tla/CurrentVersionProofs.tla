------------------------ MODULE CurrentVersionProofs ------------------------
(***************************************************************************)
(* Proofs about CurrentVersion, for any operations, comments and bodies    *)
(* and any number of faults, crashes and writes by other programs.         *)
(*                                                                         *)
(* What a Version is made of is decided in steps, and each step relies on  *)
(* what was on disk when the request began.  Protocol says what that is:   *)
(* one transaction at most is unfinished; the request that is served works *)
(* on it, or prepares one when there is none; its record names the         *)
(* comments before and after, and what it replaces is preserved.  From it  *)
(* follow that receipts are final and that the steps implement the atomic  *)
(* VersionLedger.                                                          *)
(***************************************************************************)
EXTENDS CurrentVersion, SequenceTheorems, FiniteSetTheorems, TLAPS

Preparing == {"read", "prepare", "record"}
Committing == {"snapshot", "inspect", "bind", "check", "displace", "parked",
               "publish", "confirm", "mark", "draft", "state", "final",
               "manifest"}
Undoing == {"aborting", "undraft", "unstate", "retain", "aborted"}
Pcs == Preparing \cup Committing \cup Undoing \cup {"resume", "complete"}

Seen == [object : Nat, html : Content]
Worker ==
    [pc : Pcs, op : Ops, goal : Ops \cup {Opening}, throws : BOOLEAN,
     seen : Seen \cup {None}, cur : Nat \cup {None},
     kind : AllKinds, pick : Nat \cup Ops \cup {None},
     expected : Content]

Link == 1..Len(heap) \cup {None}
Version == [op : Ops \cup {None}, html : Content]

FilesTyped ==
    /\ heap \in Seq(Content)
    /\ source \in Link
    /\ dir \in [Ops -> [before : Link, after : Link, parked : Link]]

Typed ==
    /\ FilesTyped
    /\ versions \in Seq(Version) /\ Latest \in Nat \ {0}
    /\ tx \in [Ops -> Transaction \cup {NothingNew, None}]
    /\ preserved \in [Ops -> Preserved \cup {None}]
    /\ draft \in Draft /\ record \in Record
    /\ worker \in Worker \cup {Idle}
    /\ outcome \in [Ops -> {"none", "unknown", "unchanged", "created",
                            "not-created"}]

(* Phases of a transaction, and what they say of the manifest.              *)
In(op, phases) == tx[op] # None /\ tx[op].phase \in phases

Phases ==
    \A op \in Ops :
        /\ Committed(op) => In(op, {"source-written", "completed"})
        /\ In(op, {"completed"}) => Committed(op)

OnePending == \A p, q \in Pending : p = q

(* What was reported of an operation.                                       *)
Reported ==
    \A op \in Ops :
        /\ outcome[op] = "none" =>
               tx[op] = None /\ preserved[op] = None
        /\ outcome[op] = "created" => Committed(op)
        /\ outcome[op] = "unchanged" => In(op, {"unchanged"})
        /\ outcome[op] = "not-created" =>
               tx[op] = None \/ In(op, {"aborted"})
        /\ In(op, {"unchanged"}) => outcome[op] = "unchanged"

(* What the record of a transaction says of the comments.                   *)
CommentsKept ==
    \A op \in Ops : tx[op] # None /\ tx[op] # NothingNew =>
        LET before == tx[op].beforeDraft.comments
            after == tx[op].afterDraft.comments IN
        \/ after = before
        \/ /\ preserved[op] # None /\ preserved[op].comments = before
           /\ \/ after = {}
              \/ \E p \in Ops : preserved[p] # None /\ preserved[p].comments = after

(* The request that is served.                                              *)
MadeFrom ==
    /\ worker.kind = "history-copy" => worker.pick \in 1..Latest
    /\ worker.kind = "recovery-copy" =>
           worker.pick \in Ops /\ preserved[worker.pick] # None

Served ==
    worker # Idle =>
        LET op == worker.op  goal == worker.goal  pc == worker.pc IN
        /\ MadeFrom
        /\ goal \in Ops => outcome[goal] = "unknown"
        /\ goal \in Ops \ {op} => Pending \subseteq {op} /\ tx[goal] = None
        /\ pc \in Preparing =>
               goal = op /\ Pending = {} /\ tx[op] = None
        /\ pc \in {"prepare", "record"} => worker.seen \in Seen
        /\ pc = "record" /\ worker.kind # "local-save" =>
               preserved[op] # None /\ preserved[op].comments = draft.comments
        /\ pc = "resume" => tx[op] # None
        /\ pc \in Committing =>
               In(op, {"prepared", "source-written"}) /\ ~Committed(op)
        /\ pc \in {"draft", "state", "final", "manifest", "complete"} =>
               In(op, {"source-written"})
        /\ pc \in {"state", "final", "manifest"} => draft = tx[op].afterDraft
        /\ pc = "complete" => Committed(op)
        /\ pc \in Undoing => ~Committed(op)
        /\ pc = "aborting" => op \in Pending
        /\ pc \in Undoing \ {"aborting"} => In(op, {"aborting"})
        /\ pc \in {"unstate", "retain", "aborted"} =>
               draft = tx[op].beforeDraft

Protocol ==
    /\ Phases
    /\ OnePending
    /\ Reported
    /\ CommentsKept
    /\ Served

IInv == Typed /\ Protocol

-----------------------------------------------------------------------------
LEMMA InitInv == Init => IInv
<1> SUFFICES ASSUME Init PROVE IInv
    OBVIOUS
<1>1. heap = <<Identified(Imported)>> /\ Identified(Imported) \in Content
      /\ Imported \in Content
  BY DEF Init, Identified, Imported, Content
<1>2. Typed
  BY <1>1, NoneAssumption
     DEF Init, Typed, FilesTyped, Link, Version, Draft, Record, FirstDraft, Latest, Idle
<1>3. ASSUME NEW op \in Ops
      PROVE  ~Committed(op) /\ tx[op] = None /\ outcome[op] = "none" /\ preserved[op] = None
      /\ op \notin Pending
  BY NoneAssumption DEF Init, Committed, Latest, Pending
<1>4. Protocol
  BY <1>3 DEF Init, Protocol, Phases, OnePending, Reported, CommentsKept,
     Served, In, Pending
<1> QED
  BY <1>2, <1>4 DEF IInv

-----------------------------------------------------------------------------
(***************************************************************************)
(* Moves of the request that write nothing the protocol speaks of.         *)
(***************************************************************************)
Same(r) == /\ r \in Worker /\ r # Idle
           /\ r.op = worker.op /\ r.goal = worker.goal /\ r.kind = worker.kind
           /\ r.pick = worker.pick

Quiet == UNCHANGED <<versions, tx, preserved, draft, outcome>>

LEMMA Going ==
  ASSUME worker \in Worker, NEW pc \in Pcs
  PROVE  /\ Same([worker EXCEPT !.pc = pc])
         /\ [worker EXCEPT !.pc = pc].pc = pc
         /\ [worker EXCEPT !.pc = pc].seen = worker.seen
BY DEF Worker, Same, Pcs, Preparing, Committing, Undoing, Idle

LEMMA Conflicting ==
  ASSUME worker \in Worker, Conflict
  PROVE  Same(worker') /\ worker'.pc = "aborting"
BY DEF Conflict, Worker, Same, Pcs, Undoing, Idle

LEMMA Busy ==
  ASSUME Typed, NEW op, NEW pc \in Pcs, At(pc, op)
  PROVE  worker \in Worker /\ worker # Idle
BY DEF Typed, At, Pcs, Preparing, Committing, Undoing, Idle

(* Every kept fact but the one about the request depends on what is Quiet.  *)
LEMMA QuietKeeps ==
  ASSUME IInv, Quiet
  PROVE  Phases' /\ OnePending' /\ Reported' /\ CommentsKept'
BY DEF IInv, Protocol, Phases, OnePending, Reported, CommentsKept, In,
   Committed, Latest, Pending, Quiet

Early == {"snapshot", "inspect", "bind", "check", "displace", "parked",
          "publish", "confirm", "mark"}

LEMMA Move ==
  ASSUME IInv, worker # Idle, Quiet, Same(worker'), FilesTyped',
         record' \in Record,
         \/ worker.pc \in Early /\ worker'.pc \in Early \cup {"aborting"}
         \/ worker.pc = "state" /\ worker'.pc = "final"
         \/ worker.pc = "final" /\ worker'.pc \in {"manifest", "aborting"}
         \/ worker.pc = "unstate" /\ worker'.pc = "retain"
         \/ worker.pc = "retain" /\ worker'.pc = "aborted"
  PROVE  IInv'
<1>1. Typed'
  BY DEF IInv, Typed, Quiet, Same, Latest
<1>2. Served'
  BY DEF IInv, Protocol, Served, MadeFrom, Same, Preparing, Committing,
     Undoing, Early, In, Committed, Latest, Pending, Quiet, Typed, Worker
<1> QED
  BY <1>1, <1>2, QuietKeeps DEF IInv, Protocol

(* A request that fails was unknown before. *)
LEMMA Thrown ==
  ASSUME IInv, worker # Idle, Throw, FilesTyped', record' \in Record,
         UNCHANGED <<versions, tx, preserved, draft>>
  PROVE  IInv'
<1>1. Quiet
  <2>1. worker \in Worker
    BY DEF IInv, Typed
  <2>2. outcome' = outcome
    BY <2>1 DEF IInv, Typed, Protocol, Served, Throw, Worker
  <2> QED
    BY <2>2 DEF Quiet
<1>2. Typed'
  BY <1>1 DEF IInv, Typed, Quiet, Throw, Latest
<1>3. Served'
  BY DEF Served, Throw
<1> QED
  BY <1>1, <1>2, <1>3, QuietKeeps DEF IInv, Protocol

(* Steps of other programs, and saves of the file. *)
LEMMA Elsewhere ==
  ASSUME IInv, Quiet, worker' = worker \/ worker' = Idle, FilesTyped',
         record' \in Record
  PROVE  IInv'
<1>1. Typed'
  BY DEF IInv, Typed, Quiet, Latest
<1>2. Served'
  BY DEF IInv, Protocol, Served, MadeFrom, In, Committed, Latest, Pending,
     Quiet
<1> QED
  BY <1>1, <1>2, QuietKeeps DEF IInv, Protocol

-----------------------------------------------------------------------------
(***************************************************************************)
(* The steps between the snapshot and the second record.                   *)
(***************************************************************************)
LEMMA WriteSnapshotStep ==
  ASSUME IInv, NEW op \in Ops, WriteSnapshot(op)
  PROVE  IInv'
<1>1. worker \in Worker /\ worker # Idle /\ worker.pc = "snapshot"
  BY Busy DEF IInv, Pcs, Committing, WriteSnapshot, At
<1>2. FilesTyped' /\ record' \in Record
  BY DEF IInv, Typed, FilesTyped, Link, WriteSnapshot, files
<1>3. CASE Throw
  BY <1>1, <1>2, <1>3, Thrown DEF WriteSnapshot
<1>4. CASE GoTo("inspect") /\ UNCHANGED outcome
  BY <1>1, <1>2, <1>4, Move, Going
     DEF WriteSnapshot, GoTo, Quiet, Early, Pcs, Committing
<1> QED
  BY <1>3, <1>4 DEF WriteSnapshot

LEMMA InspectStep ==
  ASSUME IInv, NEW op \in Ops, Inspect(op)
  PROVE  IInv'
<1>1. worker \in Worker /\ worker # Idle /\ worker.pc = "inspect"
  BY Busy DEF IInv, Pcs, Committing, Inspect, At
<1>2. Quiet
  BY DEF Inspect, Quiet
<1>3. FilesTyped' /\ record' \in Record
  BY DEF IInv, Typed, FilesTyped, Link, Inspect
<1>4. CASE worker' = worker
  BY <1>2, <1>3, <1>4, Elsewhere
<1>5. CASE Conflict
  BY <1>1, <1>2, <1>3, <1>5, Move, Conflicting DEF Early
<1>6. CASE /\ IsBefore(op) \/ IsAfter(op)
           /\ worker' = [worker EXCEPT !.cur = source,
                           !.pc = IF heap[source] = tx[op].after THEN "mark"
                                  ELSE "bind"]
  <2>1. source \in Nat
    BY <1>6 DEF IInv, Typed, FilesTyped, Link, IsBefore, IsAfter
  <2>2. Same(worker') /\ worker'.pc \in {"mark", "bind"}
    BY ZenonT(60), <1>1, <1>6, <2>1 DEF Worker, Same, Pcs, Committing, Idle
  <2> QED
    BY <1>1, <1>2, <1>3, <2>2, Move DEF Early
<1> QED
  BY <1>4, <1>5, <1>6 DEF Inspect

LEMMA BindStep ==
  ASSUME IInv, NEW op \in Ops, Bind(op)
  PROVE  IInv'
<1>1. worker \in Worker /\ worker # Idle /\ worker.pc = "bind"
  BY Busy DEF IInv, Pcs, Committing, Bind, At
<1>2. CASE Throw /\ UNCHANGED <<heap, dir>>
  <2>1. FilesTyped' /\ record' \in Record
    BY <1>2 DEF IInv, Typed, FilesTyped, Link, Bind
  <2> QED
    BY <1>1, <1>2, <2>1, Thrown DEF Bind
<1>3. CASE dir[op].after = None
  <2>1. tx[op].after \in Content
    <3>1. In(op, {"prepared", "source-written"})
      BY <1>1 DEF IInv, Protocol, Served, Committing, Bind, At
    <3> QED
      BY <3>1 DEF IInv, Typed, In, Transaction, NothingNew
  <2>2. /\ heap' \in Seq(Content) /\ Len(heap') = Len(heap) + 1
        /\ Len(heap) \in Nat
    <3>1. heap \in Seq(Content) /\ heap' = Append(heap, tx[op].after)
      BY <1>3 DEF IInv, Typed, FilesTyped, Bind
    <3> QED
      BY <2>1, <3>1, AppendProperties, LenProperties
  <2>3. Link \subseteq Link' /\ Len(heap') \in Link'
    BY <2>2 DEF Link
  <2>4. FilesTyped'
    BY <1>3, <2>2, <2>3 DEF IInv, Typed, FilesTyped, Bind
  <2>5. Quiet /\ record' \in Record /\ GoTo("check")
    BY <1>3 DEF Bind, Quiet, IInv, Typed
  <2>6. Same(worker') /\ worker'.pc = "check"
    BY <1>1, <2>5, Going DEF GoTo, Pcs, Committing
  <2> QED
    BY <1>1, <2>4, <2>5, <2>6, Move DEF Early
<1> QED
  BY <1>2, <1>3 DEF Bind

LEMMA CheckStep ==
  ASSUME IInv, NEW op \in Ops, Check(op)
  PROVE  IInv'
<1>1. worker \in Worker /\ worker # Idle /\ worker.pc = "check"
  BY Busy DEF IInv, Pcs, Committing, Check, At
<1>2. Quiet /\ FilesTyped' /\ record' \in Record
  BY DEF IInv, Typed, FilesTyped, Link, Check, Quiet, files
<1>3. Same(worker') /\ worker'.pc \in {"displace", "aborting"}
  BY <1>1, Going, Conflicting DEF Check, GoTo, Pcs, Committing
<1> QED
  BY <1>1, <1>2, <1>3, Move DEF Early

LEMMA DisplaceStep ==
  ASSUME IInv, NEW op \in Ops, Displace(op)
  PROVE  IInv'
<1>1. worker \in Worker /\ worker # Idle /\ worker.pc = "displace"
  BY Busy DEF IInv, Pcs, Committing, Displace, At
<1>2. /\ UNCHANGED <<versions, tx, preserved, draft>> /\ record' \in Record
      /\ Throw \/ UNCHANGED outcome
  BY DEF IInv, Typed, Displace
<1>3. CASE UNCHANGED <<source, dir>>
  <2>1. FilesTyped'
    BY <1>3 DEF IInv, Typed, FilesTyped, Link, Displace
  <2>2. CASE Throw
    BY <1>1, <1>2, <2>1, <2>2, Thrown
  <2>3. CASE Conflict /\ UNCHANGED outcome
    BY <1>1, <1>2, <2>1, <2>3, Move, Conflicting DEF Quiet, Early
  <2>4. CASE source # None /\ dir[op].parked = None
    BY <1>3, <2>4 DEF Displace, IInv, Typed, FilesTyped
  <2> QED
    BY <2>2, <2>3, <2>4 DEF Displace
<1>4. CASE /\ dir' = [dir EXCEPT ![op].parked = source] /\ source' = None
           /\ GoTo("parked") /\ UNCHANGED outcome
  <2>1. FilesTyped'
    BY SMTT(30), <1>4 DEF IInv, Typed, FilesTyped, Link, Displace
  <2> QED
    BY <1>1, <1>2, <1>4, <2>1, Move, Going
       DEF GoTo, Quiet, Early, Pcs, Committing
<1> QED
  BY <1>3, <1>4 DEF Displace

LEMMA VerifyParkedStep ==
  ASSUME IInv, NEW op \in Ops, VerifyParked(op)
  PROVE  IInv'
<1>1. worker \in Worker /\ worker # Idle /\ worker.pc = "parked"
  BY Busy DEF IInv, Pcs, Committing, VerifyParked, At
<1>2. Quiet /\ FilesTyped' /\ record' \in Record
  BY DEF IInv, Typed, FilesTyped, Link, VerifyParked, Quiet
<1>3. Same(worker') /\ worker'.pc \in {"publish", "aborting"}
  BY <1>1, Going, Conflicting DEF VerifyParked, GoTo, Pcs, Committing
<1> QED
  BY <1>1, <1>2, <1>3, Move DEF Early

LEMMA PublishStep ==
  ASSUME IInv, NEW op \in Ops, Publish(op)
  PROVE  IInv'
<1>1. worker \in Worker /\ worker # Idle /\ worker.pc = "publish"
  BY Busy DEF IInv, Pcs, Committing, Publish, At
<1>2. Quiet /\ FilesTyped' /\ record' \in Record
  BY DEF IInv, Typed, FilesTyped, Link, Publish, Quiet
<1>3. Same(worker') /\ worker'.pc \in {"confirm", "aborting"}
  BY <1>1, Going, Conflicting DEF Publish, GoTo, Pcs, Committing
<1> QED
  BY <1>1, <1>2, <1>3, Move DEF Early

LEMMA ConfirmStep ==
  ASSUME IInv, NEW op \in Ops, Confirm(op)
  PROVE  IInv'
<1>1. worker \in Worker /\ worker # Idle /\ worker.pc = "confirm"
  BY Busy DEF IInv, Pcs, Committing, Confirm, At
<1>2. Quiet /\ FilesTyped' /\ record' \in Record
  BY DEF IInv, Typed, FilesTyped, Link, Confirm, Quiet, files
<1>3. CASE Conflict
  BY <1>1, <1>2, <1>3, Move, Conflicting DEF Early
<1>4. CASE /\ Read(source) = tx[op].after
           /\ worker' = [worker EXCEPT !.pc = "mark", !.cur = source]
  <2>1. source \in Nat \cup {None}
    BY DEF IInv, Typed, FilesTyped, Link
  <2>2. Same(worker') /\ worker'.pc = "mark"
    BY <1>1, <1>4, <2>1 DEF Worker, Same, Pcs, Committing, Idle
  <2> QED
    BY <1>1, <1>2, <2>2, Move DEF Early
<1> QED
  BY <1>3, <1>4 DEF Confirm

LEMMA FinalCheckStep ==
  ASSUME IInv, NEW op \in Ops, FinalCheck(op)
  PROVE  IInv'
<1>1. worker \in Worker /\ worker # Idle /\ worker.pc = "final"
  BY Busy DEF IInv, Pcs, Committing, FinalCheck, At
<1>2. Quiet /\ FilesTyped' /\ record' \in Record
  BY DEF IInv, Typed, FilesTyped, Link, FinalCheck, Quiet, files
<1>3. Same(worker') /\ worker'.pc \in {"manifest", "aborting"}
  BY <1>1, Going, Conflicting DEF FinalCheck, GoTo, Pcs, Committing
<1> QED
  BY <1>1, <1>2, <1>3, Move

LEMMA WriteStateStep ==
  ASSUME IInv, NEW op \in Ops, WriteState(op)
  PROVE  IInv'
<1>1. worker \in Worker /\ worker # Idle /\ worker.pc = "state"
  BY Busy DEF IInv, Pcs, Committing, WriteState, At
<1>2. Quiet /\ FilesTyped'
  BY DEF IInv, Typed, FilesTyped, Link, WriteState, Quiet, files
<1>3. In(op, {"source-written"})
  BY <1>1 DEF IInv, Protocol, Served, WriteState, At
<1>4. record' \in Record
  BY <1>3 DEF IInv, Typed, In, Transaction, NothingNew, WriteState
<1>5. Same(worker') /\ worker'.pc = "final"
  BY <1>1, Going DEF WriteState, GoTo, Pcs, Committing
<1> QED
  BY <1>1, <1>2, <1>4, <1>5, Move

LEMMA RestoreStateStep ==
  ASSUME IInv, NEW op \in Ops, RestoreState(op)
  PROVE  IInv'
<1>1. worker \in Worker /\ worker # Idle /\ worker.pc = "unstate"
  BY Busy DEF IInv, Pcs, Undoing, RestoreState, At
<1>2. Quiet /\ FilesTyped'
  BY DEF IInv, Typed, FilesTyped, Link, RestoreState, Quiet, files
<1>3. In(op, {"aborting"})
  BY <1>1 DEF IInv, Protocol, Served, RestoreState, At, Undoing
<1>4. record' \in Record
  BY <1>3 DEF IInv, Typed, In, Transaction, NothingNew, RestoreState
<1>5. Same(worker') /\ worker'.pc = "retain"
  BY <1>1, Going DEF RestoreState, GoTo, Pcs, Undoing
<1> QED
  BY <1>1, <1>2, <1>4, <1>5, Move

LEMMA RetainSnapshotStep ==
  ASSUME IInv, NEW op \in Ops, RetainSnapshot(op)
  PROVE  IInv'
<1>1. worker \in Worker /\ worker # Idle /\ worker.pc = "retain"
  BY Busy DEF IInv, Pcs, Undoing, RetainSnapshot, At
<1>2. Quiet /\ FilesTyped' /\ record' \in Record
  BY DEF IInv, Typed, FilesTyped, Link, RetainSnapshot, Quiet, files
<1>5. Same(worker') /\ worker'.pc = "aborted"
  BY <1>1, Going DEF RetainSnapshot, GoTo, Pcs, Undoing
<1> QED
  BY <1>1, <1>2, <1>5, Move

-----------------------------------------------------------------------------
(***************************************************************************)
(* The steps that write the records, the comments or the manifest.         *)
(***************************************************************************)
LEMMA Phase ==
  ASSUME Typed, NEW op \in Ops, tx[op] # None, tx[op].phase # "unchanged",
         NEW phase \in {"source-written", "completed", "aborting", "aborted"},
         tx' = [tx EXCEPT ![op].phase = phase]
  PROVE  /\ tx' \in [Ops -> Transaction \cup {NothingNew, None}]
         /\ \A p \in Ops \ {op} : tx'[p] = tx[p]
         /\ tx[op] \in Transaction /\ tx'[op] \in Transaction
         /\ tx'[op].phase = phase
         /\ tx'[op] # None /\ tx'[op] # NothingNew /\ tx[op] # NothingNew
         /\ tx'[op].beforeDraft = tx[op].beforeDraft
         /\ tx'[op].afterDraft = tx[op].afterDraft
<1>1. tx[op] \in Transaction
  BY DEF Typed, NothingNew
<1>2. [tx[op] EXCEPT !.phase = phase] \in Transaction
  BY <1>1 DEF Transaction
<1>3. tx'[op] = [tx[op] EXCEPT !.phase = phase]
  BY DEF Typed
<1> QED
  BY <1>1, <1>2, <1>3, NoneAssumption DEF Typed, Transaction, NothingNew

(* A transaction goes to another phase; its comments are kept as before. *)
LEMMA PhaseKeeps ==
  ASSUME IInv, NEW op \in Ops, tx[op] # None, tx[op].phase # "unchanged",
         NEW phase \in {"source-written", "completed", "aborting", "aborted"},
         tx' = [tx EXCEPT ![op].phase = phase], UNCHANGED <<versions, preserved>>
  PROVE  CommentsKept'
<1>1. SUFFICES ASSUME NEW p \in Ops, tx'[p] # None, tx'[p] # NothingNew
               PROVE  /\ tx[p] # None /\ tx[p] # NothingNew
                      /\ tx'[p].beforeDraft = tx[p].beforeDraft
                      /\ tx'[p].afterDraft = tx[p].afterDraft
  BY DEF IInv, Protocol, CommentsKept
<1>2. CASE p = op
  BY <1>2, Phase DEF IInv
<1>3. CASE p # op
  <2>1. tx'[p] = tx[p]
    BY <1>3, Phase DEF IInv
  <2> QED
    BY <1>1, <2>1
<1> QED
  BY <1>2, <1>3

(* The request is answered, and the one it came before begins. *)
LEMMA Returned ==
  ASSUME IInv, worker # Idle, NEW op, worker.op = op,
         NEW result \in {"unchanged", "created", "not-created"},
         Return(op, result), UNCHANGED <<versions, preserved>>,
         Pending' \subseteq Pending \ {op},
         \A p \in Ops \ {op} : tx'[p] = tx[p]
  PROVE  /\ worker' \in Worker \cup {Idle}
         /\ outcome' \in [Ops -> {"none", "unknown", "unchanged", "created",
                                  "not-created"}]
         /\ outcome' = [outcome EXCEPT ![op] =
                          IF worker.goal = op THEN result ELSE @]
         /\ Served'
<1>1. /\ worker \in Worker
      /\ outcome \in [Ops -> {"none", "unknown", "unchanged", "created",
                              "not-created"}]
  BY DEF IInv, Typed
<1>2. CASE worker.goal \notin Ops \ {op}
  BY <1>1, <1>2 DEF Return, Served
<1>3. CASE worker.goal \in Ops \ {op}
  <2>1. /\ worker' \in Worker /\ worker'.op = worker.goal
        /\ worker'.pc = "read" /\ worker'.goal = worker.goal
        /\ worker'.kind = worker.kind /\ worker'.pick = worker.pick
    BY <1>1, <1>3 DEF Return, Worker, Pcs, Preparing
  <2>2. outcome' = outcome
    BY <1>1, <1>3 DEF Return
  <2>3. /\ Pending' = {} /\ tx'[worker.goal] = None
        /\ outcome'[worker.goal] = "unknown"
    BY <1>3, <2>2 DEF IInv, Protocol, Served
  <2>4. MadeFrom'
    BY <2>1 DEF IInv, Protocol, Served, MadeFrom, Latest
  <2>5. Served'
    BY <2>1, <2>3, <2>4 DEF Served, Preparing, Committing, Undoing
  <2> QED
    BY <1>1, <1>3, <2>1, <2>2, <2>5 DEF Return
<1> QED
  BY <1>2, <1>3

LEMMA ReadEvidenceStep ==
  ASSUME IInv, NEW op \in Ops, ReadEvidence(op)
  PROVE  IInv'
<1>1. /\ worker \in Worker /\ worker # Idle /\ worker.pc = "read"
      /\ worker.op = op
  BY Busy DEF IInv, Pcs, Preparing, ReadEvidence, At
<1>2. FilesTyped' /\ record' \in Record
  BY DEF IInv, Typed, FilesTyped, Link, ReadEvidence, files
<1>3. UNCHANGED <<versions, preserved, draft>>
  BY DEF ReadEvidence
<1>4. /\ worker.goal = op /\ Pending = {} /\ tx[op] = None
      /\ outcome[op] = "unknown"
  BY <1>1 DEF IInv, Protocol, Served, Preparing
<1>5. CASE Throw /\ UNCHANGED tx
  BY <1>1, <1>2, <1>3, <1>5, Thrown
<1>6. CASE tx' = [tx EXCEPT ![op] = NothingNew] /\ Return(op, "unchanged")
  <2>1. /\ tx' \in [Ops -> Transaction \cup {NothingNew, None}]
        /\ tx'[op] = NothingNew
        /\ \A p \in Ops \ {op} : tx'[p] = tx[p]
    BY <1>6 DEF IInv, Typed
  <2>2. Pending' = {}
    BY <1>4, <2>1 DEF Pending, NothingNew
  <2>3. /\ worker' \in Worker \cup {Idle} /\ Served'
        /\ outcome' \in [Ops -> {"none", "unknown", "unchanged", "created",
                                 "not-created"}]
        /\ outcome' = [outcome EXCEPT ![op] = "unchanged"]
    BY <1>1, <1>3, <1>4, <1>6, <2>1, <2>2, Returned
  <2>4. Typed'
    BY <1>2, <1>3, <2>1, <2>3 DEF IInv, Typed, Latest
  <2>7. ~Committed(op)
    BY <1>4 DEF IInv, Protocol, Phases, In
  <2>8. Phases'
    BY <1>3, <2>1, <2>7
       DEF IInv, Protocol, Phases, In, Committed, Latest, NothingNew
  <2>9. CommentsKept'
    BY <1>3, <1>4, <2>1 DEF IInv, Protocol, CommentsKept
  <2>5. Phases' /\ OnePending' /\ CommentsKept'
    BY <2>2, <2>8, <2>9 DEF OnePending
  <2>6. Reported'
    BY <1>3, <1>4, <2>1, <2>3, NoneAssumption
       DEF IInv, Typed, Protocol, Reported, In, Committed, Latest, NothingNew
  <2> QED
    BY <2>3, <2>4, <2>5, <2>6 DEF IInv, Protocol
<1>7. CASE /\ source # None
           /\ worker' = [worker EXCEPT !.pc = "prepare",
                           !.seen = [object |-> source, html |-> heap[source]]]
           /\ UNCHANGED <<tx, outcome>>
  <2>1. source \in Nat /\ heap[source] \in Content
    BY <1>7, ElementOfSeq DEF IInv, Typed, FilesTyped, Link
  <2>2. Same(worker') /\ worker'.pc = "prepare" /\ worker'.seen \in Seen
    BY <1>1, <1>7, <2>1 DEF Worker, Seen, Same, Pcs, Preparing, Idle
  <2>5. Typed'
    BY <1>2, <1>3, <1>7, <2>2 DEF IInv, Typed, Same, Latest
  <2>6. Served'
    BY <1>1, <1>3, <1>4, <1>7, <2>2
       DEF IInv, Protocol, Served, MadeFrom, Same, Preparing, Committing,
           Undoing, Pending, Latest
  <2> QED
    BY <1>3, <1>7, <2>5, <2>6, QuietKeeps DEF Quiet, IInv, Protocol
<1>8. Read(source) = worker.expected => source # None
  BY <1>1, NoneAssumption DEF Worker, Read
<1> QED
  BY <1>5, <1>6, <1>7, <1>8 DEF ReadEvidence

(* What an attempt preserves, and the file it is bound to. *)
KeptDraft == [html |-> worker.seen.html, comments |-> draft.comments,
              revision |-> draft.revision]
BoundTo(op) == IF dir[op].before = None THEN source ELSE dir[op].before

(* The ways a preparation ends: nothing is left, or the link, or all of it. *)
LEMMA Preparations ==
  ASSUME NEW op \in Ops, Prepare(op)
  PROVE  \/ Throw /\ UNCHANGED <<dir, preserved>>
         \/ /\ source # None
            /\ dir' = [dir EXCEPT ![op].before = BoundTo(op)]
            /\ Throw /\ UNCHANGED preserved
         \/ /\ source # None /\ BoundTo(op) = worker.seen.object
            /\ dir' = [dir EXCEPT ![op].before = BoundTo(op)]
            /\ GoTo("record") /\ UNCHANGED outcome
            /\ \/ worker.kind = "local-save" /\ preserved' = preserved
               \/ /\ worker.kind # "local-save"
                  /\ preserved[op] \in {None, KeptDraft}
                  /\ preserved' = [preserved EXCEPT ![op] = KeptDraft]
BY DEF Prepare, KeptDraft, BoundTo

LEMMA PrepareStep ==
  ASSUME IInv, NEW op \in Ops, Prepare(op)
  PROVE  IInv'
<1>1. /\ worker \in Worker /\ worker # Idle /\ worker.pc = "prepare"
      /\ worker.op = op
  BY Busy DEF IInv, Pcs, Preparing, Prepare, At
<1>2. /\ UNCHANGED <<heap, source, versions, tx, draft, record>>
      /\ record' \in Record
  BY DEF IInv, Typed, Prepare
<1>0. CASE Throw /\ UNCHANGED <<dir, preserved>>
  <2>1. FilesTyped'
    BY <1>0, <1>2 DEF IInv, Typed, FilesTyped, Link
  <2> QED
    BY <1>0, <1>1, <1>2, <2>1, Thrown
<1>b. ASSUME source # None, dir' = [dir EXCEPT ![op].before = BoundTo(op)]
      PROVE  FilesTyped'
  <2>1. BoundTo(op) \in Link
    BY DEF IInv, Typed, FilesTyped, BoundTo
  <2> QED
    BY ZenonT(60), <1>2, <1>b, <2>1 DEF IInv, Typed, FilesTyped, Link
<1>3. CASE /\ source # None
           /\ dir' = [dir EXCEPT ![op].before = BoundTo(op)]
           /\ Throw /\ UNCHANGED preserved
  BY <1>1, <1>2, <1>3, <1>b, Thrown
<1>4. CASE /\ source # None /\ BoundTo(op) = worker.seen.object
           /\ dir' = [dir EXCEPT ![op].before = BoundTo(op)]
           /\ GoTo("record") /\ UNCHANGED outcome
           /\ \/ worker.kind = "local-save" /\ preserved' = preserved
              \/ /\ worker.kind # "local-save"
                 /\ preserved[op] \in {None, KeptDraft}
                 /\ preserved' = [preserved EXCEPT ![op] = KeptDraft]
  <2>1. FilesTyped'
    BY <1>4, <1>b
  <2>2. /\ worker.goal = op /\ Pending = {} /\ tx[op] = None
        /\ worker.seen \in Seen
        /\ outcome[op] = "unknown" /\ MadeFrom
    BY <1>1 DEF IInv, Protocol, Served, Preparing
  <2>3. KeptDraft \in Preserved
    BY <2>2 DEF IInv, Typed, Seen, Draft, Preserved, KeptDraft
  <2>4. /\ preserved' \in [Ops -> Preserved \cup {None}]
        /\ \A p \in Ops \ {op} : preserved'[p] = preserved[p]
        /\ preserved[op] # None => preserved'[op] = preserved[op]
        /\ worker.kind # "local-save" =>
               preserved'[op] # None /\ preserved'[op].comments = draft.comments
    <3>1. KeptDraft.comments = draft.comments
      BY DEF KeptDraft
    <3> QED
      BY <1>4, <2>3, <3>1, NoneAssumption DEF IInv, Typed
  <2>5. /\ Same(worker') /\ worker'.pc = "record"
        /\ worker'.seen = worker.seen
    BY <1>1, <1>4, Going DEF GoTo, Pcs, Preparing
  <2>6. Typed'
    BY <1>2, <1>4, <2>1, <2>4, <2>5 DEF IInv, Typed, Same, Latest
  <2>7. Phases' /\ OnePending'
    BY <1>2 DEF IInv, Protocol, Phases, OnePending, In, Committed, Latest,
       Pending
  <2>8. Reported'
    BY <1>2, <1>4, <2>2, <2>4
       DEF IInv, Protocol, Reported, In, Committed, Latest
  <2>9. CommentsKept'
    <3>1. \A p \in Ops : preserved[p] # None => preserved'[p] = preserved[p]
      BY <2>4
    <3> QED
      BY <1>2, <3>1 DEF IInv, Protocol, CommentsKept
  <2>10. MadeFrom'
    BY <1>2, <2>2, <2>4, <2>5 DEF MadeFrom, Same, Latest
  <2>11. Served'
    BY <1>1, <1>2, <1>4, <2>2, <2>4, <2>5, <2>10
       DEF Served, Same, Preparing, Committing, Undoing, Pending
  <2> QED
    BY <2>6, <2>7, <2>8, <2>9, <2>11 DEF IInv, Protocol
<1> QED
  BY <1>0, <1>3, <1>4, Preparations

LEMMA MaxOfTwo ==
  ASSUME NEW a \in Nat, NEW b \in Nat
  PROVE  Max({a, b}) \in Nat
<1>1. \E x \in {a, b} : \A y \in {a, b} : x >= y
  OBVIOUS
<1> QED
  BY <1>1 DEF Max

LEMMA RecordPreparedStep ==
  ASSUME IInv, NEW op \in Ops, RecordPrepared(op)
  PROVE  /\ IInv' /\ tx'[op].beforeDraft = draft
         /\ tx[op] = None /\ Pending = {} /\ Pending' = {op}
<1>1. /\ worker \in Worker /\ worker # Idle /\ worker.pc = "record"
      /\ worker.op = op
  BY Busy DEF IInv, Pcs, Preparing, RecordPrepared, At
<1>2. UNCHANGED <<versions, preserved, draft, record, outcome>>
  BY DEF RecordPrepared
<1>3. FilesTyped' /\ record' \in Record
  BY DEF IInv, Typed, FilesTyped, Link, RecordPrepared, files
<1>4. /\ worker.goal = op /\ Pending = {} /\ tx[op] = None
      /\ worker.seen \in Seen /\ outcome[op] = "unknown" /\ MadeFrom
      /\ worker.kind # "local-save" =>
             preserved[op] # None /\ preserved[op].comments = draft.comments
  BY <1>1 DEF IInv, Protocol, Served, Preparing
<1> DEFINE kind == worker.kind
           pick == worker.pick
           html == Snapshot(kind, pick)
           after == IF kind = "local-save" THEN worker.seen.html
                    ELSE Identified(html)
           next == [comments |-> Remaining(kind, pick),
                    revision |-> NextRevision(kind, pick),
                    base |-> Latest + 1]
           made == [phase |-> "prepared", kind |-> kind,
                    ordinal |-> Latest + 1, html |-> html,
                    expected |-> worker.seen.html, after |-> after,
                    beforeDraft |-> draft, beforeRecord |-> record,
                    afterDraft |-> next,
                    afterRecord |-> [base |-> Latest + 1, sha |-> after,
                                     baseline |-> after, draft |-> next]]
<1>5. tx' = [tx EXCEPT ![op] = made] /\ GoTo("resume")
  BY DEF RecordPrepared
<1>6. worker.seen.html \in Content
  BY <1>4 DEF Seen
<1>7. /\ kind \in AllKinds
      /\ kind = "history-copy" =>
             pick \in 1..Latest /\ versions[pick] \in Version
      /\ kind = "recovery-copy" =>
             pick \in Ops /\ preserved[pick] \in Preserved
  BY <1>1, <1>4, ElementOfSeq DEF MadeFrom, IInv, Typed, Worker, Latest
<1>8. html \in Content
  BY <1>6, <1>7 DEF Snapshot, AllKinds, Version, Preserved
<1>9. after \in Content
  BY <1>6, <1>8 DEF Identified, Content
<1>10. next \in Draft
  <2>1. Remaining(kind, pick) \in SUBSET Comments
    BY <1>7 DEF Remaining, AllKinds, Preserved, IInv, Typed, Draft
  <2>2. NextRevision(kind, pick) \in Nat
    BY SMTT(30), <1>7, MaxOfTwo
       DEF NextRevision, AllKinds, Preserved, IInv, Typed, Draft
  <2> QED
    BY <2>1, <2>2 DEF Draft, IInv, Typed
<1>11. made \in Transaction
  BY <1>6, <1>7, <1>8, <1>9, <1>10 DEF Transaction, Record, IInv, Typed
<1>12. /\ tx' \in [Ops -> Transaction \cup {NothingNew, None}]
       /\ \A p \in Ops \ {op} : tx'[p] = tx[p]
       /\ tx'[op] = made /\ tx'[op] # None
  BY <1>5, <1>11, NoneAssumption DEF IInv, Typed
<1>13. Same(worker') /\ worker'.pc = "resume"
  BY <1>1, <1>5, Going DEF GoTo, Pcs
<1>14. Typed'
  BY <1>2, <1>3, <1>12, <1>13 DEF IInv, Typed, Same, Latest
<1>15. Pending' = {op}
  BY <1>4, <1>12 DEF Pending
<1>16. ~Committed(op)
  BY <1>4 DEF IInv, Protocol, Phases, In
<1>17. Phases'
  BY <1>2, <1>12, <1>16 DEF IInv, Protocol, Phases, In, Committed, Latest
<1>18. Reported'
  BY <1>2, <1>4, <1>12 DEF IInv, Protocol, Reported, In, Committed, Latest
<1>19. CommentsKept'
  <2>1. \/ next.comments = draft.comments
        \/ /\ preserved[op] # None /\ preserved[op].comments = draft.comments
           /\ \/ next.comments = {}
              \/ \E p \in Ops : /\ preserved[p] # None
                                /\ preserved[p].comments = next.comments
    BY <1>4, <1>7 DEF Remaining, AllKinds, MadeFrom
  <2> QED
    BY <1>2, <1>12, <2>1 DEF IInv, Protocol, CommentsKept
<1>20. Served'
  BY <1>1, <1>2, <1>4, <1>12, <1>13
     DEF Served, MadeFrom, Same, Preparing, Committing, Undoing, Latest
<1> QED
  BY <1>4, <1>12, <1>14, <1>15, <1>17, <1>18, <1>19, <1>20
     DEF IInv, Protocol, OnePending

LEMMA MarkWrittenStep ==
  ASSUME IInv, NEW op \in Ops, MarkWritten(op)
  PROVE  IInv'
<1>1. /\ worker \in Worker /\ worker # Idle /\ worker.pc = "mark"
      /\ worker.op = op
  BY Busy DEF IInv, Pcs, Committing, MarkWritten, At
<1>2. UNCHANGED <<versions, preserved, draft, outcome>>
      /\ FilesTyped' /\ record' \in Record
  BY DEF IInv, Typed, FilesTyped, Link, MarkWritten, files
<1>3. CASE Conflict /\ UNCHANGED tx
  BY <1>1, <1>2, <1>3, Move, Conflicting DEF Quiet, Early
<1>4. CASE tx' = [tx EXCEPT ![op].phase = "source-written"] /\ GoTo("draft")
  <2>1. In(op, {"prepared", "source-written"}) /\ ~Committed(op)
    BY <1>1 DEF IInv, Protocol, Served, Committing
  <2>2. /\ tx' \in [Ops -> Transaction \cup {NothingNew, None}]
        /\ \A p \in Ops \ {op} : tx'[p] = tx[p]
        /\ tx'[op].phase = "source-written" /\ tx'[op] # None
    BY <1>4, <2>1, Phase DEF IInv, In
  <2>3. Same(worker') /\ worker'.pc = "draft"
    BY <1>1, <1>4, Going DEF GoTo, Pcs, Committing
  <2>4. Typed'
    BY <1>2, <2>2, <2>3 DEF IInv, Typed, Same, Latest
  <2>5. Pending' = Pending
    BY <2>1, <2>2 DEF Pending, In
  <2>6. Phases'
    BY <1>2, <2>1, <2>2 DEF IInv, Protocol, Phases, In, Committed, Latest
  <2>7. Reported'
    BY <1>2, <2>1, <2>2 DEF IInv, Protocol, Reported, In, Committed, Latest
  <2>8. CommentsKept'
    BY <1>2, <1>4, <2>1, PhaseKeeps DEF In
  <2>9. Served'
    BY <1>1, <1>2, <2>1, <2>2, <2>3, <2>5
       DEF IInv, Protocol, Served, MadeFrom, Same, Preparing, Committing,
           Undoing, In, Committed, Latest
  <2> QED
    BY <2>4, <2>5, <2>6, <2>7, <2>8, <2>9 DEF IInv, Protocol, OnePending
<1> QED
  BY <1>3, <1>4 DEF MarkWritten

LEMMA WriteDraftStep ==
  ASSUME IInv, NEW op \in Ops, WriteDraft(op)
  PROVE  IInv' /\ op \in Pending /\ ~Committed(op)
<1>1. /\ worker \in Worker /\ worker # Idle /\ worker.pc = "draft"
      /\ worker.op = op
  BY Busy DEF IInv, Pcs, Committing, WriteDraft, At
<1>2. UNCHANGED <<versions, tx, preserved, outcome>>
      /\ FilesTyped' /\ record' \in Record
      /\ draft' = tx[op].afterDraft
  BY DEF IInv, Typed, FilesTyped, Link, WriteDraft, files
<1>3. In(op, {"source-written"}) /\ ~Committed(op)
  BY <1>1 DEF IInv, Protocol, Served, Committing
<1>4. draft' \in Draft
  BY <1>2, <1>3 DEF IInv, Typed, In, Transaction, NothingNew
<1>5. Same(worker') /\ worker'.pc = "state"
  BY <1>1, Going DEF WriteDraft, GoTo, Pcs, Committing
<1>6. Typed'
  BY <1>2, <1>4, <1>5 DEF IInv, Typed, Same, Latest
<1>7. Phases' /\ OnePending' /\ Reported' /\ CommentsKept'
  BY <1>2 DEF IInv, Protocol, Phases, OnePending, Reported, CommentsKept, In,
     Committed, Latest, Pending
<1>8. Served'
  BY <1>1, <1>2, <1>3, <1>5
     DEF IInv, Protocol, Served, MadeFrom, Same, Preparing, Committing,
         Undoing, In, Committed, Latest, Pending
<1> QED
  BY <1>3, <1>6, <1>7, <1>8 DEF IInv, Protocol, Pending, In

LEMMA RestoreDraftStep ==
  ASSUME IInv, NEW op \in Ops, RestoreDraft(op)
  PROVE  IInv' /\ op \in Pending /\ ~Committed(op)
<1>1. /\ worker \in Worker /\ worker # Idle /\ worker.pc = "undraft"
      /\ worker.op = op
  BY Busy DEF IInv, Pcs, Undoing, RestoreDraft, At
<1>2. UNCHANGED <<versions, tx, preserved, outcome>>
      /\ FilesTyped' /\ record' \in Record
      /\ draft' = tx[op].beforeDraft
  BY DEF IInv, Typed, FilesTyped, Link, RestoreDraft, files
<1>3. In(op, {"aborting"}) /\ ~Committed(op)
  BY <1>1 DEF IInv, Protocol, Served, Undoing
<1>4. draft' \in Draft
  BY <1>2, <1>3 DEF IInv, Typed, In, Transaction, NothingNew
<1>5. Same(worker') /\ worker'.pc = "unstate"
  BY <1>1, Going DEF RestoreDraft, GoTo, Pcs, Undoing
<1>6. Typed'
  BY <1>2, <1>4, <1>5 DEF IInv, Typed, Same, Latest
<1>7. Phases' /\ OnePending' /\ Reported' /\ CommentsKept'
  BY <1>2 DEF IInv, Protocol, Phases, OnePending, Reported, CommentsKept, In,
     Committed, Latest, Pending
<1>8. Served'
  BY <1>1, <1>2, <1>3, <1>5
     DEF IInv, Protocol, Served, MadeFrom, Same, Preparing, Committing,
         Undoing, In, Committed, Latest, Pending
<1> QED
  BY <1>3, <1>6, <1>7, <1>8 DEF IInv, Protocol, Pending, In

LEMMA WriteManifestStep ==
  ASSUME IInv, NEW op \in Ops, WriteManifest(op)
  PROVE  /\ IInv'
         /\ op \in Pending /\ ~Committed(op) /\ draft = tx[op].afterDraft
         /\ Latest' = Latest + 1
         /\ \A v \in 1..Latest : versions'[v] = versions[v]
         /\ versions'[Latest + 1].op = op
         /\ \A p \in Ops : Committed(p)' <=> Committed(p) \/ p = op
<1>1. /\ worker \in Worker /\ worker # Idle /\ worker.pc = "manifest"
      /\ worker.op = op
  BY Busy DEF IInv, Pcs, Committing, WriteManifest, At
<1>2. UNCHANGED <<tx, preserved, draft, outcome>>
      /\ FilesTyped' /\ record' \in Record
  BY DEF IInv, Typed, FilesTyped, Link, WriteManifest, files
<1>3. /\ In(op, {"source-written"}) /\ ~Committed(op)
      /\ draft = tx[op].afterDraft
  BY <1>1 DEF IInv, Protocol, Served, Committing
<1>4. [op |-> op, html |-> tx[op].html] \in Version
  BY <1>3 DEF IInv, Typed, In, Transaction, NothingNew, Version
<1>5. /\ versions' \in Seq(Version) /\ Latest' = Latest + 1 /\ Latest \in Nat
      /\ \A v \in 1..Latest : versions'[v] = versions[v]
      /\ versions'[Latest + 1] = [op |-> op, html |-> tx[op].html]
  <2>1. /\ versions \in Seq(Version)
        /\ versions' = Append(versions, [op |-> op, html |-> tx[op].html])
    BY DEF WriteManifest, IInv, Typed
  <2> QED
    BY <1>4, <2>1, AppendProperties, LenProperties DEF Latest
<1>6. \A p \in Ops : Committed(p)' <=> Committed(p) \/ p = op
  <2> TAKE p \in Ops
  <2>1. 1..Latest' = 1..Latest \cup {Latest + 1}
    BY <1>5
  <2> QED
    BY <1>5, <2>1 DEF Committed
<1>7. Same(worker') /\ worker'.pc = "complete"
  BY <1>1, Going DEF WriteManifest, GoTo, Pcs
<1>8. Typed'
  BY <1>2, <1>5, <1>7 DEF IInv, Typed, Same
<1>9. Phases'
  BY <1>2, <1>3, <1>6 DEF IInv, Protocol, Phases, In
<1>10. OnePending' /\ CommentsKept'
  BY <1>2 DEF IInv, Protocol, OnePending, Pending, CommentsKept
<1>11. Reported'
  BY <1>2, <1>6 DEF IInv, Protocol, Reported, In
<1>12. MadeFrom'
  BY <1>1, <1>2, <1>5, <1>7 DEF IInv, Protocol, Served, MadeFrom, Same
<1>13. Served'
  BY <1>1, <1>2, <1>3, <1>6, <1>7, <1>12
     DEF IInv, Protocol, Served, Same, Preparing, Committing, Undoing, In,
         Pending
<1> QED
  BY <1>3, <1>5, <1>6, <1>8, <1>9, <1>10, <1>11, <1>13
     DEF IInv, Protocol, Pending, In

(* A transaction ends: what Complete, EndAbort and Resume have in common. *)
LEMMA Ended ==
  ASSUME IInv, worker # Idle, NEW op \in Ops, worker.op = op,
         NEW phase \in {"completed", "aborted"},
         NEW result \in {"created", "not-created"},
         In(op, {"prepared", "source-written", "aborting", "completed"}),
         tx' = [tx EXCEPT ![op].phase = phase],
         Return(op, result), UNCHANGED <<versions, preserved, draft>>,
         FilesTyped', record' \in Record,
         IF Committed(op) THEN phase = "completed" /\ result = "created"
         ELSE phase = "aborted" /\ result = "not-created"
  PROVE  IInv'
<1>1. /\ tx' \in [Ops -> Transaction \cup {NothingNew, None}]
      /\ \A p \in Ops \ {op} : tx'[p] = tx[p]
      /\ tx'[op].phase = phase /\ tx'[op] # None
  BY Phase DEF IInv, In
<1>2. Pending' = Pending \ {op}
  BY <1>1 DEF Pending
<1>3. /\ worker' \in Worker \cup {Idle} /\ Served'
      /\ outcome' \in [Ops -> {"none", "unknown", "unchanged", "created",
                               "not-created"}]
      /\ outcome' = [outcome EXCEPT ![op] =
                       IF worker.goal = op THEN result ELSE @]
  BY <1>1, <1>2, Returned
<1>4. Typed'
  BY <1>1, <1>3 DEF IInv, Typed, Latest
<1>5. Phases'
  BY <1>1 DEF IInv, Protocol, Phases, In, Committed, Latest
<1>6. Reported'
  <2> SUFFICES ASSUME NEW p \in Ops
               PROVE  Reported!(p)'
    BY DEF Reported
  <2>1. CASE p = op
    BY <1>1, <1>3, <2>1 DEF IInv, Typed, Protocol, Reported, In, Committed, Latest
  <2>2. CASE p # op
    BY <1>1, <1>3, <2>2 DEF IInv, Typed, Protocol, Reported, In, Committed, Latest
  <2> QED
    BY <2>1, <2>2
<1>7. CommentsKept'
  BY PhaseKeeps DEF In
<1> QED
  BY <1>2, <1>3, <1>4, <1>5, <1>6, <1>7 DEF IInv, Protocol, OnePending

LEMMA CompleteStep ==
  ASSUME IInv, NEW op \in Ops, Complete(op)
  PROVE  IInv' /\ Committed(op)
<1>1. /\ worker \in Worker /\ worker # Idle /\ worker.pc = "complete"
      /\ worker.op = op
  BY Busy DEF IInv, Pcs, Complete, At
<1>2. In(op, {"source-written"}) /\ Committed(op)
  BY <1>1 DEF IInv, Protocol, Served
<1>3. FilesTyped' /\ record' \in Record
  BY DEF IInv, Typed, FilesTyped, Link, Complete, files
<1> QED
  BY <1>1, <1>2, <1>3, Ended DEF Complete, In

LEMMA BeginAbortStep ==
  ASSUME IInv, NEW op \in Ops, BeginAbort(op)
  PROVE  IInv' /\ op \in Pending /\ ~Committed(op)
<1>1. /\ worker \in Worker /\ worker # Idle /\ worker.pc = "aborting"
      /\ worker.op = op
  BY Busy DEF IInv, Pcs, Undoing, BeginAbort, At
<1>2. UNCHANGED <<versions, preserved, draft, outcome>>
      /\ FilesTyped' /\ record' \in Record
      /\ tx' = [tx EXCEPT ![op].phase = "aborting"]
  BY DEF IInv, Typed, FilesTyped, Link, BeginAbort, files
<1>3. op \in Pending /\ ~Committed(op)
  BY <1>1 DEF IInv, Protocol, Served, Undoing
<1>4. /\ tx' \in [Ops -> Transaction \cup {NothingNew, None}]
      /\ \A p \in Ops \ {op} : tx'[p] = tx[p]
      /\ tx'[op].phase = "aborting" /\ tx'[op] # None
  BY <1>2, <1>3, Phase DEF IInv, Pending
<1>5. Same(worker') /\ worker'.pc = "undraft"
  BY <1>1, Going DEF BeginAbort, GoTo, Pcs, Undoing
<1>6. Typed'
  BY <1>2, <1>4, <1>5 DEF IInv, Typed, Same, Latest
<1>7. Pending' = Pending
  BY <1>3, <1>4 DEF Pending
<1>8. Phases'
  BY <1>2, <1>3, <1>4 DEF IInv, Protocol, Phases, In, Committed, Latest
<1>9. Reported'
  BY <1>2, <1>3, <1>4
     DEF IInv, Protocol, Reported, In, Committed, Latest, Pending
<1>10. CommentsKept'
  BY <1>2, <1>3, PhaseKeeps DEF Pending
<1>11. Served'
  BY <1>1, <1>2, <1>3, <1>4, <1>5, <1>7
     DEF IInv, Protocol, Served, MadeFrom, Same, Preparing, Committing,
         Undoing, In, Committed, Latest
<1> QED
  BY <1>3, <1>6, <1>7, <1>8, <1>9, <1>10, <1>11 DEF IInv, Protocol, OnePending

LEMMA EndAbortStep ==
  ASSUME IInv, NEW op \in Ops, EndAbort(op)
  PROVE  IInv' /\ op \in Pending /\ ~Committed(op) /\ draft = tx[op].beforeDraft
<1>1. /\ worker \in Worker /\ worker # Idle /\ worker.pc = "aborted"
      /\ worker.op = op
  BY Busy DEF IInv, Pcs, Undoing, EndAbort, At
<1>2. UNCHANGED <<versions, preserved, draft>>
      /\ FilesTyped' /\ record' \in Record
      /\ tx' = [tx EXCEPT ![op].phase = "aborted"]
  BY DEF IInv, Typed, FilesTyped, Link, EndAbort, files
<1>3. In(op, {"aborting"}) /\ ~Committed(op) /\ draft = tx[op].beforeDraft
  BY <1>1 DEF IInv, Protocol, Served, Undoing
<1>4. CASE Return(op, "not-created")
  BY <1>1, <1>2, <1>3, <1>4, Ended DEF In, Pending
<1>5. CASE Throw
  <2>1. /\ tx' \in [Ops -> Transaction \cup {NothingNew, None}]
        /\ \A p \in Ops \ {op} : tx'[p] = tx[p]
        /\ tx'[op].phase = "aborted" /\ tx'[op] # None
    BY <1>2, <1>3, Phase DEF IInv, In
  <2>2. outcome' = outcome /\ worker' = Idle
    BY <1>1, <1>5 DEF IInv, Typed, Protocol, Served, Throw, Worker
  <2>3. Typed' /\ Served'
    BY <1>2, <2>1, <2>2 DEF IInv, Typed, Latest, Served
  <2>4. Pending' = Pending \ {op}
    BY <2>1 DEF Pending
  <2>5. Phases'
    BY <1>2, <1>3, <2>1 DEF IInv, Protocol, Phases, In, Committed, Latest
  <2>6. Reported'
    BY <1>2, <1>3, <2>1, <2>2
       DEF IInv, Protocol, Reported, In, Committed, Latest
  <2>7. CommentsKept'
    BY <1>2, <1>3, PhaseKeeps DEF In
  <2> QED
    BY <1>3, <2>3, <2>4, <2>5, <2>6, <2>7
       DEF IInv, Protocol, OnePending, Pending, In
<1> QED
  BY <1>3, <1>4, <1>5 DEF EndAbort, Pending, In

LEMMA ResumeStep ==
  ASSUME IInv, NEW op \in Ops, Resume(op)
  PROVE  /\ IInv'
         /\ UNCHANGED tx \/ Committed(op)
         /\ \/ UNCHANGED outcome
            \/ Committed(op)
            \/ outcome' = [outcome EXCEPT ![op] = "unchanged"] /\ outcome[op] = "unchanged"
            \/ outcome' = [outcome EXCEPT ![op] = "not-created"] /\ In(op, {"aborted"})
<1>1. /\ worker \in Worker /\ worker # Idle /\ worker.pc = "resume"
      /\ worker.op = op
  BY Busy DEF IInv, Pcs, Resume, At
<1>2. UNCHANGED <<versions, preserved, draft>>
      /\ FilesTyped' /\ record' \in Record
  BY DEF IInv, Typed, FilesTyped, Link, Resume, files
<1>3. tx[op] # None
  BY <1>1 DEF IInv, Protocol, Served
<1>4. tx[op] \in Transaction \/ tx[op].phase = "unchanged"
  BY <1>3 DEF IInv, Typed, NothingNew
<1>5. ASSUME NEW result \in {"unchanged", "not-created"},
             Return(op, result), UNCHANGED tx,
             In(op, IF result = "unchanged" THEN {"unchanged"} ELSE {"aborted"})
      PROVE  /\ IInv'
             /\ UNCHANGED outcome \/ outcome' = [outcome EXCEPT ![op] = result]
  <2>1. op \notin Pending
    BY <1>5 DEF Pending, In
  <2>2. /\ Served' /\ worker' \in Worker \cup {Idle}
        /\ outcome' \in [Ops -> {"none", "unknown", "unchanged", "created",
                                 "not-created"}]
        /\ outcome' = [outcome EXCEPT ![op] =
                         IF worker.goal = op THEN result ELSE @]
    <3>1. Pending' = Pending
      BY <1>5 DEF Pending
    <3> QED
      BY <1>1, <1>2, <1>5, <2>1, <3>1, Returned
  <2>3. Typed'
    BY <1>2, <1>5, <2>2 DEF IInv, Typed, Latest
  <2>4. Phases' /\ OnePending' /\ CommentsKept'
    BY <1>2, <1>5 DEF IInv, Protocol, Phases, OnePending, CommentsKept, In,
       Committed, Latest, Pending
  <2>5. Reported'
    BY <1>2, <1>3, <1>5, <2>2
       DEF IInv, Typed, Protocol, Reported, In, Committed, Latest
  <2> QED
    BY <2>2, <2>3, <2>4, <2>5 DEF IInv, Protocol, Typed
<1>6. CASE tx[op].phase = "aborted"
  BY <1>3, <1>5, <1>6 DEF Resume, In
<1>7. CASE tx[op].phase = "unchanged"
  BY <1>3, <1>5, <1>7 DEF Resume, In, IInv, Protocol, Reported
<1>8. ASSUME NEW pc \in {"aborting", "snapshot"}, GoTo(pc),
             UNCHANGED <<tx, outcome>>, ~Committed(op),
             IF pc = "aborting" THEN op \in Pending
             ELSE In(op, {"prepared", "source-written"})
      PROVE  IInv'
  <2>1. Same(worker') /\ worker'.pc = pc
    BY <1>1, <1>8, Going DEF GoTo, Pcs, Committing, Undoing
  <2>2. Typed'
    BY <1>2, <1>8, <2>1 DEF IInv, Typed, Same, Latest
  <2>3. Served'
    BY <1>1, <1>2, <1>8, <2>1
       DEF IInv, Protocol, Served, MadeFrom, Same, Preparing, Committing,
           Undoing, In, Committed, Latest, Pending
  <2> QED
    BY <1>2, <1>8, <2>2, <2>3, QuietKeeps DEF Quiet, IInv, Protocol
<1>9. CASE tx[op].phase = "aborting"
  <2>1. ~Committed(op) /\ op \in Pending
    BY <1>3, <1>9 DEF IInv, Protocol, Phases, In, Pending
  <2> QED
    BY <1>8, <1>9, <2>1 DEF Resume
<1>10. CASE tx[op].phase \notin {"aborted", "unchanged", "aborting"}
  <2>1. In(op, {"prepared", "source-written", "completed"})
    BY <1>3, <1>4, <1>10 DEF In, Transaction
  <2>2. CASE Committed(op)
    BY <1>1, <1>2, <1>10, <2>1, <2>2, Ended DEF Resume, In
  <2>3. CASE ~Committed(op)
    BY <1>8, <1>10, <2>1, <2>3 DEF Resume, In, IInv, Protocol, Phases
  <2> QED
    BY <2>2, <2>3
<1> QED
  BY <1>6, <1>7, <1>9, <1>10

-----------------------------------------------------------------------------
(***************************************************************************)
(* Requests and surroundings.                                              *)
(***************************************************************************)
(* An operation that has no transaction begins, or begins again. *)
Choosable(kind, pick) ==
    CASE kind = "local-save" -> pick = None
      [] kind = "history-copy" -> pick \in 1..Latest
      [] kind = "recovery-copy" -> pick \in Ops /\ preserved[pick] # None

LEMMA MakeStep ==
  ASSUME IInv, NEW op \in Ops, NEW kind \in AllKinds, NEW pick,
         worker = Idle, tx[op] = None, Choosable(kind, pick),
         outcome[op] \in {"none", "not-created"}, Make(op, kind, pick),
         UNCHANGED <<versions, tx, preserved, draft, record>>,
         FilesTyped'
  PROVE  IInv' /\ outcome' = [outcome EXCEPT ![op] = "unknown"]
<1>1. /\ record' \in Record
      /\ outcome' = [outcome EXCEPT ![op] = "unknown"]
  BY DEF IInv, Typed, Make
<1>2. PICK first \in IF Pending = {} THEN {op} ELSE Pending :
        worker' = [pc |-> IF first = op THEN "read" ELSE "resume",
                   op |-> first, goal |-> op, throws |-> FALSE,
                   seen |-> None, cur |-> None, kind |-> kind,
                   pick |-> pick, expected |-> record.sha]
  BY DEF Make
<1>3. /\ kind = "history-copy" => pick \in 1..Latest
      /\ kind = "recovery-copy" => pick \in Ops /\ preserved[pick] # None
      /\ kind = "local-save" => pick = None
  BY DEF Choosable
<1>4. pick \in Nat \cup Ops \cup {None} /\ record.sha \in Content
  BY <1>3 DEF AllKinds, IInv, Typed, Record
<1>5. first \in Ops
  BY <1>2 DEF Pending
<1>6. /\ worker' \in Worker /\ worker'.op = first /\ worker'.goal = op
      /\ worker'.pc = (IF first = op THEN "read" ELSE "resume")
      /\ worker'.kind = kind /\ worker'.pick = pick
  BY <1>2, <1>4, <1>5 DEF Worker, Pcs, Preparing
<1>7. Typed'
  BY <1>1, <1>6 DEF IInv, Typed, Latest
<1>8. Phases' /\ OnePending' /\ CommentsKept'
  BY <1>1 DEF IInv, Protocol, Phases, OnePending, CommentsKept, In,
     Committed, Latest, Pending
<1>9. Reported'
  BY <1>1 DEF IInv, Typed, Protocol, Reported, In, Committed, Latest
<1>10. MadeFrom'
  BY <1>1, <1>3, <1>6 DEF MadeFrom, Latest
<1>11. outcome'[op] = "unknown"
  BY <1>1 DEF IInv, Typed
<1>12. ASSUME Pending = {}
       PROVE  Served'
  <2>1. first = op
    BY <1>2, <1>12
  <2> QED
    BY <1>1, <1>6, <1>10, <1>11, <1>12, <2>1
       DEF Served, Preparing, Committing, Undoing, Pending
<1>13. ASSUME Pending # {}
       PROVE  Served'
  <2>1. first \in Pending /\ Pending \subseteq {first} /\ first # op
        /\ tx[first] # None
    BY <1>1, <1>2, <1>13 DEF IInv, Protocol, OnePending, Pending
  <2> QED
    BY <1>1, <1>6, <1>10, <1>11, <2>1
       DEF Served, Preparing, Committing, Undoing, Pending
<1> QED
  BY <1>1, <1>7, <1>8, <1>9, <1>12, <1>13 DEF IInv, Protocol

LEMMA CreateStep ==
  ASSUME IInv, NEW op \in Ops, NEW kind \in AllKinds,
         NEW pick \in {None} \cup 1..MaxOrdinal \cup Ops,
         Create(op, kind, pick)
  PROVE  IInv' /\ outcome' = [outcome EXCEPT ![op] = "unknown"]
                /\ outcome[op] = "none"
<1>1. /\ worker = Idle /\ outcome[op] = "none" /\ tx[op] = None
      /\ UNCHANGED <<versions, tx, preserved, draft, record>>
      /\ FilesTyped' /\ Make(op, kind, pick)
  BY DEF IInv, Typed, FilesTyped, Link, Protocol, Reported, Create, files
<1>2. Choosable(kind, pick)
  BY DEF Create, Choosable
<1> QED
  BY <1>1, <1>2, MakeStep

(* The operation the renderer can repeat could be begun. *)
Repeatable ==
    asked # None =>
        /\ asked \in Asked
        /\ asked.kind = "local-save" => asked.pick = None
        /\ asked.kind # "history-copy"
        /\ asked.kind = "recovery-copy" =>
               asked.pick \in Ops /\ preserved[asked.pick] # None

(* A request that resumes a transaction for itself or for an opening. *)
LEMMA ServeResume ==
  ASSUME IInv, NEW op \in Ops, NEW goal \in {op, Opening},
         Serve(op, goal, "resume"), tx[op] # None,
         goal = op => outcome[op] = "unknown",
         Quiet, FilesTyped', record' \in Record
  PROVE  IInv'
<1>1. /\ worker' \in Worker /\ worker'.op = op /\ worker'.goal = goal
      /\ worker'.pc = "resume" /\ worker'.kind = "local-save"
  BY DEF Serve, Worker, Pcs, AllKinds, IInv, Typed, Record
<1>2. goal \notin Ops \ {op}
  BY NoneAssumption DEF Opening
<1>3. Typed'
  BY <1>1 DEF IInv, Typed, Quiet, Latest
<1>4. Served'
  BY <1>1, <1>2, NoneAssumption
     DEF Served, MadeFrom, Preparing, Committing, Undoing, Quiet, Opening
<1> QED
  BY <1>3, <1>4, QuietKeeps DEF IInv, Protocol

LEMMA RetryStep ==
  ASSUME IInv, Repeatable, NEW op \in Ops, Retry(op)
  PROVE  IInv' /\ outcome' = [outcome EXCEPT ![op] = "unknown"]
<1>1. /\ UNCHANGED <<versions, tx, preserved, draft, record>>
      /\ FilesTyped' /\ record' \in Record
      /\ worker = Idle /\ outcome[op] = "not-created"
      /\ asked # None /\ asked.op = op
  BY DEF IInv, Typed, FilesTyped, Link, Retry, files
<1>2. CASE tx[op] = None
  <2>1. Choosable(asked.kind, asked.pick) /\ asked.kind \in AllKinds
    BY <1>1 DEF Repeatable, Choosable, Asked, AllKinds
  <2> QED
    BY <1>1, <1>2, <2>1, MakeStep DEF Retry
<1>3. CASE tx[op] # None
  <2>1. /\ Serve(op, op, "resume")
        /\ outcome' = [outcome EXCEPT ![op] = "unknown"]
    BY <1>3 DEF Retry
  <2>2. /\ worker' \in Worker /\ worker'.op = op /\ worker'.goal = op
        /\ worker'.pc = "resume" /\ worker'.kind = "local-save"
    BY <2>1 DEF Serve, Worker, Pcs, AllKinds, IInv, Typed, Record
  <2>3. Typed'
    BY <1>1, <2>1, <2>2 DEF IInv, Typed, Latest
  <2>4. Phases' /\ OnePending' /\ CommentsKept'
    BY <1>1 DEF IInv, Protocol, Phases, OnePending, CommentsKept, In,
       Committed, Latest, Pending
  <2>5. Reported'
    BY <1>1, <2>1
       DEF IInv, Typed, Protocol, Reported, In, Committed, Latest
  <2>6. outcome'[op] = "unknown"
    BY <2>1 DEF IInv, Typed
  <2>7. Served'
    BY <1>1, <1>3, <2>2, <2>6
       DEF Served, MadeFrom, Preparing, Committing, Undoing
  <2> QED
    BY <2>1, <2>3, <2>4, <2>5, <2>7 DEF IInv, Protocol
<1> QED
  BY <1>2, <1>3

LEMMA QueryStep ==
  ASSUME IInv, NEW op \in Ops, Query(op)
  PROVE  /\ IInv'
         /\ \/ UNCHANGED outcome
            \/ /\ outcome' = [outcome EXCEPT ![op] = "not-created"]
               /\ tx[op] = None /\ outcome[op] = "unknown"
<1>1. /\ UNCHANGED <<versions, tx, preserved, draft>>
      /\ FilesTyped' /\ record' \in Record
      /\ worker = Idle /\ outcome[op] = "unknown"
  BY DEF IInv, Typed, FilesTyped, Link, Query, files
<1>2. CASE tx[op] # None
  BY <1>1, <1>2, ServeResume DEF Query, Quiet
<1>3. CASE tx[op] = None
  <2>1. outcome' = [outcome EXCEPT ![op] = "not-created"] /\ worker' = Idle
    BY <1>1, <1>3 DEF Query
  <2>2. Typed' /\ Served'
    BY <1>1, <2>1 DEF IInv, Typed, Latest, Served
  <2>3. Phases' /\ OnePending' /\ CommentsKept'
    BY <1>1 DEF IInv, Protocol, Phases, OnePending, CommentsKept, In,
       Committed, Latest, Pending
  <2>4. Reported'
    BY <1>1, <1>3, <2>1
       DEF IInv, Typed, Protocol, Reported, In, Committed, Latest
  <2> QED
    BY <1>1, <1>3, <2>1, <2>2, <2>3, <2>4 DEF IInv, Protocol
<1> QED
  BY <1>2, <1>3

LEMMA OpenStep ==
  ASSUME IInv, Open
  PROVE  IInv' /\ Quiet
<1>1. Quiet /\ FilesTyped' /\ record' \in Record
  BY DEF IInv, Typed, FilesTyped, Link, Open, Quiet, files
<1>2. CASE worker' = worker
  BY <1>1, <1>2, Elsewhere
<1>3. CASE \E op \in Pending : Serve(op, Opening, "resume")
  <2>1. PICK op \in Pending : Serve(op, Opening, "resume")
    BY <1>3
  <2>2. op \in Ops /\ tx[op] # None /\ Opening # op
    BY NoneAssumption DEF Pending, Opening
  <2> QED
    BY <1>1, <2>1, <2>2, ServeResume
<1> QED
  BY <1>1, <1>2, <1>3 DEF Open

LEMMA SaveDraftStep ==
  ASSUME IInv, NEW c \in Comments, SaveDraft(c)
  PROVE  IInv'
<1>1. UNCHANGED <<versions, tx, preserved, worker, outcome>> /\ worker = Idle
      /\ FilesTyped'
      /\ draft' = [comments |-> draft.comments \cup {c},
                   revision |-> draft.revision + 1, base |-> Latest]
      /\ record' = [record EXCEPT !.draft = draft']
  BY DEF IInv, Typed, FilesTyped, Link, SaveDraft, files
<1>2. draft' \in Draft
  BY <1>1 DEF IInv, Typed, Draft
<1>3. record' \in Record
  BY <1>1, <1>2 DEF IInv, Typed, Record
<1>4. Typed' /\ Served'
  BY <1>1, <1>2, <1>3 DEF IInv, Typed, Latest, Served
<1>5. Phases' /\ OnePending' /\ Reported' /\ CommentsKept'
  BY <1>1 DEF IInv, Protocol, Phases, OnePending, Reported, CommentsKept, In,
     Committed, Latest, Pending
<1> QED
  BY <1>4, <1>5 DEF IInv, Protocol

(* A new file object leaves the others as they are. *)
LEMMA NewObject ==
  ASSUME FilesTyped, NEW content \in Content, heap' = Append(heap, content),
         source' = Len(heap'), UNCHANGED dir
  PROVE  FilesTyped'
<1>1. heap' \in Seq(Content) /\ Len(heap') = Len(heap) + 1 /\ Len(heap) \in Nat
  BY AppendProperties, LenProperties DEF FilesTyped
<1>2. Link \subseteq Link' /\ Len(heap') \in Link'
  BY <1>1 DEF Link
<1> QED
  BY <1>1, <1>2 DEF FilesTyped

LEMMA SaveHtmlStep ==
  ASSUME IInv, NEW body \in Edited, SaveHtml(body)
  PROVE  IInv' /\ Quiet
<1>1. Quiet /\ worker' = worker
  BY DEF SaveHtml, Quiet
<1>2. [body |-> body, ids |-> TRUE] \in Content
  BY DEF Content
<1>3. record' \in Record
  BY <1>2 DEF IInv, Typed, Record, SaveHtml
<1>4. FilesTyped'
  BY <1>2, NewObject DEF IInv, Typed, SaveHtml
<1> QED
  BY <1>1, <1>3, <1>4, Elsewhere

LEMMA FaultStep ==
  ASSUME IInv, Fault
  PROVE  IInv' /\ UNCHANGED outcome
<1>1. FilesTyped' /\ record' \in Record
  BY DEF IInv, Typed, FilesTyped, Link, Fault, files
<1>2. outcome' = outcome
  BY DEF IInv, Typed, Protocol, Served, Fault, Throw, Worker
<1> QED
  BY <1>1, <1>2, Thrown DEF Fault

LEMMA CrashStep ==
  ASSUME IInv, Crash
  PROVE  IInv' /\ Quiet
<1>1. FilesTyped' /\ record' \in Record /\ Quiet
  BY DEF IInv, Typed, FilesTyped, Link, Crash, files, Quiet
<1> QED
  BY <1>1, Elsewhere DEF Crash

LEMMA ForeignStep ==
  ASSUME IInv,
         \/ \E body \in Foreign : WriteInPlace(body) \/ PutAnother(body)
         \/ TakeAway
  PROVE  IInv' /\ Quiet
<1>1. Quiet /\ worker' = worker /\ record' \in Record
  BY DEF WriteInPlace, PutAnother, TakeAway, Quiet, IInv, Typed
<1>2. ASSUME NEW body \in Foreign, WriteInPlace(body)
      PROVE  FilesTyped'
  <2>1. [body |-> body, ids |-> TRUE] \in Content
    BY DEF Content
  <2>2. /\ heap' = [heap EXCEPT ![source] = [body |-> body, ids |-> TRUE]]
        /\ heap \in Seq(Content) /\ source \in 1..Len(heap)
        /\ UNCHANGED <<source, dir>>
    BY <1>2 DEF WriteInPlace, IInv, Typed, FilesTyped, Link
  <2>3. heap' \in Seq(Content) /\ Len(heap') = Len(heap)
    BY <2>1, <2>2, ExceptSeq
  <2> QED
    BY <2>2, <2>3 DEF FilesTyped, Link, IInv, Typed
<1>3. ASSUME NEW body \in Foreign, PutAnother(body)
      PROVE  FilesTyped'
  <2>1. [body |-> body, ids |-> TRUE] \in Content
    BY DEF Content
  <2> QED
    BY <1>3, <2>1, NewObject DEF PutAnother, IInv, Typed
<1>4. ASSUME TakeAway
      PROVE  FilesTyped'
  BY <1>4 DEF TakeAway, IInv, Typed, FilesTyped, Link
<1>5. FilesTyped'
  BY <1>2, <1>3, <1>4
<1> QED
  BY <1>1, <1>5, Elsewhere

-----------------------------------------------------------------------------
LEMMA NextInv == IInv /\ Repeatable /\ [Next]_vars => IInv'
<1> SUFFICES ASSUME IInv, Repeatable, [Next]_vars PROVE IInv'
    OBVIOUS
<1>1. CASE UNCHANGED vars
  <2>1. Quiet /\ worker' = worker /\ record' \in Record
    BY <1>1 DEF vars, Quiet, IInv, Typed
  <2>2. FilesTyped'
    BY <1>1 DEF vars, IInv, Typed, FilesTyped, Link
  <2> QED
    BY <2>1, <2>2, Elsewhere
<1>2. CASE Work
  BY <1>2, ReadEvidenceStep, PrepareStep, RecordPreparedStep, ResumeStep,
     WriteSnapshotStep, InspectStep, BindStep, CheckStep, DisplaceStep,
     VerifyParkedStep, PublishStep, ConfirmStep, MarkWrittenStep,
     WriteDraftStep, WriteStateStep, FinalCheckStep, WriteManifestStep,
     CompleteStep, BeginAbortStep, RestoreDraftStep, RestoreStateStep,
     RetainSnapshotStep, EndAbortStep DEF Work
<1>3. CASE \E op \in Ops : Retry(op) \/ Query(op)
  BY <1>3, RetryStep, QueryStep
<1>4. CASE \E op \in Ops, kind \in AllKinds,
             pick \in {None} \cup 1..MaxOrdinal \cup Ops :
               Create(op, kind, pick)
  BY <1>4, CreateStep
<1> QED
  BY <1>1, <1>2, <1>3, <1>4, OpenStep, SaveDraftStep, SaveHtmlStep, FaultStep,
     CrashStep, ForeignStep DEF Next

(* A preserved draft stays, and only Create changes what can be repeated.   *)
LEMMA PreservedStays ==
  ASSUME IInv, [Next]_vars, NEW p \in Ops, preserved[p] # None
  PROVE  preserved'[p] = preserved[p]
<1>1. ASSUME NEW op \in Ops, Prepare(op)
      PROVE  preserved'[p] = preserved[p]
  BY <1>1, Preparations DEF IInv, Typed
<1>2. CASE Work
  BY <1>1, <1>2 DEF Work, ReadEvidence, RecordPrepared, Resume,
     WriteSnapshot, Inspect, Bind, Check, Displace, VerifyParked, Publish,
     Confirm, MarkWritten, WriteDraft, WriteState, FinalCheck, WriteManifest,
     Complete, BeginAbort, RestoreDraft, RestoreState, RetainSnapshot,
     EndAbort
<1> QED
  BY <1>2 DEF Next, vars, Create, Retry, Query, Open, SaveDraft, SaveHtml,
     Fault, Crash, WriteInPlace, PutAnother, TakeAway

LEMMA NextRepeatable == IInv /\ Repeatable /\ [Next]_vars => Repeatable'
<1> SUFFICES ASSUME IInv, Repeatable, [Next]_vars PROVE Repeatable'
    OBVIOUS
<1>1. CASE asked' = asked
  BY <1>1, PreservedStays DEF Repeatable
<1>2. CASE asked' = None
  BY <1>2 DEF Repeatable
<1>3. ASSUME NEW op \in Ops, NEW kind \in AllKinds,
             NEW pick \in {None} \cup 1..MaxOrdinal \cup Ops,
             Create(op, kind, pick), asked' # asked
      PROVE  Repeatable'
  <2>1. /\ kind # "history-copy"
        /\ asked' = [op |-> op, kind |-> kind, pick |-> pick,
                     expected |-> record.sha]
        /\ kind = "local-save" => pick = None
        /\ kind = "recovery-copy" => pick \in Ops /\ preserved[pick] # None
        /\ preserved' = preserved
    BY <1>3 DEF Create
  <2>2. pick \in Ops \cup {None} /\ record.sha \in Content
    BY <2>1 DEF AllKinds, IInv, Typed, Record
  <2> QED
    BY <2>1, <2>2 DEF Repeatable, Asked
<1>4. CASE Work
  BY <1>1, <1>4 DEF Work, around, ReadEvidence, Prepare, RecordPrepared,
     Resume, WriteSnapshot, Inspect, Bind, Check, Displace, VerifyParked,
     Publish, Confirm, MarkWritten, WriteDraft, WriteState, FinalCheck,
     WriteManifest, Complete, BeginAbort, RestoreDraft, RestoreState,
     RetainSnapshot, EndAbort
<1> QED
  BY <1>1, <1>2, <1>3, <1>4 DEF Next, vars, around, Retry, Query, Open,
     SaveDraft, SaveHtml, Fault, Crash, WriteInPlace, PutAnother, TakeAway

(* No operation has two Versions. *)
Once == \A v, w \in 1..Latest : versions[v].op = versions[w].op => v = w

LEMMA NextOnce == IInv /\ Once /\ [Next]_vars => Once'
<1> SUFFICES ASSUME IInv, Once, [Next]_vars PROVE Once'
    OBVIOUS
<1>1. CASE versions' = versions
  BY <1>1 DEF Once, Latest
<1>2. ASSUME NEW op \in Ops, WriteManifest(op)
      PROVE  Once'
  <2>1. ~Committed(op)
    BY <1>2 DEF IInv, Protocol, Served, Committing, WriteManifest, At, Idle
  <2>2. /\ versions \in Seq(Version)
        /\ versions' = Append(versions, [op |-> op, html |-> tx[op].html])
    BY <1>2 DEF WriteManifest, IInv, Typed
  <2>3. /\ Latest \in Nat /\ Latest' = Latest + 1
        /\ \A v \in 1..Latest : versions'[v] = versions[v]
        /\ versions'[Latest + 1].op = op
    BY <2>2 DEF Latest
  <2>4. \A v \in 1..Latest : versions'[v].op # op
    BY <2>1, <2>3 DEF Committed
  <2> QED
    BY <2>3, <2>4 DEF Once
<1>3. CASE Work
  BY <1>1, <1>2, <1>3 DEF Work, ReadEvidence, Prepare, RecordPrepared,
     Resume, WriteSnapshot, Inspect, Bind, Check, Displace, VerifyParked,
     Publish, Confirm, MarkWritten, WriteDraft, WriteState, FinalCheck,
     Complete, BeginAbort, RestoreDraft, RestoreState, RetainSnapshot,
     EndAbort
<1> QED
  BY <1>1, <1>3 DEF Next, vars, Create, Retry, Query, Open, SaveDraft,
     SaveHtml, Fault, Crash, WriteInPlace, PutAnother, TakeAway

THEOREM Invariance == Spec => [](IInv /\ Repeatable /\ Once)
<1>1. Init => Repeatable /\ Once
  BY DEF Init, Repeatable, Once, Latest
<1> QED
  BY <1>1, InitInv, NextInv, NextRepeatable, NextOnce, PTL DEF Spec

(* What the renderer shows of an operation stays true, over the repetitions *)
(* of retryCurrentVersion too: a created Version is in the manifest and is  *)
(* there once; while "not created" or "unchanged" is shown there is none,   *)
(* and no transaction that a recovery could still commit.                   *)
THEOREM ReceiptsStayTrue == Spec => []ReceiptsHold
<1>1. IInv /\ Once => ReceiptsHold
  BY DEF IInv, Protocol, Reported, Phases, ReceiptsHold, In, Pending, Once
<1> QED
  BY <1>1, Invariance, PTL

-----------------------------------------------------------------------------
(***************************************************************************)
(* The refinement.  What VersionLedger sees, by name.                      *)
(***************************************************************************)
SeenLedger == [v \in 1..Latest |-> versions[v].op]
SeenKept == {preserved[op].comments : op \in {p \in Ops : preserved[p] # None}}
HeldBy(op) == IF tx[op] \in {None, NothingNew} THEN {}
              ELSE tx[op].beforeDraft.comments
SeenHeld == [op \in Ops |-> HeldBy(op)]
Decision(op) ==
    IF Committed(op) THEN "made"
    ELSE IF tx[op] = None THEN "open"
    ELSE IF op \in Pending THEN "begun" ELSE "refused"
SeenDecided == [op \in Ops |-> Decision(op)]
Shown == <<SeenLedger, draft.comments, SeenKept, SeenHeld, SeenDecided>>

Stutter == Shown' = Shown

LEMMA StutterIsLedger == Stutter => UNCHANGED Ledger!vars
BY DEF Stutter, Shown, SeenLedger, SeenKept, SeenHeld, HeldBy, SeenDecided,
   Decision, Ledger!vars

(* Only manifest, transactions, comments and preserved drafts are seen.     *)
LEMMA UnseenStutters ==
  ASSUME UNCHANGED <<versions, tx, preserved>>, draft'.comments = draft.comments
  PROVE  Stutter
BY DEF Stutter, Shown, SeenLedger, SeenKept, SeenHeld, HeldBy, SeenDecided,
   Decision, Pending, Committed, Latest

LEMMA SameLedger ==
  ASSUME UNCHANGED versions
  PROVE  SeenLedger' = SeenLedger
BY DEF SeenLedger, Latest

LEMMA SameKept ==
  ASSUME UNCHANGED preserved
  PROVE  SeenKept' = SeenKept
BY DEF SeenKept

(* A step that writes one transaction. *)
LEMMA OneTransaction ==
  ASSUME NEW op \in Ops, \A p \in Ops \ {op} : tx'[p] = tx[p],
         \A p \in Ops \ {op} : Committed(p)' = Committed(p)
  PROVE  /\ SeenHeld' = [SeenHeld EXCEPT ![op] = HeldBy(op)']
         /\ SeenDecided' = [SeenDecided EXCEPT ![op] = Decision(op)']
<1>1. \A p \in Ops \ {op} : HeldBy(p)' = HeldBy(p)
  BY DEF HeldBy
<1>2. \A p \in Ops \ {op} : Decision(p)' = Decision(p)
  BY DEF Decision, Pending
<1> QED
  BY <1>1, <1>2 DEF SeenHeld, SeenDecided

LEMMA LedgerRefuse ==
  ASSUME NEW op \in Ops, Decision(op)' = "refused", HeldBy(op)' = HeldBy(op),
         \/ Decision(op) = "open"
         \/ Decision(op) = "begun" /\ draft.comments = HeldBy(op),
         \A p \in Ops \ {op} : tx'[p] = tx[p],
         UNCHANGED <<versions, preserved, draft>>
  PROVE  Ledger!Next
<1>1. \A p \in Ops : Committed(p)' = Committed(p)
  BY DEF Committed, Latest
<1>2. /\ SeenHeld' = SeenHeld
      /\ SeenDecided' = [SeenDecided EXCEPT ![op] = "refused"]
  BY <1>1, OneTransaction DEF SeenHeld
<1>3. SeenDecided[op] = Decision(op) /\ SeenHeld[op] = HeldBy(op)
  BY DEF SeenDecided, SeenHeld
<1>4. Ledger!Refuse(op)
  BY <1>2, <1>3, SameLedger, SameKept
     DEF Ledger!Refuse, SeenLedger, SeenKept, SeenHeld, HeldBy, SeenDecided,
         Decision
<1> QED
  BY <1>4 DEF Ledger!Next

LEMMA InitLedger == Init => Ledger!Init
<1> SUFFICES ASSUME Init PROVE Ledger!Init
    OBVIOUS
<1>1. Latest = 1 /\ SeenLedger = <<None>>
  BY DEF Init, Latest, SeenLedger
<1>2. \A op \in Ops : ~Committed(op)
  BY NoneAssumption DEF Init, Committed, Latest
<1>3. draft.comments = {}
  BY DEF Init, FirstDraft
<1>4. SeenKept = {}
  BY DEF Init, SeenKept
<1>5. /\ SeenDecided = [op \in Ops |-> "open"]
      /\ SeenHeld = [op \in Ops |-> {}]
  BY <1>2 DEF Init, SeenDecided, Decision, SeenHeld, HeldBy
<1> QED
  BY <1>1, <1>3, <1>4, <1>5
     DEF Ledger!Init, SeenLedger, SeenKept, SeenHeld, HeldBy, SeenDecided,
         Decision

LEMMA ReadEvidenceLedger ==
  ASSUME IInv, NEW op \in Ops, ReadEvidence(op)
  PROVE  Stutter \/ Ledger!Next
<1>1. /\ worker \in Worker /\ worker # Idle /\ worker.pc = "read"
      /\ worker.op = op
  BY Busy DEF IInv, Pcs, Preparing, ReadEvidence, At
<1>2. UNCHANGED <<versions, preserved, draft>>
  BY DEF ReadEvidence
<1>3. tx[op] = None /\ ~Committed(op)
  BY <1>1 DEF IInv, Protocol, Served, Preparing, Phases, In
<1>4. CASE UNCHANGED tx
  BY <1>2, <1>4, UnseenStutters
<1>5. CASE tx' = [tx EXCEPT ![op] = NothingNew]
  <2>1. tx'[op] = NothingNew /\ \A p \in Ops \ {op} : tx'[p] = tx[p]
    BY <1>5 DEF IInv, Typed
  <2>2. ~Committed(op)' /\ op \notin Pending'
    BY <1>2, <1>3, <2>1 DEF Committed, Latest, Pending, NothingNew
  <2>3. /\ Decision(op) = "open" /\ Decision(op)' = "refused"
        /\ HeldBy(op)' = HeldBy(op)
    BY <1>3, <2>1, <2>2, NoneAssumption DEF Decision, HeldBy
  <2> QED
    BY <1>2, <2>1, <2>3, LedgerRefuse
<1> QED
  BY <1>4, <1>5 DEF ReadEvidence

LEMMA PrepareLedger ==
  ASSUME IInv, NEW op \in Ops, Prepare(op)
  PROVE  Stutter \/ Ledger!Next
<1>1. UNCHANGED <<versions, tx, draft>>
  BY DEF Prepare
<1>2. CASE UNCHANGED preserved
  BY <1>1, <1>2, UnseenStutters
<1>3. CASE /\ preserved[op] \in {None, KeptDraft}
           /\ preserved' = [preserved EXCEPT ![op] = KeptDraft]
  <2>1. /\ worker.pc = "prepare" /\ worker # Idle
        /\ worker.seen \in Seen
    BY Busy DEF IInv, Pcs, Preparing, Prepare, At, Protocol, Served
  <2>2. KeptDraft \in Preserved /\ KeptDraft.comments = draft.comments
    BY <2>1 DEF IInv, Typed, Seen, Draft, Preserved, KeptDraft
  <2>3. /\ preserved'[op] = KeptDraft /\ KeptDraft # None
        /\ \A p \in Ops \ {op} : preserved'[p] = preserved[p]
    BY <1>3, <2>2, NoneAssumption DEF IInv, Typed
  <2>4. SeenKept' = SeenKept \cup {draft.comments}
    BY <1>3, <2>2, <2>3 DEF SeenKept
  <2>5. /\ SeenDecided' = SeenDecided /\ SeenLedger' = SeenLedger
        /\ SeenHeld' = SeenHeld
    BY <1>1 DEF SeenDecided, Decision, Committed, Latest, SeenLedger, Pending,
       SeenHeld, HeldBy
  <2>6. Ledger!Keep
    BY <1>1, <2>4, <2>5
       DEF Ledger!Keep, SeenLedger, SeenKept, SeenHeld, HeldBy, SeenDecided,
           Decision
  <2> QED
    BY <2>6 DEF Ledger!Next
<1> QED
  BY <1>2, <1>3, Preparations

LEMMA RecordPreparedLedger ==
  ASSUME IInv, NEW op \in Ops, RecordPrepared(op)
  PROVE  Ledger!Next
<1>1. /\ IInv' /\ tx'[op].beforeDraft = draft
      /\ tx[op] = None /\ Pending = {} /\ Pending' = {op}
  BY RecordPreparedStep
<1>2. UNCHANGED <<versions, preserved, draft>>
  BY DEF RecordPrepared
<1>3. \A p \in Ops : Committed(p)' = Committed(p)
  BY <1>2 DEF Committed, Latest
<1>4. ~Committed(op)
  BY <1>1 DEF IInv, Protocol, Phases, In
<1>5. \A p \in Ops \ {op} : tx'[p] = tx[p]
  BY DEF RecordPrepared, IInv, Typed
<1>6. /\ tx'[op] \notin {None, NothingNew}
  BY <1>1 DEF Pending, NothingNew
<1>7. /\ Decision(op) = "open" /\ Decision(op)' = "begun"
      /\ HeldBy(op)' = draft.comments
  BY <1>1, <1>3, <1>4, <1>6 DEF Decision, HeldBy
<1>8. \A p \in Ops : Decision(p) # "begun"
  BY <1>1 DEF Decision
<1>9. Ledger!Begin(op)
  <2>1. /\ SeenHeld' = [SeenHeld EXCEPT ![op] = draft.comments]
        /\ SeenDecided' = [SeenDecided EXCEPT ![op] = "begun"]
    BY <1>3, <1>5, <1>7, OneTransaction
  <2>2. /\ SeenDecided[op] = "open"
        /\ \A p \in Ops : SeenDecided[p] # "begun"
    BY <1>7, <1>8 DEF SeenDecided
  <2> QED
    BY <1>2, <2>1, <2>2, SameLedger, SameKept
       DEF Ledger!Begin, SeenLedger, SeenKept, SeenHeld, HeldBy, SeenDecided,
           Decision
<1> QED
  BY <1>9 DEF Ledger!Next

(* A change of phase that decides nothing. *)
LEMMA PhaseStutters ==
  ASSUME IInv, NEW op \in Ops,
         In(op, {"prepared", "source-written", "aborting", "completed"}),
         op \in Pending \/ Committed(op),
         NEW phase \in {"source-written", "completed", "aborting"},
         tx' = [tx EXCEPT ![op].phase = phase],
         UNCHANGED <<versions, preserved, draft>>,
         phase = "completed" => Committed(op)
  PROVE  Stutter
<1>1. /\ \A p \in Ops \ {op} : tx'[p] = tx[p]
      /\ tx'[op].phase = phase /\ tx'[op] # None
      /\ tx'[op].beforeDraft = tx[op].beforeDraft
  BY Phase DEF IInv, In
<1>2. \A p \in Ops : Committed(p)' = Committed(p)
  BY DEF Committed, Latest
<1>3. /\ tx[op] \notin {None, NothingNew} /\ tx'[op] # NothingNew
  BY <1>1 DEF In, NothingNew
<1>4. HeldBy(op)' = HeldBy(op)
  BY <1>1, <1>3 DEF HeldBy
<1>5. Decision(op)' = Decision(op)
  BY <1>1, <1>2, <1>3 DEF Decision, Pending
<1>6. SeenHeld' = SeenHeld /\ SeenDecided' = SeenDecided
  BY <1>1, <1>2, <1>4, <1>5, OneTransaction DEF SeenHeld, SeenDecided
<1> QED
  BY <1>6, SameLedger, SameKept DEF Stutter, Shown

LEMMA ResumeLedger ==
  ASSUME IInv, NEW op \in Ops, Resume(op)
  PROVE  Stutter
<1>1. /\ worker # Idle /\ worker.pc = "resume" /\ worker.op = op
      /\ UNCHANGED <<versions, preserved, draft>>
  BY Busy DEF IInv, Pcs, Resume, At
<1>2. CASE Committed(op)
  <2>1. In(op, {"source-written", "completed"})
    BY <1>2 DEF IInv, Protocol, Phases
  <2>2. tx' = [tx EXCEPT ![op].phase = "completed"]
    BY <1>2, <2>1 DEF Resume, In
  <2> QED
    BY <1>1, <1>2, <2>1, <2>2, PhaseStutters DEF In
<1>3. CASE ~Committed(op)
  <2>1. UNCHANGED tx
    BY <1>3, ResumeStep
  <2> QED
    BY <1>1, <2>1, UnseenStutters
<1> QED
  BY <1>2, <1>3

(* What a Version leaves: the comments of its beginning, or others when     *)
(* these have been kept.                                                    *)
LEMMA LeavesAfter ==
  ASSUME IInv, NEW op \in Ops, op \in Pending
  PROVE  /\ HeldBy(op) = tx[op].beforeDraft.comments
         /\ SeenHeld[op] = HeldBy(op)
         /\ \/ tx[op].afterDraft.comments = HeldBy(op)
            \/ /\ HeldBy(op) \in SeenKept
               /\ tx[op].afterDraft.comments \in SeenKept \cup {{}}
<1>1. tx[op] # None /\ tx[op] # NothingNew
  BY DEF Pending, NothingNew
<1>2. HeldBy(op) = tx[op].beforeDraft.comments /\ SeenHeld[op] = HeldBy(op)
  BY <1>1 DEF HeldBy, SeenHeld
<1> QED
  BY <1>1, <1>2 DEF IInv, Protocol, CommentsKept, SeenKept

LEMMA DraftLedger ==
  ASSUME IInv, NEW op \in Ops, op \in Pending, ~Committed(op),
         draft' \in {tx[op].afterDraft, tx[op].beforeDraft},
         UNCHANGED <<versions, tx, preserved>>
  PROVE  Ledger!Next
<1>1. /\ SeenLedger' = SeenLedger /\ SeenKept' = SeenKept
      /\ SeenHeld' = SeenHeld /\ SeenDecided' = SeenDecided
  BY SameLedger, SameKept
     DEF SeenHeld, HeldBy, SeenDecided, Decision, Pending, Committed, Latest
<1>2. SeenDecided[op] = "begun"
  BY DEF SeenDecided, Decision, Pending
<1>3. \/ draft'.comments = SeenHeld[op]
      \/ /\ SeenHeld[op] \in SeenKept
         /\ draft'.comments \in SeenKept \cup {{}}
  BY LeavesAfter
<1>4. Ledger!Put(op)
  BY <1>1, <1>2, <1>3
     DEF Ledger!Put, Ledger!Leaves, SeenLedger, SeenKept, SeenHeld, HeldBy,
         SeenDecided, Decision
<1> QED
  BY <1>4 DEF Ledger!Next

LEMMA WriteManifestLedger ==
  ASSUME IInv, NEW op \in Ops, WriteManifest(op)
  PROVE  Ledger!Next
<1>1. /\ op \in Pending /\ ~Committed(op) /\ draft = tx[op].afterDraft
      /\ Latest' = Latest + 1 /\ Latest \in Nat
      /\ \A v \in 1..Latest : versions'[v] = versions[v]
      /\ versions'[Latest + 1].op = op
      /\ \A p \in Ops : Committed(p)' <=> Committed(p) \/ p = op
  BY WriteManifestStep DEF IInv, Typed
<1>2. UNCHANGED <<tx, preserved, draft>>
  BY DEF WriteManifest
<1>3. SeenLedger' = Append(SeenLedger, op)
  <2>1. SeenLedger' = [v \in 1..(Latest + 1) |-> versions'[v].op]
    BY <1>1 DEF SeenLedger
  <2>2. /\ SeenLedger \in Seq(Ops \cup {None}) /\ Len(SeenLedger) = Latest
        /\ op \in Ops \cup {None}
    <3>1. \A v \in 1..Latest : versions[v].op \in Ops \cup {None}
      <4>1. versions \in Seq(Version) /\ Latest = Len(versions)
        BY DEF IInv, Typed, Latest
      <4>2. \A v \in 1..Latest : versions[v] \in Version
        BY <4>1, ElementOfSeq
      <4> QED
        BY <4>2 DEF Version
    <3> QED
      BY <1>1, <3>1 DEF SeenLedger
  <2>3. /\ Append(SeenLedger, op) \in Seq(Ops \cup {None})
        /\ Len(Append(SeenLedger, op)) = Latest + 1
        /\ \A v \in 1..Latest : Append(SeenLedger, op)[v] = SeenLedger[v]
        /\ Append(SeenLedger, op)[Latest + 1] = op
    BY <2>2, AppendProperties
  <2>4. \A v \in 1..(Latest + 1) :
            versions'[v].op = Append(SeenLedger, op)[v]
    BY <1>1, <2>3 DEF SeenLedger
  <2>5. Append(SeenLedger, op) =
            [v \in 1..(Latest + 1) |-> Append(SeenLedger, op)[v]]
    BY <2>3, LenProperties
  <2> QED
    BY <2>1, <2>4, <2>5
<1>4. Decision(op) = "begun" /\ Decision(op)' = "made"
  BY <1>1 DEF Decision, Pending
<1>5. HeldBy(op)' = HeldBy(op)
  BY <1>2 DEF HeldBy
<1>6. \/ draft.comments = SeenHeld[op]
      \/ /\ SeenHeld[op] \in SeenKept
         /\ draft.comments \in SeenKept \cup {{}}
  BY <1>1, LeavesAfter
<1>7. Ledger!Make(op)
  <2>1. SeenDecided[op] = "begun"
    BY <1>4 DEF SeenDecided
  <2>2. SeenHeld' = SeenHeld
    BY <1>2 DEF SeenHeld, HeldBy
  <2>3. \A p \in Ops \ {op} : Decision(p)' = Decision(p)
    <3>1. tx' = tx /\ \A p \in Ops \ {op} : Committed(p)' <=> Committed(p)
      BY <1>1, <1>2
    <3> QED
      BY <3>1 DEF Decision, Pending
  <2>4. SeenDecided' = [SeenDecided EXCEPT ![op] = "made"]
    BY <1>4, <2>3 DEF SeenDecided
  <2> QED
    BY <1>2, <1>3, <1>6, <2>1, <2>2, <2>4, SameKept
       DEF Ledger!Make, Ledger!Leaves, SeenLedger, SeenKept, SeenHeld, HeldBy,
           SeenDecided, Decision
<1> QED
  BY <1>7 DEF Ledger!Next

LEMMA EndAbortLedger ==
  ASSUME IInv, NEW op \in Ops, EndAbort(op)
  PROVE  Ledger!Next
<1>1. op \in Pending /\ ~Committed(op) /\ draft = tx[op].beforeDraft
  BY EndAbortStep
<1>2. /\ UNCHANGED <<versions, preserved, draft>>
      /\ tx' = [tx EXCEPT ![op].phase = "aborted"]
  BY DEF EndAbort
<1>3. /\ \A p \in Ops \ {op} : tx'[p] = tx[p]
      /\ tx'[op].phase = "aborted" /\ tx'[op] # None
      /\ tx'[op].beforeDraft = tx[op].beforeDraft
  BY <1>1, <1>2, Phase DEF IInv, Pending
<1>4. ~Committed(op)'
  BY <1>1, <1>2 DEF Committed, Latest
<1>5. tx[op] \notin {None, NothingNew} /\ tx'[op] # NothingNew
  BY <1>1, <1>3 DEF Pending, NothingNew
<1>6. Decision(op) = "begun" /\ Decision(op)' = "refused"
  BY <1>1, <1>3, <1>4, <1>5 DEF Decision, Pending
<1>7. HeldBy(op)' = HeldBy(op) /\ draft.comments = HeldBy(op)
  BY <1>1, <1>3, <1>5 DEF HeldBy
<1> QED
  BY <1>2, <1>3, <1>6, <1>7, LedgerRefuse

LEMMA SaveDraftLedger ==
  ASSUME IInv, NEW c \in Comments, SaveDraft(c)
  PROVE  Ledger!Next
<1>1. /\ UNCHANGED <<versions, tx, preserved>>
      /\ draft'.comments = draft.comments \cup {c}
  BY DEF SaveDraft
<1>2. /\ SeenLedger' = SeenLedger /\ SeenKept' = SeenKept
      /\ SeenHeld' = SeenHeld /\ SeenDecided' = SeenDecided
  BY <1>1, SameLedger, SameKept
     DEF SeenHeld, HeldBy, SeenDecided, Decision, Pending, Committed, Latest
<1>3. Ledger!Comment(c)
  BY <1>1, <1>2
     DEF Ledger!Comment, SeenLedger, SeenKept, SeenHeld, HeldBy, SeenDecided,
         Decision
<1> QED
  BY <1>3 DEF Ledger!Next

LEMMA WorkLedger ==
  ASSUME IInv, Work
  PROVE  Stutter \/ Ledger!Next
<1>1. PICK op \in Ops : Work!(op)
  BY DEF Work
<1>2. CASE \/ WriteSnapshot(op) \/ Inspect(op) \/ Bind(op) \/ Check(op)
           \/ Displace(op) \/ VerifyParked(op) \/ Publish(op) \/ Confirm(op)
           \/ WriteState(op) \/ FinalCheck(op) \/ RestoreState(op)
           \/ RetainSnapshot(op)
  <2>1. UNCHANGED <<versions, tx, preserved, draft>>
    BY <1>2 DEF WriteSnapshot, Inspect, Bind, Check, Displace, VerifyParked,
       Publish, Confirm, WriteState, FinalCheck, RestoreState, RetainSnapshot
  <2> QED
    BY <2>1, UnseenStutters
<1>3. CASE MarkWritten(op)
  <2>1. /\ worker # Idle /\ In(op, {"prepared", "source-written"})
        /\ UNCHANGED <<versions, preserved, draft>>
    BY <1>3, Busy DEF IInv, Pcs, Committing, MarkWritten, At, Protocol, Served
  <2>2. CASE UNCHANGED tx
    BY <2>1, <2>2, UnseenStutters
  <2>3. CASE tx' = [tx EXCEPT ![op].phase = "source-written"]
    BY <2>1, <2>3, PhaseStutters DEF In, Pending
  <2> QED
    BY <1>3, <2>2, <2>3 DEF MarkWritten
<1>4. CASE Complete(op)
  <2>1. /\ worker # Idle /\ In(op, {"source-written"}) /\ Committed(op)
        /\ UNCHANGED <<versions, preserved, draft>>
        /\ tx' = [tx EXCEPT ![op].phase = "completed"]
    BY <1>4, Busy DEF IInv, Pcs, Complete, At, Protocol, Served
  <2> QED
    BY <2>1, PhaseStutters DEF In
<1>5. CASE BeginAbort(op)
  <2>1. op \in Pending /\ ~Committed(op)
    BY <1>5, BeginAbortStep
  <2>2. /\ UNCHANGED <<versions, preserved, draft>>
        /\ tx' = [tx EXCEPT ![op].phase = "aborting"]
    BY <1>5 DEF BeginAbort
  <2> QED
    BY <2>1, <2>2, PhaseStutters DEF In, Pending
<1>6. CASE WriteDraft(op) \/ RestoreDraft(op)
  <2>1. op \in Pending /\ ~Committed(op)
    BY <1>6, WriteDraftStep, RestoreDraftStep
  <2>2. /\ UNCHANGED <<versions, tx, preserved>>
        /\ draft' \in {tx[op].afterDraft, tx[op].beforeDraft}
    BY <1>6 DEF WriteDraft, RestoreDraft
  <2> QED
    BY <2>1, <2>2, DraftLedger
<1> QED
  BY <1>1, <1>2, <1>3, <1>4, <1>5, <1>6, ReadEvidenceLedger, PrepareLedger,
     RecordPreparedLedger, ResumeLedger, WriteManifestLedger, EndAbortLedger

LEMMA StepLedger == IInv /\ [Next]_vars => [Ledger!Next]_(Ledger!vars)
<1> SUFFICES ASSUME IInv, [Next]_vars
             PROVE  Stutter \/ Ledger!Next
    BY StutterIsLedger
<1>1. CASE Work
  BY <1>1, WorkLedger
<1>2. CASE \E c \in Comments : SaveDraft(c)
  BY <1>2, SaveDraftLedger
<1>3. CASE UNCHANGED <<versions, tx, preserved, draft>>
  BY <1>3, UnseenStutters
<1> QED
  BY <1>1, <1>2, <1>3 DEF Next, vars, Create, Retry, Query, Open, SaveHtml,
     Fault, Crash, WriteInPlace, PutAnother, TakeAway

(* The steps of commitCurrentVersion and abortCurrentVersion, in any order  *)
(* of faults, crashes, replays and repetitions, are steps of VersionLedger: *)
(* one Version at a time and once, with the comments of its beginning or    *)
(* with others when these are kept; a Version that a transaction refuses is *)
(* never made and gives the comments back.                                  *)
THEOREM Refinement == Spec => ImplementsLedger
<1>1. Init => Ledger!Init
  BY InitLedger
<1>2. IInv /\ [Next]_vars => [Ledger!Next]_(Ledger!vars)
  BY StepLedger
<1> QED
  BY <1>1, <1>2, Invariance, PTL DEF Spec, Ledger!Spec, ImplementsLedger

-----------------------------------------------------------------------------
(***************************************************************************)
(* Wholeness.  Between transactions manifest, state record and comments    *)
(* belong to one Version; an unfinished transaction names two such states, *)
(* and a step that leaves it has written one of them.                      *)
(***************************************************************************)
Uncommitted == {op \in Pending : ~Committed(op)}

Whole ==
    /\ record.base = Latest /\ draft.base = Latest
    /\ record.draft = draft

WholeBefore(op) ==
    /\ tx[op].beforeRecord.base = Latest /\ tx[op].beforeDraft.base = Latest
    /\ tx[op].beforeRecord.draft = tx[op].beforeDraft

WholeAfter(op) ==
    /\ tx[op].afterRecord.base = Latest + 1
    /\ tx[op].afterDraft.base = Latest + 1
    /\ tx[op].afterRecord.draft = tx[op].afterDraft

Written ==
    worker # Idle =>
        /\ worker.pc \in {"final", "manifest"} =>
               record = tx[worker.op].afterRecord
        /\ worker.pc \in {"retain", "aborted"} =>
               record = tx[worker.op].beforeRecord

Atomic ==
    /\ Uncommitted = {} => Whole
    /\ \A op \in Uncommitted : WholeBefore(op) /\ WholeAfter(op)
    /\ Written

LEMMA AtomicStays ==
  ASSUME Atomic, UNCHANGED <<versions, tx, draft, record>>, Written'
  PROVE  Atomic'
BY DEF Atomic, Uncommitted, Pending, Committed, Latest, Whole, WholeBefore,
   WholeAfter

(* The fields of an unfinished transaction outlive a change of its phase.   *)
LEMMA PhaseAtomic ==
  ASSUME IInv, Atomic, NEW op \in Ops,
         In(op, {"prepared", "source-written", "aborting", "completed"}),
         NEW phase \in {"source-written", "completed", "aborting"},
         tx' = [tx EXCEPT ![op].phase = phase],
         op \in Pending \/ Committed(op),
         phase = "completed" => Committed(op),
         UNCHANGED <<versions, draft, record>>, Written'
  PROVE  Atomic'
<1>1. /\ tx[op] \in Transaction /\ tx'[op] = [tx[op] EXCEPT !.phase = phase]
      /\ \A p \in Ops \ {op} : tx'[p] = tx[p]
      /\ tx'[op].phase = phase /\ tx'[op] # None
  BY Phase DEF IInv, In, Typed
<1>2. /\ tx'[op].beforeDraft = tx[op].beforeDraft
      /\ tx'[op].afterDraft = tx[op].afterDraft
      /\ tx'[op].beforeRecord = tx[op].beforeRecord
      /\ tx'[op].afterRecord = tx[op].afterRecord
  BY <1>1 DEF Transaction
<1>3. Uncommitted' = Uncommitted
  <2>1. \A p \in Ops : Committed(p)' = Committed(p)
    BY DEF Committed, Latest
  <2>2. \A p \in Ops \ {op} : p \in Pending' <=> p \in Pending
    BY <1>1 DEF Pending
  <2>3. ASSUME ~Committed(op)
        PROVE  op \in Pending /\ op \in Pending'
    <3>1. op \in Pending /\ phase \in {"source-written", "aborting"}
      BY <2>3
    <3> QED
      BY <1>1, <3>1 DEF Pending
  <2> QED
    BY <2>1, <2>2, <2>3 DEF Uncommitted, Pending
<1>4. ASSUME NEW p \in Uncommitted
      PROVE  WholeBefore(p)' /\ WholeAfter(p)'
  <2>1. WholeBefore(p) /\ WholeAfter(p) /\ p \in Ops
    BY DEF Atomic, Uncommitted, Pending
  <2>2. CASE p = op
    BY <1>2, <2>1, <2>2 DEF WholeBefore, WholeAfter, Latest
  <2>3. CASE p # op
    BY <1>1, <2>1, <2>3 DEF WholeBefore, WholeAfter, Latest
  <2> QED
    BY <2>2, <2>3
<1>5. Uncommitted' = {} => Whole'
  BY <1>3 DEF Atomic, Whole, Latest
<1> QED
  BY <1>3, <1>4, <1>5 DEF Atomic

LEMMA InitAtomic == Init => Atomic
<1> SUFFICES ASSUME Init PROVE Atomic
    OBVIOUS
<1>1. Uncommitted = {} /\ Written
  BY DEF Init, Uncommitted, Pending, Written
<1>2. Whole
  BY DEF Init, Whole, FirstDraft, Latest
<1> QED
  BY <1>1, <1>2 DEF Atomic

(* Goes elsewhere than to a step that relies on the state record. *)
Relying == {"final", "manifest", "retain", "aborted"}

LEMMA Unreliant ==
  ASSUME worker' = Idle \/ worker'.pc \notin Relying
  PROVE  Written'
BY DEF Written, Relying

LEMMA WorkerMoves ==
  ASSUME IInv, NEW op \in Ops,
         \/ ReadEvidence(op) \/ Prepare(op) \/ RecordPrepared(op)
         \/ Resume(op) \/ WriteSnapshot(op) \/ Inspect(op)
         \/ Bind(op) \/ Check(op) \/ Displace(op) \/ VerifyParked(op)
         \/ Publish(op) \/ Confirm(op) \/ MarkWritten(op) \/ WriteDraft(op)
         \/ Complete(op) \/ BeginAbort(op) \/ RestoreDraft(op)
         \/ EndAbort(op)
  PROVE  worker' = Idle \/ worker'.pc \notin Relying
<1>1. worker \in Worker
  BY Busy DEF IInv, Pcs, Preparing, Committing, Undoing, ReadEvidence,
     Prepare, RecordPrepared, Resume, WriteSnapshot, Inspect, Bind, Check,
     Displace, VerifyParked, Publish, Confirm, MarkWritten, WriteDraft,
     Complete, BeginAbort, RestoreDraft, EndAbort
<1>2. ASSUME NEW pc \in Pcs \ Relying, GoTo(pc)
      PROVE  worker' = Idle \/ worker'.pc \notin Relying
  BY <1>1, <1>2 DEF GoTo, Worker
<1>3. ASSUME Conflict
      PROVE  worker' = Idle \/ worker'.pc \notin Relying
  BY <1>1, <1>3 DEF Conflict, Worker, Relying
<1>4. ASSUME NEW result, Return(op, result)
      PROVE  worker' = Idle \/ worker'.pc \notin Relying
  BY <1>1, <1>4 DEF Return, Worker, Relying
<1>5. ASSUME Throw
      PROVE  worker' = Idle \/ worker'.pc \notin Relying
  BY <1>5 DEF Throw
<1>6. {"record", "snapshot", "inspect", "check", "displace", "parked",
       "publish", "confirm", "draft", "state", "resume", "aborting",
       "undraft", "unstate"} \subseteq Pcs \ Relying
  BY DEF Pcs, Relying, Preparing, Committing, Undoing
<1>7. CASE ReadEvidence(op)
  <2>1. ASSUME worker' = [worker EXCEPT !.pc = "prepare",
                            !.seen = [object |-> source,
                                      html |-> heap[source]]]
        PROVE  worker'.pc \notin Relying
    BY <1>1, <2>1 DEF Worker, Relying
  <2> QED
    BY <1>4, <1>5, <1>7, <2>1 DEF ReadEvidence
<1>8. CASE Prepare(op) \/ RecordPrepared(op) \/ WriteSnapshot(op)
           \/ Bind(op) \/ Check(op)
  BY <1>2, <1>3, <1>5, <1>6, <1>8
     DEF Prepare, RecordPrepared, WriteSnapshot, Bind, Check
<1>9. CASE Resume(op)
  BY <1>2, <1>4, <1>6, <1>9 DEF Resume
<1>10. CASE Inspect(op)
  <2>1. ASSUME worker' = [worker EXCEPT !.cur = source,
                            !.pc = IF heap[source] = tx[op].after THEN "mark"
                                   ELSE "bind"]
        PROVE  worker'.pc \notin Relying
    BY <1>1, <2>1 DEF Worker, Relying
  <2>2. ASSUME UNCHANGED worker
        PROVE  worker'.pc \notin Relying
    BY <1>10, <2>2 DEF Inspect, At, Relying
  <2> QED
    BY <1>3, <1>10, <2>1, <2>2 DEF Inspect
<1>11. CASE Displace(op)
  BY <1>2, <1>3, <1>5, <1>6, <1>11 DEF Displace
<1>12. CASE VerifyParked(op) \/ Publish(op)
  BY <1>2, <1>3, <1>6, <1>12 DEF VerifyParked, Publish
<1>13. CASE Confirm(op)
  <2>1. ASSUME worker' = [worker EXCEPT !.pc = "mark", !.cur = source]
        PROVE  worker'.pc \notin Relying
    BY <1>1, <2>1 DEF Worker, Relying
  <2> QED
    BY <1>3, <1>13, <2>1 DEF Confirm
<1>14. CASE MarkWritten(op) \/ WriteDraft(op)
  BY <1>2, <1>3, <1>6, <1>14 DEF MarkWritten, WriteDraft
<1>15. CASE Complete(op) \/ EndAbort(op)
  BY <1>4, <1>5, <1>15 DEF Complete, EndAbort
<1>16. CASE BeginAbort(op) \/ RestoreDraft(op)
  BY <1>2, <1>6, <1>16 DEF BeginAbort, RestoreDraft
<1> QED
  BY <1>7, <1>8, <1>9, <1>10, <1>11, <1>12, <1>13, <1>14, <1>15, <1>16

LEMMA RecordPreparedAtomic ==
  ASSUME IInv, Atomic, NEW op \in Ops, RecordPrepared(op)
  PROVE  Atomic'
<1>1. tx[op] = None /\ Pending = {} /\ Pending' = {op}
  BY RecordPreparedStep
<1>2. UNCHANGED <<versions, draft, record>>
  BY DEF RecordPrepared
<1>3. Whole
  BY <1>1 DEF Atomic, Uncommitted
<1>4. WholeBefore(op)' /\ WholeAfter(op)'
  BY <1>2, <1>3
     DEF RecordPrepared, IInv, Typed, Whole, WholeBefore, WholeAfter, Latest
<1>5. Uncommitted' = {op}
  <2>1. ~Committed(op)
    BY <1>1 DEF IInv, Protocol, Phases, In
  <2> QED
    BY <1>1, <1>2, <2>1 DEF Uncommitted, Committed, Latest
<1> QED
  BY <1>4, <1>5, WorkerMoves, Unreliant DEF Atomic

(* The comments file changes while a transaction is unfinished. *)
LEMMA DraftAtomic ==
  ASSUME IInv, Atomic, NEW op \in Ops, op \in Pending, ~Committed(op),
         UNCHANGED <<versions, tx>>, Written'
  PROVE  Atomic'
<1>1. Uncommitted # {} /\ Uncommitted' = Uncommitted
  BY DEF Uncommitted, Pending, Committed, Latest
<1> QED
  BY <1>1 DEF Atomic, WholeBefore, WholeAfter, Latest

LEMMA StateAtomic ==
  ASSUME IInv, Atomic, NEW op \in Ops, WriteState(op) \/ RestoreState(op)
  PROVE  Atomic'
<1>1. /\ worker \in Worker /\ worker.op = op /\ worker # Idle
      /\ worker.pc = (IF WriteState(op) THEN "state" ELSE "unstate")
  BY Busy DEF IInv, Pcs, Committing, Undoing, WriteState, RestoreState, At
<1>2. op \in Pending /\ ~Committed(op)
  BY <1>1 DEF IInv, Protocol, Served, Committing, Undoing, In, Pending
<1>3. Written'
  <2>1. CASE WriteState(op)
    BY <1>1, <2>1 DEF WriteState, GoTo, Written, Worker
  <2>2. CASE RestoreState(op)
    BY <1>1, <2>2 DEF RestoreState, GoTo, Written, Worker
  <2> QED
    BY <2>1, <2>2
<1>4. UNCHANGED <<versions, tx>>
  BY DEF WriteState, RestoreState
<1> QED
  BY <1>2, <1>3, <1>4, DraftAtomic

LEMMA RelyingAtomic ==
  ASSUME IInv, Atomic, NEW op \in Ops, FinalCheck(op) \/ RetainSnapshot(op)
  PROVE  Atomic'
<1>1. /\ worker \in Worker /\ worker.op = op /\ worker # Idle
      /\ worker.pc = (IF FinalCheck(op) THEN "final" ELSE "retain")
  BY Busy DEF IInv, Pcs, Committing, Undoing, FinalCheck, RetainSnapshot, At
<1>2. UNCHANGED <<versions, tx, draft, record>>
  BY DEF FinalCheck, RetainSnapshot
<1>3. Written'
  <2>1. CASE FinalCheck(op)
    BY <1>1, <1>2, <2>1
       DEF FinalCheck, GoTo, Conflict, Atomic, Written, Worker
  <2>2. CASE RetainSnapshot(op)
    <3>1. worker.pc = "retain"
      BY <2>2 DEF RetainSnapshot, At
    <3> QED
      BY <1>1, <1>2, <2>2, <3>1
         DEF RetainSnapshot, GoTo, Atomic, Written, Worker
  <2> QED
    BY <2>1, <2>2
<1> QED
  BY <1>2, <1>3, AtomicStays

LEMMA WriteManifestAtomic ==
  ASSUME IInv, Atomic, NEW op \in Ops, WriteManifest(op)
  PROVE  Atomic'
<1>1. /\ op \in Pending /\ ~Committed(op) /\ draft = tx[op].afterDraft
      /\ Latest' = Latest + 1
      /\ \A p \in Ops : Committed(p)' <=> Committed(p) \/ p = op
  BY WriteManifestStep
<1>2. UNCHANGED <<tx, draft, record>>
  BY DEF WriteManifest
<1>3. /\ worker \in Worker /\ worker.op = op /\ worker # Idle
      /\ worker.pc = "manifest"
  BY Busy DEF IInv, Pcs, Committing, WriteManifest, At
<1>4. record = tx[op].afterRecord /\ WholeAfter(op)
  BY <1>1, <1>3 DEF Atomic, Written, Uncommitted
<1>5. Whole'
  BY <1>1, <1>2, <1>4 DEF Whole, WholeAfter
<1>6. Uncommitted' = {}
  BY <1>1, <1>2 DEF Uncommitted, Pending, IInv, Protocol, OnePending
<1>7. Written'
  BY <1>3 DEF WriteManifest, GoTo, Written, Worker
<1> QED
  BY <1>5, <1>6, <1>7 DEF Atomic

LEMMA EndAbortAtomic ==
  ASSUME IInv, Atomic, NEW op \in Ops, EndAbort(op)
  PROVE  Atomic'
<1>1. op \in Pending /\ ~Committed(op) /\ draft = tx[op].beforeDraft
  BY EndAbortStep
<1>2. /\ UNCHANGED <<versions, draft, record>>
      /\ tx' = [tx EXCEPT ![op].phase = "aborted"]
  BY DEF EndAbort
<1>3. /\ worker \in Worker /\ worker.op = op /\ worker # Idle
      /\ worker.pc = "aborted"
  BY Busy DEF IInv, Pcs, Undoing, EndAbort, At
<1>4. record = tx[op].beforeRecord /\ WholeBefore(op)
  BY <1>1, <1>3 DEF Atomic, Written, Uncommitted
<1>5. Whole'
  BY <1>1, <1>2, <1>4 DEF Whole, WholeBefore, Latest
<1>6. Uncommitted' = {}
  <2>1. /\ \A p \in Ops \ {op} : tx'[p] = tx[p]
        /\ tx'[op].phase = "aborted"
    BY <1>1, <1>2, Phase DEF IInv, Pending
  <2> QED
    BY <1>1, <2>1 DEF Uncommitted, Pending, IInv, Protocol, OnePending
<1>7. Written'
  BY WorkerMoves, Unreliant
<1> QED
  BY <1>5, <1>6, <1>7 DEF Atomic

LEMMA PhasesAtomic ==
  ASSUME IInv, Atomic, NEW op \in Ops,
         \/ MarkWritten(op) \/ Complete(op) \/ BeginAbort(op) \/ Resume(op)
  PROVE  Atomic'
<1>1. Written'
  BY WorkerMoves, Unreliant
<1>2. UNCHANGED <<versions, draft, record>>
  BY DEF MarkWritten, Complete, BeginAbort, Resume
<1>3. CASE UNCHANGED tx
  BY <1>1, <1>2, <1>3, AtomicStays
<1>4. CASE MarkWritten(op) /\ tx' = [tx EXCEPT ![op].phase = "source-written"]
  <2>1. In(op, {"prepared", "source-written"})
    BY <1>4, Busy DEF IInv, Pcs, Committing, MarkWritten, At, Protocol, Served
  <2> QED
    BY <1>1, <1>2, <1>4, <2>1, PhaseAtomic DEF In, Pending
<1>5. CASE Complete(op)
  <2>1. /\ In(op, {"source-written"}) /\ Committed(op)
        /\ tx' = [tx EXCEPT ![op].phase = "completed"]
    BY <1>5, Busy DEF IInv, Pcs, Complete, At, Protocol, Served
  <2> QED
    BY <1>1, <1>2, <2>1, PhaseAtomic DEF In
<1>6. CASE BeginAbort(op)
  <2>1. op \in Pending /\ tx' = [tx EXCEPT ![op].phase = "aborting"]
    BY <1>6, BeginAbortStep DEF BeginAbort
  <2> QED
    BY <1>1, <1>2, <2>1, PhaseAtomic DEF In, Pending
<1>7. CASE Resume(op) /\ Committed(op)
  <2>1. In(op, {"source-written", "completed"})
    BY <1>7 DEF IInv, Protocol, Phases
  <2>2. tx' = [tx EXCEPT ![op].phase = "completed"]
    BY <1>7, <2>1 DEF Resume, In
  <2> QED
    BY <1>1, <1>2, <1>7, <2>1, <2>2, PhaseAtomic DEF In
<1>8. Resume(op) => UNCHANGED tx \/ Committed(op)
  BY ResumeStep
<1> QED
  BY <1>3, <1>4, <1>5, <1>6, <1>7, <1>8 DEF MarkWritten

LEMMA WorkAtomic ==
  ASSUME IInv, Atomic, Work
  PROVE  Atomic'
<1>1. PICK op \in Ops : Work!(op)
  BY DEF Work
<1>2. CASE \/ Prepare(op) \/ WriteSnapshot(op) \/ Inspect(op) \/ Bind(op)
           \/ Check(op) \/ Displace(op) \/ VerifyParked(op) \/ Publish(op)
           \/ Confirm(op)
  <2>1. UNCHANGED <<versions, tx, draft, record>>
    BY <1>2 DEF Prepare, WriteSnapshot, Inspect, Bind, Check, Displace,
       VerifyParked, Publish, Confirm
  <2>2. Written'
    BY <1>2, WorkerMoves, Unreliant
  <2> QED
    BY <2>1, <2>2, AtomicStays
<1>3. CASE ReadEvidence(op)
  <2>1. UNCHANGED <<versions, draft, record>> /\ Written'
    BY <1>3, WorkerMoves, Unreliant DEF ReadEvidence
  <2>2. CASE UNCHANGED tx
    BY <2>1, <2>2, AtomicStays
  <2>3. CASE tx' = [tx EXCEPT ![op] = NothingNew]
    <3>1. Pending = {}
      BY <1>3, Busy
         DEF IInv, Pcs, Preparing, ReadEvidence, At, Protocol, Served
    <3>2. Pending' = {}
      BY <2>3, <3>1 DEF Pending, NothingNew, IInv, Typed
    <3> QED
      BY <2>1, <3>1, <3>2 DEF Atomic, Uncommitted, Whole, Latest
  <2> QED
    BY <1>3, <2>2, <2>3 DEF ReadEvidence
<1>4. CASE WriteDraft(op) \/ RestoreDraft(op)
  <2>1. op \in Pending /\ ~Committed(op)
    BY <1>4, WriteDraftStep, RestoreDraftStep
  <2>2. UNCHANGED <<versions, tx>> /\ Written'
    BY <1>4, WorkerMoves, Unreliant DEF WriteDraft, RestoreDraft
  <2> QED
    BY <2>1, <2>2, DraftAtomic
<1> QED
  BY <1>1, <1>2, <1>3, <1>4, RecordPreparedAtomic, StateAtomic, RelyingAtomic,
     WriteManifestAtomic, EndAbortAtomic, PhasesAtomic

LEMMA NextAtomic == IInv /\ Atomic /\ [Next]_vars => Atomic'
<1> SUFFICES ASSUME IInv, Atomic, [Next]_vars PROVE Atomic'
    OBVIOUS
<1>1. CASE UNCHANGED vars
  BY <1>1, AtomicStays DEF vars, Written, Atomic
<1>2. CASE Work
  BY <1>2, WorkAtomic
<1>3. ASSUME NEW op \in Ops, NEW kind \in AllKinds,
             NEW pick \in {None} \cup 1..MaxOrdinal \cup Ops,
             Create(op, kind, pick)
      PROVE  Atomic'
  <2>1. UNCHANGED <<versions, tx, draft, record>>
    BY <1>3 DEF Create
  <2>2. worker'.pc \in {"read", "resume"}
    BY <1>3 DEF Create, Make
  <2> QED
    BY <2>1, <2>2, AtomicStays, Unreliant DEF Relying
<1>4. CASE Open \/ \E op \in Ops : Retry(op) \/ Query(op)
  <2>1. UNCHANGED <<versions, tx, draft, record>>
    BY <1>4 DEF Open, Retry, Query
  <2>2. worker' = Idle \/ worker'.pc \in {"read", "resume"}
    BY <1>4 DEF Open, Retry, Query, Serve, Make
  <2> QED
    BY <2>1, <2>2, AtomicStays, Unreliant DEF Relying
<1>5. ASSUME NEW c \in Comments, SaveDraft(c)
      PROVE  Atomic'
  <2>1. UNCHANGED <<versions, tx>> /\ worker' = Idle
    BY <1>5 DEF SaveDraft
  <2>2. Whole'
    BY <1>5 DEF SaveDraft, Whole, Latest, IInv, Typed, Record
  <2> QED
    BY <2>1, <2>2 DEF Atomic, Uncommitted, Pending, Committed, Latest,
       WholeBefore, WholeAfter, Written
<1>6. ASSUME NEW body \in Edited, SaveHtml(body)
      PROVE  Atomic'
  <2>1. UNCHANGED <<versions, tx, draft>> /\ worker' = Idle
    BY <1>6 DEF SaveHtml
  <2>2. Whole => Whole'
    BY <1>6, <2>1 DEF SaveHtml, Whole, Latest, IInv, Typed, Record
  <2> QED
    BY <2>1, <2>2 DEF Atomic, Uncommitted, Pending, Committed, Latest,
       WholeBefore, WholeAfter, Written
<1>7. CASE Fault \/ Crash
  BY <1>7, AtomicStays DEF Fault, Crash, Throw, Written
<1>8. CASE \/ \E body \in Foreign : WriteInPlace(body) \/ PutAnother(body)
           \/ TakeAway
  BY <1>8, AtomicStays
     DEF WriteInPlace, PutAnother, TakeAway, Written, Atomic
<1> QED
  BY <1>1, <1>2, <1>3, <1>4, <1>5, <1>6, <1>7, <1>8 DEF Next

(* No crash, fault or conflict leaves half of a Version behind              *)
(* (commitPreparedCurrentVersion, abortCurrentVersion): when no transaction *)
(* is unfinished, the manifest, the state record and the comments belong to *)
(* the same Version.                                                        *)
THEOREM Wholeness == Spec => []WholeWhenResolved
<1>1. Atomic => WholeWhenResolved
  BY DEF Atomic, Uncommitted, Whole, WholeWhenResolved
<1> QED
  BY <1>1, InitAtomic, NextAtomic, Invariance, PTL DEF Spec

-----------------------------------------------------------------------------
(***************************************************************************)
(* What becomes of the files.  A file that a transaction moved away is     *)
(* given the name again by that transaction only, so that nobody writes it *)
(* any more once the transaction went past its look at it.  Such a file is *)
(* only moved away when what comes after is something else, and the new    *)
(* file has the name only once the old one was moved away: without that, a *)
(* transaction could take its new file for the old one.                    *)
(***************************************************************************)
Linked(o) ==
    \E op \in Ops : o \in {dir[op].before, dir[op].after, dir[op].parked}

(* What another program wrote is as it was written, under the name or       *)
(* linked.                                                                  *)
ForeignKept ==
    \A o \in Objects : foreign[o] # None =>
        /\ o \in 1..Len(heap) /\ heap[o] = foreign[o]
        /\ source = o \/ Linked(o)

(* The new file differs from the old one, is nobody else's, and gets the    *)
(* name only when the old one was moved away.                               *)
NewFiles ==
    \A op \in Ops :
        /\ dir[op].after # None =>
               /\ tx[op] \in Transaction
               /\ tx[op].expected # tx[op].after
               /\ \A q \in Ops : dir[q].after = dir[op].after => q = op
        /\ dir[op].parked # None => dir[op].after \notin {None, dir[op].parked}
        /\ dir[op].after # None /\ dir[op].parked = None =>
               /\ source # dir[op].after
               /\ \A q \in Ops : dir[q].parked # dir[op].after

(* What a transaction replaces is what was preserved.                       *)
Preserving ==
    \A op \in Ops : tx[op] \in Transaction =>
        IF tx[op].kind = "local-save" THEN tx[op].after = tx[op].expected
        ELSE preserved[op] # None /\ preserved[op].html = tx[op].expected

(* A file that was moved away is as it was expected, and out of reach.      *)
Intact(op) ==
    dir[op].parked # None => /\ heap[dir[op].parked] = tx[op].expected
                             /\ source # dir[op].parked
SetAside ==
    \A op \in Ops : Committed(op) =>
        /\ Intact(op)
        /\ dir[op].parked # None =>
               \A q \in Pending \ {op} :
                   dir[op].parked \notin {dir[q].after, dir[q].parked}

(* What the request that is served relies on.                               *)
Holding == {"check", "displace", "parked", "publish", "confirm"}
Trusting == {"mark", "draft", "state", "final", "manifest"}
Relies ==
    worker # Idle =>
        LET op == worker.op  pc == worker.pc IN
        /\ pc = "record" /\ worker.kind # "local-save" =>
               preserved[op].html = worker.seen.html
        /\ pc = "bind" => tx[op].expected # tx[op].after
        /\ pc \in Holding => dir[op].after # None
        /\ pc \in {"parked", "publish", "confirm"} =>
               dir[op].parked # None /\ source # dir[op].parked
        /\ pc \in Trusting => Intact(op)

Files ==
    /\ foreign \in [Objects -> Content \cup {None}]
    /\ ForeignKept
    /\ NewFiles
    /\ Preserving
    /\ SetAside
    /\ Relies

LEMMA FilesSurvive == IInv /\ Files => ForeignWritesSurvive
<1> SUFFICES ASSUME IInv, Files, NEW o \in Objects, foreign[o] # None,
                    NEW op \in Ops, Committed(op), dir[op].parked = o
             PROVE  foreign[o] = preserved[op].html
    BY DEF Files, ForeignKept, Linked, ForeignWritesSurvive
<1>1. o # None /\ heap[o] = foreign[o]
  BY NoneAssumption DEF Files, ForeignKept, Link
<1>2. dir[op].after # None /\ tx[op] \in Transaction
      /\ tx[op].expected # tx[op].after
  BY <1>1 DEF Files, NewFiles
<1>3. preserved[op].html = tx[op].expected
  BY <1>2 DEF Files, Preserving
<1> QED
  BY <1>1, <1>3 DEF Files, SetAside, Intact

(* A transaction has a new file, or a file moved away, once it is recorded. *)
LEMMA LinksBegin ==
  ASSUME Files, NEW op \in Ops, tx[op] = None
  PROVE  dir[op].after = None /\ dir[op].parked = None
BY NoneAssumption DEF Files, NewFiles

LEMMA LinksKnown ==
  ASSUME IInv
  PROVE  /\ Len(heap) \in Nat /\ None \notin Nat /\ source \in Link
         /\ \A op \in Ops : /\ dir[op].before \in Link
                           /\ dir[op].after \in Link
                           /\ dir[op].parked \in Link
BY NoneAssumption, LenProperties DEF IInv, Typed, FilesTyped

(* Steps beside the request: the file under the name is written, replaced   *)
(* by a new one or removed, or the request ends.                            *)
LEMMA Outside ==
  ASSUME IInv, Files, UNCHANGED <<dir, tx, preserved, versions>>,
         worker' = worker \/ worker' = Idle,
         source' \in {source, None, Len(heap) + 1},
         \A o \in 1..Len(heap) : o # source => heap'[o] = heap[o]
  PROVE  NewFiles' /\ Preserving' /\ SetAside' /\ Relies'
<1>1. \A o \in 1..Len(heap) : source # o => source' # o
  BY LinksKnown DEF Link
<1>2. \A op \in Ops : Intact(op) => Intact(op)'
  BY <1>1, LinksKnown DEF Intact, Link
<1>3. Preserving'
  BY DEF Files, Preserving
<1>4. NewFiles'
  BY <1>1, LinksKnown DEF Files, NewFiles, Link
<1>5. SetAside'
  BY <1>2 DEF Files, SetAside, Committed, Latest, Pending
<1>6. Relies'
  <2>1. CASE worker' = Idle
    BY <2>1 DEF Relies
  <2>2. CASE worker' = worker /\ worker # Idle
    <3>1. worker.op \in Ops
      BY <2>2 DEF IInv, Typed, Worker
    <3> QED
      BY <1>1, <1>2, <2>2, <3>1, LinksKnown DEF Files, Relies, Link, Holding
  <2> QED
    BY <2>1, <2>2
<1> QED
  BY <1>3, <1>4, <1>5, <1>6

(* Foreign bytes are kept where nothing but the links changes.              *)
LEMMA ForeignStays ==
  ASSUME ForeignKept, UNCHANGED foreign, Len(heap) \in Nat,
         Len(heap') \in Nat, Len(heap') >= Len(heap),
         \A o \in 1..Len(heap) : heap'[o] = heap[o],
         \A o \in 1..Len(heap) :
             source = o \/ Linked(o) => source' = o \/ Linked(o)'
  PROVE  ForeignKept'
BY DEF ForeignKept

LEMMA SaveHtmlFiles ==
  ASSUME IInv, Files, NEW body \in Edited, SaveHtml(body)
  PROVE  Files'
<1> DEFINE html == [body |-> body, ids |-> TRUE]
<1>1. /\ heap' = Append(heap, html) /\ source' = Len(heap')
      /\ foreign' = [foreign EXCEPT ![source] = None]
      /\ UNCHANGED <<dir, tx, preserved, versions, outcome, worker>>
  BY DEF SaveHtml
<1> HIDE DEF html
<1>2. /\ Len(heap') = Len(heap) + 1
      /\ \A o \in 1..Len(heap) : heap'[o] = heap[o]
  BY <1>1 DEF IInv, Typed, FilesTyped
<1>3. NewFiles' /\ Preserving' /\ SetAside' /\ Relies'
  BY <1>1, <1>2, Outside
<1>4. foreign' \in [Objects -> Content \cup {None}]
  BY <1>1 DEF Files
<1>5. ForeignKept'
  BY <1>1, <1>2, LinksKnown DEF Files, ForeignKept, Linked, Link
<1> QED
  BY <1>3, <1>4, <1>5 DEF Files

LEMMA ForeignFiles ==
  ASSUME IInv, Files,
         \/ \E body \in Foreign : WriteInPlace(body) \/ PutAnother(body)
         \/ TakeAway
  PROVE  Files'
<1>1. UNCHANGED <<dir, tx, preserved, versions, outcome, worker>>
  BY DEF WriteInPlace, PutAnother, TakeAway
<1>2. ASSUME NEW body \in Foreign, WriteInPlace(body)
      PROVE  Files'
  <2> DEFINE html == [body |-> body, ids |-> TRUE]
  <2>1. html \in Content
    BY DEF Content
  <2>2. /\ heap' = [heap EXCEPT ![source] = html] /\ source' = source
        /\ foreign' = [foreign EXCEPT ![source] = html] /\ source # None
    BY <1>2 DEF WriteInPlace
  <2> HIDE DEF html
  <2>3. heap \in Seq(Content) /\ source \in 1..Len(heap)
    BY <2>2 DEF IInv, Typed, FilesTyped, Link
  <2>4. /\ Len(heap') = Len(heap) /\ heap'[source] = html
        /\ \A o \in 1..Len(heap) : o # source => heap'[o] = heap[o]
    BY <2>1, <2>2, <2>3, ExceptSeq
  <2>5. NewFiles' /\ Preserving' /\ SetAside' /\ Relies'
    BY <1>1, <2>2, <2>4, Outside
  <2>6. foreign' \in [Objects -> Content \cup {None}]
    BY <2>1, <2>2 DEF Files
  <2>7. ForeignKept'
    BY <1>1, <2>2, <2>3, <2>4 DEF Files, ForeignKept, Linked
  <2> QED
    BY <2>5, <2>6, <2>7 DEF Files
<1>3. ASSUME NEW body \in Foreign, PutAnother(body)
      PROVE  Files'
  <2> DEFINE html == [body |-> body, ids |-> TRUE]
  <2>1. html \in Content
    BY DEF Content
  <2>2. /\ heap' = Append(heap, html) /\ source' = Len(heap')
        /\ foreign' = [o \in Objects |-> IF o = Len(heap') THEN html
                                         ELSE IF o = source THEN None
                                         ELSE foreign[o]]
    BY <1>3 DEF PutAnother
  <2> HIDE DEF html
  <2>3. /\ Len(heap') = Len(heap) + 1 /\ heap'[Len(heap')] = html
        /\ \A o \in 1..Len(heap) : heap'[o] = heap[o]
    BY <2>1, <2>2 DEF IInv, Typed, FilesTyped
  <2>4. NewFiles' /\ Preserving' /\ SetAside' /\ Relies'
    BY <1>1, <2>2, <2>3, Outside
  <2>5. foreign' \in [Objects -> Content \cup {None}]
    BY <2>1, <2>2 DEF Files
  <2>6. ForeignKept'
    BY <1>1, <2>2, <2>3, LinksKnown DEF Files, ForeignKept, Linked, Link
  <2> QED
    BY <2>4, <2>5, <2>6 DEF Files
<1>4. CASE TakeAway
  <2>1. /\ foreign' = [foreign EXCEPT ![source] = None]
        /\ source' = None /\ heap' = heap
    BY <1>4 DEF TakeAway
  <2>2. NewFiles' /\ Preserving' /\ SetAside' /\ Relies'
    BY <1>1, <2>1, Outside
  <2>3. foreign' \in [Objects -> Content \cup {None}]
    BY <2>1 DEF Files
  <2>4. ForeignKept'
    BY <1>1, <2>1 DEF Files, ForeignKept, Linked
  <2> QED
    BY <2>2, <2>3, <2>4 DEF Files
<1> QED
  BY <1>2, <1>3, <1>4

-----------------------------------------------------------------------------
(* Steps that leave the files and the links alone.  What a record says of   *)
(* the files stays as it is.                                                *)
FilesStay == UNCHANGED <<files, foreign>>

TxKept ==
    \A op \in Ops : tx[op] \in Transaction =>
        /\ tx'[op] \in Transaction /\ tx'[op].kind = tx[op].kind
        /\ tx'[op].expected = tx[op].expected /\ tx'[op].after = tx[op].after

LEMMA SamePhases ==
  ASSUME Typed, tx' = tx
  PROVE  TxKept /\ Pending' = Pending
BY DEF TxKept, Pending

LEMMA OtherPhase ==
  ASSUME Typed, NEW op \in Ops, tx[op] # None, tx[op].phase # "unchanged",
         NEW phase \in {"source-written", "completed", "aborting", "aborted"},
         tx' = [tx EXCEPT ![op].phase = phase]
  PROVE  /\ TxKept
         /\ \A p \in Ops : tx'[p] \in Transaction => tx[p] \in Transaction
         /\ phase \in {"completed", "aborted"} \/ op \in Pending =>
                Pending' \subseteq Pending
<1>1. /\ tx[op] \in Transaction /\ tx'[op] = [tx[op] EXCEPT !.phase = phase]
      /\ \A p \in Ops \ {op} : tx'[p] = tx[p]
      /\ tx'[op] \in Transaction /\ tx'[op].phase = phase
  BY Phase DEF Typed
<1> QED
  BY <1>1 DEF TxKept, Transaction, Pending

LEMMA PreservingSame ==
  ASSUME Files, TxKept, UNCHANGED preserved,
         \A p \in Ops : tx'[p] \in Transaction => tx[p] \in Transaction
  PROVE  Preserving'
BY DEF Files, Preserving, TxKept

LEMMA IntactStays ==
  ASSUME IInv, Files, FilesStay, TxKept, NEW op \in Ops, Intact(op)
  PROVE  Intact(op)'
<1>1. dir[op].parked # None => tx[op] \in Transaction
  BY DEF Files, NewFiles
<1> QED
  BY <1>1 DEF Intact, FilesStay, files, TxKept

LEMMA SetAsideStays ==
  ASSUME IInv, Files, FilesStay, TxKept, UNCHANGED versions,
         \A q \in Pending' : \/ q \in Pending
                             \/ dir[q].after = None /\ dir[q].parked = None
  PROVE  SetAside'
<1>1. \A op \in Ops : Intact(op) => Intact(op)'
  BY IntactStays
<1> QED
  BY <1>1 DEF Files, SetAside, Committed, Latest, FilesStay, files

LEMMA Inside ==
  ASSUME IInv, Files, FilesStay, TxKept, Preserving', SetAside', Relies'
  PROVE  Files'
<1>1. ForeignKept' /\ foreign' \in [Objects -> Content \cup {None}]
  BY DEF Files, ForeignKept, Linked, FilesStay, files
<1>2. NewFiles'
  BY DEF Files, NewFiles, TxKept, FilesStay, files
<1> QED
  BY <1>1, <1>2 DEF Files

(* Most steps move the request only.                                        *)
LEMMA Steady ==
  ASSUME IInv, Files, FilesStay, UNCHANGED <<tx, preserved, versions>>,
         Relies'
  PROVE  Files'
<1>1. TxKept /\ Pending' = Pending
  BY SamePhases DEF IInv
<1>2. Preserving'
  BY <1>1, PreservingSame
<1>3. SetAside'
  BY <1>1, SetAsideStays
<1> QED
  BY <1>1, <1>2, <1>3, Inside

(* A request whose step relies on no file.                                  *)
Careless == {"resume", "snapshot", "inspect", "aborting", "undraft",
             "unstate", "retain", "aborted", "complete"}
LEMMA CarelessRelies ==
  ASSUME Files, worker # Idle, worker'.pc \in Careless,
         worker'.op = worker.op, worker'.goal = worker.goal,
         \A op \in Ops \ {worker.op} : dir'[op] = dir[op]
  PROVE  Relies'
BY DEF Relies, Files, Careless, Holding, Trusting

LEMMA NotServing ==
  ASSUME worker' = Idle
  PROVE  Relies'
BY DEF Relies

(* What is known of the request at its step.                                *)
LEMMA AtStep ==
  ASSUME IInv, NEW op \in Ops, NEW pc \in Pcs, At(pc, op)
  PROVE  /\ worker \in Worker /\ worker # Idle
         /\ worker.op = op /\ worker.pc = pc
         /\ pc \in Committing =>
                tx[op] \in Transaction /\ op \in Pending /\ ~Committed(op)
<1>1. worker \in Worker /\ worker # Idle /\ worker.op = op /\ worker.pc = pc
  BY Busy DEF IInv, At
<1>2. CASE pc \in Committing
  <2>1. In(op, {"prepared", "source-written"}) /\ ~Committed(op)
    BY <1>1, <1>2 DEF IInv, Protocol, Served
  <2> QED
    BY <1>1, <2>1 DEF In, IInv, Typed, NothingNew, Pending
<1> QED
  BY <1>1, <1>2

LEMMA ReturnKeeps ==
  ASSUME IInv, worker # Idle, NEW result, NEW op \in Ops, Return(op, result)
  PROVE  Relies'
<1>1. worker \in Worker
  BY DEF IInv, Typed
<1>2. CASE worker' = Idle
  BY <1>2, NotServing
<1>3. CASE /\ worker.goal \in Ops \ {op}
           /\ worker' = [worker EXCEPT !.op = worker.goal, !.pc = "read"]
  BY <1>1, <1>3 DEF Relies, Worker, Holding, Trusting
<1> QED
  BY <1>2, <1>3 DEF Return

LEMMA GoingOn ==
  ASSUME worker \in Worker, NEW pc \in Pcs, GoTo(pc)
  PROVE  /\ worker'.pc = pc /\ worker' # Idle
         /\ worker'.op = worker.op /\ worker'.goal = worker.goal
         /\ worker'.kind = worker.kind /\ worker'.seen = worker.seen
BY Going DEF GoTo, Same

LEMMA Giving ==
  ASSUME Files, worker \in Worker, worker # Idle, Conflict,
         \A op \in Ops \ {worker.op} : dir'[op] = dir[op]
  PROVE  Relies'
BY Conflicting, CarelessRelies DEF Same, Careless

-----------------------------------------------------------------------------
(* The steps that leave files, records and manifest alone.                  *)
LEMMA CarelessFiles ==
  ASSUME IInv, Files, NEW op \in Ops,
         \/ WriteSnapshot(op) \/ RestoreDraft(op) \/ RestoreState(op)
         \/ RetainSnapshot(op)
  PROVE  Files'
<1>1. /\ FilesStay /\ UNCHANGED <<tx, preserved, versions>>
      /\ worker \in Worker /\ worker # Idle
  BY AtStep DEF WriteSnapshot, RestoreDraft, RestoreState, RetainSnapshot,
     FilesStay, around, Pcs, Committing, Undoing
<1>2. CASE Throw
  BY <1>1, <1>2, NotServing, Steady DEF Throw
<1>3. CASE /\ \E pc \in Careless \cap Pcs : GoTo(pc)
           /\ UNCHANGED outcome
  <2>1. Relies'
    BY <1>1, <1>3, GoingOn, CarelessRelies DEF FilesStay, files
  <2> QED
    BY <1>1, <1>3, <2>1, Steady
<1> QED
  BY <1>2, <1>3
     DEF WriteSnapshot, RestoreDraft, RestoreState, RetainSnapshot, Careless,
         Pcs, Committing, Undoing

LEMMA CheckFiles ==
  ASSUME IInv, Files, NEW op \in Ops, Check(op)
  PROVE  Files'
<1>1. /\ FilesStay /\ UNCHANGED <<tx, preserved, versions, outcome>>
      /\ worker \in Worker /\ worker # Idle /\ worker.op = op
      /\ worker.pc = "check"
  BY AtStep DEF Check, FilesStay, around, Pcs, Committing
<1>2. CASE Conflict
  BY <1>1, <1>2, Giving, Steady DEF FilesStay, files
<1>3. CASE GoTo("displace")
  <2>1. /\ worker'.pc = "displace" /\ worker'.op = op
        /\ worker'.goal = worker.goal
    BY <1>1, <1>3, GoingOn DEF Pcs, Committing
  <2>2. Relies'
    BY <1>1, <2>1
       DEF Files, Relies, Holding, Trusting, FilesStay, files
  <2> QED
    BY <1>1, <2>2, Steady
<1> QED
  BY <1>2, <1>3 DEF Check

LEMMA ConfirmFiles ==
  ASSUME IInv, Files, NEW op \in Ops, Confirm(op)
  PROVE  Files'
<1>1. /\ FilesStay /\ UNCHANGED <<tx, preserved, versions, outcome>>
      /\ worker \in Worker /\ worker # Idle /\ worker.op = op
      /\ worker.pc = "confirm"
  BY AtStep DEF Confirm, FilesStay, around, Pcs, Committing
<1>2. CASE Conflict
  BY <1>1, <1>2, Giving, Steady DEF FilesStay, files
<1>3. CASE /\ heap[dir[op].parked] = tx[op].expected
           /\ worker' = [worker EXCEPT !.pc = "mark", !.cur = source]
  <2>1. /\ worker'.pc = "mark" /\ worker'.op = op
        /\ worker'.goal = worker.goal
    BY <1>1, <1>3 DEF Worker
  <2>2. Intact(op)'
    BY <1>1, <1>3 DEF Files, Relies, Intact, FilesStay, files
  <2>3. Relies'
    BY <1>1, <2>1, <2>2
       DEF Files, Relies, Holding, FilesStay, files
  <2> QED
    BY <1>1, <2>3, Steady
<1> QED
  BY <1>2, <1>3 DEF Confirm

(* Past its look at the file, the request goes on as long as it is there.   *)
LEMMA TrustingStep ==
  ASSUME IInv, Files, FilesStay, TxKept, worker \in Worker,
         worker # Idle, worker.pc \in Trusting, NEW pc \in Trusting, GoTo(pc)
  PROVE  Relies'
<1>1. /\ worker'.pc = pc /\ worker'.op = worker.op
      /\ worker'.goal = worker.goal /\ worker.op \in Ops
  BY GoingOn DEF Trusting, Pcs, Committing, Worker
<1>2. Intact(worker.op)'
  BY <1>1, IntactStays DEF Files, Relies
<1> QED
  BY <1>1, <1>2 DEF Files, Relies, Trusting, Holding, FilesStay, files

LEMMA TrustingFiles ==
  ASSUME IInv, Files, NEW op \in Ops,
         WriteDraft(op) \/ WriteState(op) \/ FinalCheck(op)
  PROVE  Files'
<1>1. /\ FilesStay /\ UNCHANGED <<tx, preserved, versions, outcome>>
      /\ worker \in Worker /\ worker # Idle /\ worker.op = op
      /\ worker.pc \in {"draft", "state", "final"}
  BY AtStep DEF WriteDraft, WriteState, FinalCheck, FilesStay, around, Pcs,
     Committing
<1>2. TxKept
  BY <1>1, SamePhases DEF IInv
<1>3. CASE Conflict
  BY <1>1, <1>3, Giving, Steady DEF FilesStay, files
<1>4. CASE GoTo("state") \/ GoTo("final") \/ GoTo("manifest")
  BY <1>1, <1>2, <1>4, TrustingStep, Steady DEF Trusting
<1> QED
  BY <1>3, <1>4 DEF WriteDraft, WriteState, FinalCheck

LEMMA RelyMake ==
  ASSUME NEW op \in Ops, NEW kind, NEW pick, Make(op, kind, pick)
  PROVE  Relies'
BY DEF Make, Relies, Holding, Trusting

LEMMA RelyResume ==
  ASSUME NEW op \in Ops, NEW goal, goal = op \/ goal = Opening,
         Serve(op, goal, "resume")
  PROVE  Relies'
BY NoneAssumption DEF Serve, Relies, Holding, Trusting, Opening

LEMMA AskingFiles ==
  ASSUME IInv, Files, NEW op \in Ops,
         \/ \E kind \in AllKinds,
              pick \in {None} \cup 1..MaxOrdinal \cup Ops :
                  Create(op, kind, pick)
         \/ Retry(op) \/ Query(op)
  PROVE  Files'
<1>1. /\ FilesStay /\ UNCHANGED <<tx, preserved, versions>>
      /\ worker = Idle
  BY DEF Create, Retry, Query, FilesStay, around
<1>2. Relies'
  BY <1>1, RelyMake, RelyResume, NotServing DEF Create, Retry, Query
<1> QED
  BY <1>1, <1>2, Steady

LEMMA ApartFiles ==
  ASSUME IInv, Files,
         Open \/ Fault \/ Crash \/ \E c \in Comments : SaveDraft(c)
  PROVE  Files'
<1>1. FilesStay /\ UNCHANGED <<tx, preserved, versions>>
  BY DEF Open, Fault, Crash, SaveDraft, FilesStay, around, files
<1>2. CASE Fault
  BY <1>1, <1>2, NotServing, Steady DEF Throw, Fault
<1>3. CASE worker' = Idle /\ UNCHANGED outcome
  BY <1>1, <1>3, NotServing, Steady
<1>4. CASE /\ \E op \in Pending : Serve(op, Opening, "resume")
           /\ UNCHANGED outcome
  BY <1>1, <1>4, RelyResume, Steady DEF Pending
<1> QED
  BY <1>2, <1>3, <1>4 DEF Open, Crash, SaveDraft

-----------------------------------------------------------------------------
(* The steps that write a record, a preserved draft or the manifest.        *)
LEMMA ReadEvidenceFiles ==
  ASSUME IInv, Files, NEW op \in Ops, ReadEvidence(op)
  PROVE  Files'
<1>1. /\ FilesStay /\ UNCHANGED <<preserved, versions>>
      /\ worker \in Worker /\ worker # Idle /\ worker.op = op
      /\ worker.pc = "read"
  BY AtStep DEF ReadEvidence, FilesStay, around, Pcs, Preparing
<1>2. CASE Throw /\ UNCHANGED tx
  BY <1>1, <1>2, NotServing, Steady DEF Throw
<1>3. CASE tx' = [tx EXCEPT ![op] = NothingNew] /\ Return(op, "unchanged")
  <2>1. tx[op] = None
    BY <1>1 DEF IInv, Protocol, Served, Preparing
  <2>2. /\ \A p \in Ops \ {op} : tx'[p] = tx[p]
        /\ tx'[op] = NothingNew
    BY <1>3 DEF IInv, Typed
  <2>3. None \notin Transaction /\ NothingNew \notin Transaction
    BY NoneAssumption DEF Transaction, NothingNew
  <2>4. TxKept /\ Pending' \subseteq Pending
    BY <2>1, <2>2, <2>3 DEF TxKept, Pending, NothingNew
  <2>5. Preserving'
    BY <1>1, <2>2, <2>3, <2>4, PreservingSame
  <2>6. SetAside'
    BY <1>1, <2>4, SetAsideStays
  <2> QED
    BY <1>1, <1>3, <2>4, <2>5, <2>6, ReturnKeeps, Inside
<1>4. CASE /\ worker' = [worker EXCEPT !.pc = "prepare",
                           !.seen = [object |-> source,
                                     html |-> heap[source]]]
           /\ UNCHANGED <<tx, outcome>>
  <2>1. /\ worker'.pc = "prepare" /\ worker'.op = op
        /\ worker'.goal = worker.goal
    BY <1>1, <1>4 DEF Worker
  <2>2. Relies'
    BY <1>1, <2>1 DEF Files, Relies, Holding, Trusting, FilesStay, files
  <2> QED
    BY <1>1, <1>4, <2>2, Steady
<1> QED
  BY <1>2, <1>3, <1>4 DEF ReadEvidence

(* A record that exists goes to another phase.                              *)
LEMMA PhaseFiles ==
  ASSUME IInv, Files, NEW op \in Ops, FilesStay,
         UNCHANGED <<preserved, versions>>, tx[op] # None,
         tx[op].phase # "unchanged",
         NEW phase \in {"source-written", "completed", "aborting", "aborted"},
         tx' = [tx EXCEPT ![op].phase = phase],
         phase \in {"completed", "aborted"} \/ op \in Pending, Relies'
  PROVE  Files'
<1>1. /\ TxKept /\ Pending' \subseteq Pending
      /\ \A p \in Ops : tx'[p] \in Transaction => tx[p] \in Transaction
  BY OtherPhase DEF IInv
<1>2. Preserving'
  BY <1>1, PreservingSame
<1>3. SetAside'
  BY <1>1, SetAsideStays
<1> QED
  BY <1>1, <1>2, <1>3, Inside

LEMMA MarkWrittenFiles ==
  ASSUME IInv, Files, NEW op \in Ops, MarkWritten(op)
  PROVE  Files'
<1>1. /\ FilesStay /\ UNCHANGED <<preserved, versions, outcome>>
      /\ worker \in Worker /\ worker # Idle /\ worker.op = op
      /\ worker.pc = "mark" /\ tx[op] \in Transaction /\ op \in Pending
  BY AtStep DEF MarkWritten, FilesStay, around, Pcs, Committing
<1>2. CASE Conflict /\ UNCHANGED tx
  BY <1>1, <1>2, Giving, Steady DEF FilesStay, files
<1>3. CASE /\ tx' = [tx EXCEPT ![op].phase = "source-written"]
           /\ GoTo("draft")
  <2>1. tx[op] # None /\ tx[op].phase # "unchanged"
    BY <1>1, NoneAssumption DEF Transaction
  <2>2. TxKept
    BY <1>3, <2>1, OtherPhase DEF IInv
  <2>3. Relies'
    BY <1>1, <1>3, <2>2, TrustingStep DEF Trusting
  <2> QED
    BY <1>1, <1>3, <2>1, <2>3, PhaseFiles
<1> QED
  BY <1>2, <1>3 DEF MarkWritten

LEMMA AbortFiles ==
  ASSUME IInv, Files, NEW op \in Ops, BeginAbort(op) \/ EndAbort(op)
  PROVE  Files'
<1>1. /\ FilesStay /\ UNCHANGED <<preserved, versions>>
      /\ worker \in Worker /\ worker # Idle /\ worker.op = op
  BY AtStep DEF BeginAbort, EndAbort, FilesStay, around, Pcs, Undoing
<1>2. op \in Pending
  BY BeginAbortStep, EndAbortStep
<1>3. tx[op] # None /\ tx[op].phase # "unchanged"
  BY <1>2 DEF Pending
<1>4. CASE BeginAbort(op)
  <2>1. Relies'
    BY <1>1, <1>4, GoingOn, CarelessRelies
       DEF BeginAbort, FilesStay, files, Careless, Pcs, Undoing
  <2> QED
    BY <1>1, <1>2, <1>3, <1>4, <2>1, PhaseFiles DEF BeginAbort
<1>5. CASE EndAbort(op)
  <2>1. Relies'
    BY <1>1, <1>5, NotServing, ReturnKeeps DEF Throw, EndAbort
  <2> QED
    BY <1>1, <1>2, <1>3, <1>5, <2>1, PhaseFiles DEF EndAbort
<1> QED
  BY <1>4, <1>5

LEMMA CompleteFiles ==
  ASSUME IInv, Files, NEW op \in Ops, Complete(op)
  PROVE  Files'
<1>1. /\ FilesStay /\ UNCHANGED <<preserved, versions>>
      /\ worker \in Worker /\ worker # Idle /\ worker.op = op
      /\ worker.pc = "complete"
  BY AtStep DEF Complete, FilesStay, around, Pcs
<1>2. tx[op] # None /\ tx[op].phase # "unchanged"
  BY <1>1 DEF IInv, Protocol, Served, In
<1>3. Relies'
  BY <1>1, ReturnKeeps DEF Complete
<1> QED
  BY <1>1, <1>2, <1>3, PhaseFiles DEF Complete

LEMMA ResumeFiles ==
  ASSUME IInv, Files, NEW op \in Ops, Resume(op)
  PROVE  Files'
<1>1. /\ FilesStay /\ UNCHANGED <<preserved, versions>>
      /\ worker \in Worker /\ worker # Idle /\ worker.op = op
      /\ worker.pc = "resume"
  BY AtStep DEF Resume, FilesStay, around, Pcs
<1>2. CASE UNCHANGED tx /\ \E result \in {"not-created", "unchanged"} :
                               Return(op, result)
  BY <1>1, <1>2, ReturnKeeps, Steady
<1>3. CASE /\ GoTo("aborting") \/ GoTo("snapshot")
           /\ UNCHANGED <<tx, outcome>>
  <2>1. Relies'
    BY <1>1, <1>3, GoingOn, CarelessRelies
       DEF FilesStay, files, Careless, Pcs, Undoing, Committing
  <2> QED
    BY <1>1, <1>3, <2>1, Steady
<1>4. CASE /\ tx[op].phase \notin {"aborted", "unchanged", "aborting"}
           /\ tx' = [tx EXCEPT ![op].phase = "completed"]
           /\ Return(op, "created")
  <2>1. tx[op] # None
    BY <1>1 DEF IInv, Protocol, Served
  <2>2. Relies'
    BY <1>1, <1>4, ReturnKeeps
  <2> QED
    BY <1>1, <1>4, <2>1, <2>2, PhaseFiles
<1> QED
  BY <1>2, <1>3, <1>4 DEF Resume

LEMMA WriteManifestFiles ==
  ASSUME IInv, Files, NEW op \in Ops, WriteManifest(op)
  PROVE  Files'
<1>1. /\ FilesStay /\ UNCHANGED <<tx, preserved, outcome>>
      /\ worker \in Worker /\ worker # Idle /\ worker.op = op
      /\ worker.pc = "manifest" /\ op \in Pending
      /\ GoTo("complete")
  BY AtStep DEF WriteManifest, FilesStay, around, Pcs, Committing
<1>2. TxKept /\ Pending' = Pending
  BY <1>1, SamePhases DEF IInv
<1>3. Relies'
  BY <1>1, GoingOn, CarelessRelies DEF FilesStay, files, Careless, Pcs
<1>4. Preserving'
  BY <1>1, <1>2, PreservingSame
<1>5. SetAside'
  <2>1. Intact(op)' /\ \A p \in Ops : Intact(p) => Intact(p)'
    BY <1>1, <1>2, IntactStays DEF Files, Relies, Trusting
  <2>2. \A p \in Ops : Committed(p)' => Committed(p) \/ p = op
    BY DEF WriteManifest, Committed, Latest, IInv, Typed
  <2>3. Pending' \ {op} = {}
    BY <1>1, <1>2 DEF IInv, Protocol, OnePending
  <2> QED
    BY <1>1, <1>2, <2>1, <2>2, <2>3 DEF Files, SetAside, FilesStay, files
<1> QED
  BY <1>1, <1>2, <1>3, <1>4, <1>5, Inside

LEMMA RecordPreparedFiles ==
  ASSUME IInv, Files, NEW op \in Ops, RecordPrepared(op)
  PROVE  Files'
<1>1. /\ FilesStay /\ UNCHANGED <<preserved, versions, outcome>>
      /\ worker \in Worker /\ worker # Idle /\ worker.op = op
      /\ worker.pc = "record" /\ GoTo("resume")
  BY AtStep DEF RecordPrepared, FilesStay, around, Pcs, Preparing
<1>2. tx[op] = None /\ None \notin Transaction
  BY <1>1, NoneAssumption DEF IInv, Protocol, Served, Preparing
<1>3. /\ \A p \in Ops \ {op} : tx'[p] = tx[p]
      /\ tx'[op].kind = worker.kind
      /\ tx'[op].expected = worker.seen.html
      /\ worker.kind = "local-save" => tx'[op].after = worker.seen.html
  BY DEF RecordPrepared, IInv, Typed
<1>4. TxKept
  BY <1>2, <1>3 DEF TxKept
<1>5. Preserving'
  <2>1. worker.kind # "local-save" =>
            preserved[op] # None /\ preserved[op].html = worker.seen.html
    BY <1>1 DEF Files, Relies, IInv, Protocol, Served
  <2> QED
    BY <1>1, <1>3, <2>1 DEF Files, Preserving
<1>6. SetAside'
  <2>1. dir[op].after = None /\ dir[op].parked = None
    BY <1>2, LinksBegin
  <2>2. \A q \in Pending' : q \in Pending \/ q = op
    BY <1>3 DEF Pending
  <2> QED
    BY <1>1, <1>4, <2>1, <2>2, SetAsideStays
<1>7. Relies'
  BY <1>1, GoingOn, CarelessRelies DEF FilesStay, files, Careless, Pcs
<1> QED
  BY <1>1, <1>4, <1>5, <1>6, <1>7, Inside

LEMMA PrepareFiles ==
  ASSUME IInv, Files, NEW op \in Ops, Prepare(op)
  PROVE  Files'
<1>1. /\ UNCHANGED <<heap, source, tx, versions, foreign>>
      /\ worker \in Worker /\ worker # Idle /\ worker.op = op
      /\ worker.pc = "prepare"
  BY AtStep DEF Prepare, around, Pcs, Preparing
<1>2. tx[op] = None /\ None \notin Transaction
  BY <1>1, NoneAssumption DEF IInv, Protocol, Served, Preparing
<1>3. \A p \in Ops \ {op} : preserved'[p] = preserved[p]
  BY Preparations DEF IInv, Typed
<1>4. Preserving'
  BY <1>1, <1>2, <1>3 DEF Files, Preserving
<1>5. CASE Throw /\ UNCHANGED dir
  <2>1. ForeignKept' /\ NewFiles'
    BY <1>1, <1>5 DEF Files, ForeignKept, Linked, NewFiles
  <2>2. SetAside' /\ Relies'
    BY <1>1, <1>5, NotServing
       DEF Files, SetAside, Intact, Committed, Latest, Pending, Throw
  <2> QED
    BY <1>1, <1>4, <2>1, <2>2 DEF Files
<1>6. CASE /\ dir' = [dir EXCEPT ![op].before = BoundTo(op)]
           /\ Throw \/ GoTo("record")
           /\ \/ Throw \/ worker.kind = "local-save"
              \/ preserved' = [preserved EXCEPT ![op] = KeptDraft]
  <2>1. /\ \A p \in Ops \ {op} : dir'[p] = dir[p]
        /\ dir'[op] = [dir[op] EXCEPT !.before = BoundTo(op)]
        /\ dir'[op].before = BoundTo(op)
        /\ \A p \in Ops : /\ dir'[p].after = dir[p].after
                           /\ dir'[p].parked = dir[p].parked
    BY <1>6 DEF IInv, Typed, FilesTyped
  <2>2. ForeignKept'
    <3>1. ASSUME NEW o \in 1..Len(heap), Linked(o)
          PROVE  Linked(o)'
      <4>1. PICK p \in Ops :
                o \in {dir[p].before, dir[p].after, dir[p].parked}
        BY <3>1 DEF Linked
      <4>2. o # None
        BY LinksKnown
      <4>3. o \in {dir[p].before, dir[p].after, dir[p].parked}'
        BY <2>1, <4>1, <4>2 DEF BoundTo
      <4> QED
        BY <4>3 DEF Linked
    <3> QED
      BY <1>1, <3>1, ForeignStays, LinksKnown DEF Files
  <2>3. NewFiles'
    BY <1>1, <2>1 DEF Files, NewFiles
  <2>4. SetAside'
    BY <1>1, <2>1
       DEF Files, SetAside, Intact, Committed, Latest, Pending
  <2>5. Relies'
    <3>1. CASE Throw
      BY <3>1, NotServing DEF Throw
    <3>2. CASE GoTo("record")
      <4>1. /\ worker'.pc = "record" /\ worker'.op = op
            /\ worker'.kind = worker.kind /\ worker'.seen = worker.seen
        BY <1>1, <3>2, GoingOn DEF Pcs, Preparing
      <4>2. ~Throw
        BY <3>2, <4>1, Busy DEF Throw, GoTo, Idle
      <4>3. worker.kind # "local-save" =>
                preserved'[op].html = worker.seen.html
        BY <1>6, <4>2 DEF KeptDraft, IInv, Typed
      <4> QED
        BY <4>1, <4>3 DEF Relies, Holding, Trusting
    <3> QED
      BY <1>6, <3>1, <3>2
  <2> QED
    BY <1>1, <1>4, <2>2, <2>3, <2>4, <2>5 DEF Files
<1> QED
  BY <1>5, <1>6, Preparations

-----------------------------------------------------------------------------
(* The steps that move the files.  The transaction in progress gives the    *)
(* name to its new file.                                                    *)
LEMMA Named ==
  ASSUME IInv, Files, NEW op \in Pending, ~Committed(op),
         dir[op].parked # None, source = None, source' = dir[op].after,
         UNCHANGED <<heap, dir, tx, preserved, versions, outcome, foreign>>,
         Relies'
  PROVE  Files'
<1>1. op \in Ops /\ dir[op].after \notin {None, dir[op].parked}
  BY DEF Pending, Files, NewFiles
<1>2. ForeignKept'
  BY ForeignStays, LinksKnown DEF Files, Linked
<1>3. Preserving'
  BY DEF Files, Preserving
<1>4. NewFiles'
  BY <1>1 DEF Files, NewFiles
<1>5. SetAside'
  BY <1>1 DEF Files, SetAside, Intact, Committed, Latest, Pending
<1> QED
  BY <1>2, <1>3, <1>4, <1>5 DEF Files

LEMMA InspectFiles ==
  ASSUME IInv, Files, NEW op \in Ops, Inspect(op)
  PROVE  Files'
<1>1. /\ UNCHANGED <<heap, dir, tx, preserved, versions, outcome, foreign>>
      /\ worker \in Worker /\ worker # Idle /\ worker.op = op
      /\ worker.pc = "inspect" /\ tx[op] \in Transaction
      /\ op \in Pending /\ ~Committed(op)
  BY AtStep DEF Inspect, around, Pcs, Committing
<1>2. CASE CanRelink(op) /\ source' = dir[op].after /\ UNCHANGED worker
  <2>1. Relies'
    BY <1>1, <1>2, CarelessRelies DEF Careless
  <2> QED
    BY <1>1, <1>2, <2>1, Named DEF CanRelink
<1>3. CASE Conflict /\ UNCHANGED source
  BY <1>1, <1>3, Giving, Steady DEF FilesStay, files
<1>4. CASE /\ ParkedIntact(op) /\ (IsBefore(op) \/ IsAfter(op))
           /\ worker' = [worker EXCEPT !.cur = source,
                           !.pc = IF heap[source] = tx[op].after THEN "mark"
                                  ELSE "bind"]
           /\ UNCHANGED source
  <2>1. /\ worker'.op = op /\ worker'.goal = worker.goal
        /\ worker'.pc = IF heap[source] = tx[op].after THEN "mark" ELSE "bind"
    BY <1>1, <1>4 DEF Worker
  <2>2. worker'.pc = "bind" => tx[op].expected # tx[op].after
    BY <1>4, <2>1 DEF IsBefore, IsAfter
  <2>3. heap[source] = tx[op].after => Intact(op)
    BY <1>4 DEF ParkedIntact, Intact, Files, NewFiles
  <2>4. Intact(op)' <=> Intact(op)
    BY <1>1, <1>4 DEF Intact
  <2>5. Relies'
    BY <1>1, <1>4, <2>1, <2>2, <2>3, <2>4
       DEF Files, Relies, Holding, Trusting
  <2> QED
    BY <1>1, <1>4, <2>5, Steady DEF FilesStay, files
<1> QED
  BY <1>2, <1>3, <1>4 DEF Inspect

LEMMA BindFiles ==
  ASSUME IInv, Files, NEW op \in Ops, Bind(op)
  PROVE  Files'
<1>1. /\ UNCHANGED <<source, tx, preserved, versions, foreign>>
      /\ worker \in Worker /\ worker # Idle /\ worker.op = op
      /\ worker.pc = "bind" /\ tx[op] \in Transaction
      /\ op \in Pending /\ ~Committed(op)
  BY AtStep DEF Bind, around, Pcs, Committing
<1>2. CASE Throw /\ UNCHANGED <<heap, dir>>
  BY <1>1, <1>2, NotServing, Steady DEF Throw, FilesStay, files
<1>3. CASE /\ dir[op].after = None /\ heap' = Append(heap, tx[op].after)
           /\ dir' = [dir EXCEPT ![op].after = Len(heap')]
           /\ GoTo("check") /\ UNCHANGED outcome
  <2>1. /\ Len(heap') = Len(heap) + 1
        /\ \A o \in 1..Len(heap) : heap'[o] = heap[o]
    BY <1>1, <1>3 DEF IInv, Typed, FilesTyped, Transaction
  <2>2. dir[op].parked = None
    BY <1>3 DEF Files, NewFiles
  <2>3. /\ \A p \in Ops \ {op} : dir'[p] = dir[p]
        /\ dir'[op].after = Len(heap) + 1 /\ dir'[op].parked = None
        /\ dir'[op].before = dir[op].before
    BY <1>3, <2>1, <2>2 DEF IInv, Typed, FilesTyped
  <2>4. ForeignKept'
    <3>1. \A o \in 1..Len(heap) : Linked(o) => Linked(o)'
      BY <1>3, <2>2, <2>3, LinksKnown DEF Linked
    <3> QED
      BY <1>1, <2>1, <3>1, ForeignStays, LinksKnown DEF Files
  <2>6. NewFiles'
    <3>1. tx[op].expected # tx[op].after
      BY <1>1 DEF Files, Relies
    <3> QED
      BY <1>1, <2>1, <2>3, <3>1, LinksKnown DEF Files, NewFiles, Link
  <2>7. Preserving'
    BY <1>1 DEF Files, Preserving
  <2>8. SetAside'
    <3>1. \A p \in Ops : Committed(p)' = Committed(p)
      BY <1>1 DEF Committed, Latest
    <3> QED
      BY <1>1, <2>1, <2>3, <3>1, LinksKnown
         DEF Files, SetAside, Intact, Pending, Link
  <2>9. Relies'
    <3>1. /\ worker'.pc = "check" /\ worker'.op = op
          /\ worker'.goal = worker.goal
      BY <1>1, <1>3, GoingOn DEF Pcs, Committing
    <3> QED
      BY <2>3, <3>1, LinksKnown DEF Relies, Trusting
  <2> QED
    BY <1>1, <2>4, <2>6, <2>7, <2>8, <2>9 DEF Files
<1> QED
  BY <1>2, <1>3 DEF Bind

LEMMA DisplaceFiles ==
  ASSUME IInv, Files, NEW op \in Ops, Displace(op)
  PROVE  Files'
<1>1. /\ UNCHANGED <<heap, tx, preserved, versions, foreign>>
      /\ worker \in Worker /\ worker # Idle /\ worker.op = op
      /\ worker.pc = "displace" /\ tx[op] \in Transaction
      /\ op \in Pending /\ ~Committed(op)
  BY AtStep DEF Displace, around, Pcs, Committing
<1>2. CASE Throw /\ UNCHANGED <<source, dir>>
  BY <1>1, <1>2, NotServing, Steady DEF Throw, FilesStay, files
<1>3. CASE Conflict /\ UNCHANGED <<source, dir, outcome>>
  BY <1>1, <1>3, Giving, Steady DEF FilesStay, files
<1>4. CASE /\ dir[op].parked = None /\ source # None
           /\ dir' = [dir EXCEPT ![op].parked = source] /\ source' = None
           /\ GoTo("parked") /\ UNCHANGED outcome
  <2>1. /\ \A p \in Ops \ {op} : dir'[p] = dir[p]
        /\ dir'[op].after = dir[op].after /\ dir'[op].parked = source
        /\ dir'[op].before = dir[op].before
    BY <1>4 DEF IInv, Typed, FilesTyped
  <2>2. dir[op].after # None /\ dir[op].after # source
    BY <1>1, <1>4 DEF Files, Relies, Holding, NewFiles
  <2>3. ForeignKept'
    <3>1. \A o \in 1..Len(heap) : source = o \/ Linked(o) => Linked(o)'
      BY <1>4, <2>1, LinksKnown DEF Linked
    <3> QED
      BY <1>1, <3>1, ForeignStays, LinksKnown DEF Files
  <2>5. NewFiles'
    BY <1>1, <1>4, <2>1, <2>2 DEF Files, NewFiles
  <2>6. Preserving'
    BY <1>1 DEF Files, Preserving
  <2>7. SetAside'
    <3>1. \A p \in Ops : Committed(p)' = Committed(p)
      BY <1>1 DEF Committed, Latest
    <3> QED
      BY <1>1, <1>4, <2>1, <3>1 DEF Files, SetAside, Intact, Pending
  <2>8. Relies'
    <3>1. /\ worker'.pc = "parked" /\ worker'.op = op
          /\ worker'.goal = worker.goal
      BY <1>1, <1>4, GoingOn DEF Pcs, Committing
    <3> QED
      BY <1>4, <2>1, <2>2, <3>1 DEF Relies, Trusting
  <2> QED
    BY <1>1, <2>3, <2>5, <2>6, <2>7, <2>8 DEF Files
<1> QED
  BY <1>2, <1>3, <1>4 DEF Displace

LEMMA VerifyParkedFiles ==
  ASSUME IInv, Files, NEW op \in Ops, VerifyParked(op)
  PROVE  Files'
<1>1. /\ UNCHANGED <<heap, dir, tx, preserved, versions, outcome, foreign>>
      /\ worker \in Worker /\ worker # Idle /\ worker.op = op
      /\ worker.pc = "parked" /\ tx[op] \in Transaction
      /\ op \in Pending /\ ~Committed(op)
  BY AtStep DEF VerifyParked, around, Pcs, Committing
<1>2. dir[op].parked # None /\ source # dir[op].parked /\ dir[op].after # None
  BY <1>1 DEF Files, Relies, Holding
<1>3. CASE GoTo("publish") /\ UNCHANGED source
  <2>1. /\ worker'.pc = "publish" /\ worker'.op = op
        /\ worker'.goal = worker.goal
    BY <1>1, <1>3, GoingOn DEF Pcs, Committing
  <2>2. Relies'
    BY <1>1, <1>2, <1>3, <2>1 DEF Files, Relies, Holding, Trusting
  <2> QED
    BY <1>1, <1>3, <2>2, Steady DEF FilesStay, files
<1>4. CASE Conflict /\ UNCHANGED source
  BY <1>1, <1>4, Giving, Steady DEF FilesStay, files
<1>5. CASE Conflict /\ source = None /\ source' = dir[op].parked
  <2>1. Relies'
    BY <1>1, <1>5, Giving
  <2>2. ForeignKept'
    BY <1>1, <1>5, ForeignStays, LinksKnown DEF Files, Linked
  <2>3. Preserving'
    BY <1>1 DEF Files, Preserving
  <2>4. NewFiles'
    BY <1>1, <1>5 DEF Files, NewFiles
  <2>5. SetAside'
    BY <1>1, <1>5 DEF Files, SetAside, Intact, Committed, Latest, Pending
  <2> QED
    BY <1>1, <2>1, <2>2, <2>3, <2>4, <2>5 DEF Files
<1> QED
  BY <1>3, <1>4, <1>5 DEF VerifyParked

LEMMA PublishFiles ==
  ASSUME IInv, Files, NEW op \in Ops, Publish(op)
  PROVE  Files'
<1>1. /\ UNCHANGED <<heap, dir, tx, preserved, versions, outcome, foreign>>
      /\ worker \in Worker /\ worker # Idle /\ worker.op = op
      /\ worker.pc = "publish" /\ op \in Pending /\ ~Committed(op)
  BY AtStep DEF Publish, around, Pcs, Committing
<1>2. /\ dir[op].parked # None /\ source # dir[op].parked
      /\ dir[op].after \notin {None, dir[op].parked}
  BY <1>1 DEF Files, Relies, NewFiles
<1>3. CASE Conflict /\ UNCHANGED source
  BY <1>1, <1>3, Giving, Steady DEF FilesStay, files
<1>4. CASE source = None /\ source' = dir[op].after /\ GoTo("confirm")
  <2>1. /\ worker'.pc = "confirm" /\ worker'.op = op
        /\ worker'.goal = worker.goal
    BY <1>1, <1>4, GoingOn DEF Pcs, Committing
  <2>2. Relies'
    BY <1>1, <1>2, <1>4, <2>1 DEF Files, Relies, Trusting
  <2> QED
    BY <1>1, <1>2, <1>4, <2>2, Named
<1> QED
  BY <1>3, <1>4 DEF Publish

-----------------------------------------------------------------------------
LEMMA InitFiles == Init => Files
<1> SUFFICES ASSUME Init PROVE Files
    OBVIOUS
<1>1. \A op \in Ops : /\ tx[op] = None /\ ~Committed(op)
                      /\ dir[op].after = None /\ dir[op].parked = None
  BY NoneAssumption DEF Init, Committed, Latest
<1>2. foreign \in [Objects -> Content \cup {None}] /\ ForeignKept
  BY DEF Init, ForeignKept
<1> QED
  BY <1>1, <1>2, NoneAssumption
     DEF Init, Files, NewFiles, Preserving, SetAside, Relies

LEMMA NextFiles == IInv /\ Files /\ [Next]_vars => Files'
<1> SUFFICES ASSUME IInv, Files, [Next]_vars PROVE Files'
    OBVIOUS
<1>1. CASE UNCHANGED vars
  <2>1. worker = Idle => Relies'
    BY <1>1, NotServing DEF vars
  <2>2. worker # Idle => Relies'
    BY <1>1 DEF vars, Files, Relies, Intact
  <2> QED
    BY <1>1, <2>1, <2>2, Steady DEF vars, FilesStay, files
<1>2. CASE Work
  BY <1>2, ReadEvidenceFiles, PrepareFiles, RecordPreparedFiles, ResumeFiles,
     CarelessFiles, InspectFiles, BindFiles, CheckFiles, DisplaceFiles,
     VerifyParkedFiles, PublishFiles, ConfirmFiles, MarkWrittenFiles,
     TrustingFiles, WriteManifestFiles, CompleteFiles, AbortFiles DEF Work
<1> QED
  BY <1>1, <1>2, AskingFiles, ApartFiles, SaveHtmlFiles,
     ForeignFiles DEF Next

(* What another program wrote to the visible file outlives every Version    *)
(* that is made, refused or resumed (compareAndSwapWorkingCopyFile,         *)
(* preserveCurrentVersionSource): its bytes are untouched and the file is   *)
(* under its name or kept by a transaction, and no Version was created by   *)
(* moving it away unless its bytes were preserved.                          *)
THEOREM OthersSurvive == Spec => []ForeignWritesSurvive
BY InitFiles, NextFiles, FilesSurvive, Invariance, PTL DEF Spec

-----------------------------------------------------------------------------
(***************************************************************************)
(* Types.  There are at most as many file objects as saves, foreign writes *)
(* and transactions that made a new file; and one Version more than there  *)
(* are operations that made one, since no operation makes two.             *)
(***************************************************************************)
Count == [saves : 0..MaxSaves, edits : 0..MaxEdits, faults : 0..MaxFaults,
          crashes : 0..MaxCrashes]
Makers == {op \in Ops : dir[op].after # None}
Authors == {op \in Ops : Committed(op)}

Counted ==
    /\ count \in Count
    /\ Len(heap) >= 1
    /\ Len(heap) <= 1 + count.saves + count.edits + Cardinality(Makers)
    /\ Latest = 1 + Cardinality(Authors)
    /\ snap \in [1..MaxOrdinal -> Content \cup {None}]
    /\ open \in BOOLEAN

LEMMA Bounds ==
  /\ IsFiniteSet(Ops) /\ Cardinality(Ops) \in Nat
  /\ MaxSaves \in Nat /\ MaxEdits \in Nat
  /\ MaxFaults \in Nat /\ MaxCrashes \in Nat
BY VersionAssumption, FS_CardinalityType

LEMMA SubsetOfOps ==
  ASSUME NEW S \in SUBSET Ops
  PROVE  /\ IsFiniteSet(S) /\ Cardinality(S) \in 0..Cardinality(Ops)
         /\ \A op \in Ops \ S : Cardinality(S \cup {op}) = Cardinality(S) + 1
<1>1. /\ IsFiniteSet(S) /\ Cardinality(S) \in Nat
      /\ Cardinality(S) <= Cardinality(Ops)
  BY Bounds, FS_Subset, FS_CardinalityType
<1>2. \A op \in Ops \ S : Cardinality(S \cup {op}) = Cardinality(S) + 1
  BY <1>1, FS_AddElement
<1> QED
  BY <1>1, <1>2, Bounds

LEMMA CountedTypes == IInv /\ Repeatable /\ Counted => TypeOK
<1> SUFFICES ASSUME IInv, Repeatable, Counted PROVE TypeOK
    OBVIOUS
<1>1. Len(heap) \in Objects
  <2>1. Cardinality(Makers) \in 0..Cardinality(Ops)
    BY SubsetOfOps DEF Makers
  <2> QED
    BY <2>1, Bounds, LinksKnown DEF Counted, Count, Objects
<1>2. Latest \in 1..MaxOrdinal
  <2>1. Cardinality(Authors) \in 0..Cardinality(Ops)
    BY SubsetOfOps DEF Authors
  <2> QED
    BY <2>1, Bounds DEF Counted, MaxOrdinal
<1>3. \A op \in Ops : \A link \in {"before", "after", "parked"} :
          dir[op][link] \in 1..Len(heap) \cup {None}
  BY LinksKnown DEF Link
<1>4. \A v \in 1..Latest : versions[v].html \in Content
  <2>1. \A v \in 1..Latest : versions[v] \in Version
    BY DEF IInv, Typed, Latest
  <2> QED
    BY <2>1 DEF Version
<1> QED
  BY <1>1, <1>2, <1>3, <1>4
     DEF IInv, Typed, FilesTyped, Link, Repeatable, Counted, TypeOK

(* What is counted: only "what" goes up.                                    *)
LEMMA CountUp ==
  ASSUME count \in Count
  PROVE  /\ Counts("saves") /\ count.saves < MaxSaves =>
                count' \in Count /\ count'.saves = count.saves + 1
                                 /\ count'.edits = count.edits
         /\ Counts("edits") /\ count.edits < MaxEdits =>
                count' \in Count /\ count'.edits = count.edits + 1
                                 /\ count'.saves = count.saves
         /\ Counts("faults") /\ count.faults < MaxFaults =>
                count' \in Count /\ count'.edits = count.edits
                                 /\ count'.saves = count.saves
         /\ Counts("crashes") /\ count.crashes < MaxCrashes =>
                count' \in Count /\ count'.edits = count.edits
                                 /\ count'.saves = count.saves
BY Bounds DEF Counts, Count

(* Steps that make neither a file object nor a Version.                     *)
LEMMA CountedStays ==
  ASSUME Counted, count' \in Count, count'.saves = count.saves,
         count'.edits = count.edits, Len(heap') = Len(heap),
         UNCHANGED versions, Makers' = Makers,
         snap' \in [1..MaxOrdinal -> Content \cup {None}],
         open' \in BOOLEAN
  PROVE  Counted'
<1>1. Authors' = Authors
  BY DEF Authors, Committed, Latest
<1> QED
  BY <1>1 DEF Counted, Latest

LEMMA WriteManifestCounted ==
  ASSUME IInv, Counted, NEW op \in Ops, WriteManifest(op)
  PROVE  Counted'
<1>1. ~Committed(op)
  BY AtStep DEF WriteManifest, Pcs, Committing
<1>2. /\ versions' = Append(versions, [op |-> op, html |-> tx[op].html])
      /\ UNCHANGED <<heap, dir, count, snap, open>>
  BY DEF WriteManifest, files
<1>3. Latest' = Latest + 1 /\ Latest \in Nat
  BY <1>2 DEF Latest, IInv, Typed
<1>4. Authors' = Authors \cup {op}
  <2>1. \A p \in Ops : Committed(p)' <=> Committed(p) \/ p = op
    BY <1>2 DEF Committed, Latest, IInv, Typed
  <2> QED
    BY <2>1 DEF Authors
<1>5. Cardinality(Authors') = Cardinality(Authors) + 1
  BY <1>1, <1>4, SubsetOfOps DEF Authors
<1>6. Makers' = Makers
  BY <1>2 DEF Makers
<1>7. Cardinality(Authors) \in Nat
  BY SubsetOfOps DEF Authors
<1> QED
  BY <1>2, <1>3, <1>5, <1>6, <1>7 DEF Counted

LEMMA BindCounted ==
  ASSUME IInv, Counted, NEW op \in Ops, Bind(op)
  PROVE  Counted'
<1>1. UNCHANGED <<count, versions, snap>> /\ open' = open
  BY DEF Bind, Throw
<1>2. CASE UNCHANGED <<heap, dir>>
  BY <1>1, <1>2, CountedStays DEF Counted, Makers
<1>3. CASE /\ dir[op].after = None /\ heap' = Append(heap, tx[op].after)
           /\ dir' = [dir EXCEPT ![op].after = Len(heap')]
  <2>1. Len(heap') = Len(heap) + 1
    BY <1>3 DEF IInv, Typed, FilesTyped
  <2>2. /\ \A p \in Ops \ {op} : dir'[p] = dir[p]
        /\ dir'[op].after # None
    BY <1>3, <2>1, LinksKnown DEF IInv, Typed, FilesTyped
  <2>3. Makers' = Makers \cup {op} /\ op \notin Makers
    BY <1>3, <2>2 DEF Makers
  <2>4. /\ Cardinality(Makers') = Cardinality(Makers) + 1
        /\ Cardinality(Makers) \in Nat
    BY <2>3, SubsetOfOps DEF Makers
  <2>5. Authors' = Authors /\ Latest' = Latest
    BY <1>1 DEF Authors, Committed, Latest
  <2>6. count.saves \in Nat /\ count.edits \in Nat /\ Len(heap) \in Nat
    BY LinksKnown, Bounds DEF Counted, Count
  <2>7. Len(heap') <= 1 + count.saves + count.edits + Cardinality(Makers')
    BY <2>1, <2>4, <2>6 DEF Counted
  <2> QED
    BY <1>1, <2>1, <2>5, <2>6, <2>7 DEF Counted
<1> QED
  BY <1>2, <1>3 DEF Bind

LEMMA NewObjectCounted ==
  ASSUME IInv, Counted, UNCHANGED <<dir, versions, snap, open>>,
         Len(heap') = Len(heap) + 1, count' \in Count,
         \/ count'.saves = count.saves + 1 /\ count'.edits = count.edits
         \/ count'.saves = count.saves /\ count'.edits = count.edits + 1
  PROVE  Counted'
<1>1. Authors' = Authors /\ Latest' = Latest /\ Makers' = Makers
  BY DEF Authors, Committed, Latest, Makers
<1>2. Cardinality(Makers) \in Nat
  BY SubsetOfOps DEF Makers
<1>3. /\ count.saves \in Nat /\ count.edits \in Nat /\ Len(heap) \in Nat
      /\ count'.saves \in Nat /\ count'.edits \in Nat
  BY LinksKnown, Bounds DEF Counted, Count
<1>4. Len(heap) <= 1 + count.saves + count.edits + Cardinality(Makers)
  BY DEF Counted
<1>5. Cardinality(Makers') = Cardinality(Makers)
  BY <1>1
<1>6. Len(heap') <= 1 + count'.saves + count'.edits + Cardinality(Makers')
  <2> DEFINE a == count.saves  b == count.edits  c == Cardinality(Makers)
             x == count'.saves  y == count'.edits  m == Len(heap)
  <2>1. /\ a \in Nat /\ b \in Nat /\ c \in Nat /\ x \in Nat /\ y \in Nat
        /\ m \in Nat /\ m <= 1 + a + b + c
        /\ (x = a + 1 /\ y = b) \/ (x = a /\ y = b + 1)
    BY <1>2, <1>3, <1>4
  <2> HIDE DEF a, b, c, x, y, m
  <2>2. m + 1 <= 1 + x + y + c
    BY <2>1
  <2> QED
    BY <1>5, <2>2 DEF a, b, c, x, y, m
<1> QED
  BY <1>1, <1>3, <1>4, <1>6 DEF Counted

LEMMA OutsideCounted ==
  ASSUME IInv, Counted,
         \/ \E body \in Edited : SaveHtml(body)
         \/ \E body \in Foreign : WriteInPlace(body) \/ PutAnother(body)
         \/ TakeAway
  PROVE  Counted'
<1>1. UNCHANGED <<dir, versions, snap, open>> /\ count \in Count
  BY DEF SaveHtml, WriteInPlace, PutAnother, TakeAway, Counted
<1>2. ASSUME NEW body \in Edited, SaveHtml(body)
      PROVE  Counted'
  <2>1. /\ count' \in Count /\ count'.saves = count.saves + 1
        /\ count'.edits = count.edits
    BY <1>1, <1>2, CountUp DEF SaveHtml
  <2>2. Len(heap') = Len(heap) + 1
    BY <1>2 DEF SaveHtml, IInv, Typed, FilesTyped
  <2> QED
    BY <1>1, <2>1, <2>2, NewObjectCounted DEF Count
<1>3. ASSUME NEW body \in Foreign, PutAnother(body)
      PROVE  Counted'
  <2>1. /\ count' \in Count /\ count'.edits = count.edits + 1
        /\ count'.saves = count.saves
    BY <1>1, <1>3, CountUp DEF PutAnother
  <2>2. Len(heap') = Len(heap) + 1
    BY <1>3 DEF PutAnother, IInv, Typed, FilesTyped
  <2> QED
    BY <1>1, <2>1, <2>2, NewObjectCounted DEF Count
<1>4. CASE TakeAway \/ \E body \in Foreign : WriteInPlace(body)
  <2>1. /\ count' \in Count /\ count'.edits = count.edits + 1
        /\ count'.saves = count.saves
    BY <1>1, <1>4, CountUp DEF TakeAway, WriteInPlace
  <2>2. Len(heap') = Len(heap)
    BY <1>4 DEF TakeAway, WriteInPlace, IInv, Typed, FilesTyped
  <2>3. Authors' = Authors /\ Latest' = Latest /\ Makers' = Makers
    BY <1>1 DEF Authors, Committed, Latest, Makers
  <2>4. Cardinality(Makers) \in Nat
    BY SubsetOfOps DEF Makers
  <2>5. count.saves \in Nat /\ count.edits \in Nat /\ Len(heap) \in Nat
    BY <1>1, LinksKnown, Bounds DEF Count
  <2>6. Len(heap) <= 1 + count.saves + count.edits + Cardinality(Makers)
    BY DEF Counted
  <2>7. Cardinality(Makers') = Cardinality(Makers)
    BY <2>3
  <2>8. Len(heap') <= 1 + count'.saves + count'.edits + Cardinality(Makers')
    BY <2>1, <2>2, <2>4, <2>5, <2>6, <2>7
  <2> QED
    BY <1>1, <2>1, <2>2, <2>3, <2>8 DEF Counted
<1> QED
  BY <1>2, <1>3, <1>4

(* The steps of a request, but for the two above.                           *)
LEMMA WorkCounted ==
  ASSUME IInv, Counted, Work
  PROVE  Counted'
<1>1. PICK op \in Ops : Work!(op)
  BY DEF Work
<1>2. CASE Bind(op) \/ WriteManifest(op)
  BY <1>2, BindCounted, WriteManifestCounted
<1>3. CASE \/ WriteSnapshot(op) \/ RetainSnapshot(op)
  <2>1. UNCHANGED <<heap, dir, versions, count, open>>
    BY <1>3 DEF WriteSnapshot, RetainSnapshot, files, Throw
  <2>2. snap' \in [1..MaxOrdinal -> Content \cup {None}]
    <3>1. CASE WriteSnapshot(op)
      <4>1. tx[op].html \in Content
        BY <3>1, AtStep DEF WriteSnapshot, Pcs, Committing, Transaction
      <4> QED
        BY <3>1, <4>1 DEF WriteSnapshot, Counted
    <3>2. CASE RetainSnapshot(op)
      BY <3>2 DEF RetainSnapshot, Counted
    <3> QED
      BY <1>3, <3>1, <3>2
  <2> QED
    BY <2>1, <2>2, CountedStays DEF Counted, Makers
<1>4. CASE Prepare(op) \/ Displace(op)
  <2>1. UNCHANGED <<heap, versions, count, snap>> /\ open' = open
    BY <1>4 DEF Prepare, Displace, Throw
  <2>2. \A p \in Ops : dir'[p].after = dir[p].after
    <3>1. \/ dir' = dir \/ dir' = [dir EXCEPT ![op].before = BoundTo(op)]
          \/ dir' = [dir EXCEPT ![op].parked = source]
      BY <1>4, Preparations DEF Displace
    <3>2. dir \in [Ops -> [before : Link, after : Link, parked : Link]]
      BY DEF IInv, Typed, FilesTyped
    <3> QED
      BY <3>1, <3>2
  <2> QED
    BY <2>1, <2>2, CountedStays DEF Counted, Makers
<1>5. CASE \/ ReadEvidence(op) \/ RecordPrepared(op) \/ Resume(op)
           \/ Inspect(op) \/ Check(op) \/ VerifyParked(op) \/ Publish(op)
           \/ Confirm(op) \/ MarkWritten(op) \/ WriteDraft(op)
           \/ WriteState(op) \/ FinalCheck(op) \/ Complete(op)
           \/ BeginAbort(op) \/ RestoreDraft(op) \/ RestoreState(op)
           \/ EndAbort(op)
  <2>1. UNCHANGED <<heap, dir, versions, count, snap>>
    BY <1>5
       DEF ReadEvidence, RecordPrepared, Resume, Inspect, Check, VerifyParked,
           Publish, Confirm, MarkWritten, WriteDraft, WriteState, FinalCheck,
           Complete, BeginAbort, RestoreDraft, RestoreState, EndAbort, files
  <2>2. open' = open \/ \E result : Return(op, result)
    BY <1>5
       DEF ReadEvidence, RecordPrepared, Resume, Inspect, Check, VerifyParked,
           Publish, Confirm, MarkWritten, WriteDraft, WriteState, FinalCheck,
           Complete, BeginAbort, RestoreDraft, RestoreState, EndAbort, Throw
  <2>3. open' \in BOOLEAN
    BY <2>2 DEF Return, Counted
  <2> QED
    BY <2>1, <2>3, CountedStays DEF Counted, Makers
<1> QED
  BY <1>1, <1>2, <1>3, <1>4, <1>5

LEMMA InitCounted == Init => Counted
<1> SUFFICES ASSUME Init PROVE Counted
    OBVIOUS
<1>1. Makers = {} /\ Authors = {} /\ Cardinality({}) = 0
  BY NoneAssumption, FS_EmptySet
     DEF Init, Makers, Authors, Committed, Latest
<1>2. count \in Count /\ count.saves = 0 /\ count.edits = 0
  BY Bounds DEF Init, Count
<1>3. Len(heap) = 1 /\ Latest = 1
  BY DEF Init, Latest
<1>4. snap \in [1..MaxOrdinal -> Content \cup {None}]
  BY DEF Init, Imported, Content
<1>5. open \in BOOLEAN
  BY Zenon DEF Init
<1> QED
  BY <1>1, <1>2, <1>3, <1>4, <1>5 DEF Counted

LEMMA NextCounted == IInv /\ Counted /\ [Next]_vars => Counted'
<1> SUFFICES ASSUME IInv, Counted, [Next]_vars PROVE Counted'
    OBVIOUS
<1>1. CASE UNCHANGED vars
  BY <1>1, CountedStays DEF vars, Counted, Makers
<1>2. CASE Work
  BY <1>2, WorkCounted
<1>3. CASE Fault \/ Crash
  <2>1. /\ count' \in Count /\ count'.saves = count.saves
        /\ count'.edits = count.edits
    BY <1>3, CountUp DEF Fault, Crash, Counted
  <2>2. UNCHANGED <<heap, dir, versions, snap>>
    BY <1>3 DEF Fault, Crash, files
  <2>3. open' \in BOOLEAN
    <3>1. open' = open \/ open' = FALSE
      BY <1>3 DEF Fault, Crash, Throw
    <3> QED
      BY <3>1, Zenon DEF Counted
  <2> QED
    BY <2>1, <2>2, <2>3, CountedStays DEF Counted, Makers
<1>4. CASE \/ \E op \in Ops, kind \in AllKinds,
                pick \in {None} \cup 1..MaxOrdinal \cup Ops :
                  Create(op, kind, pick)
           \/ \E op \in Ops : Retry(op) \/ Query(op)
           \/ Open
           \/ \E c \in Comments : SaveDraft(c)
  <2>1. UNCHANGED <<heap, dir, versions, snap, count>>
    BY <1>4 DEF Create, Retry, Query, Open, SaveDraft, files
  <2>2. open' = open \/ open' = TRUE
    BY <1>4 DEF Create, Retry, Query, Open, SaveDraft
  <2>3. open' \in BOOLEAN
    BY <2>2, Zenon DEF Counted
  <2> QED
    BY <2>1, <2>3, CountedStays DEF Counted, Makers
<1> QED
  BY <1>1, <1>2, <1>3, <1>4, OutsideCounted DEF Next

(* Every variable has its type; object numbers and ordinals stay within     *)
(* what the bounds allow, so that no operation makes two files or two       *)
(* Versions.                                                                *)
THEOREM TypeCorrect == Spec => []TypeOK
BY InitCounted, NextCounted, CountedTypes, Invariance, PTL DEF Spec
=============================================================================
