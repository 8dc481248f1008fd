------------------------ MODULE SaveTransactionProofs ------------------------
(***************************************************************************)
(* Proofs about SaveTransaction, for any contents and any number of saves, *)
(* external writes, crashes and failing system calls.                      *)
(*                                                                         *)
(* WellFormed says what the program knows about its own files: types,      *)
(* saves that did not begin leave no trace, every file in use was created, *)
(* and what each step of an operation may rely on.  On top of it,          *)
(* MissingIsParked needs Visible (while an operation works on a published  *)
(* file, the file only disappears when somebody deletes it), and           *)
(* NothingVanishes needs OwedIsKept: what is owed is in the file, or in a  *)
(* recovery directory that is not about to be emptied and whose parked     *)
(* file was not given up by a published save.                              *)
(***************************************************************************)
EXTENDS SaveTransaction, TLAPS

(* A save that has not begun has left nothing behind.                       *)
Blank(n) == /\ tx[n].state = "none" /\ n \notin dir /\ n \notin published
            /\ prev[n] = NoFile /\ staged[n] = NoFile
LaterIsBlank == \A n \in Saves : n > saves => Blank(n)

(* Files that are referred to have been created.                            *)
FilesExist ==
    /\ source <= used
    /\ \A n \in Saves : prev[n] <= used /\ staged[n] <= used

(* Every file was created by a save, two at most, or by another program.    *)
Room ==
    /\ used <= 1 + 2 * saves + external
    /\ op.pc = "staging" => used + 2 <= 1 + 2 * saves + external
    /\ op.pc \in {"checking", "confirmingCheck", "parking", "inspecting",
                  "publishing"}
         => used + 1 <= 1 + 2 * saves + external

(* What the steps of an operation rely on.                                  *)
Unparked == {"staging", "checking", "confirmingCheck", "parking", "settling",
             "discarding"}
Finishing == {"readback", "binding", "recording", "confirming", "committing",
              "auditing", "verifying", "removing", "unlinking"}

OperationInv ==
    /\ op.pc \notin {"idle", "down", "scanning"} => N \in 1..saves
    /\ op.pc \in Unparked => prev[N] = NoFile /\ N \notin published
    /\ op.pc = "parking" => N \in dir /\ T.state = "prepared"
    /\ op.pc \in {"staging", "checking", "confirmingCheck"}
         => N \in dir /\ T.state = "prepared"
    /\ op.pc \in Finishing => N \in published \/ prev[N] = NoFile
    /\ op.pc = "restoring" => op.sha \in Bytes

WellFormed ==
    /\ TypeOK
    /\ LaterIsBlank
    /\ FilesExist
    /\ Room
    /\ OperationInv

(* The operation works on a file that has its name.                         *)
MayBeParked == {"idle", "down", "inspecting", "unparking", "publishing",
                "scanning", "republishing", "restoring"}
Visible == op.pc \notin MayBeParked => source # NoFile \/ deleted

(* The parked files that count, and what they hold.                         *)
GivenUp(n) == n \in published /\ bytes[prev[n]] = tx[n].expected
Doomed(n) == n = op.n /\ op.pc \in {"removing", "dropping"}
Keeps(n) == prev[n] # NoFile /\ ~GivenUp(n) /\ ~Doomed(n)

OwedIsKept ==
    \A x \in owed :
        \/ source # NoFile /\ bytes[source] = x
        \/ \E n \in Saves : Keeps(n) /\ bytes[prev[n]] = x

-----------------------------------------------------------------------------
(* How operations go on and end: GoTo moves on and keeps the rest.          *)
LEMMA GoToOp ==
  ASSUME op \in Operation, NEW pc \in Pcs, GoTo(pc)
  PROVE  /\ op' \in Operation
         /\ op'.pc = pc /\ op'.n = op.n /\ op'.sha = op.sha
         /\ op'.todo = op.todo
BY DEF GoTo, Operation

(* End leaves an idle operation.                                            *)
LEMMA EndOp ==
  ASSUME NEW outcome \in Results, End(outcome)
  PROVE  op' \in Operation /\ op'.pc = "idle" /\ result' \in Results
BY SaveAssumption DEF End, Idle, Operation, Pcs, Goals, NoFile, Absent

(* A step that only moves the operation on.                                 *)
LEMMA OnlyOp ==
  ASSUME WellFormed, UNCHANGED <<files, records, client, bounds, history>>,
         op' \in Operation, result' \in Results, OperationInv', Room'
  PROVE  WellFormed'
<1>1. TypeOK'
  BY DEF WellFormed, TypeOK, files, records, client, bounds, history
<1>2. LaterIsBlank' /\ FilesExist'
  BY DEF WellFormed, LaterIsBlank, Blank, FilesExist, files, records, client, history
<1>. QED
  BY <1>1, <1>2 DEF WellFormed

(* A read-back either goes on or ends the save; nothing on disk changes.    *)
LEMMA ReadsStep ==
  ASSUME WellFormed, NEW pc \in Finishing, NEW next \in Finishing,
         NEW ok \in BOOLEAN, Reads(pc, ok, next)
  PROVE  WellFormed'
<1>1. op \in Operation /\ op.pc = pc /\ UNCHANGED <<files, records, client, bounds, history>>
  BY DEF Reads, At, WellFormed, TypeOK
<1>2. CASE ok /\ GoTo(next) /\ UNCHANGED result
  <2>1. op' \in Operation /\ op'.pc = next /\ op'.n = op.n /\ result' \in Results
    BY <1>1, <1>2, GoToOp DEF Finishing, Pcs, SharedPcs, SavePcs, WellFormed, TypeOK
  <2>2. OperationInv' /\ Room'
    BY <1>1, <2>1 DEF WellFormed, OperationInv, Room, Finishing, Unparked, N, T, files, records, client, bounds, history
  <2>. QED
    BY <1>1, <2>1, <2>2, OnlyOp
<1>3. CASE ~ok /\ End("conflict")
  <2>1. op' \in Operation /\ op'.pc = "idle" /\ result' \in Results
    BY <1>3, EndOp DEF Results
  <2>2. OperationInv' /\ Room'
    BY <1>1, <2>1 DEF WellFormed, OperationInv, Room, Finishing, Unparked, client, bounds, files
  <2>. QED
    BY <1>1, <2>1, <2>2, OnlyOp
<1>. QED
  BY <1>2, <1>3 DEF Reads

-----------------------------------------------------------------------------
(* The steps of a save up to the point where the file is parked.            *)
LEMMA SaveOperation ==
  ASSUME NEW n \in 0..MaxSaves, NEW i \in Inode \cup {NoFile}, NEW b \in Bytes
  PROVE  [pc |-> "staging", goal |-> "save", n |-> n, seen |-> i,
          replay |-> FALSE, retire |-> FALSE, sha |-> b, todo |-> {}] \in Operation
<1>1. "staging" \in Pcs /\ "save" \in Goals
  BY DEF Pcs, SavePcs, Goals
<1>. QED
  BY <1>1 DEF Operation

(* BeginSave keeps everything in order: its record and directory are new.   *)
LEMMA BeginSaveStep ==
  ASSUME WellFormed, NEW b \in Bytes, BeginSave(b)
  PROVE  WellFormed'
<1>. USE SaveAssumption
<1>1. /\ op' \in Operation /\ op'.pc = "staging" /\ op'.n = saves + 1
      /\ saves + 1 \in Saves /\ saves \in Nat /\ saves' = saves + 1
  <2>1. saves + 1 \in Saves /\ saves \in Nat /\ saves' = saves + 1
    BY DEF BeginSave, WellFormed, TypeOK, Saves
  <2>2. op' = [pc |-> "staging", goal |-> "save", n |-> saves + 1,
               seen |-> source, replay |-> FALSE, retire |-> FALSE, sha |-> b,
               todo |-> {}]
    BY DEF BeginSave, Idle
  <2>3. source \in Inode \cup {NoFile}
    BY DEF WellFormed, TypeOK
  <2>4. saves + 1 \in 0..MaxSaves
    BY <2>1 DEF Saves
  <2>5. op' \in Operation
    BY <2>2, <2>3, <2>4, SaveOperation
  <2>. QED
    BY <2>1, <2>2, <2>5
<1>2. tx' \in [Saves -> TxRecord] /\ tx'[saves + 1].state = "prepared"
  BY <1>1 DEF BeginSave, WellFormed, TypeOK, TxRecord
<1>3. TypeOK'
  BY <1>1, <1>2 DEF BeginSave, WellFormed, TypeOK, bounds, history, Saves
<1>4. Blank(saves + 1)
  BY <1>1 DEF WellFormed, LaterIsBlank
<1>5. LaterIsBlank'
  BY <1>1 DEF BeginSave, WellFormed, LaterIsBlank, Blank, history, Saves, TypeOK
<1>6. FilesExist'
  BY DEF BeginSave, WellFormed, FilesExist
<1>8. Room'
  <2>1. used \in Int /\ external \in Int
    BY DEF WellFormed, TypeOK, Inode
  <2>. QED
    BY <1>1, <2>1 DEF BeginSave, WellFormed, Room, bounds
<1>7. OperationInv'
  BY <1>1, <1>2, <1>4 DEF BeginSave, OperationInv, N, T, Blank, Unparked, Finishing, history
<1>. QED
  BY <1>3, <1>5, <1>6, <1>7, <1>8 DEF WellFormed

(* Stage allocates one file, for which there is room.                       *)
LEMMA StageStep ==
  ASSUME WellFormed, Stage
  PROVE  WellFormed'
<1>. USE SaveAssumption DEF Stage
<1>1. /\ op \in Operation /\ op.pc = "staging" /\ op.n \in 1..saves
      /\ op.n \in Saves /\ T.target \in Bytes /\ saves \in Nat
  BY DEF At, WellFormed, TypeOK, OperationInv, N, T, Saves, TxRecord
<1>2. op' \in Operation /\ op'.pc = "checking" /\ op'.n = op.n
  BY <1>1, GoToOp DEF Pcs, SavePcs
<1>3. /\ used \in Nat /\ used' = used + 1 /\ used + 1 \in Inode
      /\ used + 2 <= 1 + 2 * saves + external
  BY <1>1 DEF WellFormed, TypeOK, Room, Inode, Create
<1>4. TypeOK'
  BY <1>1, <1>2, <1>3 DEF WellFormed, TypeOK, Create, records, client, bounds, history, N
<1>5. LaterIsBlank'
  BY <1>1 DEF WellFormed, LaterIsBlank, Blank, Create, records, client, history, N, TypeOK, Saves
<1>6. FilesExist'
  <2>1. source \in Int /\ \A n \in Saves : prev[n] \in Int /\ staged[n] \in Int
    BY DEF WellFormed, TypeOK, Inode, NoFile
  <2>. QED
    BY <1>1, <1>3, <2>1 DEF WellFormed, TypeOK, FilesExist, N
<1>8. Room'
  BY <1>2, <1>3 DEF WellFormed, TypeOK, Room, client, bounds
<1>7. OperationInv'
  BY <1>1, <1>2 DEF WellFormed, OperationInv, N, T, Unparked, Finishing, records, history, client
<1>. QED
  BY <1>4, <1>5, <1>6, <1>7, <1>8 DEF WellFormed

(* A refused save goes on to bind a replay or to settle its record.         *)
LEMMA NotSwappedStep ==
  ASSUME WellFormed, NotSwapped(Content(source)), UNCHANGED result,
         op.pc \in {"checking", "confirmingCheck"},
         UNCHANGED <<files, records, client, bounds, history>>
  PROVE  WellFormed'
<1>1. Content(source) \in Bytes \cup {Absent}
  BY DEF Content, WellFormed, TypeOK, NoFile
<1>2. /\ op' \in Operation /\ op'.pc \in {"binding", "settling"}
      /\ op'.n = op.n /\ result' \in Results
  <2>1. op \in Operation /\ result \in Results
    BY DEF WellFormed, TypeOK
  <2>2. {"binding", "settling"} \subseteq Pcs
    BY DEF Pcs, SavePcs, SharedPcs
  <2>3. \/ op' = [op EXCEPT !.pc = "binding", !.replay = TRUE]
        \/ op' = [op EXCEPT !.pc = "settling", !.sha = Content(source)]
    BY DEF NotSwapped
  <2>. QED
    BY ZenonT(60), <1>1, <2>1, <2>2, <2>3 DEF Operation
<1>3. OperationInv' /\ Room'
  BY <1>2 DEF WellFormed, OperationInv, Room, Unparked, Finishing, N, T, files, records, client, bounds, history
<1>. QED
  BY <1>2, <1>3, OnlyOp

(* The two checks before the file is parked.                                *)
LEMMA CheckStep ==
  ASSUME WellFormed, Check \/ CheckAgain
  PROVE  WellFormed'
<1>1. /\ UNCHANGED <<files, records, client, bounds, history>>
      /\ op \in Operation /\ op.pc \in {"checking", "confirmingCheck"}
      /\ result \in Results
  BY DEF Check, CheckAgain, At, WellFormed, TypeOK
<1>2. CASE NotSwapped(Content(source)) /\ UNCHANGED result
  BY <1>1, <1>2, NotSwappedStep
<1>3. CASE \E r \in {"conflict", "failed"} : End(r)
  <2>1. op' \in Operation /\ op'.pc = "idle" /\ result' \in Results
    BY <1>3, EndOp DEF Results
  <2>2. OperationInv' /\ Room'
    BY <1>1, <2>1 DEF WellFormed, OperationInv, Room, Finishing, Unparked, client, bounds, files
  <2>. QED
    BY <1>1, <2>1, <2>2, OnlyOp
<1>4. CASE /\ \E pc \in {"confirmingCheck", "parking"} : GoTo(pc)
           /\ UNCHANGED result
  <2>1. /\ op' \in Operation /\ op'.pc \in {"confirmingCheck", "parking"}
        /\ op'.n = op.n /\ result' \in Results
    BY <1>1, <1>4, GoToOp DEF Pcs, SavePcs
  <2>2. OperationInv' /\ Room'
    BY <1>1, <2>1 DEF WellFormed, OperationInv, Room, Finishing, Unparked, N, T, files, records, client, bounds, history
  <2>. QED
    BY <1>1, <2>1, <2>2, OnlyOp
<1>. QED
  BY <1>2, <1>3, <1>4 DEF Check, CheckAgain

(* Settle closes the record of a refused save.                              *)
LEMMA SettleStep ==
  ASSUME WellFormed, Settle
  PROVE  WellFormed'
<1>. USE DEF Settle
<1>1. op \in Operation /\ op.pc = "settling" /\ op.n \in 1..saves /\ op.n \in Saves
  BY SaveAssumption DEF At, WellFormed, TypeOK, OperationInv, N, Saves
<1>2. op' \in Operation /\ op'.pc = "discarding" /\ op'.n = op.n
  BY <1>1, GoToOp DEF Pcs, SavePcs
<1>3. tx' \in [Saves -> TxRecord]
  BY DEF WellFormed, TypeOK, TxRecord
<1>4. TypeOK'
  BY <1>2, <1>3 DEF WellFormed, TypeOK, files, client, bounds, history
<1>5. LaterIsBlank' /\ FilesExist'
  BY <1>1 DEF WellFormed, LaterIsBlank, Blank, FilesExist, files, client, history, N, TypeOK, Saves
<1>6. Room' /\ OperationInv'
  BY <1>1, <1>2 DEF WellFormed, Room, OperationInv, N, T, Unparked, Finishing, files, client, bounds, history
<1>. QED
  BY <1>4, <1>5, <1>6 DEF WellFormed

(* Emptying a recovery directory, at the end of a refused or a landed save. *)
LEMMA EmptyDirectoryStep ==
  ASSUME WellFormed, op.n \in 1..saves,
         EmptyDirectory \/ UNCHANGED files,
         UNCHANGED <<records, client, history, external, crashes>>,
         faults' \in 0..MaxFaults,
         op' \in Operation, result' \in Results,
         op'.n = op.n,
         op'.pc \in {"refusing", "unlinking", "scanning"},
         op'.pc = "unlinking" => op.pc \in Finishing
  PROVE  WellFormed'
<1>1. op.n \in Saves /\ saves \in Nat
  BY SaveAssumption DEF WellFormed, TypeOK, Saves
<1>2. /\ prev' \in [Saves -> Inode \cup {NoFile}]
      /\ staged' \in [Saves -> Inode \cup {NoFile}]
      /\ dir' \subseteq Saves
      /\ UNCHANGED <<source, bytes, used>>
  BY <1>1 DEF EmptyDirectory, WellFormed, TypeOK, files, N
<1>3. TypeOK'
  BY <1>2 DEF WellFormed, TypeOK, records, client, history
<1>4. \A n \in Saves : /\ prev'[n] \in {prev[n], NoFile}
                       /\ staged'[n] \in {staged[n], NoFile}
                       /\ n \in dir' => n \in dir
  BY <1>1 DEF EmptyDirectory, WellFormed, TypeOK, files, N
<1>5. LaterIsBlank'
  BY <1>4 DEF WellFormed, LaterIsBlank, Blank, records, client, history
<1>6. FilesExist'
  BY <1>2, <1>4 DEF WellFormed, FilesExist, TypeOK, Inode, NoFile
<1>7. Room'
  BY <1>2 DEF WellFormed, Room, client
<1>8. OperationInv'
  BY <1>1, <1>4 DEF WellFormed, OperationInv, N, T, Unparked, Finishing, client, history
<1>. QED
  BY <1>3, <1>5, <1>6, <1>7, <1>8 DEF WellFormed

(* Discard empties the directory or keeps it when that fails.               *)
LEMMA DiscardStep ==
  ASSUME WellFormed, Discard
  PROVE  WellFormed'
<1>1. op \in Operation /\ op.pc = "discarding" /\ op.n \in 1..saves /\ result \in Results
  BY DEF Discard, At, WellFormed, TypeOK, OperationInv, N
<1>2. op' \in Operation /\ op'.pc = "refusing" /\ op'.n = op.n
  BY <1>1, GoToOp DEF Discard, Pcs, SavePcs
<1>3. faults' \in 0..MaxFaults
  BY SaveAssumption DEF Discard, WellFormed, TypeOK
<1>. QED
  BY <1>1, <1>2, <1>3, EmptyDirectoryStep DEF Discard

(* Refuse adopts what it finds or reports a conflict.                       *)
LEMMA RefuseStep ==
  ASSUME WellFormed, Refuse
  PROVE  WellFormed'
<1>. USE DEF Refuse
<1>1. op \in Operation /\ op.pc = "refusing" /\ result \in Results
  BY DEF At, WellFormed, TypeOK
<1>2. /\ op' \in Operation /\ result' \in Results
      /\ op'.pc \in {"scanning", "idle"}
      /\ recorded' \in StateRecord
  <2>1. CASE source # NoFile /\ UNCHANGED result
             /\ recorded' = [recorded EXCEPT !.sha = bytes[source]]
             /\ op' = [op EXCEPT !.pc = "scanning", !.goal = "reply",
                                !.sha = bytes[source], !.todo = Saves]
    <3>1. bytes[source] \in Bytes
      BY <2>1 DEF WellFormed, TypeOK
    <3>2. "scanning" \in Pcs /\ "reply" \in Goals
      BY DEF Pcs, RecoveryPcs, Goals
    <3>. QED
      BY <1>1, <2>1, <3>1, <3>2 DEF Operation, StateRecord, WellFormed, TypeOK
  <2>2. CASE UNCHANGED recorded /\ \E r \in {"failed", "conflict"} : End(r)
    BY <2>2, EndOp DEF Results, WellFormed, TypeOK
  <2>. QED
    BY <2>1, <2>2
<1>3. TypeOK'
  BY <1>2 DEF WellFormed, TypeOK, files, client, bounds, history
<1>4. LaterIsBlank' /\ FilesExist'
  BY DEF WellFormed, LaterIsBlank, Blank, FilesExist, files, client, history
<1>5. Room' /\ OperationInv'
  BY <1>2 DEF WellFormed, Room, OperationInv, Unparked, Finishing, files, client, bounds
<1>. QED
  BY <1>3, <1>4, <1>5 DEF WellFormed

-----------------------------------------------------------------------------
(* Parking and publication.                                                 *)
(* Park moves the file into the recovery directory of its save.             *)
LEMMA ParkStep ==
  ASSUME WellFormed, Park
  PROVE  WellFormed'
<1>. USE DEF Park
<1>1. op \in Operation /\ op.pc = "parking" /\ op.n \in 1..saves /\ op.n \in Saves /\ result \in Results
  BY SaveAssumption DEF At, WellFormed, TypeOK, OperationInv, N, Saves
<1>2. CASE source = NoFile /\ End("failed") /\ UNCHANGED <<files, deleted>>
  <2>1. op' \in Operation /\ op'.pc = "idle" /\ result' \in Results
    BY <1>2, EndOp DEF Results
  <2>2. OperationInv' /\ Room'
    BY <1>2, <2>1 DEF WellFormed, OperationInv, Room, Finishing, Unparked, client, bounds, files
  <2>. QED
    BY <1>2, <2>1, <2>2, OnlyOp DEF history
<1>3. CASE source # NoFile /\ GoTo("inspecting")
           /\ prev' = [prev EXCEPT ![N] = source] /\ source' = NoFile
           /\ deleted' = FALSE /\ UNCHANGED <<bytes, used, staged, dir, result>>
  <2>1. op' \in Operation /\ op'.pc = "inspecting" /\ op'.n = op.n
    BY <1>1, <1>3, GoToOp DEF Pcs, SavePcs
  <2>2. TypeOK'
    BY <1>1, <1>3, <2>1 DEF WellFormed, TypeOK, records, client, bounds, N
  <2>3. \A n \in Saves : prev'[n] = IF n = op.n THEN source ELSE prev[n]
    BY <1>3 DEF WellFormed, TypeOK, N
  <2>4. LaterIsBlank'
    BY <1>1, <1>3, <2>3 DEF WellFormed, LaterIsBlank, Blank, records, client, TypeOK, Saves
  <2>5. FilesExist'
    BY <1>3, <2>3 DEF WellFormed, FilesExist, TypeOK, Inode, NoFile
  <2>6. Room' /\ OperationInv'
    BY <1>1, <1>3, <2>1 DEF WellFormed, Room, OperationInv, Unparked, Finishing, client, bounds, N
  <2>. QED
    BY <2>2, <2>4, <2>5, <2>6 DEF WellFormed
<1>. QED
  BY <1>2, <1>3

(* Inspect only decides where the save goes on.                             *)
LEMMA InspectStep ==
  ASSUME WellFormed, Inspect
  PROVE  WellFormed'
<1>1. op \in Operation /\ op.pc = "inspecting" /\ result \in Results
  BY DEF Inspect, At, WellFormed, TypeOK
<1>2. PICK pc \in {"publishing", "unparking"} : GoTo(pc)
  BY DEF Inspect
<1>3. op' \in Operation /\ op'.pc \in {"publishing", "unparking"} /\ op'.n = op.n
  BY <1>1, <1>2, GoToOp DEF Pcs, SavePcs
<1>4. OperationInv' /\ Room'
  BY <1>1, <1>3 DEF Inspect, WellFormed, Room, OperationInv, Unparked, Finishing, files, client, bounds, N
<1>. QED
  BY <1>1, <1>3, <1>4, OnlyOp DEF Inspect

(* Giving the name to a file that exists.                                   *)
LEMMA NameStep ==
  ASSUME WellFormed, source' \in Inode \cup {NoFile}, source' <= used,
         UNCHANGED <<bytes, used, prev, staged, dir, records, client, bounds>>,
         op' \in Operation, result' \in Results,
         op'.pc \in {"idle", "dropping"} \/ (op'.pc = "binding" /\ op'.n \in published'),
         op'.pc # "idle" => op'.n \in 1..saves,
         owed' \subseteq Bytes, deleted' \in BOOLEAN,
         published \subseteq published', published' \subseteq published \cup 1..saves
  PROVE  WellFormed'
<1>1. TypeOK'
  <2>1. published' \subseteq Saves
    BY SaveAssumption DEF WellFormed, TypeOK, Saves
  <2>. QED
    BY <2>1 DEF WellFormed, TypeOK, records, client, bounds
<1>2. LaterIsBlank'
  BY SaveAssumption DEF WellFormed, TypeOK, LaterIsBlank, Blank, records, client, Saves
<1>3. FilesExist'
  BY DEF WellFormed, FilesExist
<1>4. Room' /\ OperationInv'
  BY DEF WellFormed, Room, OperationInv, N, T, Unparked, Finishing, client, bounds
<1>. QED
  BY <1>1, <1>2, <1>3, <1>4 DEF WellFormed

(* Unpark gives the parked file its name back if the name is free.          *)
LEMMA UnparkStep ==
  ASSUME WellFormed, Unpark
  PROVE  WellFormed'
<1>1. op' \in Operation /\ op'.pc = "idle" /\ result' \in Results
  BY EndOp DEF Unpark, Results
<1>2. op.n \in Saves
  BY SaveAssumption DEF Unpark, At, WellFormed, TypeOK, OperationInv, N, Saves
<1>3. source' \in Inode \cup {NoFile} /\ source' <= used
  BY <1>2 DEF Unpark, WellFormed, TypeOK, FilesExist, N
<1>. QED
  BY <1>1, <1>3, NameStep DEF Unpark, history, WellFormed, TypeOK

(* An operation that ends, with everything on disk as it is.                *)
LEMMA EndStep ==
  ASSUME WellFormed, NEW outcome \in Results, End(outcome),
         UNCHANGED <<files, records, client, bounds, history>>
  PROVE  WellFormed'
<1>1. op' \in Operation /\ op'.pc = "idle" /\ result' \in Results
  BY EndOp
<1>2. OperationInv' /\ Room'
  BY <1>1 DEF WellFormed, OperationInv, Room, Finishing, Unparked, client, bounds, files
<1>. QED
  BY <1>1, <1>2, OnlyOp

(* Publish creates the new file under a free name, for which there is room. *)
LEMMA PublishStep ==
  ASSUME WellFormed, Publish
  PROVE  WellFormed'
<1>1. CASE Occupied
  BY <1>1, EndStep DEF Publish, GivesUpNothing, Results, history
<1>2. CASE ~Occupied
  <2>. USE <1>2 DEF Publish
  <2>1. /\ op \in Operation /\ op.pc = "publishing" /\ op.n \in 1..saves
        /\ op.n \in Saves /\ result \in Results /\ T.target \in Bytes
    BY SaveAssumption DEF At, WellFormed, TypeOK, OperationInv, N, T, Saves, TxRecord
  <2>2. op' \in Operation /\ op'.pc = "readback" /\ op'.n = op.n
    BY <2>1, GoToOp DEF Pcs, SavePcs
  <2>3. /\ used \in Nat /\ used' = used + 1 /\ used + 1 \in Inode
        /\ used + 1 <= 1 + 2 * saves + external /\ source' = used + 1
    BY <2>1, SaveAssumption DEF WellFormed, TypeOK, Room, Inode, Create
  <2>4. /\ owed' \subseteq Bytes /\ published' \subseteq Saves
        /\ published' = published \cup {op.n}
    BY <2>1 DEF Takes, WellFormed, TypeOK, N
  <2>5. TypeOK'
    BY <2>1, <2>2, <2>3, <2>4 DEF WellFormed, TypeOK, Create, records, client, bounds
  <2>6. LaterIsBlank'
    BY <2>1, <2>4, SaveAssumption DEF WellFormed, LaterIsBlank, Blank, records, client, TypeOK, Saves
  <2>7. FilesExist'
    <3>1. \A n \in Saves : prev[n] \in Int /\ staged[n] \in Int
      BY DEF WellFormed, TypeOK, Inode, NoFile
    <3>. QED
      BY <2>3, <3>1 DEF WellFormed, FilesExist
  <2>8. Room'
    BY <2>2, <2>3 DEF WellFormed, Room, client, bounds
  <2>9. OperationInv'
    BY <2>1, <2>2, <2>4 DEF OperationInv, N, Unparked, Finishing, client
  <2>. QED
    BY <2>5, <2>6, <2>7, <2>8, <2>9 DEF WellFormed
<1>. QED
  BY <1>1, <1>2

-----------------------------------------------------------------------------
(* From the published file to the end of the save.                          *)
(* ReadBack, Bind, Confirm, Audit and Verify are read-backs.                *)
LEMMA ReadBackStep ==
  ASSUME WellFormed, ReadBack \/ Bind \/ Confirm \/ Audit \/ Verify
  PROVE  WellFormed'
<1>1. {"readback", "binding", "recording", "confirming", "committing",
       "auditing", "verifying", "removing"} \subseteq Finishing
  BY DEF Finishing
<1>2. CASE ReadBack
  BY <1>1, <1>2, ReadsStep DEF ReadBack, SourceIs, PreviousIs
<1>3. CASE Bind
  BY <1>1, <1>3, ReadsStep DEF Bind, SourceIs
<1>4. CASE Confirm
  <2>1. op.replay \in BOOLEAN
    BY DEF WellFormed, TypeOK, Operation
  <2>. QED
    BY <1>1, <1>4, <2>1, ReadsStep DEF Confirm, SourceIs, PreviousIs
<1>5. CASE Audit
  <2>1. op.replay \in BOOLEAN
    BY DEF WellFormed, TypeOK, Operation
  <2>. QED
    BY <1>1, <1>5, <2>1, ReadsStep DEF Audit, PreviousIs
<1>6. CASE Verify
  BY <1>1, <1>6, ReadsStep DEF Verify, Verified
<1>. QED
  BY <1>2, <1>3, <1>4, <1>5, <1>6

(* Writing records while the files stay as they are.                        *)
LEMMA RecordsStep ==
  ASSUME WellFormed, UNCHANGED <<files, client, bounds, history>>,
         tx' \in [Saves -> TxRecord], recorded' \in StateRecord,
         \A n \in Saves : n > saves => tx'[n] = tx[n],
         op' \in Operation, result' \in Results, op'.n \in 1..saves,
         \/ op'.pc \in {"scanning", "idle"}
         \/ op'.pc \in Finishing /\ (op'.n \in published \/ prev[op'.n] = NoFile)
  PROVE  WellFormed'
<1>1. TypeOK'
  BY DEF WellFormed, TypeOK, files, client, bounds, history
<1>2. LaterIsBlank' /\ FilesExist'
  BY DEF WellFormed, LaterIsBlank, Blank, FilesExist, files, client, history
<1>3. Room' /\ OperationInv'
  BY DEF WellFormed, Room, OperationInv, N, T, Unparked, Finishing, files, client, bounds, history
<1>. QED
  BY <1>1, <1>2, <1>3 DEF WellFormed

(* Record never lets the revision exceed the saves begun.                   *)
LEMMA RecordStep ==
  ASSUME WellFormed, Record
  PROVE  WellFormed'
<1>. USE DEF Record
<1>1. /\ op \in Operation /\ op.pc = "recording" /\ op.n \in 1..saves
      /\ op.n \in 0..MaxSaves /\ op.n \in Saves /\ result \in Results
      /\ op.n \in published \/ prev[op.n] = NoFile
  BY SaveAssumption DEF At, WellFormed, TypeOK, OperationInv, N, Saves, Finishing
<1>2. PICK pc \in {"confirming", "committing"} : GoTo(pc)
  OBVIOUS
<1>3. op' \in Operation /\ op'.pc \in Finishing /\ op'.n = op.n
  BY <1>1, <1>2, GoToOp DEF Pcs, SharedPcs, Finishing
<1>4. T.target \in Bytes
  BY <1>1 DEF WellFormed, TypeOK, TxRecord, T, N
<1>5. recorded' \in StateRecord
  BY <1>1, <1>4 DEF StateRecord, WellFormed, TypeOK, N
<1>6. tx' \in [Saves -> TxRecord]
  BY DEF WellFormed, TypeOK
<1>. QED
  BY <1>1, <1>3, <1>5, <1>6, RecordsStep

(* Commit changes one record and goes on.                                   *)
LEMMA CommitStep ==
  ASSUME WellFormed, Commit
  PROVE  WellFormed'
<1>. USE DEF Commit
<1>1. /\ op \in Operation /\ op.pc = "committing" /\ op.n \in 1..saves
      /\ op.n \in Saves /\ result \in Results /\ saves \in Nat
      /\ op.n \in published \/ prev[op.n] = NoFile
  BY SaveAssumption DEF At, WellFormed, TypeOK, OperationInv, N, Saves, Finishing
<1>2. AfterCommit \in {"auditing", "verifying", "scanning"} /\ AfterCommit \in Pcs
  BY DEF AfterCommit, Pcs, SavePcs, SharedPcs, RecoveryPcs
<1>3. /\ op' \in Operation /\ op'.pc = AfterCommit /\ op'.n = op.n
  BY <1>1, <1>2 DEF Operation
<1>4. tx' \in [Saves -> TxRecord] /\ \A n \in Saves : n # op.n => tx'[n] = tx[n]
  BY DEF WellFormed, TypeOK, TxRecord, N
<1>5. recorded' \in StateRecord
  BY DEF WellFormed, TypeOK
<1>6. op'.pc \in {"scanning", "idle"} \/ op'.pc \in Finishing
  BY <1>2, <1>3 DEF Finishing
<1>7. \A n \in Saves : n > saves => n # op.n
  BY <1>1 DEF Saves
<1>. QED
  BY <1>1, <1>3, <1>4, <1>5, <1>6, <1>7, RecordsStep

(* After the retirement the operation scans once more.                      *)
LEMMA RetiredOp ==
  ASSUME op \in Operation, Retired
  PROVE  op' \in Operation /\ op'.pc = "scanning" /\ op'.n = op.n
<1>1. "scanning" \in Pcs /\ "reply" \in Goals
  BY DEF Pcs, RecoveryPcs, Goals
<1>. QED
  BY <1>1 DEF Retired, Operation

(* Remove empties a directory or keeps it when that fails.                  *)
LEMMA RemoveStep ==
  ASSUME WellFormed, Remove
  PROVE  WellFormed'
<1>1. op \in Operation /\ op.pc = "removing" /\ op.n \in 1..saves /\ result \in Results
  BY DEF Remove, At, WellFormed, TypeOK, OperationInv, N
<1>2. /\ op' \in Operation /\ op'.pc \in {"unlinking", "scanning"} /\ op'.n = op.n
  BY <1>1, GoToOp, RetiredOp DEF Remove, Pcs, SharedPcs
<1>3. faults' \in 0..MaxFaults
  BY SaveAssumption DEF Remove, WellFormed, TypeOK
<1>. QED
  BY <1>1, <1>2, <1>3, EmptyDirectoryStep DEF Remove, Finishing

(* UnlinkRecord removes one record.                                         *)
LEMMA UnlinkRecordStep ==
  ASSUME WellFormed, UnlinkRecord
  PROVE  WellFormed'
<1>. USE DEF UnlinkRecord
<1>1. CASE ~Verified
  BY <1>1, EndStep DEF Results, records
<1>2. CASE Verified
  <2>1. /\ op \in Operation /\ op.n \in 1..saves /\ op.n \in Saves
        /\ saves \in Nat /\ result \in Results
    BY SaveAssumption DEF At, WellFormed, TypeOK, OperationInv, N, Saves
  <2>2. tx' \in [Saves -> TxRecord] /\ \A n \in Saves : n # op.n => tx'[n] = tx[n]
    BY <1>2 DEF WellFormed, TypeOK, TxRecord, N
  <2>3. \A n \in Saves : n > saves => n # op.n
    BY <2>1 DEF Saves
  <2>4. recorded' \in StateRecord
    BY DEF WellFormed, TypeOK
  <2>. QED
    BY <1>2, <2>1, <2>2, <2>3, <2>4, RetiredOp, RecordsStep
<1>. QED
  BY <1>1, <1>2

-----------------------------------------------------------------------------
(* Recovery.                                                                *)
(* StartRecovery begins an operation that scans every save.                 *)
LEMMA StartRecoveryStep ==
  ASSUME WellFormed, NEW goal \in {"start", "open"}, StartRecovery(goal)
  PROVE  WellFormed'
<1>. USE DEF StartRecovery
<1>1. op' = [pc |-> "scanning", goal |-> goal, n |-> 0, seen |-> NoFile,
             replay |-> FALSE, retire |-> FALSE, sha |-> Absent, todo |-> Saves]
  BY DEF Idle
<1>2. "scanning" \in Pcs /\ goal \in Goals /\ 0 \in 0..MaxSaves
  BY SaveAssumption DEF Pcs, RecoveryPcs, Goals
<1>3. [pc |-> "scanning", goal |-> goal, n |-> 0, seen |-> NoFile,
       replay |-> FALSE, retire |-> FALSE, sha |-> Absent, todo |-> Saves]
         \in Operation
  BY <1>2 DEF Operation
<1>4. op' \in Operation
  BY <1>1, <1>3
<1>5. OperationInv' /\ Room'
  BY <1>1 DEF WellFormed, OperationInv, Room, Unparked, Finishing, files, client, bounds
<1>. QED
  BY <1>4, <1>5, OnlyOp DEF WellFormed, TypeOK

(* What Examine decides; the files stay as they are.                        *)
LEMMA DecideStep ==
  ASSUME WellFormed, UNCHANGED <<files, recorded, client, bounds, deleted>>,
         tx' \in [Saves -> TxRecord],
         \A n \in Saves : n > saves => tx'[n] = tx[n],
         op' \in Operation, result' \in Results,
         op'.pc # "idle" /\ op'.pc # "scanning" => op'.n \in 1..saves,
         \/ op'.pc \in {"idle", "scanning", "republishing"}
         \/ op'.pc = "restoring" /\ op'.sha \in Bytes
         \/ op'.pc = "binding" /\ op'.n \in published',
         owed' \subseteq owed, published \subseteq published',
         published' \subseteq published \cup 1..saves
  PROVE  WellFormed'
<1>1. published' \subseteq Saves
  BY SaveAssumption DEF WellFormed, TypeOK, Saves
<1>2. TypeOK'
  BY <1>1 DEF WellFormed, TypeOK, files, client, bounds
<1>3. LaterIsBlank' /\ FilesExist'
  BY SaveAssumption DEF WellFormed, TypeOK, LaterIsBlank, Blank, FilesExist, files, client, Saves
<1>4. Room' /\ OperationInv'
  BY DEF WellFormed, Room, OperationInv, N, T, Unparked, Finishing, files, client, bounds
<1>. QED
  BY <1>2, <1>3, <1>4 DEF WellFormed

(* Take hands a transaction to the steps that publish it.                   *)
LEMMA TakeOp ==
  ASSUME op \in Operation, NEW n \in Saves, NEW pc \in Pcs, NEW retire \in BOOLEAN,
         Take(n, pc, retire)
  PROVE  op' \in Operation /\ op'.pc = pc /\ op'.n = n
<1>1. n \in 0..MaxSaves
  BY SaveAssumption DEF Saves
<1>. QED
  BY <1>1 DEF Take, Operation

(* A record that is closed keeps its other fields.                          *)
LEMMA MarkedTx ==
  ASSUME WellFormed, NEW n \in Saves, n <= saves,
         NEW s \in {"committed", "conflict"},
         tx' = [tx EXCEPT ![n].state = s, ![n].marked = TRUE]
  PROVE  /\ tx' \in [Saves -> TxRecord]
         /\ \A m \in Saves : m > saves => tx'[m] = tx[m]
<1>1. tx' \in [Saves -> TxRecord] /\ \A m \in Saves : m # n => tx'[m] = tx[m]
  BY ZenonT(60) DEF WellFormed, TypeOK, TxRecord
<1>2. \A m \in Saves : m > saves => m # n
  BY DEF WellFormed, TypeOK, Saves
<1>. QED
  BY <1>1, <1>2

(* Examine decides one transaction; the files stay as they are.             *)
LEMMA ExamineStep ==
  ASSUME WellFormed, NEW n \in Saves, Examine(n)
  PROVE  WellFormed'
<1>. USE DEF Examine
<1>1. /\ op \in Operation /\ result \in Results /\ tx \in [Saves -> TxRecord]
      /\ saves \in Nat
  BY DEF WellFormed, TypeOK
<1>2. n <= saves /\ n \in 1..saves
  BY <1>1, SaveAssumption DEF Pending, NeedsRecovery, WellFormed, LaterIsBlank, Blank, Saves
<1>3. CASE UNCHANGED tx /\ GivesUpNothing /\ End("recoveryConflict")
  BY <1>3, EndStep DEF Results, history, records, GivesUpNothing
<1>4. CASE FoundPublished(n)
  <2>1. CASE /\ tx' = [tx EXCEPT ![n].state = "conflict", ![n].marked = TRUE]
             /\ End("recoveryConflict") /\ GivesUpNothing
    <3>1. op' \in Operation /\ op'.pc = "idle" /\ result' \in Results
      BY <2>1, EndOp DEF Results
    <3>2. tx' \in [Saves -> TxRecord] /\ \A m \in Saves : m > saves => tx'[m] = tx[m]
      BY <1>2, <2>1, MarkedTx
    <3>. QED
      BY <2>1, <3>1, <3>2, DecideStep DEF GivesUpNothing
  <2>2. CASE Take(n, "binding", ~tx[n].marked) /\ Takes(n) /\ UNCHANGED <<tx, result>>
    <3>1. "binding" \in Pcs /\ (~tx[n].marked) \in BOOLEAN
      BY DEF Pcs, SharedPcs
    <3>2. op' \in Operation /\ op'.pc = "binding" /\ op'.n = n
      BY <1>1, <2>2, <3>1, TakeOp
    <3>. QED
      BY <1>1, <1>2, <2>2, <3>2, DecideStep DEF Takes
  <2>. QED
    BY <1>4, <2>1, <2>2 DEF FoundPublished
<1>5. CASE FoundParked(n)
  <2>1. CASE Take(n, "republishing", FALSE)
    <3>1. "republishing" \in Pcs
      BY DEF Pcs, RecoveryPcs
    <3>2. op' \in Operation /\ op'.pc = "republishing" /\ op'.n = n
      BY <1>1, <2>1, <3>1, TakeOp
    <3>. QED
      BY <1>1, <1>2, <1>5, <3>2, DecideStep DEF FoundParked, GivesUpNothing
  <2>2. CASE Parked(n) /\ op' = [op EXCEPT !.pc = "restoring", !.n = n,
                                         !.sha = bytes[prev[n]]]
    <3>1. "restoring" \in Pcs /\ n \in 0..MaxSaves /\ bytes[prev[n]] \in Bytes
      BY <2>2, SaveAssumption DEF Pcs, RecoveryPcs, Saves, Parked, WellFormed, TypeOK
    <3>2. /\ op' \in Operation /\ op'.pc = "restoring" /\ op'.n = n
          /\ op'.sha \in Bytes
      BY <1>1, <2>2, <3>1 DEF Operation
    <3>. QED
      BY <1>1, <1>2, <1>5, <3>2, DecideStep DEF FoundParked, GivesUpNothing
  <2>. QED
    BY <1>5, <2>1, <2>2 DEF FoundParked
<1>6. CASE FoundUnchanged(n)
  <2>1. tx' \in [Saves -> TxRecord] /\ \A m \in Saves : m > saves => tx'[m] = tx[m]
    BY <1>2, <1>6, MarkedTx DEF FoundUnchanged
  <2>2. op' \in Operation /\ op'.pc = "scanning"
    BY <1>1, <1>6 DEF FoundUnchanged, At, Operation
  <2>. QED
    BY <1>1, <1>6, <2>1, <2>2, DecideStep DEF FoundUnchanged, GivesUpNothing
<1>. QED
  BY <1>3, <1>4, <1>5, <1>6 DEF FoundOther

(* Republish links the staged file into the name.                           *)
LEMMA RepublishStep ==
  ASSUME WellFormed, Republish
  PROVE  WellFormed'
<1>. USE DEF Republish
<1>1. /\ op \in Operation /\ op.pc = "republishing" /\ op.n \in 1..saves
      /\ op.n \in Saves /\ result \in Results
  BY SaveAssumption DEF At, WellFormed, TypeOK, OperationInv, N, Saves
<1>2. CASE UNCHANGED source /\ GivesUpNothing /\ End("recoveryConflict")
  BY <1>2, EndStep DEF Results, files, history, GivesUpNothing
<1>3. CASE LinkNoReplace(staged[N], T.target) /\ GoTo("binding") /\ Takes(N)
           /\ UNCHANGED result
  <2>1. op' \in Operation /\ op'.pc = "binding" /\ op'.n = op.n
    BY <1>1, <1>3, GoToOp DEF Pcs, SharedPcs
  <2>2. source' \in Inode \cup {NoFile} /\ source' <= used
    BY <1>1, <1>3 DEF LinkNoReplace, WellFormed, TypeOK, FilesExist, N
  <2>3. /\ owed' \subseteq Bytes /\ op'.n \in published'
        /\ published \subseteq published' /\ published' \subseteq published \cup 1..saves
    BY <1>1, <1>3, <2>1 DEF Takes, WellFormed, TypeOK, N
  <2>. QED
    BY <1>1, <1>3, <2>1, <2>2, <2>3, NameStep DEF WellFormed, TypeOK
<1>. QED
  BY <1>2, <1>3

(* Restore links the parked file into the name.                             *)
LEMMA RestoreStep ==
  ASSUME WellFormed, Restore
  PROVE  WellFormed'
<1>. USE DEF Restore
<1>1. /\ op \in Operation /\ op.pc = "restoring" /\ op.n \in 1..saves
      /\ op.n \in Saves /\ result \in Results
  BY SaveAssumption DEF At, WellFormed, TypeOK, OperationInv, N, Saves
<1>2. CASE UNCHANGED source /\ End("recoveryConflict")
  BY <1>2, EndStep DEF Results, files
<1>3. CASE LinkNoReplace(prev[N], op.sha) /\ GoTo("dropping") /\ UNCHANGED result
  <2>1. op' \in Operation /\ op'.pc = "dropping" /\ op'.n = op.n
    BY <1>1, <1>3, GoToOp DEF Pcs, RecoveryPcs
  <2>2. source' \in Inode \cup {NoFile} /\ source' <= used
    BY <1>1, <1>3 DEF LinkNoReplace, WellFormed, TypeOK, FilesExist, N
  <2>. QED
    BY <1>1, <1>3, <2>1, <2>2, NameStep DEF WellFormed, TypeOK, history
<1>. QED
  BY <1>2, <1>3

(* DropParked forgets one parked file.                                      *)
LEMMA DropParkedStep ==
  ASSUME WellFormed, DropParked
  PROVE  WellFormed'
<1>. USE DEF DropParked
<1>1. /\ op \in Operation /\ op.pc = "dropping" /\ op.n \in 1..saves
      /\ op.n \in Saves /\ result \in Results
  BY SaveAssumption DEF At, WellFormed, TypeOK, OperationInv, N, Saves
<1>2. op' \in Operation /\ op'.pc = "rollingBack" /\ op'.n = op.n
  BY <1>1, GoToOp DEF Pcs, RecoveryPcs
<1>3. TypeOK'
  BY <1>1, <1>2 DEF WellFormed, TypeOK, records, client, bounds, history, N
<1>4. \A n \in Saves : prev'[n] \in {prev[n], NoFile}
  BY DEF WellFormed, TypeOK, N
<1>5. LaterIsBlank'
  BY <1>4 DEF WellFormed, LaterIsBlank, Blank, records, client, history
<1>6. FilesExist'
  BY <1>4 DEF WellFormed, FilesExist, TypeOK, Inode, NoFile
<1>7. Room' /\ OperationInv'
  BY <1>1, <1>2 DEF WellFormed, Room, OperationInv, N, Unparked, Finishing, client, bounds
<1>. QED
  BY <1>3, <1>5, <1>6, <1>7 DEF WellFormed

(* RollBack closes one record.                                              *)
LEMMA RollBackStep ==
  ASSUME WellFormed, RollBack
  PROVE  WellFormed'
<1>. USE DEF RollBack
<1>1. /\ op \in Operation /\ op.pc = "rollingBack" /\ op.n \in 1..saves
      /\ op.n \in Saves /\ op.n <= saves /\ result \in Results
  BY SaveAssumption DEF At, WellFormed, TypeOK, OperationInv, N, Saves
<1>2. op' \in Operation /\ op'.pc = "scanning" /\ op'.n = op.n
  <2>1. "scanning" \in Pcs
    BY DEF Pcs, RecoveryPcs
  <2>. QED
    BY <1>1, <2>1 DEF Operation
<1>3. tx' \in [Saves -> TxRecord] /\ \A m \in Saves : m > saves => tx'[m] = tx[m]
  BY <1>1, MarkedTx DEF N
<1>. QED
  BY <1>1, <1>2, <1>3, RecordsStep DEF WellFormed, TypeOK

(* EndRecovery retires records and answers the caller.                      *)
LEMMA EndRecoveryStep ==
  ASSUME WellFormed, EndRecovery
  PROVE  WellFormed'
<1>. USE DEF EndRecovery
<1>1. op' \in Operation /\ op'.pc = "idle" /\ result' \in Results
  BY EndOp DEF Results
<1>2. tx' \in [Saves -> TxRecord]
  BY DEF WellFormed, TypeOK, TxRecord
<1>3. /\ recorded' \in StateRecord /\ editor' \in Bytes \cup {Absent}
      /\ owed' \subseteq Bytes
  BY DEF WellFormed, TypeOK, StateRecord
<1>4. TypeOK'
  BY <1>1, <1>2, <1>3 DEF WellFormed, TypeOK, files, bounds
<1>5. LaterIsBlank' /\ FilesExist'
  BY DEF WellFormed, LaterIsBlank, Blank, FilesExist, files, Stock
<1>6. Room' /\ OperationInv'
  BY <1>1 DEF WellFormed, Room, OperationInv, Unparked, Finishing, files, bounds
<1>. QED
  BY <1>4, <1>5, <1>6 DEF WellFormed

-----------------------------------------------------------------------------
(* The environment.                                                         *)
(* Another program creates a file, for which there is room.                 *)
LEMMA CreatedStep ==
  ASSUME WellFormed, NEW b \in Bytes, ExternalReplace(b)
  PROVE  WellFormed'
<1>. USE SaveAssumption DEF ExternalReplace
<1>1. /\ used \in Nat /\ used' = used + 1 /\ used + 1 \in Inode
      /\ saves \in Nat /\ external \in Nat
      /\ external' = external + 1 /\ external' \in 0..MaxExternal
  BY DEF WellFormed, TypeOK, Room, Inode, Create
<1>2. owed' \subseteq Bytes
  BY DEF WellFormed, TypeOK
<1>3. TypeOK'
  BY <1>1, <1>2 DEF WellFormed, TypeOK, Create, records, client
<1>4. LaterIsBlank'
  BY DEF WellFormed, LaterIsBlank, Blank, records, client
<1>5. FilesExist'
  <2>1. \A n \in Saves : prev[n] \in Int /\ staged[n] \in Int
    BY DEF WellFormed, TypeOK, Inode, NoFile
  <2>. QED
    BY <1>1, <2>1 DEF WellFormed, FilesExist
<1>6. Room'
  BY <1>1 DEF WellFormed, Room, client
<1>7. OperationInv'
  BY DEF WellFormed, OperationInv, N, T, Unparked, Finishing, records, client
<1>. QED
  BY <1>3, <1>4, <1>5, <1>6, <1>7 DEF WellFormed

(* A write of another program keeps the program's own files in order.       *)
LEMMA ExternalStep ==
  ASSUME WellFormed,
         ExternalDelete \/ \E i \in Inode, b \in Bytes : ExternalWrite(i, b)
  PROVE  WellFormed'
<1>. USE SaveAssumption
<1>1. /\ external' = external + 1 /\ external' \in 0..MaxExternal /\ external \in Nat
      /\ UNCHANGED <<used, prev, staged, dir, records, op, result, client,
                     crashes, faults, published>>
  BY DEF ExternalDelete, ExternalWrite, WellFormed, TypeOK
<1>2. /\ source' \in {source, NoFile} /\ bytes' \in [Inode -> Bytes]
      /\ owed' \subseteq Bytes /\ deleted' \in BOOLEAN
  <2>1. CASE ExternalDelete
    BY <2>1 DEF ExternalDelete, WellFormed, TypeOK
  <2>2. CASE \E i \in Inode, b \in Bytes : ExternalWrite(i, b)
    BY <2>2 DEF ExternalWrite, WellFormed, TypeOK
  <2>. QED
    BY <2>1, <2>2
<1>3. TypeOK'
  BY <1>1, <1>2 DEF WellFormed, TypeOK, records, client
<1>4. LaterIsBlank'
  BY <1>1 DEF WellFormed, LaterIsBlank, Blank, records, client
<1>5. FilesExist'
  BY <1>1, <1>2 DEF WellFormed, FilesExist, TypeOK, Inode, NoFile
<1>6. Room'
  <2>1. used \in Int /\ saves \in Int
    BY DEF WellFormed, TypeOK, Inode
  <2>. QED
    BY <1>1, <2>1 DEF WellFormed, Room, client
<1>7. OperationInv'
  BY <1>1 DEF WellFormed, OperationInv, N, T, Unparked, Finishing, records, client
<1>. QED
  BY <1>3, <1>4, <1>5, <1>6, <1>7 DEF WellFormed

(* A crash leaves everything on disk as it is.                              *)
LEMMA CrashStep ==
  ASSUME WellFormed, Crash
  PROVE  WellFormed'
<1>. USE DEF Crash
<1>1. op' = [pc |-> "down", goal |-> "none", n |-> 0, seen |-> NoFile,
             replay |-> FALSE, retire |-> FALSE, sha |-> Absent, todo |-> {}]
  BY DEF Idle
<1>2. "down" \in Pcs /\ "none" \in Goals /\ 0 \in 0..MaxSaves
  BY SaveAssumption DEF Pcs, Goals
<1>3. [pc |-> "down", goal |-> "none", n |-> 0, seen |-> NoFile,
       replay |-> FALSE, retire |-> FALSE, sha |-> Absent, todo |-> {}]
        \in Operation
  BY <1>2 DEF Operation
<1>4. op' \in Operation /\ op'.pc = "down"
  BY <1>1, <1>3
<1>5. crashes' \in 0..MaxCrashes /\ result' \in Results
  BY SaveAssumption DEF WellFormed, TypeOK, Results
<1>6. TypeOK'
  BY <1>4, <1>5 DEF WellFormed, TypeOK, files, records, history
<1>7. LaterIsBlank' /\ FilesExist'
  BY DEF WellFormed, LaterIsBlank, Blank, FilesExist, files, records, history
<1>8. Room' /\ OperationInv'
  BY <1>4 DEF WellFormed, Room, OperationInv, Unparked, Finishing, files
<1>. QED
  BY <1>6, <1>7, <1>8 DEF WellFormed

(* A failing system call ends the operation and changes nothing else.       *)
LEMMA SystemCallFailsStep ==
  ASSUME WellFormed, SystemCallFails
  PROVE  WellFormed'
<1>. USE DEF SystemCallFails
<1>1. op' \in Operation /\ op'.pc = "idle" /\ result' \in Results
  BY EndOp DEF Results
<1>2. faults' \in 0..MaxFaults
  BY SaveAssumption DEF WellFormed, TypeOK
<1>3. TypeOK'
  BY <1>1, <1>2 DEF WellFormed, TypeOK, files, records, client, history
<1>4. LaterIsBlank' /\ FilesExist'
  BY DEF WellFormed, LaterIsBlank, Blank, FilesExist, files, records, client, history
<1>5. Room' /\ OperationInv'
  BY <1>1 DEF WellFormed, Room, OperationInv, Unparked, Finishing, files, client
<1>. QED
  BY <1>3, <1>4, <1>5 DEF WellFormed

(* Every step keeps everything in order.                                    *)
LEMMA WellFormedStep ==
  ASSUME WellFormed, [Next]_vars
  PROVE  WellFormed'
<1>1. CASE \E b \in Bytes : BeginSave(b)
  BY <1>1, BeginSaveStep
<1>2. CASE SaveStep
  BY <1>2, StageStep, CheckStep, SettleStep, DiscardStep, RefuseStep, ParkStep,
     InspectStep, UnparkStep, PublishStep, ReadBackStep, RecordStep, CommitStep,
     RemoveStep, UnlinkRecordStep DEF SaveStep
<1>3. CASE RecoveryStep
  BY <1>3, ExamineStep, RepublishStep, RestoreStep, DropParkedStep, RollBackStep,
     EndRecoveryStep DEF RecoveryStep
<1>4. CASE \E goal \in {"start", "open"} : StartRecovery(goal)
  BY <1>4, StartRecoveryStep
<1>5. CASE \/ \E b \in Bytes : ExternalReplace(b)
           \/ \E i \in Inode, b \in Bytes : ExternalWrite(i, b)
           \/ ExternalDelete
  BY <1>5, CreatedStep, ExternalStep
<1>6. CASE Crash \/ SystemCallFails
  BY <1>6, CrashStep, SystemCallFailsStep
<1>7. CASE UNCHANGED vars
  <2>1. UNCHANGED <<files, records, op, result, client, bounds, history>>
    BY <1>7 DEF vars
  <2>2. OperationInv' /\ Room'
    BY <2>1 DEF WellFormed, OperationInv, Room, N, T, Unparked, Finishing, files, records, client, bounds, history
  <2>. QED
    BY <2>1, <2>2, OnlyOp DEF WellFormed, TypeOK
<1>. QED
  BY <1>1, <1>2, <1>3, <1>4, <1>5, <1>6, <1>7 DEF Next

(* Initially everything is in order.                                        *)
LEMMA WellFormedInit ==
  ASSUME Init
  PROVE  WellFormed
<1>. USE SaveAssumption DEF Init
<1>1. Idle \in Operation /\ Idle.pc = "idle"
  BY DEF Idle, Operation, Pcs, Goals, NoFile
<1>2. 1 \in Inode /\ NoTx \in TxRecord
  BY DEF Inode, NoTx, TxRecord
<1>3. TypeOK
  <2>1. /\ source \in Inode \cup {NoFile} /\ bytes \in [Inode -> Bytes]
        /\ used \in Inode /\ prev \in [Saves -> Inode \cup {NoFile}]
        /\ staged \in [Saves -> Inode \cup {NoFile}] /\ dir \subseteq Saves
    BY <1>2
  <2>2. tx \in [Saves -> TxRecord] /\ recorded \in StateRecord /\ saves \in 0..MaxSaves
    BY <1>2 DEF StateRecord
  <2>3. /\ op \in Operation /\ editor \in Bytes \cup {Absent}
        /\ result \in Results
    BY <1>1 DEF Results
  <2>4. /\ external \in 0..MaxExternal /\ crashes \in 0..MaxCrashes
        /\ faults \in 0..MaxFaults
    OBVIOUS
  <2>5. owed \subseteq Bytes /\ published \subseteq Saves
    OBVIOUS
  <2>6. deleted \in BOOLEAN
    OBVIOUS
  <2>. QED
    BY <2>1, <2>2, <2>3, <2>4, <2>5, <2>6 DEF TypeOK
<1>4. LaterIsBlank /\ FilesExist
  BY DEF LaterIsBlank, Blank, FilesExist, NoTx, NoFile
<1>5. Room /\ OperationInv
  BY <1>1 DEF Room, OperationInv, Unparked, Finishing
<1>. QED
  BY <1>3, <1>4, <1>5 DEF WellFormed

(* In every reachable state the program's files and records are in order.   *)
THEOREM AlwaysWellFormed == Spec => []WellFormed
<1>1. Init => WellFormed
  BY WellFormedInit
<1>2. WellFormed /\ [Next]_vars => WellFormed'
  BY WellFormedStep
<1>. QED
  BY <1>1, <1>2, PTL DEF Spec

(* Every variable has its type, for any number of saves and of crashes.     *)
THEOREM TypeCorrect == Spec => []TypeOK
<1>1. WellFormed => TypeOK
  BY DEF WellFormed
<1>. QED
  BY <1>1, AlwaysWellFormed, PTL

-----------------------------------------------------------------------------
(* A missing file is parked.                                                *)
MissingInv == WellFormed /\ Visible /\ MissingIsParked

(* A step that leaves recovery directories alone and drops no record.       *)
LEMMA StillParked ==
  ASSUME MissingInv,
         source' = NoFile /\ ~deleted' => source = NoFile /\ ~deleted,
         UNCHANGED prev, dir \subseteq dir',
         \A n \in dir : Parked(n) /\ tx[n].state \notin {"none", "gone"}
                          => tx'[n].state \notin {"none", "gone"},
         tx' \in [Saves -> TxRecord]
  PROVE  MissingIsParked'
<1>. SUFFICES ASSUME source' = NoFile, ~deleted'
              PROVE  \E n \in dir' : Parked(n)' /\ NeedsRecovery(n)'
  BY DEF MissingIsParked
<1>1. PICK n \in dir : Parked(n) /\ NeedsRecovery(n)
  BY DEF MissingInv, MissingIsParked
<1>2. n \in Saves
  BY DEF MissingInv, WellFormed, TypeOK
<1>3. tx'[n].state \in {"prepared", "committed", "conflict"}
  BY <1>1, <1>2 DEF NeedsRecovery, TxRecord
<1>4. Parked(n)'
  BY <1>1 DEF Parked
<1>. QED
  BY <1>1, <1>3, <1>4 DEF NeedsRecovery

(* The same for a step that leaves everything on disk alone.                *)
LEMMA StillMissing ==
  ASSUME MissingInv, UNCHANGED <<files, tx, deleted>>
  PROVE  MissingIsParked'
BY StillParked DEF files, MissingInv, WellFormed, TypeOK

(* A step of an operation that works on a visible file.                     *)
LEMMA StaysVisible ==
  ASSUME MissingInv, op.pc \notin MayBeParked, UNCHANGED <<source, deleted>>
  PROVE  Visible' /\ MissingIsParked'
BY DEF MissingInv, Visible, MissingIsParked

(* No step of a save leaves a missing file without its parked original.     *)
LEMMA MissingSave ==
  ASSUME MissingInv, SaveStep
  PROVE  Visible' /\ MissingIsParked'
<1>. USE DEF At, MayBeParked
<1>1. CASE \/ Stage \/ Check \/ CheckAgain \/ Settle \/ Discard \/ Refuse
           \/ ReadBack \/ Bind \/ Record \/ Confirm \/ Commit \/ Audit \/ Verify
           \/ Remove \/ UnlinkRecord
  <2>1. op.pc \notin MayBeParked
    BY <1>1 DEF Stage, Check, CheckAgain, Settle, Discard, Refuse, ReadBack,
       Bind, Record, Confirm, Commit, Audit, Verify, Remove, UnlinkRecord, Reads
  <2>2. UNCHANGED <<source, deleted>>
    BY <1>1 DEF Stage, Create, Check, CheckAgain, Settle, Discard, Refuse, ReadBack,
       Bind, Record, Confirm, Commit, Audit, Verify, Remove, UnlinkRecord, Reads,
       EmptyDirectory, files, history
  <2>. QED
    BY <2>1, <2>2, StaysVisible
<1>2. CASE Park
  <2>1. op.pc = "parking" /\ N \in dir /\ T.state = "prepared" /\ N \in Saves
    BY <1>2, SaveAssumption DEF Park, MissingInv, WellFormed, OperationInv, TypeOK, Saves
  <2>2. CASE source = NoFile /\ End("failed") /\ UNCHANGED <<files, deleted>>
    BY <1>2, <2>1, <2>2, StaysVisible DEF files
  <2>3. CASE source # NoFile /\ GoTo("inspecting")
             /\ prev' = [prev EXCEPT ![N] = source] /\ UNCHANGED dir
    <3>1. op' = [op EXCEPT !.pc = "inspecting"] /\ op \in Operation
      BY <2>3 DEF GoTo, MissingInv, WellFormed, TypeOK
    <3>2. op'.pc = "inspecting"
      BY <3>1 DEF Operation
    <3>3. prev'[N] = source /\ tx' = tx
      BY <1>2, <2>1, <2>3 DEF Park, MissingInv, WellFormed, TypeOK, records
    <3>4. PICK n \in dir : n = N
      BY <2>1
    <3>5. n \in dir' /\ Parked(n)' /\ NeedsRecovery(n)'
      BY <2>1, <2>3, <3>3, <3>4 DEF T, Parked, NeedsRecovery
    <3>. QED
      BY <3>2, <3>5 DEF Visible, MissingIsParked
  <2>. QED
    BY <1>2, <2>2, <2>3 DEF Park
<1>3. CASE Inspect
  <2>1. op' \in Operation /\ op'.pc \in {"publishing", "unparking"}
    <3>1. PICK pc \in {"publishing", "unparking"} : GoTo(pc)
      BY <1>3 DEF Inspect
    <3>. QED
      BY <3>1, GoToOp DEF Pcs, SavePcs, MissingInv, WellFormed, TypeOK
  <2>. QED
    BY <1>3, <2>1, StillMissing DEF Inspect, Visible, records, history
<1>4. CASE Unpark
  <2>1. op'.pc = "idle"
    BY <1>4, EndOp DEF Unpark, Results
  <2>. QED
    BY <1>4, <2>1, StillParked DEF Unpark, Visible, Occupied, MissingInv, WellFormed, TypeOK, records, history
<1>5. CASE Publish
  <2>1. CASE Occupied
    <3>1. op'.pc = "idle"
      BY <1>5, <2>1, EndOp DEF Publish, Results
    <3>. QED
      BY <1>5, <2>1, <3>1, StillMissing DEF Publish, Visible, records
  <2>2. CASE ~Occupied
    <3>1. source' # NoFile
      BY <1>5, <2>2 DEF Publish, MissingInv, WellFormed, TypeOK, Inode, NoFile
    <3>. QED
      BY <3>1 DEF Visible, MissingIsParked
  <2>. QED
    BY <2>1, <2>2
<1>. QED
  BY <1>1, <1>2, <1>3, <1>4, <1>5 DEF SaveStep

(* No step of recovery leaves a missing file without its parked original.   *)
LEMMA MissingRecovery ==
  ASSUME MissingInv, RecoveryStep
  PROVE  Visible' /\ MissingIsParked'
<1>. USE DEF At, MayBeParked
<1>0. WellFormed' /\ WellFormed
  BY WellFormedStep DEF MissingInv, Next
<1>1. ASSUME NEW n \in Saves, Examine(n)
      PROVE  Visible' /\ MissingIsParked'
  <2>1. UNCHANGED <<files, deleted>> /\ tx' \in [Saves -> TxRecord]
    BY <1>0, <1>1 DEF Examine, WellFormed, TypeOK
  <2>2. \A m \in Saves : tx'[m].state \in {tx[m].state, "committed", "conflict"}
    <3>1. \/ UNCHANGED tx
          \/ \E s \in {"conflict", "committed"} :
                tx' = [tx EXCEPT ![n].state = s, ![n].marked = TRUE]
      BY <1>1 DEF Examine, FoundPublished, FoundParked, FoundUnchanged, FoundOther
    <3>2. tx \in [Saves -> TxRecord]
      BY <1>0 DEF WellFormed, TypeOK
    <3>. QED
      BY <3>1, <3>2 DEF TxRecord
  <2>3. MissingIsParked'
    <3>1. \A m \in dir : tx[m].state \notin {"none", "gone"}
                           => tx'[m].state \notin {"none", "gone"}
      BY <2>2, <1>0 DEF WellFormed, TypeOK
    <3>. QED
      BY <2>1, <3>1, StillParked DEF files
  <2>4. source # NoFile \/ op'.pc \in MayBeParked
    <3>1. CASE FoundPublished(n)
      <4>1. source # NoFile
        BY <3>1 DEF FoundPublished, SourceIs
      <4>. QED
        BY <4>1
    <3>2. CASE End("recoveryConflict")
      BY <3>2, EndOp DEF Results
    <3>3. CASE FoundParked(n)
      BY <1>0, <3>3 DEF FoundParked, Take, WellFormed, TypeOK, Operation
    <3>4. CASE FoundUnchanged(n)
      BY <1>0, <1>1, <3>4 DEF Examine, FoundUnchanged, WellFormed, TypeOK, Operation
    <3>. QED
      BY <1>1, <3>1, <3>2, <3>3, <3>4 DEF Examine, FoundOther
  <2>. QED
    BY <2>1, <2>3, <2>4 DEF Visible, files
<1>2. ASSUME NEW i, NEW b \in Bytes, LinkNoReplace(i, b)
      PROVE  source' # NoFile
  BY <1>2, SaveAssumption DEF LinkNoReplace, Content, SourceIs
<1>3. CASE Republish
  <2>1. CASE UNCHANGED source /\ End("recoveryConflict")
    <3>1. op'.pc = "idle"
      BY <2>1, EndOp DEF Results
    <3>. QED
      BY <1>0, <1>3, <2>1, <3>1, StillParked DEF Republish, Visible, records, WellFormed, TypeOK
  <2>2. CASE LinkNoReplace(staged[N], T.target)
    <3>1. T.target \in Bytes
      BY <1>0, <1>3, SaveAssumption DEF Republish, N, T, WellFormed, OperationInv, TypeOK, TxRecord, Saves
    <3>2. source' # NoFile
      BY <1>2, <2>2, <3>1
    <3>. QED
      BY <3>2 DEF Visible, MissingIsParked
  <2>. QED
    BY <1>3, <2>1, <2>2 DEF Republish
<1>4. CASE Restore
  <2>1. CASE UNCHANGED source /\ End("recoveryConflict")
    <3>1. op'.pc = "idle"
      BY <2>1, EndOp DEF Results
    <3>. QED
      BY <1>0, <1>4, <2>1, <3>1, StillParked DEF Restore, Visible, records, history, WellFormed, TypeOK
  <2>2. CASE LinkNoReplace(prev[N], op.sha)
    <3>1. op.sha \in Bytes
      BY <1>0, <1>4 DEF Restore, WellFormed, OperationInv
    <3>2. source' # NoFile
      BY <1>2, <2>2, <3>1
    <3>. QED
      BY <3>2 DEF Visible, MissingIsParked
  <2>. QED
    BY <1>4, <2>1, <2>2 DEF Restore
<1>5. CASE DropParked
  BY <1>5, StaysVisible DEF DropParked, history
<1>6. CASE RollBack
  BY <1>6, StaysVisible DEF RollBack, files, history
<1>7. CASE EndRecovery
  <2>1. op'.pc = "idle"
    BY <1>7, EndOp DEF EndRecovery, Results
  <2>2. tx' \in [Saves -> TxRecord] /\ UNCHANGED <<files, deleted>>
    BY <1>0, <1>7 DEF EndRecovery, WellFormed, TypeOK
  <2>3. \A m \in dir : tx'[m] = tx[m]
    BY <1>0, <1>7 DEF EndRecovery, Stock, WellFormed, TypeOK
  <2>. QED
    BY <2>1, <2>2, <2>3, StillParked DEF Visible, files
<1>. QED
  BY <1>1, <1>3, <1>4, <1>5, <1>6, <1>7 DEF RecoveryStep

(* No step at all does.                                                     *)
LEMMA MissingStep ==
  ASSUME MissingInv, [Next]_vars
  PROVE  MissingInv'
<1>. USE DEF At, MayBeParked
<1>0. WellFormed /\ WellFormed'
  BY WellFormedStep DEF MissingInv
<1>. SUFFICES Visible' /\ MissingIsParked'
  BY <1>0 DEF MissingInv
<1>1. ASSUME NEW b \in Bytes, BeginSave(b)
      PROVE  Visible' /\ MissingIsParked'
  BY <1>1 DEF BeginSave, Visible, MissingIsParked
<1>2. CASE SaveStep
  BY <1>2, MissingSave
<1>3. CASE RecoveryStep
  BY <1>3, MissingRecovery
<1>4. ASSUME NEW goal \in {"start", "open"}, StartRecovery(goal)
      PROVE  Visible' /\ MissingIsParked'
  <2>1. op'.pc = "scanning"
    BY <1>4 DEF StartRecovery, Idle
  <2>. QED
    BY <1>4, <2>1, StillMissing DEF StartRecovery, Visible, records, history
<1>5. ASSUME NEW b \in Bytes, ExternalReplace(b)
      PROVE  Visible' /\ MissingIsParked'
  <2>1. source' # NoFile
    BY <1>0, <1>5 DEF ExternalReplace, WellFormed, TypeOK, Inode, NoFile
  <2>. QED
    BY <2>1 DEF Visible, MissingIsParked
<1>6. ASSUME NEW i \in Inode, NEW b \in Bytes, ExternalWrite(i, b)
      PROVE  Visible' /\ MissingIsParked'
  BY <1>0, <1>6, StillParked DEF ExternalWrite, MissingInv, Visible, records, WellFormed, TypeOK
<1>7. CASE ExternalDelete
  BY <1>7 DEF ExternalDelete, Visible, MissingIsParked
<1>8. CASE Crash
  <2>1. op'.pc = "down"
    BY <1>8 DEF Crash, Idle
  <2>. QED
    BY <1>8, <2>1, StillMissing DEF Crash, Visible, records, history
<1>9. CASE SystemCallFails
  <2>1. op'.pc = "idle"
    BY <1>9, EndOp DEF SystemCallFails, Results
  <2>. QED
    BY <1>9, <2>1, StillMissing DEF SystemCallFails, Visible, records, history
<1>10. CASE UNCHANGED vars
  BY <1>10, StillMissing DEF vars, records, history, files, MissingInv, Visible
<1>. QED
  BY <1>1, <1>2, <1>3, <1>4, <1>5, <1>6, <1>7, <1>8, <1>9, <1>10 DEF Next

(* A missing file that nobody deleted lies parked in the recovery directory *)
(* of a transaction that recovery examines.                                 *)
THEOREM MissingFileIsParked == Spec => []MissingIsParked
<1>1. Init => MissingInv
  <2>1. Init => source # NoFile
    BY DEF Init, NoFile
  <2>. QED
    BY <2>1, WellFormedInit DEF MissingInv, Visible, MissingIsParked
<1>2. MissingInv /\ [Next]_vars => MissingInv'
  BY MissingStep
<1>3. MissingInv => MissingIsParked
  BY DEF MissingInv
<1>. QED
  BY <1>1, <1>2, <1>3, PTL DEF Spec

-----------------------------------------------------------------------------
(* Nothing vanishes.                                                        *)
OwedInv == WellFormed /\ OwedIsKept

(* Steps that leave the files alone, and those that create one more.        *)
LEMMA KeptQuietly ==
  ASSUME OwedInv, UNCHANGED <<prev, published>>,
         source' = source \/ source = NoFile,
         \A i \in Inode : i <= used => bytes'[i] = bytes[i],
         owed' \subseteq owed,
         \A n \in Saves : prev[n] # NoFile => tx'[n].expected = tx[n].expected,
         \/ op'.pc \notin {"removing", "dropping"}
         \/ UNCHANGED op
  PROVE  OwedIsKept'
<1>. SUFFICES ASSUME NEW x \in owed
              PROVE  \/ source' # NoFile /\ bytes'[source'] = x
                     \/ \E n \in Saves : Keeps(n)' /\ bytes'[prev'[n]] = x
  BY DEF OwedIsKept
<1>1. /\ source # NoFile => source \in Inode /\ source <= used
      /\ \A n \in Saves : prev[n] # NoFile => prev[n] \in Inode /\ prev[n] <= used
  BY DEF OwedInv, WellFormed, TypeOK, FilesExist
<1>2. CASE source # NoFile /\ bytes[source] = x
  BY <1>1, <1>2
<1>3. CASE \E n \in Saves : Keeps(n) /\ bytes[prev[n]] = x
  <2>1. PICK n \in Saves : Keeps(n) /\ bytes[prev[n]] = x
    BY <1>3
  <2>2. bytes'[prev'[n]] = x
    BY <1>1, <2>1 DEF Keeps
  <2>3. Keeps(n)'
    BY <1>1, <2>1 DEF Keeps, GivenUp, Doomed
  <2>. QED
    BY <2>2, <2>3
<1>. QED
  BY <1>2, <1>3 DEF OwedInv, OwedIsKept

(* The new bytes of save n take the name: only what they replace is given up *)
LEMMA KeptByTaking ==
  ASSUME OwedInv, NEW n \in Saves, Takes(n), UNCHANGED <<prev, tx>>,
         source' = source \/ source = NoFile,
         \A i \in Inode : i <= used => bytes'[i] = bytes[i],
         op'.pc \notin {"removing", "dropping"}
  PROVE  OwedIsKept'
<1>. SUFFICES ASSUME NEW x \in owed, x # tx[n].expected
              PROVE  \/ source' # NoFile /\ bytes'[source'] = x
                     \/ \E m \in Saves : Keeps(m)' /\ bytes'[prev'[m]] = x
  BY DEF OwedIsKept, Takes
<1>1. /\ source # NoFile => source \in Inode /\ source <= used
      /\ \A m \in Saves : prev[m] # NoFile => prev[m] \in Inode /\ prev[m] <= used
  BY DEF OwedInv, WellFormed, TypeOK, FilesExist
<1>2. CASE source # NoFile /\ bytes[source] = x
  BY <1>1, <1>2
<1>3. CASE \E m \in Saves : Keeps(m) /\ bytes[prev[m]] = x
  <2>1. PICK m \in Saves : Keeps(m) /\ bytes[prev[m]] = x
    BY <1>3
  <2>2. bytes'[prev'[m]] = x
    BY <1>1, <2>1 DEF Keeps
  <2>3. Keeps(m)'
    BY <1>1, <2>1, <2>2 DEF Keeps, GivenUp, Doomed, Takes
  <2>. QED
    BY <2>2, <2>3
<1>. QED
  BY <1>2, <1>3 DEF OwedInv, OwedIsKept

(* Emptying the directory of a save whose parked file does not count.       *)
LEMMA KeptWithout ==
  ASSUME OwedInv, NEW n \in Saves, ~Keeps(n), UNCHANGED <<source, bytes, tx, owed, published>>,
         prev' = [prev EXCEPT ![n] = NoFile],
         op'.pc \notin {"removing", "dropping"}
  PROVE  OwedIsKept'
<1>. SUFFICES ASSUME NEW x \in owed
              PROVE  \/ source # NoFile /\ bytes[source] = x
                     \/ \E m \in Saves : Keeps(m)' /\ bytes[prev'[m]] = x
  BY DEF OwedIsKept
<1>1. CASE source # NoFile /\ bytes[source] = x
  BY <1>1
<1>2. CASE \E m \in Saves : Keeps(m) /\ bytes[prev[m]] = x
  <2>1. PICK m \in Saves : Keeps(m) /\ bytes[prev[m]] = x
    BY <1>2
  <2>2. prev'[m] = prev[m]
    BY <2>1 DEF OwedInv, WellFormed, TypeOK
  <2>3. Keeps(m)'
    BY <2>1, <2>2 DEF Keeps, GivenUp, Doomed
  <2>. QED
    BY <2>1, <2>2, <2>3
<1>. QED
  BY <1>1, <1>2 DEF OwedInv, OwedIsKept

(* A step that writes nothing at all.                                       *)
LEMMA KeptUntouched ==
  ASSUME OwedInv, UNCHANGED <<files, owed, published>>,
         \A n \in Saves : tx'[n].expected = tx[n].expected,
         op'.pc \notin {"removing", "dropping"} \/ UNCHANGED op
  PROVE  OwedIsKept'
BY KeptQuietly DEF files

(* Read-backs give nothing up.                                              *)
LEMMA OwedReads ==
  ASSUME OwedInv, NEW pc, NEW next \in Pcs, NEW ok, Reads(pc, ok, next),
         next # "removing", next # "dropping"
  PROVE  OwedIsKept'
<1>1. op'.pc \in {next, "idle"}
  BY GoToOp, EndOp DEF Reads, OwedInv, WellFormed, TypeOK, Results
<1>2. UNCHANGED <<files, tx, owed, published>>
  BY DEF Reads, records, history
<1>. QED
  BY <1>1, <1>2, KeptUntouched

(* Verify removes a directory only once its parked file is given up.        *)
LEMMA OwedVerify ==
  ASSUME OwedInv, Verify
  PROVE  OwedIsKept'
<1>. USE DEF Verify, Reads
<1>1. /\ op \in Operation /\ op.pc = "verifying" /\ op.n \in Saves
      /\ op.n \in published \/ prev[op.n] = NoFile
      /\ UNCHANGED <<files, tx, owed, published>>
  BY SaveAssumption DEF At, OwedInv, WellFormed, TypeOK, OperationInv, N, Saves, Finishing, records, history
<1>2. CASE End("conflict")
  <2>1. op'.pc = "idle"
    BY <1>2, EndOp DEF Results
  <2>. QED
    BY <1>1, <2>1, KeptUntouched
<1>3. CASE Verified /\ GoTo("removing")
  <2>1. op'.pc = "removing" /\ op'.n = op.n
    BY <1>1, <1>3, GoToOp DEF Pcs, SharedPcs
  <2>2. ~Keeps(op.n)
    BY <1>1, <1>3 DEF Verified, PreviousIs, Keeps, GivenUp, N, T
  <2>3. \A m \in Saves : Keeps(m) => Keeps(m)'
    BY <1>1, <2>1, <2>2 DEF Keeps, GivenUp, Doomed, files
  <2>. QED
    BY <1>1, <2>3 DEF OwedInv, OwedIsKept, files
<1>. QED
  BY <1>2, <1>3

(* Emptying a directory loses nothing that is owed.                         *)
LEMMA OwedEmpty ==
  ASSUME OwedInv, Discard \/ Remove
  PROVE  OwedIsKept'
<1>1. /\ op \in Operation /\ op.n \in Saves /\ ~Keeps(op.n)
  <2>1. op \in Operation /\ op.pc \in {"discarding", "removing"} /\ op.n \in 1..saves
    BY DEF Discard, Remove, At, OwedInv, WellFormed, TypeOK, OperationInv, N
  <2>2. op.n \in Saves
    BY <2>1, SaveAssumption DEF OwedInv, WellFormed, TypeOK, Saves
  <2>3. CASE op.pc = "discarding"
    BY <2>1, <2>2, <2>3 DEF OwedInv, WellFormed, OperationInv, Unparked, Keeps, N
  <2>4. CASE op.pc = "removing"
    BY <2>1, <2>2, <2>4 DEF Keeps, Doomed
  <2>. QED
    BY <2>1, <2>2, <2>3, <2>4
<1>2. op'.pc \in {"refusing", "unlinking", "scanning"}
  BY <1>1, GoToOp, RetiredOp DEF Discard, Remove, Pcs, SavePcs, SharedPcs
<1>3. UNCHANGED <<tx, owed, published>>
  BY DEF Discard, Remove, records, history
<1>4. CASE EmptyDirectory
  BY <1>1, <1>2, <1>3, <1>4, KeptWithout DEF EmptyDirectory, N
<1>5. CASE UNCHANGED files
  BY <1>2, <1>3, <1>5, KeptUntouched
<1>. QED
  BY <1>4, <1>5 DEF Discard, Remove

(* Parking and looking at the parked file lose nothing that is owed.        *)
LEMMA OwedPark ==
  ASSUME OwedInv, Park
  PROVE  OwedIsKept'
<1>. USE DEF Park
<1>1. /\ op \in Operation /\ op.pc = "parking" /\ op.n \in Saves
      /\ op.n \notin published /\ prev[op.n] = NoFile /\ UNCHANGED <<tx, owed, published>>
  BY SaveAssumption DEF At, OwedInv, WellFormed, TypeOK, OperationInv, N, Saves, Unparked, records
<1>2. CASE End("failed") /\ UNCHANGED <<files, deleted>>
  <2>1. op'.pc = "idle"
    BY <1>2, EndOp DEF Results
  <2>. QED
    BY <1>1, <1>2, <2>1, KeptUntouched
<1>3. CASE source # NoFile /\ GoTo("inspecting") /\ prev' = [prev EXCEPT ![N] = source]
           /\ UNCHANGED bytes
  <2>1. op'.pc = "inspecting"
    BY <1>1, <1>3, GoToOp DEF Pcs, SavePcs
  <2>2. \A m \in Saves : prev'[m] = IF m = op.n THEN source ELSE prev[m]
    BY <1>3 DEF OwedInv, WellFormed, TypeOK, N
  <2>3. \A m \in Saves : Keeps(m) => Keeps(m)' /\ prev'[m] = prev[m]
    BY <1>1, <1>3, <2>1, <2>2 DEF Keeps, GivenUp, Doomed
  <2>4. PICK n \in Saves : n = op.n
    BY <1>1
  <2>5. Keeps(n)' /\ prev'[n] = source
    BY <1>1, <1>3, <2>1, <2>2, <2>4 DEF Keeps, GivenUp, Doomed
  <2>. QED
    BY <1>1, <1>3, <2>3, <2>5 DEF OwedInv, OwedIsKept
<1>. QED
  BY <1>2, <1>3

(* Publication gives up exactly the bytes the save is based on.             *)
LEMMA OwedPublish ==
  ASSUME OwedInv, Publish
  PROVE  OwedIsKept'
<1>. USE DEF Publish
<1>1. /\ op \in Operation /\ op.pc = "publishing" /\ op.n \in Saves /\ UNCHANGED tx
  BY SaveAssumption DEF At, OwedInv, WellFormed, TypeOK, OperationInv, N, Saves, records
<1>2. CASE Occupied
  <2>1. op'.pc = "idle"
    BY <1>2, EndOp DEF Results
  <2>. QED
    BY <1>1, <1>2, <2>1, KeptUntouched DEF GivesUpNothing
<1>3. CASE ~Occupied
  <2>1. op'.pc = "readback"
    BY <1>1, <1>3, GoToOp DEF Pcs, SavePcs
  <2>2. \A i \in Inode : i <= used => bytes'[i] = bytes[i]
    <3>1. bytes' = [bytes EXCEPT ![used + 1] = T.target]
      BY <1>3 DEF Create
    <3>. QED
      BY <3>1 DEF OwedInv, WellFormed, TypeOK, Inode
  <2>. QED
    BY <1>1, <1>3, <2>1, <2>2, KeptByTaking DEF Occupied, N
<1>. QED
  BY <1>2, <1>3

(* No step of a save loses bytes that are owed.                             *)
LEMMA OwedSave ==
  ASSUME OwedInv, SaveStep
  PROVE  OwedIsKept'
<1>1. op \in Operation /\ op.n \in 0..MaxSaves /\ tx \in [Saves -> TxRecord]
  BY DEF OwedInv, WellFormed, TypeOK, Operation
<1>2. CASE Stage
  <2>1. op'.pc = "checking"
    BY <1>1, <1>2, GoToOp DEF Stage, Pcs, SavePcs
  <2>2. \A i \in Inode : i <= used => bytes'[i] = bytes[i]
    BY <1>2 DEF Stage, Create, OwedInv, WellFormed, TypeOK, Inode
  <2>. QED
    BY <1>2, <2>1, <2>2, KeptQuietly DEF Stage, records, history
<1>3. CASE Check \/ CheckAgain \/ Inspect
  <2>1. op'.pc \notin {"removing", "dropping"}
    <3>1. \/ \E pc \in {"confirmingCheck", "parking", "publishing", "unparking"} : GoTo(pc)
          \/ \E r \in {"conflict", "failed"} : End(r)
          \/ NotSwapped(Content(source))
      BY <1>3 DEF Check, CheckAgain, Inspect
    <3>2. CASE \E pc \in {"confirmingCheck", "parking", "publishing", "unparking"} : GoTo(pc)
      BY <1>1, <3>2, GoToOp DEF Pcs, SavePcs
    <3>3. CASE \E r \in {"conflict", "failed"} : End(r)
      BY <3>3, EndOp DEF Results
    <3>4. CASE NotSwapped(Content(source))
      BY <1>1, <3>4 DEF NotSwapped, Operation
    <3>. QED
      BY <3>1, <3>2, <3>3, <3>4
  <2>. QED
    BY <1>3, <2>1, KeptUntouched DEF Check, CheckAgain, Inspect, records, history
<1>4. CASE Settle \/ Commit
  <2>1. op'.pc \notin {"removing", "dropping"}
    <3>1. CASE Settle
      BY <1>1, <3>1, GoToOp DEF Settle, Pcs, SavePcs
    <3>2. CASE Commit
      BY <1>1, <3>2 DEF Commit, AfterCommit, Operation
    <3>. QED
      BY <1>4, <3>1, <3>2
  <2>2. \A n \in Saves : tx'[n].expected = tx[n].expected
    BY <1>1, <1>4 DEF Settle, Commit, TxRecord
  <2>. QED
    BY <1>4, <2>1, <2>2, KeptUntouched DEF Settle, Commit, history
<1>5. CASE Refuse \/ Record
  <2>1. op'.pc \notin {"removing", "dropping"}
    <3>1. CASE Refuse
      BY <1>1, <3>1, EndOp DEF Refuse, Results, Operation
    <3>2. CASE Record
      BY <1>1, <3>2, GoToOp DEF Record, Pcs, SharedPcs
    <3>. QED
      BY <1>5, <3>1, <3>2
  <2>. QED
    BY <1>5, <2>1, KeptUntouched DEF Refuse, Record, history
<1>6. CASE Unpark
  <2>1. op'.pc = "idle"
    BY <1>6, EndOp DEF Unpark, Results
  <2>. QED
    BY <1>6, <2>1, KeptQuietly DEF Unpark, Occupied, records, history
<1>7. CASE ReadBack \/ Bind \/ Confirm \/ Audit
  <2>1. {"binding", "recording", "committing", "verifying"} \subseteq Pcs
    BY DEF Pcs, SharedPcs
  <2>. QED
    BY <1>7, <2>1, OwedReads DEF ReadBack, Bind, Confirm, Audit
<1>8. CASE UnlinkRecord
  <2>1. op'.pc \in {"idle", "scanning"}
    BY <1>1, <1>8, EndOp, RetiredOp DEF UnlinkRecord, Results
  <2>2. \A n \in Saves : tx'[n].expected = tx[n].expected
    BY <1>1, <1>8 DEF UnlinkRecord, TxRecord
  <2>. QED
    BY <1>8, <2>1, <2>2, KeptUntouched DEF UnlinkRecord, history
<1>. QED
  BY <1>2, <1>3, <1>4, <1>5, <1>6, <1>7, <1>8, OwedVerify, OwedEmpty, OwedPark,
     OwedPublish DEF SaveStep

(* No step of recovery loses bytes that are owed.                           *)
LEMMA OwedRecovery ==
  ASSUME OwedInv, RecoveryStep
  PROVE  OwedIsKept'
<1>1. /\ op \in Operation /\ tx \in [Saves -> TxRecord]
      /\ bytes \in [Inode -> Bytes] /\ prev \in [Saves -> Inode \cup {NoFile}]
  BY DEF OwedInv, WellFormed, TypeOK
<1>2. op.pc \in {"republishing", "restoring", "dropping", "rollingBack"} => op.n \in Saves
  BY SaveAssumption DEF OwedInv, WellFormed, TypeOK, OperationInv, N, Saves
<1>3. ASSUME NEW n \in Saves, Examine(n)
      PROVE  OwedIsKept'
  <2>1. UNCHANGED files
    BY <1>3 DEF Examine
  <2>2. CASE Takes(n) /\ UNCHANGED tx /\ Take(n, "binding", ~tx[n].marked)
    <3>1. op'.pc = "binding"
      BY <1>1, <2>2 DEF Take, Operation
    <3>. QED
      BY <2>1, <2>2, <3>1, KeptByTaking DEF files
  <2>3. CASE GivesUpNothing
    <3>1. op'.pc \notin {"removing", "dropping"}
      <4>1. CASE FoundPublished(n) \/ FoundOther(n) \/ End("recoveryConflict")
        <5>1. CASE Take(n, "binding", ~tx[n].marked)
          BY <1>1, <5>1 DEF Take, Operation
        <5>2. CASE End("recoveryConflict")
          BY <5>2, EndOp DEF Results
        <5>. QED
          BY <4>1, <5>1, <5>2 DEF FoundPublished, FoundOther
      <4>2. CASE FoundParked(n)
        BY <1>1, <4>2 DEF FoundParked, Take, Operation
      <4>3. CASE FoundUnchanged(n)
        BY <1>1, <1>3, <4>3 DEF Examine, At, FoundUnchanged, Operation
      <4>. QED
        BY <1>3, <4>1, <4>2, <4>3 DEF Examine
    <3>2. \/ UNCHANGED tx
          \/ \E s \in {"conflict", "committed"} :
                tx' = [tx EXCEPT ![n].state = s, ![n].marked = TRUE]
      BY <1>3 DEF Examine, FoundPublished, FoundParked, FoundUnchanged, FoundOther
    <3>3. \A m \in Saves : tx'[m].expected = tx[m].expected
      BY <1>1, <3>2 DEF TxRecord
    <3>. QED
      BY <2>1, <2>3, <3>1, <3>3, KeptUntouched DEF GivesUpNothing
  <2>. QED
    BY <1>3, <2>2, <2>3 DEF Examine, FoundPublished, FoundParked, FoundUnchanged, FoundOther
<1>4. CASE Republish
  <2>. USE <1>4 DEF Republish
  <2>1. CASE End("recoveryConflict") /\ UNCHANGED source /\ GivesUpNothing
    <3>1. op'.pc = "idle"
      BY <2>1, EndOp DEF Results
    <3>. QED
      BY <2>1, <3>1, KeptUntouched DEF files, records, GivesUpNothing
  <2>2. CASE LinkNoReplace(staged[N], T.target) /\ GoTo("binding") /\ Takes(N)
    <3>1. op'.pc = "binding"
      BY <1>1, <2>2, GoToOp DEF Pcs, SharedPcs
    <3>2. source' = source \/ source = NoFile
      BY <2>2 DEF LinkNoReplace, Occupied
    <3>3. op.n \in Saves
      BY <1>2 DEF At
    <3>. QED
      BY <2>2, <3>1, <3>2, <3>3, KeptByTaking DEF records, N
  <2>. QED
    BY <2>1, <2>2
<1>5. CASE Restore
  <2>. USE <1>5 DEF Restore
  <2>1. CASE End("recoveryConflict") /\ UNCHANGED source
    <3>1. op'.pc = "idle"
      BY <2>1, EndOp DEF Results
    <3>. QED
      BY <2>1, <3>1, KeptUntouched DEF files, records, history
  <2>2. CASE LinkNoReplace(prev[N], op.sha) /\ GoTo("dropping")
    <3>1. op'.pc = "dropping" /\ op'.n = op.n /\ op.sha \in Bytes /\ op.n \in Saves
      BY <1>1, <1>2, <2>2, GoToOp DEF Pcs, RecoveryPcs, At, OwedInv, WellFormed, OperationInv
    <3>2. /\ prev[op.n] # NoFile /\ bytes[prev[op.n]] = op.sha
          /\ source' # NoFile /\ bytes[source'] = op.sha
          /\ source' = source \/ source = NoFile
      BY <2>2, <3>1, SaveAssumption DEF LinkNoReplace, Occupied, Content, SourceIs, N
    <3>. SUFFICES ASSUME NEW x \in owed
                  PROVE  \/ source' # NoFile /\ bytes[source'] = x
                         \/ \E m \in Saves : Keeps(m)' /\ bytes[prev[m]] = x
      BY DEF OwedIsKept, history
    <3>3. CASE source # NoFile /\ bytes[source] = x
      BY <3>2, <3>3
    <3>4. CASE \E m \in Saves : Keeps(m) /\ bytes[prev[m]] = x
      <4>1. PICK m \in Saves : Keeps(m) /\ bytes[prev[m]] = x
        BY <3>4
      <4>2. CASE m = op.n
        BY <3>2, <4>1, <4>2
      <4>3. CASE m # op.n
        <5>1. Keeps(m)'
          BY <3>1, <4>1, <4>3 DEF Keeps, GivenUp, Doomed, records, history
        <5>. QED
          BY <4>1, <5>1
      <4>. QED
        BY <4>2, <4>3
    <3>. QED
      BY <3>3, <3>4 DEF OwedInv, OwedIsKept
  <2>. QED
    BY <2>1, <2>2
<1>6. CASE DropParked
  <2>1. op.pc = "dropping" /\ op.n \in Saves
    BY <1>2, <1>6 DEF DropParked, At
  <2>2. op'.pc = "rollingBack"
    BY <1>1, <1>6, GoToOp DEF DropParked, Pcs, RecoveryPcs
  <2>3. ~Keeps(op.n)
    BY <2>1 DEF Keeps, Doomed
  <2>. QED
    BY <1>6, <2>1, <2>2, <2>3, KeptWithout DEF DropParked, N, records, history
<1>7. CASE RollBack
  <2>1. op'.pc = "scanning"
    BY <1>1, <1>7 DEF RollBack, Operation
  <2>2. \A m \in Saves : tx'[m].expected = tx[m].expected
    BY <1>1, <1>7 DEF RollBack, TxRecord
  <2>. QED
    BY <1>7, <2>1, <2>2, KeptUntouched DEF RollBack, history
<1>8. CASE EndRecovery
  <2>. USE <1>8 DEF EndRecovery
  <2>1. op'.pc = "idle"
    BY EndOp DEF Results
  <2>2. \A m \in Saves : tx'[m].expected = tx[m].expected
    BY <1>1 DEF TxRecord
  <2>3. owed' = owed \/ (source # NoFile /\ owed' = owed \cup {bytes[source]})
    OBVIOUS
  <2>4. \A m \in Saves : Keeps(m) => Keeps(m)'
    BY <2>1, <2>2 DEF Keeps, GivenUp, Doomed, files
  <2>. QED
    BY <2>3, <2>4 DEF OwedInv, OwedIsKept, files
<1>. QED
  BY <1>3, <1>4, <1>5, <1>6, <1>7, <1>8 DEF RecoveryStep

(* Another program writes: its bytes are in the file or in a parked file    *)
(* that counts, unless the write comes after the last look.                 *)
LEMMA OwedExternal ==
  ASSUME OwedInv,
         \/ \E b \in Bytes : ExternalReplace(b)
         \/ \E i \in Inode, b \in Bytes : ExternalWrite(i, b)
         \/ ExternalDelete
  PROVE  OwedIsKept'
<1>1. /\ used \in Nat /\ bytes \in [Inode -> Bytes]
      /\ source # NoFile => source \in Inode /\ source <= used
      /\ \A n \in Saves : prev[n] # NoFile => prev[n] \in Inode /\ prev[n] <= used
      /\ used + 1 \in Inode \/ external >= MaxExternal
      /\ published \subseteq Saves
  BY SaveAssumption DEF OwedInv, WellFormed, TypeOK, FilesExist, Inode, Room
<1>2. ASSUME NEW b \in Bytes, ExternalReplace(b)
      PROVE  OwedIsKept'
  <2>1. /\ bytes'[used + 1] = b /\ source' = used + 1 /\ source' # NoFile
        /\ \A i \in Inode : i <= used => bytes'[i] = bytes[i]
        /\ owed' = (owed \ {Content(source)}) \cup {b}
    <3>1. used + 1 \in Inode
      BY <1>1, <1>2, SaveAssumption DEF ExternalReplace, OwedInv, WellFormed, TypeOK
    <3>2. bytes' = [bytes EXCEPT ![used + 1] = b]
      BY <1>2 DEF ExternalReplace, Create
    <3>. QED
      BY <1>1, <1>2, <3>1, <3>2 DEF ExternalReplace, Inode, NoFile
  <2>2. \A n \in Saves : Keeps(n) => Keeps(n)' /\ bytes'[prev'[n]] = bytes[prev[n]]
    BY <1>1, <1>2, <2>1 DEF ExternalReplace, Keeps, GivenUp, Doomed, records
  <2>. QED
    BY <2>1, <2>2, <1>2 DEF OwedInv, OwedIsKept, ExternalReplace, Content
<1>3. ASSUME NEW i \in Inode, NEW b \in Bytes, ExternalWrite(i, b)
      PROVE  OwedIsKept'
  <2>1. /\ i # NoFile /\ bytes'[i] = b /\ b # bytes[i]
        /\ \A j \in Inode : j # i => bytes'[j] = bytes[j]
        /\ UNCHANGED <<source, prev, tx, op, published>>
    BY <1>1, <1>3 DEF ExternalWrite, records, Inode, NoFile
  <2>. SUFFICES ASSUME NEW x \in owed'
                PROVE  \/ source # NoFile /\ bytes'[source] = x
                       \/ \E n \in Saves : Keeps(n)' /\ bytes'[prev[n]] = x
    BY <2>1 DEF OwedIsKept
  <2>2. CASE x \in owed /\ x # bytes[i]
    <3>1. CASE source # NoFile /\ bytes[source] = x
      BY <1>1, <2>1, <2>2, <3>1
    <3>2. CASE \E n \in Saves : Keeps(n) /\ bytes[prev[n]] = x
      <4>1. PICK n \in Saves : Keeps(n) /\ bytes[prev[n]] = x
        BY <3>2
      <4>2. bytes'[prev[n]] = x
        BY <1>1, <2>1, <2>2, <4>1 DEF Keeps
      <4>3. Keeps(n)'
        BY <2>1, <4>1, <4>2 DEF Keeps, GivenUp, Doomed
      <4>. QED
        BY <4>2, <4>3
    <3>. QED
      BY <2>2, <3>1, <3>2 DEF OwedInv, OwedIsKept
  <2>3. CASE x = b /\ ~Unnoticed(i) /\ ~Superseded(i, b)
    <3>1. CASE source = i
      BY <2>1, <2>3, <3>1
    <3>2. CASE source # i
      <4>1. PICK n \in Saves : prev[n] = i
        BY <1>3, <3>2 DEF ExternalWrite, Reachable
      <4>2. ~(n \in published /\ b = tx[n].expected)
        BY <2>3, <3>2, <4>1 DEF Superseded
      <4>3. ~Doomed(n)
        BY <2>3, <3>2, <4>1 DEF Unnoticed, Doomed, N
      <4>4. Keeps(n)'
        BY <2>1, <4>1, <4>2, <4>3 DEF Keeps, GivenUp, Doomed
      <4>. QED
        BY <2>1, <2>3, <4>1, <4>4
    <3>. QED
      BY <3>1, <3>2
  <2>. QED
    BY <1>3, <2>2, <2>3 DEF ExternalWrite
<1>4. CASE ExternalDelete
  <2>1. \A n \in Saves : Keeps(n) => Keeps(n)' /\ bytes'[prev'[n]] = bytes[prev[n]]
    BY <1>4 DEF ExternalDelete, Keeps, GivenUp, Doomed, records
  <2>. QED
    BY <1>4, <2>1 DEF OwedInv, OwedIsKept, ExternalDelete, Content
<1>. QED
  BY <1>2, <1>3, <1>4

(* No step at all loses bytes that are owed.                                *)
LEMMA OwedStep ==
  ASSUME OwedInv, [Next]_vars
  PROVE  OwedInv'
<1>0. WellFormed /\ WellFormed'
  BY WellFormedStep DEF OwedInv
<1>. SUFFICES OwedIsKept'
  BY <1>0 DEF OwedInv
<1>1. ASSUME NEW b \in Bytes, BeginSave(b)
      PROVE  OwedIsKept'
  <2>1. op'.pc = "staging"
    BY <1>1 DEF BeginSave, Idle
  <2>2. prev[saves + 1] = NoFile
    BY <1>0, <1>1, SaveAssumption DEF BeginSave, WellFormed, TypeOK, LaterIsBlank, Blank, Saves
  <2>3. \A n \in Saves : n # saves + 1 => tx'[n] = tx[n]
    BY <1>0, <1>1 DEF BeginSave, WellFormed, TypeOK
  <2>. QED
    BY <1>1, <2>1, <2>2, <2>3, KeptQuietly DEF BeginSave, history
<1>2. CASE SaveStep
  BY <1>2, OwedSave
<1>3. CASE RecoveryStep
  BY <1>3, OwedRecovery
<1>4. ASSUME NEW goal \in {"start", "open"}, StartRecovery(goal)
      PROVE  OwedIsKept'
  <2>1. op'.pc = "scanning"
    BY <1>4 DEF StartRecovery, Idle
  <2>. QED
    BY <1>4, <2>1, KeptUntouched DEF StartRecovery, records, history
<1>5. CASE \/ \E b \in Bytes : ExternalReplace(b)
           \/ \E i \in Inode, b \in Bytes : ExternalWrite(i, b)
           \/ ExternalDelete
  BY <1>5, OwedExternal
<1>6. CASE Crash
  <2>1. op'.pc = "down"
    BY <1>6 DEF Crash, Idle
  <2>. QED
    BY <1>6, <2>1, KeptUntouched DEF Crash, records, history
<1>7. CASE SystemCallFails
  <2>1. op'.pc = "idle"
    BY <1>7, EndOp DEF SystemCallFails, Results
  <2>. QED
    BY <1>7, <2>1, KeptUntouched DEF SystemCallFails, records, history
<1>8. CASE UNCHANGED vars
  BY <1>8, KeptUntouched DEF vars, records, history
<1>. QED
  BY <1>1, <1>2, <1>3, <1>4, <1>5, <1>6, <1>7, <1>8 DEF Next

(* What other programs wrote, what the user was shown and what was reported *)
(* as saved is in the file or in a recovery directory until it is written   *)
(* over or a save based on it is published.                                 *)
THEOREM NothingEverVanishes == Spec => []NothingVanishes
<1>1. Init => OwedInv
  <2>1. Init => OwedIsKept
    BY SaveAssumption DEF Init, OwedIsKept, NoFile, Inode
  <2>. QED
    BY <2>1, WellFormedInit DEF OwedInv
<1>2. OwedInv /\ [Next]_vars => OwedInv'
  BY OwedStep
<1>3. OwedInv => NothingVanishes
  BY DEF OwedInv, OwedIsKept, Keeps, NothingVanishes, Retained, Content
<1>. QED
  BY <1>1, <1>2, <1>3, PTL DEF Spec

-----------------------------------------------------------------------------
(* What recovery has examined is decided.                                   *)
Recovering == {"start", "open", "reply"}
Undecided(n) == tx[n].state \in {"prepared", "conflict"}
ExaminedIsDecided ==
    op.goal \in Recovering => \A n \in Saves \ op.todo : ~Undecided(n)

(* Only a save parks the file, and only a recovery examines.                *)
BeforePublishing == {"staging", "checking", "confirmingCheck", "parking",
                     "inspecting", "unparking", "publishing"}
OwnGoal ==
    /\ op.pc \notin {"idle", "down"} => op.goal # "none"
    /\ op.pc \in BeforePublishing => op.goal = "save"
    /\ op.pc \in RecoveryPcs => op.goal \in Recovering

SettledInv ==
    /\ WellFormed
    /\ ExaminedIsDecided
    /\ OwnGoal
    /\ OpenedIsSettled

(* An operation that ends otherwise than with an open project.              *)
LEMMA SettledEnd ==
  ASSUME NEW outcome \in Results \ {"opened", "saved"}, End(outcome)
  PROVE  ExaminedIsDecided' /\ OwnGoal' /\ OpenedIsSettled'
BY DEF End, Idle, ExaminedIsDecided, Recovering, OwnGoal, BeforePublishing,
   RecoveryPcs, OpenedIsSettled

(* An operation that goes on, and decides what it takes off its list.       *)
LEMMA SettledGoing ==
  ASSUME SettledInv, NEW pc \in Pcs \ {"idle"}, op'.pc = pc,
         pc \in BeforePublishing => op.pc \in BeforePublishing,
         pc \in RecoveryPcs => op.goal \in Recovering,
         pc # "down" => op.pc \notin {"idle", "down"},
         op'.goal = op.goal,
         \A n \in Saves : n \in op.todo /\ n \notin op'.todo => ~Undecided(n)',
         \A n \in Saves : Undecided(n)' => Undecided(n)
  PROVE  ExaminedIsDecided' /\ OwnGoal' /\ OpenedIsSettled'
<1>1. ExaminedIsDecided'
  BY DEF SettledInv, ExaminedIsDecided, Recovering
<1>2. OwnGoal' /\ OpenedIsSettled'
  BY DEF SettledInv, OwnGoal, OpenedIsSettled
<1> QED
  BY <1>1, <1>2

(* An operation that starts to examine every transaction.                   *)
LEMMA SettledScan ==
  ASSUME op'.pc = "scanning", op'.goal \in Recovering, op'.todo = Saves
  PROVE  ExaminedIsDecided' /\ OwnGoal' /\ OpenedIsSettled'
BY DEF ExaminedIsDecided, OwnGoal, Recovering, BeforePublishing,
   OpenedIsSettled

LEMMA SettledSame ==
  ASSUME SettledInv, UNCHANGED <<tx, recorded, editor, op, result>>,
         source' = NoFile => deleted' \/ (source = NoFile /\ deleted' = deleted)
  PROVE  ExaminedIsDecided' /\ OwnGoal' /\ OpenedIsSettled'
BY DEF SettledInv, ExaminedIsDecided, Undecided, Recovering, OwnGoal,
   OpenedIsSettled

(* How the operation goes on.                                               *)
LEMMA GoOn ==
  ASSUME op \in Operation, NEW pc \in Pcs, GoTo(pc)
  PROVE  op'.pc = pc /\ op'.goal = op.goal /\ op'.todo = op.todo
BY DEF GoTo, Operation

LEMMA SettledMove ==
  ASSUME SettledInv, NEW pc \in Pcs \ {"idle"}, GoTo(pc), UNCHANGED tx,
         pc \in BeforePublishing => op.pc \in BeforePublishing,
         pc \in RecoveryPcs => op.pc \in RecoveryPcs,
         op.pc \notin {"idle", "down"}
  PROVE  ExaminedIsDecided' /\ OwnGoal' /\ OpenedIsSettled'
<1>1. op'.pc = pc /\ op'.goal = op.goal /\ op'.todo = op.todo
  BY GoOn DEF SettledInv, WellFormed, TypeOK
<1> QED
  BY <1>1, SettledGoing DEF Undecided, SettledInv, OwnGoal

LEMMA SettledReads ==
  ASSUME SettledInv, NEW pc \in Pcs, NEW next \in Pcs \ {"idle"},
         next \notin BeforePublishing \cup RecoveryPcs,
         pc \notin {"idle", "down"}, NEW ok \in BOOLEAN, Reads(pc, ok, next)
  PROVE  ExaminedIsDecided' /\ OwnGoal' /\ OpenedIsSettled'
<1>1. UNCHANGED tx
  BY DEF Reads, records
<1>2. CASE GoTo(next)
  BY <1>1, <1>2, SettledMove DEF Reads, At
<1>3. CASE End("conflict")
  BY <1>3, SettledEnd DEF Results
<1> QED
  BY <1>2, <1>3 DEF Reads

LEMMA SettledRetired ==
  ASSUME SettledInv, Retired, op.pc \notin {"idle", "down"},
         \A n \in Saves : Undecided(n)' => Undecided(n)
  PROVE  ExaminedIsDecided' /\ OwnGoal' /\ OpenedIsSettled'
<1>0. op \in Operation
  BY DEF SettledInv, WellFormed, TypeOK
<1>1. CASE op.goal = "save"
  <2>1. op'.pc = "scanning" /\ op'.goal = "reply" /\ op'.todo = Saves
    BY <1>0, <1>1 DEF Retired, Operation
  <2> QED
    BY <2>1, SettledScan DEF Recovering
<1>2. CASE op.goal # "save"
  <2>1. op'.pc = "scanning" /\ op'.todo = op.todo /\ op'.goal = op.goal
    BY <1>0, <1>2 DEF Retired, Operation
  <2>2. op.goal \in Recovering
    BY <1>0, <1>2 DEF SettledInv, OwnGoal, Recovering, Operation, Goals
  <2> QED
    BY <2>1, <2>2, SettledGoing DEF Pcs, RecoveryPcs, BeforePublishing
<1> QED
  BY <1>1, <1>2

(* Transactions that are closed are decided.                                *)
LEMMA Closes ==
  ASSUME SettledInv, NEW n \in Saves, NEW state \in {"committed", "gone"},
         \/ tx' = [tx EXCEPT ![n].state = state]
         \/ tx' = [tx EXCEPT ![n].state = state, ![n].marked = TRUE]
  PROVE  ~Undecided(n)' /\ \A m \in Saves : Undecided(m)' => Undecided(m)
BY DEF SettledInv, WellFormed, TypeOK, TxRecord, Undecided

LEMMA SettledBegin ==
  ASSUME SettledInv, NEW b \in Bytes, BeginSave(b)
  PROVE  ExaminedIsDecided' /\ OwnGoal' /\ OpenedIsSettled'
<1>1. op'.pc = "staging" /\ op'.goal = "save"
  BY DEF BeginSave, Idle
<1> QED
  BY <1>1 DEF ExaminedIsDecided, Recovering, OwnGoal, RecoveryPcs,
     OpenedIsSettled

LEMMA SettledSave ==
  ASSUME SettledInv, SaveStep
  PROVE  ExaminedIsDecided' /\ OwnGoal' /\ OpenedIsSettled'
<1>0. /\ WellFormed /\ op \in Operation
      /\ op.pc \notin {"idle", "down", "scanning"} => N \in Saves
  <2>1. WellFormed /\ op \in Operation /\ saves \in 0..MaxSaves
    BY DEF SettledInv, WellFormed, TypeOK
  <2>2. op.pc \notin {"idle", "down", "scanning"} => N \in 1..saves
    BY DEF SettledInv, WellFormed, OperationInv
  <2> QED
    BY <2>1, <2>2, SaveAssumption DEF Saves
<1>1. CASE Stage \/ Discard
  BY <1>1, SettledMove
     DEF Stage, Discard, At, Pcs, SavePcs, RecoveryPcs, records,
         BeforePublishing
<1>2. ASSUME NEW actual, NotSwapped(actual), UNCHANGED tx,
             op.pc \notin {"idle", "down"}
      PROVE  ExaminedIsDecided' /\ OwnGoal' /\ OpenedIsSettled'
  <2>1. op'.pc \in {"binding", "settling"} /\ op'.goal = op.goal
        /\ op'.todo = op.todo
    BY <1>0, <1>2 DEF NotSwapped, Operation
  <2> QED
    BY <1>2, <2>1, SettledGoing
       DEF Pcs, SavePcs, SharedPcs, RecoveryPcs, BeforePublishing, Undecided
<1>3. CASE Check \/ CheckAgain
  BY <1>2, <1>3, SettledMove, SettledEnd DEF Check, CheckAgain, At, Pcs,
     SavePcs, RecoveryPcs, records, BeforePublishing, Results
<1>4. CASE Settle
  <2>1. \A m \in Saves : Undecided(m)' => Undecided(m)
    BY <1>0, <1>4, Closes DEF Settle, At
  <2>2. op'.pc = "discarding" /\ op'.goal = op.goal /\ op'.todo = op.todo
    BY <1>0, <1>4, GoOn DEF Settle, Pcs, SavePcs
  <2> QED
    BY <1>4, <2>1, <2>2, SettledGoing
       DEF Settle, At, Pcs, SavePcs, RecoveryPcs, BeforePublishing
<1>5. CASE Refuse
  <2>1. CASE op' = [op EXCEPT !.pc = "scanning", !.goal = "reply",
                      !.sha = bytes[source], !.todo = Saves]
    BY <1>0, <2>1, SettledScan DEF Operation, Recovering
  <2> QED
    BY <1>5, <2>1, SettledEnd DEF Refuse, Results
<1>6. CASE Park \/ Inspect \/ Publish
  BY <1>6, SettledMove, SettledEnd DEF Park, Inspect, Publish, At, Pcs,
     SavePcs, RecoveryPcs, records, BeforePublishing, Results
<1>7. CASE Unpark
  BY <1>7, SettledEnd DEF Unpark, Results
<1>8. CASE ReadBack \/ Bind \/ Confirm \/ Audit \/ Verify
  <2>1. {"readback", "binding", "confirming", "auditing", "verifying",
         "recording", "committing", "removing"}
          \subseteq Pcs \ (BeforePublishing \cup RecoveryPcs
                           \cup {"idle", "down"})
    BY DEF Pcs, SavePcs, SharedPcs, RecoveryPcs, BeforePublishing
  <2>2. CASE ReadBack
    BY <2>1, <2>2, SettledReads DEF ReadBack, SourceIs, PreviousIs
  <2>3. CASE Bind
    BY <2>1, <2>3, SettledReads DEF Bind, SourceIs
  <2>4. CASE Confirm
    <3>1. Confirm => \E ok \in BOOLEAN : Reads("confirming", ok, "committing")
      BY DEF Confirm, Reads
    <3> QED
      BY <2>1, <2>4, <3>1, SettledReads
  <2>5. CASE Audit
    <3>1. Audit => \E ok \in BOOLEAN : Reads("auditing", ok, "verifying")
      BY DEF Audit, Reads
    <3> QED
      BY <2>1, <2>5, <3>1, SettledReads
  <2>6. CASE Verify
    BY <2>1, <2>6, SettledReads DEF Verify, Verified
  <2> QED
    BY <1>8, <2>2, <2>3, <2>4, <2>5, <2>6
<1>9. CASE Record
  BY <1>9, SettledMove
     DEF Record, At, Pcs, SharedPcs, RecoveryPcs, BeforePublishing
<1>10. ASSUME NEW n \in Saves, n = N, Commit
       PROVE  ExaminedIsDecided' /\ OwnGoal' /\ OpenedIsSettled'
  <2>1. ~Undecided(n)' /\ \A m \in Saves : Undecided(m)' => Undecided(m)
    BY <1>10, Closes DEF Commit
  <2>2. /\ op'.pc \in {"auditing", "verifying", "scanning"}
        /\ op'.goal = op.goal /\ op'.todo = op.todo \ {n}
        /\ op'.pc = "scanning" => op.goal # "save"
    BY <1>0, <1>10 DEF Commit, AfterCommit, Operation
  <2>3. op.pc = "committing" /\ op.goal \in Recovering \cup {"save"}
    BY <1>0, <1>10
       DEF Commit, At, SettledInv, OwnGoal, Recovering, Operation, Goals
  <2> QED
    BY <2>1, <2>2, <2>3, SettledGoing
       DEF Pcs, SavePcs, SharedPcs, RecoveryPcs, BeforePublishing
<1>11. CASE Remove
  <2>1. UNCHANGED tx
    BY <1>11 DEF Remove, records
  <2>2. CASE GoTo("unlinking")
    BY <1>11, <2>1, <2>2, SettledMove
       DEF Remove, At, Pcs, SharedPcs, RecoveryPcs, BeforePublishing
  <2> QED
    BY <1>11, <2>1, <2>2, SettledRetired DEF Remove, At, Undecided
<1>12. CASE UnlinkRecord
  <2>1. CASE End("conflict")
    BY <2>1, SettledEnd DEF Results
  <2>2. CASE Retired /\ tx' = [tx EXCEPT ![N].state = "gone"]
    BY <1>0, <1>12, <2>2, SettledRetired, Closes DEF UnlinkRecord, At
  <2> QED
    BY <1>12, <2>1, <2>2 DEF UnlinkRecord
<1>13. Commit => N \in Saves
  BY <1>0 DEF Commit, At
<1> QED
  BY <1>1, <1>3, <1>4, <1>5, <1>6, <1>7, <1>8, <1>9, <1>10, <1>11, <1>12,
     <1>13 DEF SaveStep

LEMMA SettledExamine ==
  ASSUME SettledInv, NEW n \in Saves, Examine(n)
  PROVE  ExaminedIsDecided' /\ OwnGoal' /\ OpenedIsSettled'
<1>0. op \in Operation /\ op.pc = "scanning" /\ op.goal \in Recovering
  BY DEF SettledInv, WellFormed, TypeOK, Examine, At, OwnGoal, RecoveryPcs
<1>1. ASSUME NEW pc \in {"binding", "republishing", "restoring"},
             op'.pc = pc, op'.goal = op.goal, op'.todo = op.todo,
             UNCHANGED tx
      PROVE  ExaminedIsDecided' /\ OwnGoal' /\ OpenedIsSettled'
  BY <1>0, <1>1, SettledGoing
     DEF Pcs, SharedPcs, RecoveryPcs, BeforePublishing, Undecided
<1>2. CASE End("recoveryConflict")
  BY <1>2, SettledEnd DEF Results
<1>3. ASSUME NEW pc \in {"binding", "republishing"}, NEW retire,
             Take(n, pc, retire), UNCHANGED tx
      PROVE  ExaminedIsDecided' /\ OwnGoal' /\ OpenedIsSettled'
  BY <1>0, <1>1, <1>3 DEF Take, Operation
<1>4. CASE FoundPublished(n)
  BY <1>2, <1>3, <1>4 DEF FoundPublished
<1>5. CASE FoundParked(n)
  <2>1. CASE op' = [op EXCEPT !.pc = "restoring", !.n = n,
                              !.sha = bytes[prev[n]]]
    BY <1>0, <1>1, <1>5, <2>1 DEF FoundParked, Operation
  <2> QED
    BY <1>3, <1>5, <2>1 DEF FoundParked
<1>6. CASE FoundUnchanged(n)
  <2>1. ~Undecided(n)' /\ \A m \in Saves : Undecided(m)' => Undecided(m)
    BY <1>6, Closes DEF FoundUnchanged
  <2>2. op'.pc = "scanning" /\ op'.goal = op.goal /\ op'.todo = op.todo \ {n}
    BY <1>0, <1>6 DEF FoundUnchanged, Operation, Examine, At
  <2> QED
    BY <1>0, <2>1, <2>2, SettledGoing DEF Pcs, RecoveryPcs, BeforePublishing
<1> QED
  BY <1>2, <1>4, <1>5, <1>6 DEF Examine, FoundOther

(* A project that opens: everything was on the list, and is decided.        *)
LEMMA SettledOpening ==
  ASSUME SettledInv, EndRecovery
  PROVE  ExaminedIsDecided' /\ OwnGoal' /\ OpenedIsSettled'
<1>1. CASE \E outcome \in {"started", "failed"} : End(outcome)
  BY <1>1, SettledEnd DEF Results
<1>2. CASE /\ op.goal # "start" /\ source # NoFile
           /\ editor' = bytes[source]
           /\ recorded' = [recorded EXCEPT !.sha = bytes[source]]
           /\ End(IF op.goal = "open" THEN "opened" ELSE "saved")
  <2>1. op'.pc = "idle" /\ op'.goal = "none"
    BY <1>2 DEF End, Idle
  <2>2. recorded'.sha = editor' /\ source' # NoFile
    BY <1>2 DEF EndRecovery, files, SettledInv, WellFormed, TypeOK,
       StateRecord
  <2>3. op.goal \in Recovering
    BY DEF EndRecovery, At, SettledInv, OwnGoal, RecoveryPcs
  <2>4. ASSUME NEW n \in Saves
        PROVE  tx'[n].state \notin {"prepared", "conflict"}
    <3>1. ~Undecided(n)
      BY <2>3 DEF EndRecovery, SettledInv, ExaminedIsDecided, Pending,
         NeedsRecovery, Undecided
    <3>2. tx'[n].state \in {tx[n].state, "gone"}
      BY DEF EndRecovery, SettledInv, WellFormed, TypeOK, TxRecord
    <3> QED
      BY <3>1, <3>2 DEF Undecided
  <2>5. OpenedIsSettled'
    BY <2>2, <2>4 DEF OpenedIsSettled
  <2> QED
    BY <2>1, <2>5 DEF ExaminedIsDecided, Recovering, OwnGoal,
       BeforePublishing, RecoveryPcs
<1> QED
  BY <1>1, <1>2 DEF EndRecovery

LEMMA SettledRecovery ==
  ASSUME SettledInv, RecoveryStep
  PROVE  ExaminedIsDecided' /\ OwnGoal' /\ OpenedIsSettled'
<1>0. op \in Operation /\ (op.pc = "rollingBack" => N \in Saves)
  <2>1. op \in Operation /\ saves \in 0..MaxSaves
    BY DEF SettledInv, WellFormed, TypeOK
  <2>2. op.pc = "rollingBack" => N \in 1..saves
    BY DEF SettledInv, WellFormed, OperationInv
  <2> QED
    BY <2>1, <2>2, SaveAssumption DEF Saves
<1>1. CASE \E n \in Saves : Examine(n)
  BY <1>1, SettledExamine
<1>2. CASE Republish \/ Restore \/ DropParked
  BY <1>2, SettledMove, SettledEnd DEF Republish, Restore, DropParked, At, Pcs,
     SharedPcs, RecoveryPcs, records, BeforePublishing, Results
<1>3. ASSUME NEW n \in Saves, n = N, RollBack
      PROVE  ExaminedIsDecided' /\ OwnGoal' /\ OpenedIsSettled'
  <2>1. ~Undecided(n)' /\ \A m \in Saves : Undecided(m)' => Undecided(m)
    BY <1>3, Closes DEF RollBack
  <2>2. op'.pc = "scanning" /\ op'.goal = op.goal /\ op'.todo = op.todo \ {n}
    BY <1>0, <1>3 DEF RollBack, Operation
  <2>3. op.pc = "rollingBack" /\ op.goal \in Recovering
    BY <1>3 DEF RollBack, At, SettledInv, OwnGoal, RecoveryPcs
  <2> QED
    BY <2>1, <2>2, <2>3, SettledGoing DEF Pcs, RecoveryPcs, BeforePublishing
<1>4. RollBack => N \in Saves
  BY <1>0 DEF RollBack, At
<1> QED
  BY <1>1, <1>2, <1>3, <1>4, SettledOpening DEF RecoveryStep

LEMMA SettledStep ==
  ASSUME SettledInv, [Next]_vars
  PROVE  SettledInv'
<1>0. WellFormed'
  BY WellFormedStep DEF SettledInv
<1>. SUFFICES ExaminedIsDecided' /\ OwnGoal' /\ OpenedIsSettled'
  BY <1>0 DEF SettledInv
<1>1. CASE \E b \in Bytes : BeginSave(b)
  BY <1>1, SettledBegin
<1>2. CASE SaveStep \/ RecoveryStep
  BY <1>2, SettledSave, SettledRecovery
<1>3. ASSUME NEW goal \in {"start", "open"}, StartRecovery(goal)
      PROVE  ExaminedIsDecided' /\ OwnGoal' /\ OpenedIsSettled'
  BY <1>3, SettledScan DEF StartRecovery, Idle, Recovering
<1>4. CASE \/ \E b \in Bytes : ExternalReplace(b)
           \/ \E i \in Inode, b \in Bytes : ExternalWrite(i, b)
           \/ ExternalDelete
  <2>1. UNCHANGED <<tx, recorded, editor, op, result>>
    BY <1>4 DEF ExternalReplace, ExternalWrite, ExternalDelete, records,
       client
  <2>2. used' # NoFile
    BY <1>0 DEF WellFormed, TypeOK, Inode, NoFile
  <2>3. source' = NoFile =>
            deleted' \/ (source = NoFile /\ deleted' = deleted)
    BY <1>4, <2>2
       DEF ExternalReplace, ExternalWrite, ExternalDelete, Create
  <2> QED
    BY <2>1, <2>3, SettledSame
<1>5. CASE Crash
  BY <1>5 DEF Crash, Idle, ExaminedIsDecided, Recovering, OwnGoal,
     BeforePublishing, RecoveryPcs, OpenedIsSettled
<1>6. CASE SystemCallFails
  BY <1>6, SettledEnd DEF SystemCallFails, Results
<1>7. CASE UNCHANGED vars
  BY <1>7, SettledSame DEF vars, files, records, client, history
<1>. QED
  BY <1>1, <1>2, <1>3, <1>4, <1>5, <1>6, <1>7 DEF Next

LEMMA SettledInit == Init => SettledInv
<1>1. Init => ExaminedIsDecided /\ OwnGoal
  BY DEF Init, Idle, ExaminedIsDecided, Recovering, OwnGoal,
     BeforePublishing, RecoveryPcs
<1>2. Init => OpenedIsSettled
  BY DEF Init, OpenedIsSettled, NoFile, NoTx
<1> QED
  BY <1>1, <1>2, WellFormedInit DEF SettledInv

(* A project that was just opened, or a save that was just answered, leaves *)
(* no transaction undecided (recoverProject looks at every one), and the    *)
(* state record agrees with the renderer.                                   *)
THEOREM OpenedMeansSettled == Spec => []OpenedIsSettled
<1>1. SettledInv => OpenedIsSettled
  BY DEF SettledInv
<1>2. SettledInv /\ [Next]_vars => SettledInv'
  BY SettledStep
<1> QED
  BY <1>1, <1>2, SettledInit, PTL DEF Spec

-----------------------------------------------------------------------------
(* Only another program, and a save that parks, take the name from a file.  *)
LEMMA NameStays ==
  ASSUME SettledInv, [Next]_vars, source # NoFile, external' = external,
         source' # source
  PROVE  op.pc = "parking"
<1>1. CASE \/ \E b \in Bytes : ExternalReplace(b)
           \/ \E i \in Inode, b \in Bytes : ExternalWrite(i, b)
           \/ ExternalDelete
  <2>1. external' = external + 1
    BY <1>1 DEF ExternalReplace, ExternalWrite, ExternalDelete
  <2> QED
    BY <2>1 DEF SettledInv, WellFormed, TypeOK
<1>2. CASE SaveStep
  BY <1>2 DEF SaveStep, Stage, Check, CheckAgain, Settle, Discard,
     EmptyDirectory, Refuse, Park, Inspect, Unpark, Publish, Occupied,
     ReadBack, Bind, Record, Confirm, Commit, Audit, Verify, Reads, Remove,
     UnlinkRecord, At, files
<1>3. CASE RecoveryStep
  BY <1>3 DEF RecoveryStep, Examine, Republish, Restore, LinkNoReplace,
     Occupied, DropParked, RollBack, EndRecovery, files
<1> QED
  BY <1>1, <1>2, <1>3 DEF Next, BeginSave, StartRecovery, Crash,
     SystemCallFails, vars, files

(* Recovery links into a free name or leaves the file that is there         *)
(* (linkFileNoReplace, recoverSaveTransaction): it replaces no file.        *)
THEOREM RecoveryLeavesFiles == Spec => RecoveryNeverOverwrites
<1>1. SettledInv /\ [Next]_vars =>
        [op.goal \in {"start", "open", "reply"} /\ source # NoFile
         /\ external' = external => source' = source]_vars
  BY NameStays DEF SettledInv, OwnGoal, BeforePublishing
<1>2. SettledInv /\ [Next]_vars => SettledInv'
  BY SettledStep
<1> QED
  BY <1>1, <1>2, SettledInit, PTL DEF Spec, RecoveryNeverOverwrites

=============================================================================
