--------------------------- MODULE SaveTransaction ---------------------------
(***************************************************************************)
(* SaveTransaction: how one save replaces the bytes of a working copy.     *)
(*                                                                         *)
(* A save may stop anywhere, and another program may write the file at     *)
(* any moment, by name or through a descriptor it opened long ago.  So the *)
(* repository never overwrites: it records a transaction, parks the file   *)
(* it displaces in a recovery directory, links the new bytes into the      *)
(* empty name, and looks at the parked file again before forgetting it.    *)
(* Recovery decides from what it finds on disk whether an interrupted save *)
(* is finished or rolled back.                                             *)
(*                                                                         *)
(* The file system is modelled as names that refer to inodes that hold     *)
(* bytes; a hash is the identity of the bytes.  Each action is one         *)
(* decisive system call with the reads before it.  What is on disk stays   *)
(* there in the order it was written (every step syncs).  One repository   *)
(* operation runs at a time (#serial).                                     *)
(*                                                                         *)
(* Left out: renaming of the file by other programs and the source binding *)
(* that follows it, the manifest, element identities, other kinds of       *)
(* transaction.                                                            *)
(***************************************************************************)
EXTENDS Integers, FiniteSets

CONSTANTS
    Bytes,        \* contents of the file
    InitialBytes, \* the content when the model starts
    MaxSaves,     \* bound: saves, each with its own transaction
    MaxExternal,  \* bound: writes by other programs
    MaxWrites,    \* bound: saves and writes by others together
    MaxCrashes,   \* bound: crashes of the bridge
    MaxFaults     \* bound: system calls that fail

Absent == "absent"
NoFile == 0

ASSUME SaveAssumption ==
    /\ InitialBytes \in Bytes
    /\ Absent \notin Bytes
    /\ MaxSaves \in Nat /\ MaxExternal \in Nat /\ MaxWrites \in Nat
    /\ MaxCrashes \in Nat /\ MaxFaults \in Nat

VARIABLES
    source,    \* the inode the file's name refers to, or NoFile
    bytes,     \* what each inode holds
    used,      \* the inodes allocated so far
    prev,      \* previous.html of each save: the parked file
    staged,    \* next.html of each save: its replacement bytes
    dir,       \* saves whose recovery directory exists
    tx,        \* the transaction record of each save
    recorded,  \* the working copy's state record: hash and revision
    saves,     \* saves begun so far; save n carries revision n
    op,        \* the operation the repository is executing
    editor,    \* the bytes the renderer believes to be on disk
    result,    \* how the last operation ended
    external, crashes, faults,
    owed,      \* history: contents that nobody was allowed to discard
    published, \* history: saves whose new bytes took the name
    deleted    \* history: if the file is missing, another program removed it

files == <<source, bytes, used, prev, staged, dir>>
records == <<tx, recorded>>
client == <<saves, editor>>
history == <<owed, published, deleted>>
bounds == <<external, crashes, faults>>
vars == <<files, records, op, result, client, bounds, history>>

Saves == 1..MaxSaves
Inode == 1..(1 + 2 * MaxSaves + MaxExternal)
Content(i) == IF i = NoFile THEN Absent ELSE bytes[i]

NoTx == [state |-> "none", marked |-> FALSE, expected |-> InitialBytes,
         target |-> InitialBytes]
Idle == [pc |-> "idle", goal |-> "none", n |-> 0, seen |-> NoFile,
         replay |-> FALSE, retire |-> FALSE, sha |-> Absent, todo |-> {}]
Goals == {"none", "save", "start", "open", "reply"}
SavePcs == {"staging", "checking", "confirmingCheck", "settling", "discarding",
            "refusing", "parking", "inspecting", "unparking", "publishing",
            "readback", "auditing"}
SharedPcs == {"binding", "recording", "confirming", "committing", "verifying",
              "removing", "unlinking"}
RecoveryPcs == {"scanning", "republishing", "restoring", "dropping",
                "rollingBack"}
Pcs == {"idle", "down"} \cup SavePcs \cup SharedPcs \cup RecoveryPcs
Results == {"none", "saved", "opened", "started", "conflict",
            "recoveryConflict", "failed"}

TxRecord == [state : {"none", "prepared", "committed", "conflict", "gone"},
             marked : BOOLEAN, expected : Bytes, target : Bytes]
StateRecord == [sha : Bytes, revision : 0..MaxSaves]
Operation == [pc : Pcs, goal : Goals, n : 0..MaxSaves,
              seen : Inode \cup {NoFile}, replay : BOOLEAN, retire : BOOLEAN,
              sha : Bytes \cup {Absent}, todo : SUBSET Saves]

TypeOK ==
    /\ source \in Inode \cup {NoFile}
    /\ bytes \in [Inode -> Bytes]
    /\ used \in Inode
    /\ prev \in [Saves -> Inode \cup {NoFile}]
    /\ staged \in [Saves -> Inode \cup {NoFile}]
    /\ dir \subseteq Saves
    /\ tx \in [Saves -> TxRecord]
    /\ recorded \in StateRecord
    /\ saves \in 0..MaxSaves
    /\ op \in Operation
    /\ editor \in Bytes \cup {Absent}
    /\ result \in Results
    /\ external \in 0..MaxExternal
    /\ crashes \in 0..MaxCrashes
    /\ faults \in 0..MaxFaults
    /\ owed \subseteq Bytes
    /\ published \subseteq Saves
    /\ deleted \in BOOLEAN

Init ==
    /\ source = 1
    /\ bytes = [i \in Inode |-> InitialBytes]
    /\ used = 1
    /\ prev = [n \in Saves |-> NoFile]
    /\ staged = [n \in Saves |-> NoFile]
    /\ dir = {}
    /\ tx = [n \in Saves |-> NoTx]
    /\ recorded = [sha |-> InitialBytes, revision |-> 0]
    /\ saves = 0
    /\ op = Idle
    /\ editor = InitialBytes
    /\ result = "opened"
    /\ external = 0 /\ crashes = 0 /\ faults = 0
    /\ owed = {InitialBytes}
    /\ published = {}
    /\ deleted = FALSE

-----------------------------------------------------------------------------
N == op.n
T == tx[N]
At(pc) == op.pc = pc
GoTo(pc) == op' = [op EXCEPT !.pc = pc]
End(outcome) == op' = Idle /\ result' = outcome

(* The new bytes of save n have the name: what they replace is given up.    *)
Takes(n) == /\ owed' = owed \ {tx[n].expected}
            /\ published' = published \cup {n}
GivesUpNothing == UNCHANGED <<owed, published>>

(* A file of its own with these bytes, for a name that is free.             *)
Create(b) == /\ used' = used + 1
             /\ bytes' = [bytes EXCEPT ![used + 1] = b]

MayWrite == saves + external < MaxWrites

SourceIs(b) == source # NoFile /\ bytes[source] = b
PreviousIs(b) == prev[N] # NoFile /\ bytes[prev[N]] = b

-----------------------------------------------------------------------------
(* saveWorkingCopy: the transaction is on record, and its directory exists, *)
(* before anything else happens.                                            *)
BeginSave(b) ==
    /\ At("idle")
    /\ editor # Absent
    /\ source # NoFile
    /\ saves < MaxSaves /\ MayWrite
    /\ saves' = saves + 1
    /\ dir' = dir \cup {saves + 1}
    /\ tx' = [tx EXCEPT ![saves + 1] =
                [state |-> "prepared", marked |-> FALSE, expected |-> editor,
                 target |-> b]]
    /\ op' = [Idle EXCEPT !.pc = "staging", !.goal = "save", !.n = saves + 1,
                          !.seen = source, !.sha = b]
    /\ UNCHANGED <<source, bytes, used, prev, staged, recorded, editor,
                   result, bounds, history>>

Stage ==
    /\ At("staging")
    /\ Create(T.target)
    /\ staged' = [staged EXCEPT ![N] = used + 1]
    /\ GoTo("checking")
    /\ UNCHANGED <<source, prev, dir, records, result, client, bounds, history>>

(* The file no longer is what the save is based on.  If it already holds    *)
(* the new bytes this is a replay of a save whose answer was lost.          *)
NotSwapped(actual) ==
    IF actual = T.target
    THEN op' = [op EXCEPT !.pc = "binding", !.replay = TRUE]
    ELSE op' = [op EXCEPT !.pc = "settling", !.sha = actual]

Check ==
    /\ At("checking")
    /\ \/ ~SourceIs(T.expected) /\ NotSwapped(Content(source))
          /\ UNCHANGED result
       \/ SourceIs(T.expected) /\ source # op.seen /\ End("conflict")
       \/ SourceIs(T.expected) /\ source = op.seen /\ GoTo("confirmingCheck")
          /\ UNCHANGED result
    /\ UNCHANGED <<files, records, client, bounds, history>>

CheckAgain ==
    /\ At("confirmingCheck")
    /\ \/ source = NoFile /\ End("failed")
       \/ source # NoFile /\ ~(SourceIs(T.expected) /\ source = op.seen)
          /\ NotSwapped(Content(source)) /\ UNCHANGED result
       \/ SourceIs(T.expected) /\ source = op.seen /\ GoTo("parking")
          /\ UNCHANGED result
    /\ UNCHANGED <<files, records, client, bounds, history>>

(* Not swapped: the record is closed first, then its directory is removed.  *)
Settle ==
    /\ At("settling")
    /\ tx' = [tx EXCEPT ![N].state = "committed", ![N].marked = TRUE]
    /\ GoTo("discarding")
    /\ UNCHANGED <<files, recorded, result, client, bounds, history>>

EmptyDirectory ==
    /\ dir' = dir \ {N}
    /\ prev' = [prev EXCEPT ![N] = NoFile]
    /\ staged' = [staged EXCEPT ![N] = NoFile]
    /\ UNCHANGED <<source, bytes, used>>

Discard ==
    /\ At("discarding")
    /\ \/ EmptyDirectory /\ UNCHANGED faults
       \/ /\ faults < MaxFaults
          /\ faults' = faults + 1
          /\ UNCHANGED files
    /\ GoTo("refusing")
    /\ UNCHANGED <<records, result, client, external, crashes, history>>

(* A save without changes adopts what it finds; any other is a conflict.    *)
Refuse ==
    /\ At("refusing")
    /\ \/ /\ T.target = T.expected /\ op.sha # Absent /\ source # NoFile
          /\ recorded' = [recorded EXCEPT !.sha = bytes[source]]
          /\ op' = [op EXCEPT !.pc = "scanning", !.goal = "reply",
                              !.sha = bytes[source],
                              !.todo = Saves]
          /\ UNCHANGED result
       \/ /\ T.target = T.expected /\ op.sha # Absent /\ source = NoFile
          /\ End("failed") /\ UNCHANGED recorded
       \/ /\ ~(T.target = T.expected /\ op.sha # Absent)
          /\ End("conflict") /\ UNCHANGED recorded
    /\ UNCHANGED <<files, tx, client, bounds, history>>

-----------------------------------------------------------------------------
(* Park whatever the name refers to at that moment, and look at what was    *)
(* parked: if it is not the file that was checked, put it back, unless      *)
(* somebody already took the name.                                          *)
Park ==
    /\ At("parking")
    /\ \/ source = NoFile /\ End("failed") /\ UNCHANGED <<files, deleted>>
       \/ /\ source # NoFile
          /\ prev' = [prev EXCEPT ![N] = source]
          /\ source' = NoFile
          /\ deleted' = FALSE
          /\ GoTo("inspecting")
          /\ UNCHANGED <<bytes, used, staged, dir, result>>
    /\ UNCHANGED <<records, client, bounds, owed, published>>

MutantDiscardsParked ==
    /\ At("inspecting")
    /\ GoTo(IF PreviousIs(T.expected) /\ prev[N] = op.seen THEN "publishing"
            ELSE "settling")
    /\ UNCHANGED <<files, records, result, client, bounds, history>>

Inspect ==
    /\ At("inspecting")
    /\ GoTo(IF PreviousIs(T.expected) /\ prev[N] = op.seen THEN "publishing"
            ELSE "unparking")
    /\ UNCHANGED <<files, records, result, client, bounds, history>>

Occupied == source # NoFile

Unpark ==
    /\ At("unparking")
    /\ source' = IF Occupied THEN source ELSE prev[N]
    /\ End("conflict")
    /\ UNCHANGED <<bytes, used, prev, staged, dir, records, client, bounds, history>>

Publish ==
    /\ At("publishing")
    /\ \/ Occupied /\ End("conflict") /\ UNCHANGED files /\ GivesUpNothing
       \/ /\ ~Occupied
          /\ Create(T.target)
          /\ source' = used + 1
          /\ Takes(N)
          /\ GoTo("readback")
          /\ UNCHANGED <<prev, staged, dir, result>>
    /\ UNCHANGED <<records, client, bounds, deleted>>

(* A step that only goes on when what it reads back is what it expects.     *)
Reads(pc, ok, next) ==
    /\ At(pc)
    /\ \/ ok /\ GoTo(next) /\ UNCHANGED result
       \/ ~ok /\ End("conflict")
    /\ UNCHANGED <<files, records, client, bounds, history>>

ReadBack == Reads("readback", SourceIs(T.target) /\ PreviousIs(T.expected),
                  "binding")
Bind == Reads("binding", SourceIs(T.target), "recording")
Confirm == Reads("confirming",
                 SourceIs(T.target) /\ (op.replay \/ PreviousIs(T.expected)),
                 "committing")
Audit == Reads("auditing", op.replay \/ PreviousIs(T.expected), "verifying")

(* The state record; the save reads everything back once more before it     *)
(* commits, recovery commits at once.                                       *)
MutantAddsRevisions ==
    /\ At("recording")
    /\ recorded' = [sha |-> T.target, revision |-> recorded.revision + N]
    /\ GoTo(IF op.goal = "save" THEN "confirming" ELSE "committing")
    /\ UNCHANGED <<files, tx, result, client, bounds, history>>

Record ==
    /\ At("recording")
    /\ recorded' = [sha |-> T.target,
                    revision |-> IF N > recorded.revision THEN N
                                 ELSE recorded.revision]
    /\ GoTo(IF op.goal = "save" THEN "confirming" ELSE "committing")
    /\ UNCHANGED <<files, tx, result, client, bounds, history>>

AfterCommit == IF op.goal = "save" THEN "auditing"
               ELSE IF op.retire THEN "verifying" ELSE "scanning"

Commit ==
    /\ At("committing")
    /\ tx' = [tx EXCEPT ![N].state = "committed"]
    /\ op' = [op EXCEPT !.pc = AfterCommit, !.todo = @ \ {N}]
    /\ UNCHANGED <<files, recorded, result, client, bounds, history>>

-----------------------------------------------------------------------------
(* retireSaveTransaction: verify, remove the directory, verify, remove the  *)
(* record.  A directory that cannot be removed is kept ("retained") and the *)
(* save still counts.                                                       *)
MutantIgnoresParked == SourceIs(T.target) /\ recorded.sha = T.target

Verified ==
    /\ SourceIs(T.target)
    /\ recorded.sha = T.target
    /\ recorded.revision >= N
    /\ prev[N] = NoFile \/ PreviousIs(T.expected)

Retired == IF op.goal = "save"
           THEN op' = [op EXCEPT !.pc = "scanning", !.goal = "reply",
                                 !.todo = Saves]
           ELSE op' = [op EXCEPT !.pc = "scanning"]

Verify == Reads("verifying", Verified, "removing")

Remove ==
    /\ At("removing")
    /\ \/ EmptyDirectory /\ GoTo("unlinking") /\ UNCHANGED faults
       \/ /\ faults < MaxFaults
          /\ faults' = faults + 1
          /\ Retired
          /\ \/ UNCHANGED files
             \/ EmptyDirectory
    /\ UNCHANGED <<records, result, client, external, crashes, history>>

UnlinkRecord ==
    /\ At("unlinking")
    /\ \/ ~Verified /\ End("conflict") /\ UNCHANGED tx
       \/ /\ Verified
          /\ tx' = [tx EXCEPT ![N].state = "gone"]
          /\ Retired
          /\ UNCHANGED result
    /\ UNCHANGED <<files, recorded, client, bounds, history>>

-----------------------------------------------------------------------------
(* recoverProject examines every transaction that is not committed, and     *)
(* every committed one whose directory is still there; the first that fails *)
(* ends it.  It runs when the bridge starts, when a project is opened, and  *)
(* before a save is answered.                                               *)
StartRecovery(goal) ==
    /\ \/ At("down") /\ goal = "start"
       \/ At("idle") /\ goal = "open"
    /\ op' = [Idle EXCEPT !.pc = "scanning", !.goal = goal, !.todo = Saves]
    /\ UNCHANGED <<files, records, result, client, bounds, history>>

MutantOnlyPrepared(n) == tx[n].state = "prepared"

NeedsRecovery(n) ==
    \/ tx[n].state \in {"prepared", "conflict"}
    \/ tx[n].state = "committed" /\ n \in dir

Pending == {n \in op.todo : NeedsRecovery(n)}

Take(n, pc, retire) ==
    op' = [op EXCEPT !.pc = pc, !.n = n, !.replay = TRUE, !.retire = retire]

Parked(n) == prev[n] # NoFile
ParkedIs(n, b) == Parked(n) /\ bytes[prev[n]] = b
StagedIs(n, b) == staged[n] # NoFile /\ bytes[staged[n]] = b

(* The decision for transaction n, from the three files as they are now.    *)
FoundPublished(n) ==
    /\ SourceIs(tx[n].target)
    /\ \/ /\ Parked(n) /\ ~ParkedIs(n, tx[n].expected)
          /\ tx' = [tx EXCEPT ![n].state = "conflict", ![n].marked = TRUE]
          /\ End("recoveryConflict")
          /\ GivesUpNothing
       \/ /\ ~Parked(n) \/ ParkedIs(n, tx[n].expected)
          /\ Take(n, "binding", ~tx[n].marked)
          /\ Takes(n)
          /\ UNCHANGED <<tx, result>>

MutantNeverRestores(n) ==
    /\ source = NoFile
    /\ ParkedIs(n, tx[n].expected)
    /\ StagedIs(n, tx[n].target)
    /\ Take(n, "republishing", FALSE)
    /\ UNCHANGED <<tx, result>> /\ GivesUpNothing

FoundParked(n) ==
    /\ source = NoFile
    /\ \/ /\ ParkedIs(n, tx[n].expected)
          /\ StagedIs(n, tx[n].target)
          /\ Take(n, "republishing", FALSE)
       \/ /\ Parked(n) /\ ~ParkedIs(n, tx[n].expected)
          /\ op' = [op EXCEPT !.pc = "restoring", !.n = n,
                              !.sha = bytes[prev[n]]]
    /\ UNCHANGED <<tx, result>> /\ GivesUpNothing

FoundUnchanged(n) ==
    /\ SourceIs(tx[n].expected)
    /\ ~SourceIs(tx[n].target)
    /\ tx' = [tx EXCEPT ![n].state = "committed", ![n].marked = TRUE]
    /\ op' = [op EXCEPT !.todo = @ \ {n}]
    /\ UNCHANGED result /\ GivesUpNothing

FoundOther(n) ==
    /\ IF source = NoFile
       THEN ~Parked(n) \/ (ParkedIs(n, tx[n].expected)
                           /\ ~StagedIs(n, tx[n].target))
       ELSE ~SourceIs(tx[n].expected) /\ ~SourceIs(tx[n].target)
    /\ End("recoveryConflict")
    /\ UNCHANGED tx /\ GivesUpNothing

Examine(n) ==
    /\ At("scanning")
    /\ n \in Pending
    /\ \/ tx[n].state = "conflict" /\ End("recoveryConflict")
          /\ UNCHANGED tx /\ GivesUpNothing
       \/ /\ tx[n].state # "conflict"
          /\ \/ FoundPublished(n)
             \/ FoundParked(n)
             \/ FoundUnchanged(n)
             \/ FoundOther(n)
    /\ UNCHANGED <<files, recorded, client, bounds, deleted>>

(* linkFileNoReplace: an occupied name is accepted if it holds the bytes.   *)
MutantRenames(i, b) == Content(i) = b /\ source' = i

LinkNoReplace(i, b) ==
    \/ /\ Content(i) = b /\ ~Occupied
       /\ source' = i
    \/ /\ Content(i) = b /\ SourceIs(b)
       /\ UNCHANGED source
LinkFails(i, b) == Content(i) # b \/ (Occupied /\ ~SourceIs(b))

Republish ==
    /\ At("republishing")
    /\ \/ LinkFails(staged[N], T.target) /\ End("recoveryConflict")
          /\ UNCHANGED source /\ GivesUpNothing
       \/ /\ LinkNoReplace(staged[N], T.target)
          /\ GoTo("binding")
          /\ Takes(N)
          /\ UNCHANGED result
    /\ UNCHANGED <<bytes, used, prev, staged, dir, records, client, bounds,
                   deleted>>

Restore ==
    /\ At("restoring")
    /\ \/ LinkFails(prev[N], op.sha) /\ End("recoveryConflict")
          /\ UNCHANGED source
       \/ LinkNoReplace(prev[N], op.sha) /\ GoTo("dropping")
          /\ UNCHANGED result
    /\ UNCHANGED <<bytes, used, prev, staged, dir, records, client, bounds, history>>

DropParked ==
    /\ At("dropping")
    /\ prev' = [prev EXCEPT ![N] = NoFile]
    /\ GoTo("rollingBack")
    /\ UNCHANGED <<source, bytes, used, staged, dir, records, result, client,
                   bounds, history>>

RollBack ==
    /\ At("rollingBack")
    /\ tx' = [tx EXCEPT ![N].state = "committed", ![N].marked = TRUE]
    /\ op' = [op EXCEPT !.pc = "scanning", !.todo = @ \ {N}]
    /\ UNCHANGED <<files, recorded, result, client, bounds, history>>

(* Everything is decided.  Committed records without a directory that the   *)
(* state still matches are retired; then the caller goes on: the project is *)
(* open with what the file holds, or the save is answered with it.          *)
Stock(n) == /\ tx[n].state = "committed" /\ ~tx[n].marked /\ n \notin dir
            /\ recorded.sha = tx[n].target /\ recorded.revision >= n
            /\ SourceIs(tx[n].target)

EndRecovery ==
    /\ At("scanning")
    /\ Pending = {}
    /\ tx' = [n \in Saves |-> IF Stock(n) THEN [tx[n] EXCEPT !.state = "gone"]
                              ELSE tx[n]]
    /\ \/ /\ op.goal = "start"
          /\ End("started") /\ UNCHANGED <<recorded, editor, owed>>
       \/ /\ op.goal # "start" /\ source = NoFile
          /\ End("failed") /\ UNCHANGED <<recorded, editor, owed>>
       \/ /\ op.goal # "start" /\ source # NoFile
          /\ recorded' = [recorded EXCEPT !.sha = bytes[source]]
          /\ \/ /\ op.goal = "open" \/ op.sha = bytes[source]
                /\ editor' = bytes[source]
                /\ owed' = owed \cup {bytes[source]}
                /\ End(IF op.goal = "open" THEN "opened" ELSE "saved")
             \/ /\ op.goal = "reply" /\ op.sha # bytes[source]
                /\ End("failed")
                /\ UNCHANGED <<editor, owed>>
    /\ UNCHANGED <<files, saves, bounds, published, deleted>>

-----------------------------------------------------------------------------
(* The environment.  A descriptor opened earlier reaches the parked file.   *)
Reachable == {source} \cup {prev[n] : n \in Saves}

(* Between its last look at a parked file and its removal the program has   *)
(* no way to notice a write to it.                                          *)
Unnoticed(i) == /\ op.pc \in {"removing", "dropping"}
                /\ i = prev[N] /\ i # source

(* Writing back exactly what a published save replaced adds nothing.        *)
Superseded(i, b) ==
    i # source /\ \E n \in published : prev[n] = i /\ tx[n].expected = b

ExternalReplace(b) ==
    /\ external < MaxExternal /\ MayWrite
    /\ external' = external + 1
    /\ Create(b)
    /\ source' = used + 1
    /\ owed' = (owed \ {Content(source)}) \cup {b}
    /\ deleted' = FALSE
    /\ UNCHANGED <<prev, staged, dir, records, op, result, client, crashes,
                   faults, published>>

ExternalWrite(i, b) ==
    /\ external < MaxExternal /\ MayWrite
    /\ i \in Reachable \ {NoFile}
    /\ b # bytes[i]
    /\ external' = external + 1
    /\ bytes' = [bytes EXCEPT ![i] = b]
    /\ owed' = (owed \ {bytes[i]})
                \cup (IF Unnoticed(i) \/ Superseded(i, b) THEN {} ELSE {b})
    /\ UNCHANGED <<source, used, prev, staged, dir, records, op, result,
                   client, crashes, faults, published, deleted>>

ExternalDelete ==
    /\ external < MaxExternal /\ MayWrite
    /\ source # NoFile
    /\ external' = external + 1
    /\ source' = NoFile
    /\ owed' = owed \ {Content(source)}
    /\ deleted' = TRUE
    /\ UNCHANGED <<bytes, used, prev, staged, dir, records, op, result, client,
                   crashes, faults, published>>

Crash ==
    /\ op.pc # "down"
    /\ crashes < MaxCrashes
    /\ crashes' = crashes + 1
    /\ op' = [Idle EXCEPT !.pc = "down"]
    /\ editor' = Absent
    /\ result' = "none"
    /\ UNCHANGED <<files, records, saves, external, faults,
                   history>>

(* A system call fails: the operation throws and leaves everything where it *)
(* is.                                                                      *)
SystemCallFails ==
    /\ op.pc \notin {"idle", "down"}
    /\ faults < MaxFaults
    /\ faults' = faults + 1
    /\ End("failed")
    /\ UNCHANGED <<files, records, client, external, crashes, history>>

-----------------------------------------------------------------------------
SaveStep ==
    \/ Stage \/ Check \/ CheckAgain \/ Settle \/ Discard \/ Refuse
    \/ Park \/ Inspect \/ Unpark \/ Publish \/ ReadBack
    \/ Bind \/ Record \/ Confirm \/ Commit \/ Audit
    \/ Verify \/ Remove \/ UnlinkRecord

RecoveryStep ==
    \/ \E n \in Saves : Examine(n)
    \/ Republish \/ Restore \/ DropParked \/ RollBack \/ EndRecovery

Next ==
    \/ \E b \in Bytes : BeginSave(b)
    \/ SaveStep
    \/ RecoveryStep
    \/ \E goal \in {"start", "open"} : StartRecovery(goal)
    \/ \E b \in Bytes : ExternalReplace(b)
    \/ \E i \in Inode, b \in Bytes : ExternalWrite(i, b)
    \/ ExternalDelete
    \/ Crash
    \/ SystemCallFails

Spec == Init /\ [][Next]_vars

(* An operation that was begun goes on, the bridge is started again after a *)
(* crash, and somebody opens the project again: everything the renderer     *)
(* asks of a project, after a failure too, is preceded by an opening.       *)
FairSpec ==
    Spec /\ WF_vars(SaveStep \/ RecoveryStep
                    \/ StartRecovery("start") \/ StartRecovery("open"))

-----------------------------------------------------------------------------
(* Properties.                                                             *)

Retained == {Content(source)} \cup {Content(prev[n]) : n \in Saves}

(* Nothing vanishes: bytes another program wrote, bytes the user was shown  *)
(* and bytes that were reported as saved are in the file or in a recovery   *)
(* directory until another program writes over them or a save based on      *)
(* exactly these bytes is published.                                        *)
NothingVanishes == owed \subseteq Retained

(* A missing file that nobody deleted is never lost: its parked original    *)
(* lies in the recovery directory of a transaction that recovery will look  *)
(* at.                                                                      *)
MissingIsParked ==
    source = NoFile /\ ~deleted => \E n \in dir : Parked(n) /\ NeedsRecovery(n)

(* A project that was just opened, or a save that was just answered, leaves *)
(* no transaction undecided, and the state record and the renderer agree.   *)
OpenedIsSettled ==
    result \in {"opened", "saved"} /\ op.pc = "idle" =>
        /\ source # NoFile \/ deleted
        /\ recorded.sha = editor
        /\ \A n \in Saves : tx[n].state \notin {"prepared", "conflict"}

(* A save that recovery has rolled back is never published any more.        *)
RolledBackStaysBack ==
    [][op.pc = "republishing" /\ source' # source => ~tx[op.n].marked]_vars

(* Recovery never replaces a file that is there.                            *)
RecoveryNeverOverwrites ==
    [][op.goal \in {"start", "open", "reply"} /\ source # NoFile /\ external' = external
       => source' = source]_vars

(* A conflict reported by recovery has a cause: another program wrote the   *)
(* file.                                                                    *)
ConflictHasACause ==
    result = "recoveryConflict" => external > 0

(* A file parked by an interrupted save becomes visible again, when no      *)
(* other save has left anything to recover.                                 *)
Alone == Cardinality({n \in Saves : NeedsRecovery(n)}) <= 1
ParkedReturns == source = NoFile /\ Alone ~> source # NoFile \/ deleted

(* If one has, a recovery that meets it first may stop there.               *)
ParkedReturnsTwice == source = NoFile ~> source # NoFile \/ deleted
=============================================================================
