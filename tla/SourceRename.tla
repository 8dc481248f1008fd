---------------------------- MODULE SourceRename ----------------------------
(***************************************************************************)
(* SourceRename: how the name of the open document changes.                *)
(*                                                                         *)
(* The user renames the document in the program: the main process records  *)
(* its intent, links the file to the new name, checks what it linked,      *)
(* unlinks the old name and records the end.  A recorded intent that did   *)
(* not end is taken up again at the next launch, or before the next        *)
(* rename.  Or the user renames the file in the folder: a watcher tells    *)
(* the main process, which asks the bridge where the document went; the    *)
(* bridge knows the file by a hard link of its own.  Either way the main   *)
(* process, the bridge and the renderer each keep a path, and follow.      *)
(*                                                                         *)
(* A file is a number, names refer to files.  Other programs change the    *)
(* folder between any two steps, a step may fail, and the program may stop *)
(* and be launched again.                                                  *)
(*                                                                         *)
(* The bridge's look at the folder is one step, and so are the reads that  *)
(* precede a decision.  The recovery at launch ends before anything else   *)
(* is asked of the main process.  Left out: other documents, names that    *)
(* differ in case only, links, folders that move, runs and edits, which    *)
(* put a rename off, and file systems without hard links.                  *)
(***************************************************************************)
EXTENDS Naturals, Sequences, FiniteSets

CONSTANTS
    Names,        \* the names in the folder
    First,        \* the name of the document at the beginning
    Bytes,        \* contents
    None,         \* no file, no name, no record
    MaxExternal,  \* bound: changes of the folder by other programs
    MaxFaults,    \* bound: steps that fail
    MaxCrashes,   \* bound: launches after the first
    MaxRenames,   \* bound: renames asked for
    MaxSaves,     \* bound: saves of the document
    MaxEvents     \* bound: all of these together

ASSUME RenameAssumption ==
    /\ First \in Names /\ IsFiniteSet(Names)
    /\ {MaxExternal, MaxFaults, MaxCrashes, MaxRenames, MaxSaves} \subseteq Nat
    /\ MaxEvents \in Nat

VARIABLES
    dir,      \* the file each name refers to
    bytes,    \* what the files hold
    binding,  \* the bridge: the bound file, the registered name, the bytes
    mem,      \* html-projects.json in memory: active name, pending rename
    saved,    \* the same, on disk
    queue,    \* projectOpenQueue: what is asked of the main process
    job,      \* where its head stands
    watch,    \* the watcher: name, generation, a timer that is set, that
              \* the name was missing; history: a change it did not see
    page,     \* the renderer: its path, its operation, its hint
    touched,  \* history: names others changed since the move began, and
              \* files they took a name from
    lost,     \* history: files whose last name Stemmio removed
    rough,    \* history: a step failed since the launch
    blind,    \* history: an intent was dropped, its file being unreadable
    count     \* what has happened, for the bounds

vars == <<dir, bytes, binding, mem, saved, queue, job, watch, page, touched,
          lost, rough, blind, count>>
main == <<mem, saved>>
folder == <<dir, bytes>>
marks == <<touched, lost>>
bounds == <<rough, blind, count>>

Intents == [from : Names, to : Names, sha : Bytes]
Hints == [path : Names, gen : Nat, missing : BOOLEAN]
Files == 1..(1 + MaxExternal + MaxSaves)

ASSUME NoneAssumption ==
    None \notin Names /\ None \notin Nat /\ None \notin Intents

Resting == [at |-> "start", retrying |-> FALSE, file |-> None,
            prior |-> None, next |-> None, sha |-> None]
Ask(kind) == [kind |-> kind, path |-> None, gen |-> 0]

Opened(path, sha) ==
    [phase |-> "idle", path |-> path, sha |-> sha, goal |-> None,
     hint |-> None, applied |-> 0, conflict |-> FALSE]

Watcher(n, gen) == [name |-> n, gen |-> gen, due |-> FALSE,
                    missing |-> FALSE, unseen |-> FALSE]

Init ==
    /\ \E sha \in Bytes :
           /\ bytes = <<sha>>
           /\ binding = [file |-> 1, name |-> First, sha |-> sha]
           /\ page = Opened(First, sha)
    /\ dir = [n \in Names |-> IF n = First THEN 1 ELSE None]
    /\ mem = [active |-> First, pending |-> None]
    /\ saved = mem
    /\ queue = <<>> /\ job = Resting
    /\ watch = Watcher(First, 1)
    /\ touched = {} /\ lost = {} /\ rough = FALSE /\ blind = FALSE
    /\ count = [others |-> 0, faults |-> 0, crashes |-> 0, renames |-> 0,
                saves |-> 0]

Events == count.others + count.faults + count.crashes + count.renames
          + count.saves
Counts(what) == Events < MaxEvents /\ count' = [count EXCEPT ![what] = @ + 1]
Exists(n) == dir[n] # None
Holds(n, sha) == Exists(n) /\ bytes[dir[n]] = sha

(* A step that may fail: what it does when it does, and the bound of that. *)
Fails ==
    /\ count.faults < MaxFaults
    /\ Counts("faults") /\ rough' = TRUE
Works == UNCHANGED <<count, rough>>

-----------------------------------------------------------------------------
(* The bridge.                                                              *)

BoundNames == {n \in Names : dir[n] = binding.file}

(* findBoundSource refuses two names of the bound file, and                 *)
(* #resolveWorkingCopyPath a registered name beside another one.            *)
Located ==
    IF Exists(binding.name)
    THEN IF BoundNames \subseteq {binding.name} THEN {binding.name} ELSE {}
    ELSE IF Cardinality(BoundNames) = 1 THEN BoundNames ELSE {}

(* It registers the name, and binds the file if it holds what was saved. *)
Rebind(n) ==
    binding' = [binding EXCEPT !.name = n,
                  !.file = IF Holds(n, binding.sha) THEN dir[n] ELSE @]

-----------------------------------------------------------------------------
(* The main process and its queue.                                          *)

At(label) == queue # <<>> /\ job.at = label
Kind == Head(queue).kind
Goto(label) == job' = [job EXCEPT !.at = label]
Serves(kinds) == queue # <<>> /\ Kind \in kinds

(* sourceFileWatcher.watch: another name starts over, and so does one that  *)
(* was missing.                                                             *)
Watch(n) ==
    watch' = IF watch.name = n /\ ~watch.missing THEN watch
             ELSE Watcher(n, watch.gen + 1)

(* A change in the folder sets the timer, if the folder is watched: as long *)
(* as the name is missing it is not.                                        *)
FolderChanges ==
    watch' = IF watch.name # None /\ ~watch.missing
             THEN [watch EXCEPT !.due = TRUE]
             ELSE [watch EXCEPT !.unseen = TRUE]

(* reconcileExternalSourceLocator keeps one hint; a newer one replaces it,  *)
(* and what either of them misses is missed.                                *)
Coalesced(h) ==
    IF page.hint = None THEN h
    ELSE IF h.gen < page.hint.gen THEN page.hint
    ELSE [h EXCEPT !.missing = @ \/ page.hint.missing]

Hint(path, gen, missing) ==
    IF page.phase \in {"opening", "closed"} THEN UNCHANGED page
    ELSE page' = [page EXCEPT
                    !.hint = Coalesced([path |-> path, gen |-> gen,
                                        missing |-> missing])]

Done == queue' = Tail(queue) /\ job' = Resting

Settled(path) ==
    [page EXCEPT !.phase = "idle", !.goal = None, !.path = path]

(* A renderer that asks, and takes every answer for a no. *)
MutantAccepts(n, sha) == FALSE
Accepts(n, sha) == n = page.goal /\ sha = page.sha

(* What each caller makes of an answer.  The renderer asks for the active   *)
(* project when a rename fails, and accepts what it finds under the name    *)
(* it wanted.                                                               *)
Refuse ==
    CASE Kind = "launch" -> Done /\ UNCHANGED page
      [] Kind = "rename" ->
             /\ queue' = Append(Tail(queue), Ask("active"))
             /\ job' = Resting
             /\ page' = [page EXCEPT !.phase = "checking"]
      [] Kind = "locate" -> Done /\ page' = Settled(page.path)
      [] Kind = "active" ->
             /\ Done
             /\ page' = IF page.phase = "opening"
                        THEN [page EXCEPT !.phase = "closed"]
                        ELSE Settled(page.path)
      [] Kind = "watch" ->
             /\ Done
             /\ Hint(job.prior, Head(queue).gen, ~Exists(job.prior))

Succeed(n, sha) ==
    /\ Done
    /\ CASE Kind = "launch" -> UNCHANGED page
         [] Kind = "rename" -> page' = Settled(n)
         [] Kind = "locate" ->
                page' = [page EXCEPT !.phase = "settling", !.path = n,
                                     !.applied = watch'.gen]
         [] Kind = "active" ->
                page' = IF page.phase = "opening"
                        THEN [Opened(n, sha) EXCEPT
                                !.conflict = sha # binding.sha]
                        ELSE IF Accepts(n, sha)
                        THEN Settled(n) ELSE Settled(page.path)
         [] Kind = "watch" ->
                Hint(job.prior, Head(queue).gen, n # job.prior)

-----------------------------------------------------------------------------
(* Renaming: source-rename.mjs.  The folder changes one name at a time.     *)

Link(n, file) ==
    /\ dir' = [dir EXCEPT ![n] = file]
    /\ FolderChanges
    /\ UNCHANGED lost

(* A file that has no other name, here or in the binding, is gone; what     *)
(* others do during the few steps of a move is not noticed.                 *)
Unlink(n) ==
    /\ dir' = [dir EXCEPT ![n] = None]
    /\ FolderChanges
    /\ lost' = IF \/ {n, dir[n]} \cap touched # {}
                  \/ dir[n] = binding.file
                  \/ \E m \in Names \ {n} : dir[m] = dir[n]
               THEN lost ELSE lost \cup {dir[n]}

Intent == mem.pending
AsItWas == UNCHANGED <<dir, watch, lost>>
Calm == UNCHANGED <<bytes, binding, blind>>

(* The intent is cleared, and the next thing follows; or what is on disk    *)
(* still has it, and the caller is refused.                                 *)
Clear(next) ==
    /\ mem' = [mem EXCEPT !.pending = None]
    /\ \/ saved' = mem' /\ Works /\ next
       \/ Fails /\ Refuse /\ UNCHANGED saved

GoOn == IF Kind = "launch" THEN Done /\ UNCHANGED page
        ELSE /\ job' = [Resting EXCEPT !.at = "prepare"]
             /\ UNCHANGED <<queue, page>>

Stay == UNCHANGED <<queue, page>>
Keep == Refuse /\ UNCHANGED main

(* A move that left nothing behind: the rename clears its intent, a         *)
(* recovery keeps it.                                                       *)
Abandon == IF job.retrying THEN Keep /\ Works ELSE Clear(Refuse)

(* loadProjectState and renameHtmlSource take up what is pending. *)
BeginRename ==
    /\ Serves({"launch", "rename"}) /\ At("start")
    /\ IF Intent # None
       THEN job' = [job EXCEPT !.at = "recover", !.retrying = TRUE] /\ Stay
       ELSE GoOn
    /\ Works /\ AsItWas /\ Calm /\ UNCHANGED <<main, touched>>

(* A launch that did not look whether the two names are one file. *)
MutantSameFile(p) == TRUE

SameFile(p) == dir[p.from] = dir[p.to]

(* recoverPendingSourceRename, its decision.  A file that cannot be read is *)
(* taken for one that has changed.                                          *)
Recover ==
    /\ At("recover")
    /\ LET p == Intent
       IN \/ /\ IF \/ ~Exists(p.from) /\ ~Exists(p.to)
                   \/ Exists(p.from) /\ Exists(p.to) /\ ~SameFile(p)
                   \/ Exists(p.from) /\ ~Holds(p.from, p.sha)
                THEN Clear(GoOn)
                ELSE /\ job' = [job EXCEPT !.file = dir[p.from],
                                  !.at = CASE ~Exists(p.from) -> "finalize"
                                           [] Exists(p.from) /\ Exists(p.to) -> "check"
                                           [] OTHER -> "link"]
                     /\ Works /\ Stay /\ UNCHANGED main
             /\ UNCHANGED blind
          \/ Fails /\ Keep /\ UNCHANGED blind
          \/ /\ Exists(p.from) /\ Fails /\ blind' = TRUE
             /\ mem' = [mem EXCEPT !.pending = None] /\ saved' = mem'
             /\ GoOn
    /\ touched' = {}
    /\ AsItWas /\ UNCHANGED <<bytes, binding>>

(* The checks of renameHtmlSource, and its intent. *)
Prepare ==
    /\ At("prepare")
    /\ IF /\ mem.active = page.path
          /\ Holds(page.path, page.sha) /\ ~Exists(page.goal)
       THEN /\ mem' = [mem EXCEPT !.pending =
                         [from |-> page.path, to |-> page.goal,
                          sha |-> page.sha]]
            /\ \/ /\ saved' = mem' /\ Works
                  /\ job' = [job EXCEPT !.at = "link",
                                        !.file = dir[page.path]]
                  /\ Stay
               \/ Fails /\ Refuse /\ UNCHANGED saved
       ELSE Keep /\ Works
    /\ touched' = {}
    /\ AsItWas /\ Calm

(* moveRegularFileNoReplace. *)
LinkTarget ==
    /\ At("link")
    /\ \/ /\ Exists(Intent.from) /\ ~Exists(Intent.to)
          /\ Link(Intent.to, dir[Intent.from])
          /\ Goto("check") /\ Works /\ Stay /\ UNCHANGED main
       \/ /\ ~Exists(Intent.from) \/ Exists(Intent.to)
          /\ Abandon /\ AsItWas
       \/ /\ Fails /\ AsItWas
          /\ IF job.retrying THEN Keep
             ELSE /\ mem' = [mem EXCEPT !.pending = None]
                  /\ saved' = mem' /\ Refuse
    /\ Calm /\ UNCHANGED touched

CheckTarget ==
    /\ At("check")
    /\ \/ /\ dir[Intent.to] = job.file /\ Holds(Intent.to, Intent.sha)
          /\ Goto("unlink") /\ Works
       \/ /\ dir[Intent.to] # job.file \/ ~Holds(Intent.to, Intent.sha)
          /\ Goto("rollback") /\ Works
       \/ Fails /\ Goto("rollback")
    /\ AsItWas /\ Calm /\ Stay /\ UNCHANGED <<main, touched>>

UnlinkSource ==
    /\ At("unlink")
    /\ \/ /\ Exists(Intent.from)
          /\ Unlink(Intent.from)
          /\ Goto("reread") /\ Works /\ Stay /\ UNCHANGED main
       \/ ~Exists(Intent.from) /\ Keep /\ Works /\ AsItWas
       \/ Fails /\ Keep /\ AsItWas
    /\ Calm /\ UNCHANGED touched

Reread ==
    /\ At("reread")
    /\ \/ Holds(Intent.to, Intent.sha) /\ Goto("finalize") /\ Works
       \/ ~Holds(Intent.to, Intent.sha) /\ Goto("relink") /\ Works
       \/ Fails /\ Goto("relink")
    /\ AsItWas /\ Calm /\ Stay /\ UNCHANGED <<main, touched>>

Relink ==
    /\ At("relink")
    /\ \/ /\ Exists(Intent.to) /\ ~Exists(Intent.from)
          /\ Link(Intent.from, dir[Intent.to])
          /\ Goto("rollback") /\ Works /\ Stay /\ UNCHANGED main
       \/ /\ ~Exists(Intent.to) \/ Exists(Intent.from)
          /\ Keep /\ Works /\ AsItWas
       \/ Fails /\ Keep /\ AsItWas
    /\ Calm /\ UNCHANGED touched

(* The new name goes, and the error is reported. *)
Rollback ==
    /\ At("rollback")
    /\ \/ /\ Exists(Intent.to)
          /\ Unlink(Intent.to) /\ Abandon
       \/ ~Exists(Intent.to) /\ Keep /\ Works /\ AsItWas
       \/ Fails /\ Keep /\ AsItWas
    /\ Calm /\ UNCHANGED touched

(* An end that does not change what is active. *)
MutantRenamed == [active |-> mem.active, pending |-> None]

(* applySourcePathTransition. *)
Renamed == [active |-> IF mem.active = Intent.from THEN Intent.to
                       ELSE mem.active,
            pending |-> None]

(* finalizeRenameState: an error ends a rename, and a recovery goes on. *)
Finalize ==
    /\ At("finalize")
    /\ LET fail == IF job.retrying THEN GoOn ELSE Refuse
       IN \/ /\ Holds(Intent.to, Intent.sha)
             /\ mem' = Renamed
             /\ \/ /\ saved' = mem' /\ Works
                   /\ IF job.retrying THEN GoOn ELSE Goto("rebind") /\ Stay
                \/ Fails /\ fail /\ UNCHANGED saved
          \/ ~Holds(Intent.to, Intent.sha) /\ fail /\ Works /\ UNCHANGED main
          \/ Fails /\ fail /\ UNCHANGED main
    /\ AsItWas /\ Calm /\ UNCHANGED touched

(* rebindRenamedWorkspace, whose failure nobody minds. *)
RebindWorkspace ==
    /\ At("rebind")
    /\ \/ Located = {page.goal} /\ Rebind(page.goal) /\ Works
       \/ Located # {page.goal} /\ UNCHANGED binding /\ Works
       \/ Fails /\ UNCHANGED binding
    /\ Watch(page.goal)
    /\ Succeed(page.goal, page.sha)
    /\ UNCHANGED <<folder, main, marks, blind>>

-----------------------------------------------------------------------------
(* Following: the watcher, the question where the document is, and what    *)
(* the main process makes of the answer.                                    *)

Quietly == UNCHANGED <<folder, marks, blind>>

(* The watcher looks for its name from time to time.  Whether the name is   *)
(* there decides whether the folder is watched, and sets the timer when it  *)
(* changes; another change of the file is one of the folder.                *)
Probe ==
    /\ watch.name # None /\ watch.missing = Exists(watch.name)
    /\ watch' = [watch EXCEPT !.missing = ~@, !.due = TRUE, !.unseen = FALSE]
    /\ UNCHANGED <<binding, main, queue, job, page, rough, count>> /\ Quietly

(* The timer of the watcher; one of its calls waits at a time. *)
Emit ==
    /\ watch.due
    /\ \A i \in DOMAIN queue : queue[i].kind # "watch"
    /\ watch' = [watch EXCEPT !.due = FALSE]
    /\ queue' = Append(queue, [kind |-> "watch", path |-> watch.name,
                               gen |-> watch.gen])
    /\ UNCHANGED <<binding, main, job, page, rough, count>> /\ Quietly

(* recoverWatchedManagedSource: a document in its place only needs a look. *)
BeginWatch ==
    /\ Serves({"watch"}) /\ At("start")
    /\ IF Exists(mem.active)
       THEN Done /\ Hint(Head(queue).path, Head(queue).gen, FALSE)
       ELSE /\ job' = [job EXCEPT !.at = "ask", !.prior = mem.active]
            /\ Stay
    /\ UNCHANGED <<binding, main, watch, rough, count>> /\ Quietly

BeginLocate ==
    /\ Serves({"locate"}) /\ At("start")
    /\ job' = [job EXCEPT !.at = "ask", !.prior = page.path]
    /\ Stay /\ UNCHANGED <<binding, main, watch, rough, count>> /\ Quietly

(* getActiveProjectOperation. *)
BeginActive ==
    /\ Serves({"active"}) /\ At("start")
    /\ job' = [job EXCEPT !.prior = mem.active,
                 !.at = IF Exists(mem.active) THEN "read" ELSE "ask"]
    /\ Stay /\ UNCHANGED <<binding, main, watch, rough, count>> /\ Quietly

(* A failed answer: getActive goes on to read what it has. *)
Unanswered == IF Kind = "active" THEN Goto("read") /\ Stay ELSE Refuse

(* #reconcileWorkingCopyLocator. *)
AskBridge ==
    /\ At("ask")
    /\ \/ \E n \in Located :
              /\ Rebind(n)
              /\ job' = [job EXCEPT !.at = "commit", !.next = n,
                                    !.sha = bytes[dir[n]]]
              /\ Stay /\ Works
       \/ Located = {} /\ Unanswered /\ Works /\ UNCHANGED binding
       \/ Fails /\ Unanswered /\ UNCHANGED binding
    /\ UNCHANGED <<main, watch>> /\ Quietly

(* A main process that stays where it was. *)
MutantFollows(n) == job.prior = n
Follows(n) == mem.active \in {job.prior, n}

(* reconcileActiveManagedSourceOperation: the file is read again, and       *)
(* commitActivatedProjectPath follows it.                                   *)
Commit ==
    /\ At("commit")
    /\ IF ~Holds(job.next, job.sha)
       THEN Unanswered /\ Works /\ UNCHANGED <<main, watch>>
       ELSE /\ IF Follows(job.next)
               THEN /\ mem' = [mem EXCEPT !.active = job.next]
                    /\ Watch(job.next)
               ELSE UNCHANGED <<mem, watch>>
            /\ \/ /\ saved' = mem' /\ Works
                  /\ IF Kind = "active"
                     THEN /\ job' = [job EXCEPT !.at = "read",
                                                !.prior = job.next]
                          /\ Stay
                     ELSE Succeed(job.next, job.sha)
               \/ Fails /\ Unanswered /\ UNCHANGED saved
    /\ UNCHANGED binding /\ Quietly

(* The active file is classified and read where the bridge finds it. *)
ReadActive ==
    /\ At("read")
    /\ LET n == job.prior
       IN \/ /\ Exists(n) /\ Located = {n}
             /\ Rebind(n)
             /\ Watch(n)
             /\ Succeed(n, bytes[dir[n]]) /\ Works
          \/ /\ ~Exists(n) \/ Located # {n}
             /\ Refuse /\ Works /\ UNCHANGED <<binding, watch>>
          \/ Fails /\ Refuse /\ UNCHANGED <<binding, watch>>
    /\ UNCHANGED main /\ Quietly

-----------------------------------------------------------------------------
(* The renderer: one operation at a time.                                   *)

Aside == /\ UNCHANGED <<folder, binding, main, job, watch, marks>>
         /\ UNCHANGED <<rough, blind>>

(* renameSource begins by asking where the document is. *)
Rename(n) ==
    /\ page.phase = "idle" /\ ~page.conflict /\ n # page.path
    /\ count.renames < MaxRenames /\ Counts("renames")
    /\ page' = [page EXCEPT !.phase = "locating", !.goal = n]
    /\ queue' = Append(queue, Ask("locate"))
    /\ Aside

(* A hint of another path or of an earlier watch is of no use. *)
Useful(h) == h.path = page.path /\ h.gen >= page.applied

TakeHint ==
    /\ page.phase = "idle" /\ page.hint # None
    /\ IF ~Useful(page.hint) \/ (page.hint.missing /\ page.conflict)
       THEN page' = [page EXCEPT !.hint = None] /\ UNCHANGED queue
       ELSE IF page.hint.missing
       THEN /\ page' = [page EXCEPT !.hint = None, !.phase = "locating"]
            /\ queue' = Append(queue, Ask("locate"))
       ELSE /\ page' = [page EXCEPT !.hint = None, !.phase = "settling"]
            /\ UNCHANGED queue
    /\ Aside /\ UNCHANGED count

(* observeExternalSourceChange; a rename goes on if nothing changed. *)
Settle ==
    /\ page.phase = "settling"
    /\ LET conflict == Exists(page.path) /\ ~Holds(page.path, page.sha)
       IN IF page.goal \in {None, page.path} \/ conflict
          THEN /\ page' = [Settled(page.path) EXCEPT
                             !.conflict = @ \/ conflict]
               /\ UNCHANGED queue
          ELSE /\ page' = [page EXCEPT !.phase = "renaming"]
               /\ queue' = Append(queue, Ask("rename"))
    /\ Aside /\ UNCHANGED count

(* A save, as a whole: the renderer takes over the path it went to. *)
Save(sha) ==
    /\ page.phase = "idle" /\ ~page.conflict
    /\ count.saves < MaxSaves /\ Counts("saves")
    /\ \E n \in Located :
           /\ Holds(n, binding.sha) /\ page.sha = binding.sha
           /\ sha # binding.sha
           /\ bytes' = Append(bytes, sha)
           /\ dir' = [dir EXCEPT ![n] = Len(bytes')]
           /\ binding' = [file |-> Len(bytes'), name |-> n, sha |-> sha]
           /\ page' = [page EXCEPT !.path = n, !.sha = sha]
    /\ FolderChanges
    /\ UNCHANGED <<main, queue, job, marks, rough, blind>>

-----------------------------------------------------------------------------
(* Other programs, and the end of the program.                              *)

Changes(things) ==
    /\ count.others < MaxExternal /\ Counts("others")
    /\ touched' = touched \cup things
    /\ FolderChanges
    /\ UNCHANGED <<binding, main, queue, job, page, lost, rough, blind>>

MoveAway(n, m) ==
    /\ Exists(n) /\ ~Exists(m)
    /\ dir' = [dir EXCEPT ![m] = dir[n], ![n] = None]
    /\ Changes({n, m}) /\ UNCHANGED bytes

PutAnother(n, sha) ==
    /\ bytes' = Append(bytes, sha)
    /\ dir' = [dir EXCEPT ![n] = Len(bytes')]
    /\ Changes({n, dir[n]})

WriteInPlace(n, sha) ==
    /\ Exists(n) /\ ~Holds(n, sha)
    /\ bytes' = [bytes EXCEPT ![dir[n]] = sha]
    /\ Changes({n}) /\ UNCHANGED dir

Delete(n) ==
    /\ Exists(n)
    /\ dir' = [dir EXCEPT ![n] = None]
    /\ Changes({n, dir[n]}) /\ UNCHANGED bytes

(* ... or brings back the document, which it had moved out of the folder. *)
BringBack(n) ==
    /\ BoundNames = {} /\ ~Exists(n)
    /\ dir' = [dir EXCEPT ![n] = binding.file]
    /\ Changes({n, binding.file}) /\ UNCHANGED bytes

(* The program stops, and is launched again. *)
Crash ==
    /\ count.crashes < MaxCrashes /\ Counts("crashes")
    /\ mem' = saved
    /\ queue' = <<Ask("launch"), Ask("active")>> /\ job' = Resting
    /\ watch' = Watcher(None, 0)
    /\ page' = [Opened(saved.active, page.sha) EXCEPT !.phase = "opening"]
    /\ touched' = {} /\ rough' = FALSE
    /\ UNCHANGED <<folder, binding, saved, lost, blind>>

-----------------------------------------------------------------------------
RenameStep ==
    \/ BeginRename \/ Recover \/ Prepare \/ LinkTarget \/ CheckTarget
    \/ UnlinkSource \/ Reread \/ Relink \/ Rollback \/ Finalize
    \/ RebindWorkspace

FollowStep ==
    \/ Probe \/ Emit \/ BeginWatch \/ BeginLocate \/ BeginActive \/ AskBridge
    \/ Commit \/ ReadActive

PageStep ==
    \/ \E n \in Names : Rename(n)
    \/ TakeHint \/ Settle
    \/ \E sha \in Bytes : Save(sha)

Others ==
    \/ \E n, m \in Names : MoveAway(n, m)
    \/ \E n \in Names, sha \in Bytes : PutAnother(n, sha) \/ WriteInPlace(n, sha)
    \/ \E n \in Names : Delete(n) \/ BringBack(n)

Next == RenameStep \/ FollowStep \/ PageStep \/ Others \/ Crash

Spec == Init /\ [][Next]_vars

-----------------------------------------------------------------------------
(* Types. *)
TypeOK ==
    /\ dir \in [Names -> Files \cup {None}]
    /\ bytes \in Seq(Bytes) /\ Len(bytes) <= 1 + MaxExternal + MaxSaves
    /\ binding \in [file : Files, name : Names, sha : Bytes]
    /\ {mem, saved} \subseteq [active : Names, pending : Intents \cup {None}]
    /\ Len(queue) <= 3
    /\ \A i \in DOMAIN queue :
           queue[i] \in [kind : {"launch", "rename", "locate", "active", "watch"},
                        path : Names \cup {None}, gen : Nat]
    /\ job \in [at : {"start", "recover", "prepare", "link", "check", "unlink",
                      "reread", "relink", "rollback", "finalize", "rebind",
                      "ask", "commit", "read"},
                retrying : BOOLEAN, file : Files \cup {None},
                prior : Names \cup {None}, next : Names \cup {None},
                sha : Bytes \cup {None}]
    /\ watch \in [name : Names \cup {None}, gen : Nat, due : BOOLEAN,
                  missing : BOOLEAN, unseen : BOOLEAN]
    /\ page \in [phase : {"opening", "idle", "locating", "settling",
                         "renaming", "checking", "closed"},
                 path : Names, sha : Bytes, goal : Names \cup {None},
                 hint : Hints \cup {None}, applied : Nat,
                 conflict : BOOLEAN]
    /\ touched \subseteq Names \cup Files \cup {None} /\ lost \subseteq Files
    /\ {rough, blind} \subseteq BOOLEAN
    /\ count \in [others : 0..MaxExternal, faults : 0..MaxFaults,
                  crashes : 0..MaxCrashes, renames : 0..MaxRenames,
                  saves : 0..MaxSaves]

(* Unless somebody changed a name during the few steps of the move, a       *)
(* rename, its rollback or its recovery removes no file: neither the        *)
(* document nor what another program has put in its way, however long the   *)
(* intent was waiting (source-rename.mjs, moveRegularFileNoReplace and      *)
(* recoverPendingSourceRename).                                             *)
NothingLost == lost = {}

Quiet == /\ queue = <<>> /\ ~watch.due
         /\ watch.name # None => watch.missing = ~Exists(watch.name)
Undisturbed == count.others = 0

(* Whatever step a crash interrupted, or an error in an earlier launch: a   *)
(* launch leaves the document under one name, every part of the program at  *)
(* that name, and no intent to move it (loadProjectState,                   *)
(* recoverPendingSourceRename).                                             *)
RecoveredIsSettled ==
    /\ queue = <<>> /\ page.phase \in {"idle", "closed"}
    /\ Undisturbed /\ ~rough /\ ~blind
    => /\ BoundNames = {saved.active}
       /\ page.path = saved.active
       /\ saved.pending # None => ~Exists(saved.pending.from)

(* A rename that was reported is a fact, for the folder and for what is     *)
(* asked next; one that was denied has not given the file the new name in   *)
(* place of the old one, even if a step failed after the file had moved     *)
(* (renameHtmlSource, and the question #runSourceRename asks after an       *)
(* error).  Two failed steps may leave that question without an answer.     *)
(* And when recording where the file went has failed, getActive reads the   *)
(* path from before: should another program have put the file back there,   *)
(* the main process names the other one.                                    *)
Answered == page.phase \in {"renaming", "checking"} /\ page'.phase = "idle"
Denied == page'.path # page.goal

HonestAnswer ==
    [][Answered =>
       /\ ~Denied => /\ page.phase = "renaming" \/ Undisturbed \/ ~rough
                        => mem'.active = page.goal
                     /\ Undisturbed => \A n \in {page.path, page.goal} :
                                           dir'[n] = None <=> n = page.path
       /\ Denied /\ Undisturbed /\ count'.faults <= 1
          => dir'[page.goal] = None \/ dir'[page.path] # None]_vars

(* A denied rename may change the name all the same: an intent that an      *)
(* earlier one, or a recovery, left behind is carried out first.            *)
DeniedMeansUnchanged ==
    [][Answered /\ Denied /\ Undisturbed /\ count'.faults <= 1
       => dir'[page.path] # None]_vars

(* Once nothing is in progress, the main process does not name a missing    *)
(* file while the bridge can find the document, wherever another program    *)
(* has moved it (recoverWatchedManagedSource, getActiveProjectOperation),   *)
(* unless the folder changed when the watcher had closed its eye on it.     *)
MainFollows ==
    (Quiet /\ page.phase = "idle" /\ ~rough /\ ~watch.unseen /\ Located # {})
    => Exists(mem.active)

(* When it had, the main process stays where it was: a document that left   *)
(* the folder and came back under another name is found when the renderer   *)
(* asks for it, not before.                                                 *)
MainFollowsUnseen ==
    (Quiet /\ page.phase = "idle" /\ page.hint = None /\ ~rough
           /\ Located # {})
    => Exists(mem.active)

(* Not so for the renderer. *)
PageFollows ==
    (Quiet /\ page.phase = "idle" /\ page.hint = None /\ ~rough)
    => page.path = mem.active

(* A file with two names of Stemmio's making has its intent on disk, even   *)
(* if the intent could not be recorded when it was made.                    *)
MovesAreRecorded ==
    (Undisturbed /\ ~blind /\ Cardinality(BoundNames) = 2)
    => saved.pending # None

(* Not only what was there before the move began is kept. *)
ReplacedIsKept ==
    [][\A n \in Names :
         Exists(n) /\ dir'[n] = None /\ UNCHANGED count
         => \/ dir[n] = binding.file
            \/ \E m \in Names : dir'[m] = dir[n]]_vars
=============================================================================
