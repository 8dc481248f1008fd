-------------------------- MODULE SourceRenameProofs --------------------------
(***************************************************************************)
(* Proofs about SourceRename, for any folder, any contents, and any number *)
(* of renames, saves, launches, failing steps and changes by others.       *)
(*                                                                         *)
(* The invariant has these groups.  Typed and Protocol: types, and who has *)
(* asked what of the main process.  Sparing: a name that is about to be    *)
(* removed is not the last of its file.  Watched: where the watcher stands *)
(* when the active name is missing.  SavedFollows and FaultsCount: what    *)
(* memory, disk and the counters have in common while no step has failed.  *)
(* Tracked: where the document is while nobody else changes the folder, as *)
(* memory and disk tell it.  Sound: the same, more sharply, as long as no  *)
(* step fails.                                                             *)
(***************************************************************************)
EXTENDS SourceRename, SequenceTheorems, FiniteSetTheorems, TLAPS

-----------------------------------------------------------------------------
(* The inductive invariant.                                                 *)

(* The labels at which an intent is carried out, and those of a rename.     *)
Taking == {"recover", "link", "check", "unlink", "reread", "relink",
           "rollback", "finalize"}
Moving == Taking \cup {"prepare", "rebind"}

(* Types. *)
Kinds == {"launch", "rename", "locate", "active", "watch"}
Item == [kind : Kinds, path : Names \cup {None}, gen : Nat]
Places == [active : Names, pending : Intents \cup {None}]
Jobs == [at : Moving \cup {"start", "ask", "commit", "read"},
         retrying : BOOLEAN, file : Files \cup {None},
         prior : Names \cup {None}, next : Names \cup {None},
         sha : Bytes \cup {None}]
Pages == [phase : {"opening", "idle", "locating", "settling", "renaming",
                   "checking", "closed"},
          path : Names, sha : Bytes, goal : Names \cup {None},
          hint : Hints \cup {None}, applied : Nat, conflict : BOOLEAN]

FolderTyped ==
    /\ bytes \in Seq(Bytes) /\ Len(bytes) <= 1 + count.others + count.saves
    /\ dir \in [Names -> (1..Len(bytes)) \cup {None}]
    /\ binding \in [file : 1..Len(bytes), name : Names, sha : Bytes]
    /\ touched \subseteq Names \cup Files \cup {None}
    /\ lost \subseteq Files
CountTyped ==
    /\ count \in [others : 0..MaxExternal, faults : 0..MaxFaults,
                  crashes : 0..MaxCrashes, renames : 0..MaxRenames,
                  saves : 0..MaxSaves]
    /\ rough \in BOOLEAN /\ blind \in BOOLEAN
MainTyped == mem \in Places /\ saved \in Places
QueueTyped == queue \in Seq(Item)
JobTyped == job \in Jobs
Watches == [name : Names \cup {None}, gen : Nat, due : BOOLEAN,
            missing : BOOLEAN, unseen : BOOLEAN]
WatchTyped == watch \in Watches
PageTyped == page \in Pages

Typed == /\ FolderTyped /\ CountTyped /\ MainTyped /\ QueueTyped /\ JobTyped
         /\ WatchTyped /\ PageTyped

(* What a page waits for. *)
Awaits(phase, k) ==
    \/ k = "locate" /\ phase = "locating"
    \/ k = "rename" /\ phase = "renaming"
    \/ k = "active" /\ phase \in {"checking", "opening"}
    \/ k = "launch" /\ phase = "opening"

(* One call of a kind at most, and none that the page does not wait for; an *)
(* opening page has its question in the queue.                              *)
QueueFits ==
    /\ \A i \in DOMAIN queue :
           /\ queue[i].kind = "watch" => queue[i].path \in Names
           /\ queue[i].kind # "watch" => Awaits(page.phase, queue[i].kind)
           /\ queue[i].kind = "launch" => i = 1
    /\ \A i, j \in DOMAIN queue : queue[i].kind = queue[j].kind => i = j
    /\ page.phase = "opening" =>
           \/ queue # <<>> /\ Kind = "active"
           \/ Len(queue) >= 2 /\ Kind = "launch" /\ queue[2].kind = "active"

PageFits ==
    /\ page.phase \in {"renaming", "checking"} =>
           page.goal \in Names /\ page.goal # page.path
    /\ page.phase \in {"opening", "idle", "closed"} => page.goal = None
    /\ page.phase \notin {"opening", "closed"} => watch.name # None
    /\ watch.due => watch.name # None

IntentsMove ==
    /\ mem.pending # None => mem.pending.from # mem.pending.to
    /\ saved.pending # None => saved.pending.from # saved.pending.to

(* What the head of the queue may be doing. *)
JobFits ==
    /\ queue = <<>> => job = Resting
    /\ job.at \in Moving => Kind \in {"launch", "rename"}
    /\ job.at \in {"prepare", "rebind"} => Kind = "rename" /\ ~job.retrying
    /\ job.at \in {"ask", "commit"} => Kind \in {"watch", "locate", "active"}
    /\ job.at = "read" => Kind = "active"
    /\ job.at \in Taking => Intent # None
    /\ job.at \in Taking /\ Kind = "launch" => job.retrying
    /\ job.at = "recover" => job.retrying
    /\ job.at \in {"ask", "commit", "read"} => job.prior \in Names
    /\ job.at = "commit" => job.next \in Names /\ job.sha \in Bytes

(* And whose name it has in mind. *)
JobNames ==
    /\ job.at \in Taking /\ ~job.retrying =>
           /\ mem.active = page.path
           /\ Intent.from = page.path /\ Intent.to = page.goal
    /\ job.at = "rebind" => mem.active = page.goal /\ Intent = None
    /\ job.at \in {"ask", "commit"} /\ Kind # "locate" => job.prior = mem.active
    /\ ~rough /\ job.at = "read" => job.prior = mem.active

Protocol == QueueFits /\ PageFits /\ IntentsMove /\ JobFits /\ JobNames

(* Removing the name n would not lose its file. *)
Spare(n) ==
    Exists(n) => \/ {n, dir[n]} \cap touched # {}
                 \/ \E m \in Names \ {n} : dir[m] = dir[n]

Sparing ==
    /\ job.at \in {"link", "check"} =>
           Intent.from \in touched \/ dir[Intent.from] = job.file
    /\ job.at \in {"check", "rollback"} => Spare(Intent.to)
    /\ job.at = "unlink" => Spare(Intent.from)
    /\ lost = {}

(* A missing active name is known to the watcher, if the bridge can help.   *)
Shown == page.phase \notin {"opening", "closed"}
Calls == \E i \in DOMAIN queue : queue[i].kind = "watch"
Unprobed == watch.name # None /\ watch.missing = Exists(watch.name)
Heard == watch.due \/ watch.unseen \/ Unprobed \/ Calls
Watched ==
    /\ ~rough /\ Shown /\ ~Heard => Located = {} \/ Exists(mem.active)
    /\ Shown /\ job.at = "commit" /\ Kind = "watch" =>
           Holds(job.next, job.sha) \/ watch.due \/ watch.unseen

(* Memory is only ahead of the disk when a step has failed. *)
SavedFollows == ~rough => saved = mem
FaultsCount == rough \/ blind => count.faults > 0

(* Without other programs there is one document, under a name or two.       *)
Named == {n \in Names : Exists(n)}
Alone == \E x \in Names : Named = {x}
World ==
    /\ \A n \in Names : dir[n] \in {None, binding.file}
    /\ bytes[binding.file] = binding.sha
    /\ page.sha = binding.sha /\ ~page.conflict
    /\ Named # {} /\ touched = {}

(* What memory or disk say of it is true, or will be when the intent is     *)
(* taken up.                                                                *)
Placed(m) ==
    /\ m.pending = None => blind \/ Named = {m.active}
    /\ m.pending # None =>
           /\ Named \subseteq {m.pending.from, m.pending.to}
           /\ {m.pending.from, m.pending.to} \subseteq Named
              => m.pending.sha = binding.sha
           /\ blind \/ (/\ m.active \in {m.pending.from, m.pending.to}
                        /\ m.pending.from \in Named
                           => m.active = m.pending.from)

(* A step of the move finds what the one before has left. *)
Steps ==
    /\ job.at = "link" => Named = {Intent.from}
    /\ job.at \in {"check", "unlink", "rollback"} =>
           Named = {Intent.from, Intent.to}
    /\ job.at \in {"reread", "relink", "finalize"} => Named = {Intent.to}
    /\ job.at = "rebind" => Named = {page.goal}
    /\ job.at \in Taking => mem.pending = saved.pending
    /\ job.at = "finalize" /\ ~job.retrying => Intent.sha = binding.sha
    /\ job.at \in Taking \ {"recover", "finalize"} /\ Kind = "rename" =>
           Intent.from = page.path
    /\ job.at \in Taking \ {"recover", "finalize"} =>
           /\ Intent.sha = binding.sha
           /\ blind \/ (mem.active = Intent.from /\ saved.active = Intent.from)

(* A page that is about to rename has just been told where the document is. *)
Renaming == \/ page.phase = "renaming"
            \/ page.phase = "settling" /\ page.goal # None
Ready ==
    /\ Renaming /\ job.at \in {"start", "ask", "commit", "recover"}
       => Named = {page.path}
    /\ Renaming /\ job.at = "prepare" => Alone
    /\ Renaming /\ job.at \in {"start", "ask", "commit"}
       => mem.pending = saved.pending
    /\ queue # <<>> /\ Kind = "launch" /\ job.at = "start"
       => mem.pending = saved.pending

(* So does one that looks for it. *)
Looks ==
    /\ job.at = "commit" => Named = {job.next}
    /\ job.at = "commit" /\ Kind # "watch" => job.sha = binding.sha
    /\ job.at = "read" /\ Exists(job.prior) => job.prior = mem.active

(* After one failure, a page that asks what became of its rename will know. *)
WillKnow ==
    /\ count.faults <= 1 /\ page.phase = "checking"
    /\ Named = {page.goal} /\ job.at = "read"
    => job.prior = page.goal

(* The old name of a denied rename, or nothing but the new one, is there.  *)
Told == page.phase = "checking" => Alone \/ Exists(page.path)

Track == /\ World /\ Placed(mem) /\ Placed(saved)
         /\ Steps /\ Ready /\ Looks /\ WillKnow /\ Told
Tracked == Undisturbed => Track

(* Without failures, every part of the program knows the one name. *)
Launching == \E i \in DOMAIN queue : queue[i].kind = "launch"
Busy == job.at \in Taking \cup {"rebind"} /\ ~job.retrying
Smooth ==
    /\ page.phase \notin {"closed", "checking"}
    /\ ~Launching /\ ~Busy =>
           /\ Alone
           /\ mem.pending # None => ~Exists(mem.pending.from)
           /\ job.at \notin Taking \ {"recover", "finalize"}
    /\ page.phase # "opening" /\ ~Busy =>
           Named = {mem.active} /\ page.path = mem.active
    /\ job.at \notin {"relink", "rollback"}
    /\ queue # <<>> /\ Kind = "watch" => job.at = "start"
    /\ job.at = "read" => Exists(job.prior)
Sound == Undisturbed /\ ~rough /\ ~blind => Smooth

Own == Typed /\ Protocol
IInv == Own /\ Sparing /\ Watched /\ SavedFollows /\ FaultsCount /\ Tracked /\ Sound

-----------------------------------------------------------------------------
(* Numbers, names and the queue.                                            *)
LEMMA Constants ==
    /\ First \in Names /\ IsFiniteSet(Names)
    /\ MaxExternal \in Nat /\ MaxFaults \in Nat /\ MaxCrashes \in Nat
    /\ MaxRenames \in Nat /\ MaxSaves \in Nat
    /\ None \notin Names /\ None \notin Nat /\ None \notin Intents
    /\ 1 \in Files /\ Files \subseteq Nat
BY RenameAssumption, NoneAssumption DEF Files

LEMMA Parts ==
    ASSUME Typed
    PROVE  /\ bytes \in Seq(Bytes) /\ Len(bytes) \in Nat
           /\ Len(bytes) <= 1 + count.others + count.saves
           /\ 1..Len(bytes) \subseteq Files
           /\ dir \in [Names -> (1..Len(bytes)) \cup {None}]
           /\ binding.file \in 1..Len(bytes) /\ binding.name \in Names
           /\ binding.sha \in Bytes
           /\ mem \in Places /\ saved \in Places
           /\ queue \in Seq(Item) /\ job \in Jobs /\ page \in Pages
           /\ count.others \in 0..MaxExternal /\ count.faults \in 0..MaxFaults
           /\ count.crashes \in 0..MaxCrashes
           /\ count.renames \in 0..MaxRenames /\ count.saves \in 0..MaxSaves
           /\ rough \in BOOLEAN /\ blind \in BOOLEAN
<1>1. /\ bytes \in Seq(Bytes)
      /\ Len(bytes) <= 1 + count.others + count.saves
      /\ count.others \in 0..MaxExternal /\ count.saves \in 0..MaxSaves
    BY DEF Typed, FolderTyped, CountTyped
<1>2. Len(bytes) \in Nat
    BY <1>1, LenProperties
<1>3. 1..Len(bytes) \subseteq Files
    BY <1>1, <1>2, Constants DEF Files
<1> QED
    BY <1>1, <1>2, <1>3 DEF Typed, FolderTyped, CountTyped, MainTyped,
       QueueTyped, JobTyped, PageTyped

LEMMA HeadOf ==
    ASSUME queue \in Seq(Item), queue # <<>>
    PROVE  /\ Head(queue) = queue[1] /\ 1 \in DOMAIN queue
           /\ Head(queue) \in Item /\ Kind \in Kinds /\ Kind = queue[1].kind
           /\ Tail(queue) \in Seq(Item)
           /\ \A i \in DOMAIN Tail(queue) :
                  /\ i \in Nat /\ i >= 1 /\ i + 1 \in DOMAIN queue
                  /\ Tail(queue)[i] = queue[i + 1]
           /\ Len(Tail(queue)) = Len(queue) - 1 /\ Len(queue) \in Nat
<1>1. /\ Head(queue) \in Item /\ Tail(queue) \in Seq(Item)
      /\ Len(Tail(queue)) = Len(queue) - 1
      /\ \A i \in 1..Len(Tail(queue)) : Tail(queue)[i] = queue[i + 1]
    BY HeadTailProperties
<1>2. Len(queue) \in Nat /\ DOMAIN queue = 1..Len(queue) /\ Len(queue) > 0
    BY LenProperties, EmptySeq
<1>3. DOMAIN Tail(queue) = 1..Len(Tail(queue))
    BY <1>1, LenProperties
<1>4. Head(queue) = queue[1]
    BY <1>2
<1> QED
    BY <1>1, <1>2, <1>3, <1>4 DEF Kind, Item

LEMMA AppendOf ==
    ASSUME NEW q \in Seq(Item), NEW x \in Item
    PROVE  LET t == Append(q, x) IN
           /\ t \in Seq(Item) /\ t # <<>> /\ Len(t) = Len(q) + 1
           /\ Len(q) \in Nat /\ DOMAIN q = 1..Len(q)
           /\ DOMAIN t = 1..(Len(q) + 1)
           /\ \A i \in DOMAIN q : t[i] = q[i]
           /\ t[Len(q) + 1] = x
           /\ Head(t) = t[1]
           /\ q # <<>> => Head(t) = Head(q)
<1> DEFINE t == Append(q, x)
<1>1. /\ t \in Seq(Item) /\ Len(t) = Len(q) + 1
      /\ \A i \in 1..Len(q) : t[i] = q[i]
      /\ t[Len(q) + 1] = x /\ t # <<>>
    BY AppendProperties
<1>2. Len(q) \in Nat /\ DOMAIN q = 1..Len(q)
    BY LenProperties
<1>3. DOMAIN t = 1..(Len(q) + 1)
    BY <1>1, <1>2, LenProperties
<1> HIDE DEF t
<1>4. Head(t) = t[1]
    BY <1>1, <1>2
<1>5. q # <<>> => Head(q) = q[1] /\ 1 \in 1..Len(q)
    BY <1>2, EmptySeq
<1> QED
    BY <1>1, <1>2, <1>3, <1>4, <1>5 DEF t

LEMMA AskIs ==
    ASSUME NEW k \in Kinds
    PROVE  Ask(k) \in Item /\ Ask(k).kind = k
BY DEF Ask, Item, Kinds

(* The head is served: what is left still fits the page.                    *)
LEMMA QueueDone ==
    ASSUME QueueTyped, QueueFits, queue # <<>>, queue' = Tail(queue),
           \/ Kind \in {"watch", "launch"} /\ page'.phase = page.phase
           \/ Kind \in {"locate", "rename", "active"} /\ page'.phase # "opening"
    PROVE  /\ QueueTyped' /\ QueueFits'
           /\ \A i \in DOMAIN queue' : queue'[i].kind # "launch"
           /\ Kind \in {"locate", "rename", "active"} =>
                  \A i \in DOMAIN queue' : queue'[i].kind = "watch"
           /\ Kind = "watch" => \A i \in DOMAIN queue' : queue'[i].kind # "watch"
<1>1. /\ queue' \in Seq(Item) /\ 1 \in DOMAIN queue /\ Kind = queue[1].kind
      /\ \A i \in DOMAIN queue' : /\ i \in Nat /\ i >= 1 /\ i + 1 \in DOMAIN queue
                                  /\ queue'[i] = queue[i + 1]
      /\ Len(queue') = Len(queue) - 1 /\ Len(queue) \in Nat
    BY HeadOf DEF QueueTyped
<1>2. \A i \in DOMAIN queue' : queue'[i].kind # Kind
  <2> TAKE i \in DOMAIN queue'
  <2>1. i + 1 \in DOMAIN queue /\ i + 1 # 1 /\ queue'[i] = queue[i + 1]
      BY <1>1
  <2> QED
      BY <1>1, <2>1 DEF QueueFits
<1>3. \A i \in DOMAIN queue' : queue'[i].kind # "launch"
  <2> TAKE i \in DOMAIN queue'
  <2>1. i + 1 \in DOMAIN queue /\ i + 1 # 1 /\ queue'[i] = queue[i + 1]
      BY <1>1
  <2> QED
      BY <2>1 DEF QueueFits
<1>4. Kind # "watch" => Awaits(page.phase, Kind)
    BY <1>1 DEF QueueFits
<1>5. \A i \in DOMAIN queue' :
          /\ queue'[i].kind = "watch" => queue'[i].path \in Names
          /\ queue'[i].kind # "watch" => Awaits(page.phase, queue'[i].kind)
    BY <1>1 DEF QueueFits
<1>6. Kind \in {"locate", "rename", "active"} =>
          \A i \in DOMAIN queue' : queue'[i].kind = "watch"
    BY <1>2, <1>3, <1>4, <1>5 DEF Awaits
<1>7. \A i \in DOMAIN queue' : queue'[i].kind # "watch" => Awaits(page'.phase, queue'[i].kind)
    BY <1>5, <1>6 DEF Awaits
<1>8. \A i, j \in DOMAIN queue' : queue'[i].kind = queue'[j].kind => i = j
  <2> TAKE i, j \in DOMAIN queue'
  <2>1. /\ i + 1 \in DOMAIN queue /\ queue'[i] = queue[i + 1]
        /\ j + 1 \in DOMAIN queue /\ queue'[j] = queue[j + 1]
        /\ i \in Nat /\ j \in Nat
      BY <1>1
  <2> QED
      BY <2>1 DEF QueueFits
<1>9. page'.phase = "opening" => queue' # <<>> /\ Kind' = "active"
  <2> SUFFICES ASSUME page'.phase = "opening"
               PROVE  queue' # <<>> /\ Kind' = "active"
      OBVIOUS
  <2>1. Len(queue) >= 2 /\ Kind = "launch" /\ queue[2].kind = "active"
      BY <1>4 DEF QueueFits, Awaits
  <2>2. queue' # <<>>
      BY <1>1, <2>1, EmptySeq
  <2>3. DOMAIN queue' = 1..Len(queue') /\ Head(queue') = queue'[1]
      BY <1>1, <2>2, LenProperties
  <2>4. queue'[1] = queue[2]
      BY <1>1, <2>1, <2>3
  <2> QED
      BY <2>1, <2>2, <2>3, <2>4 DEF Kind
<1> QED
    BY <1>1, <1>2, <1>3, <1>5, <1>6, <1>7, <1>8, <1>9 DEF QueueTyped, QueueFits

(* One more is asked of the main process, where nothing else was.           *)
LEMMA QueueAsks ==
    ASSUME QueueTyped, NEW q \in Seq(Item), NEW k \in {"locate", "rename", "active"},
           \A i \in DOMAIN q : q[i].kind = "watch" /\ q[i].path \in Names,
           \A i, j \in DOMAIN q : i = j,
           queue' = Append(q, Ask(k)), Awaits(page'.phase, k), page'.phase # "opening"
    PROVE  /\ QueueTyped' /\ QueueFits' /\ queue' # <<>>
           /\ \A i \in DOMAIN queue' : queue'[i].kind # "launch"
           /\ (\E i \in DOMAIN q : q[i].kind = "watch")
              => \E i \in DOMAIN queue' : queue'[i].kind = "watch"
           /\ q # <<>> => Head(queue') = Head(q)
<1>1. Ask(k) \in Item /\ Ask(k).kind = k
    BY AskIs DEF Kinds
<1>2. /\ queue' \in Seq(Item) /\ queue' # <<>> /\ Len(q) \in Nat
      /\ DOMAIN q = 1..Len(q) /\ DOMAIN queue' = 1..(Len(q) + 1)
      /\ \A i \in DOMAIN q : queue'[i] = q[i]
      /\ queue'[Len(q) + 1] = Ask(k)
      /\ q # <<>> => Head(queue') = Head(q)
    BY <1>1, AppendOf
<1>3. \A i \in DOMAIN queue' : \/ i \in DOMAIN q /\ queue'[i] = q[i]
                               \/ i = Len(q) + 1 /\ queue'[i].kind = k
    BY <1>1, <1>2
<1>4. \A i, j \in DOMAIN queue' : queue'[i].kind = queue'[j].kind => i = j
    BY <1>3
<1>5. \A i \in DOMAIN queue' :
           /\ queue'[i].kind = "watch" => queue'[i].path \in Names
           /\ queue'[i].kind # "watch" => Awaits(page'.phase, queue'[i].kind)
           /\ queue'[i].kind # "launch"
    BY <1>3
<1>6. (\E i \in DOMAIN q : q[i].kind = "watch")
      => \E i \in DOMAIN queue' : queue'[i].kind = "watch"
    BY <1>2
<1> QED
    BY <1>2, <1>4, <1>5, <1>6 DEF QueueTyped, QueueFits

(* A page that waits for nothing has at most one call of the watcher in the *)
(* queue.                                                                   *)
LEMMA QueueIdle ==
    ASSUME QueueTyped, QueueFits, page.phase \in {"idle", "settling", "closed"}
    PROVE  /\ \A i \in DOMAIN queue : queue[i].kind = "watch"
                                      /\ queue[i].path \in Names
           /\ \A i, j \in DOMAIN queue : i = j
<1>1. \A i \in DOMAIN queue : queue[i].kind = "watch" /\ queue[i].path \in Names
    BY DEF QueueFits, Awaits
<1> QED
    BY <1>1 DEF QueueFits

(* The rename at the head is denied, and the active project asked for.      *)
LEMMA QueueDenies ==
    ASSUME QueueTyped, QueueFits, queue # <<>>, Kind = "rename",
           queue' = Append(Tail(queue), Ask("active")),
           page'.phase = "checking"
    PROVE  /\ QueueTyped' /\ QueueFits' /\ queue' # <<>>
           /\ \A i \in DOMAIN queue' : queue'[i].kind # "launch"
           /\ \A i \in DOMAIN queue : queue[i].kind # "launch"
           /\ (\E i \in DOMAIN queue : queue[i].kind = "watch")
              => \E i \in DOMAIN queue' : queue'[i].kind = "watch"
<1> DEFINE q == Tail(queue)
<1>1. /\ q \in Seq(Item) /\ 1 \in DOMAIN queue /\ Kind = queue[1].kind
      /\ \A i \in DOMAIN q : /\ i \in Nat /\ i >= 1 /\ i + 1 \in DOMAIN queue
                             /\ q[i] = queue[i + 1]
      /\ Len(q) = Len(queue) - 1 /\ Len(queue) \in Nat
    BY HeadOf DEF QueueTyped
<1>2. page.phase = "renaming"
    BY <1>1 DEF QueueFits, Awaits
<1>3. \A i \in DOMAIN queue : queue[i].kind \in {"rename", "watch"}
                              /\ (i # 1 => queue[i].kind = "watch")
    BY <1>1, <1>2 DEF QueueFits, Awaits
<1>4. \A i \in DOMAIN q : q[i].kind = "watch" /\ q[i].path \in Names
  <2> TAKE i \in DOMAIN q
  <2>1. i + 1 \in DOMAIN queue /\ i + 1 # 1 /\ q[i] = queue[i + 1]
      BY <1>1
  <2> QED
      BY <1>3, <2>1 DEF QueueFits
<1>5. \A i, j \in DOMAIN q : i = j
  <2> TAKE i, j \in DOMAIN q
  <2>1. /\ i + 1 \in DOMAIN queue /\ q[i] = queue[i + 1]
        /\ j + 1 \in DOMAIN queue /\ q[j] = queue[j + 1]
        /\ i \in Nat /\ j \in Nat
      BY <1>1
  <2> QED
      BY <1>4, <2>1 DEF QueueFits
<1>6. Awaits(page'.phase, "active")
    BY DEF Awaits
<1>7. (\E i \in DOMAIN queue : queue[i].kind = "watch")
      => \E i \in DOMAIN q : q[i].kind = "watch"
  <2> SUFFICES ASSUME NEW i \in DOMAIN queue, queue[i].kind = "watch"
               PROVE  \E j \in DOMAIN q : q[j].kind = "watch"
      OBVIOUS
  <2>1. i # 1 /\ DOMAIN queue = 1..Len(queue) /\ DOMAIN q = 1..Len(q)
      BY <1>1, LenProperties DEF QueueTyped
  <2>2. i - 1 \in DOMAIN q /\ (i - 1) + 1 = i
      BY <1>1, <2>1
  <2> QED
      BY <1>1, <2>2
<1> HIDE DEF q
<1>8. /\ QueueTyped' /\ QueueFits' /\ queue' # <<>>
      /\ \A i \in DOMAIN queue' : queue'[i].kind # "launch"
      /\ (\E i \in DOMAIN q : q[i].kind = "watch")
         => \E i \in DOMAIN queue' : queue'[i].kind = "watch"
    BY <1>1, <1>4, <1>5, <1>6, QueueAsks DEF q
<1> QED
    BY <1>3, <1>7, <1>8

(* The watcher calls. *)
LEMMA QueueCalls ==
    ASSUME QueueTyped, QueueFits, NEW x \in Item, x.kind = "watch",
           x.path \in Names, \A i \in DOMAIN queue : queue[i].kind # "watch",
           queue' = Append(queue, x), UNCHANGED page
    PROVE  /\ QueueTyped' /\ QueueFits'
           /\ queue # <<>> => Head(queue') = Head(queue) /\ Kind' = Kind
           /\ queue = <<>> => Kind' = "watch"
           /\ \E i \in DOMAIN queue' : queue'[i].kind = "watch"
           /\ Launching' <=> Launching
<1>1. /\ queue' \in Seq(Item) /\ queue' # <<>> /\ Len(queue) \in Nat
      /\ Len(queue') = Len(queue) + 1
      /\ DOMAIN queue = 1..Len(queue) /\ DOMAIN queue' = 1..(Len(queue) + 1)
      /\ \A i \in DOMAIN queue : queue'[i] = queue[i]
      /\ queue'[Len(queue) + 1] = x
      /\ Head(queue') = queue'[1]
      /\ queue # <<>> => Head(queue') = Head(queue)
    BY AppendOf DEF QueueTyped
<1>2. \A i \in DOMAIN queue' : \/ i \in DOMAIN queue /\ queue'[i] = queue[i]
                               \/ i = Len(queue) + 1 /\ queue'[i] = x
    BY <1>1
<1>3. \A i, j \in DOMAIN queue' : queue'[i].kind = queue'[j].kind => i = j
    BY <1>2 DEF QueueFits
<1>4. \A i \in DOMAIN queue' :
           /\ queue'[i].kind = "watch" => queue'[i].path \in Names
           /\ queue'[i].kind # "watch" => Awaits(page'.phase, queue'[i].kind)
           /\ queue'[i].kind = "launch" => i = 1
    BY <1>2 DEF QueueFits, Awaits
<1>5. queue # <<>> => Kind' = Kind
    BY <1>1 DEF Kind
<1>6. queue = <<>> => Len(queue) = 0
    OBVIOUS
<1>7. queue = <<>> => Kind' = "watch"
    BY <1>1, <1>6 DEF Kind
<1>8. page'.phase = "opening" =>
           \/ queue' # <<>> /\ Kind' = "active"
           \/ Len(queue') >= 2 /\ Kind' = "launch" /\ queue'[2].kind = "active"
  <2> SUFFICES ASSUME page.phase = "opening"
               PROVE  \/ queue' # <<>> /\ Kind' = "active"
                      \/ /\ Len(queue') >= 2 /\ Kind' = "launch"
                         /\ queue'[2].kind = "active"
      OBVIOUS
  <2>1. CASE queue # <<>> /\ Kind = "active"
      BY <1>1, <1>5, <2>1
  <2>2. CASE Len(queue) >= 2 /\ Kind = "launch" /\ queue[2].kind = "active"
    <3>1. queue # <<>> /\ 2 \in DOMAIN queue
        BY <1>1, <1>6, <2>2
    <3> QED
        BY <1>1, <1>5, <2>2, <3>1
  <2> QED
      BY <2>1, <2>2 DEF QueueFits
<1>9. Launching' <=> Launching
    BY <1>1, <1>2 DEF Launching
<1>10. \E i \in DOMAIN queue' : queue'[i].kind = "watch"
    BY <1>1
<1> QED
    BY <1>1, <1>3, <1>4, <1>5, <1>7, <1>8, <1>9, <1>10 DEF QueueTyped, QueueFits

(* Nothing is asked: the page only changes between phases that wait for     *)
(* nothing.                                                                 *)
LEMMA QueueStays ==
    ASSUME QueueTyped, QueueFits, UNCHANGED queue,
           \/ page'.phase = page.phase
           \/ page.phase \in {"idle", "settling"} /\ page'.phase # "opening"
    PROVE  /\ QueueTyped' /\ QueueFits' /\ Kind' = Kind
           /\ Launching' = Launching
<1>1. Kind' = Kind /\ Launching' = Launching /\ QueueTyped'
    BY DEF Kind, Launching, QueueTyped
<1>2. CASE page'.phase = page.phase
    BY <1>1, <1>2 DEF QueueFits
<1>3. CASE page.phase \in {"idle", "settling"} /\ page'.phase # "opening"
    BY <1>1, <1>3, QueueIdle DEF QueueFits
<1> QED
    BY <1>1, <1>2, <1>3


-----------------------------------------------------------------------------
(* What an answer does to the page and the queue.                           *)
LEMMA HintKeeps ==
    ASSUME page \in Pages, NEW n \in Names, NEW g \in Nat,
           NEW b \in BOOLEAN, Hint(n, g, b)
    PROVE  /\ page' \in Pages
           /\ \E h \in Hints \cup {None} : page' = [page EXCEPT !.hint = h]
           /\ page'.phase = page.phase /\ page'.path = page.path
           /\ page'.sha = page.sha /\ page'.goal = page.goal
           /\ page'.conflict = page.conflict
<1> DEFINE h == [path |-> n, gen |-> g, missing |-> b]
<1>1. h \in Hints
    BY DEF Hints
<1>2. page.hint \in Hints \cup {None}
    BY DEF Pages
<1>3. Coalesced(h) \in Hints
  <2>1. CASE page.hint = None
      BY <1>1, <2>1 DEF Coalesced
  <2>2. CASE page.hint # None
    <3>1. page.hint \in Hints
        BY <1>2, <2>2
    <3> DEFINE m == h.missing \/ page.hint.missing
    <3>2. m \in BOOLEAN
        OBVIOUS
    <3>3. [h EXCEPT !.missing = m] = [path |-> n, gen |-> g, missing |-> m]
        OBVIOUS
    <3> HIDE DEF m
    <3>4. [path |-> n, gen |-> g, missing |-> m] \in Hints
        BY <3>2 DEF Hints
    <3>5. [h EXCEPT !.missing = m] \in Hints
        BY <3>3, <3>4
    <3> QED
        BY <2>2, <3>1, <3>5 DEF Coalesced, m
  <2> QED
      BY <2>1, <2>2
<1>4. page' = page \/ page' = [page EXCEPT !.hint = Coalesced(h)]
    BY DEF Hint
<1> HIDE DEF h
<1>5. PICK x \in Hints \cup {None} : page' = [page EXCEPT !.hint = x]
  <2>1. page = [page EXCEPT !.hint = page.hint]
      BY DEF Pages
  <2> QED
      BY <1>2, <1>3, <1>4, <2>1
<1> QED
    BY <1>5 DEF Pages

(* The watcher has a name, and keeps one. *)
WatchKeeps == /\ WatchTyped'
              /\ watch.name # None => watch'.name # None
              /\ watch'.due => watch'.name # None

(* The job is over. *)
LEMMA RestFits ==
    ASSUME job' = Resting
    PROVE  JobTyped' /\ JobFits' /\ JobNames'
BY DEF JobTyped, JobFits, JobNames, Jobs, Resting, Moving, Taking

(* What is asked and where the job stands, without the intents.             *)
Course == QueueTyped /\ JobTyped /\ PageTyped
          /\ QueueFits /\ PageFits /\ JobFits /\ JobNames

LEMMA HeadAwaited ==
    ASSUME QueueTyped, QueueFits, queue # <<>>
    PROVE  /\ Kind \in Kinds
           /\ Kind = "locate" => page.phase = "locating"
           /\ Kind = "rename" => page.phase = "renaming"
           /\ Kind = "active" => page.phase \in {"checking", "opening"}
           /\ Kind = "launch" => page.phase = "opening"
           /\ Kind = "watch" => Head(queue).path \in Names
           /\ Head(queue).gen \in Nat
<1>1. /\ Head(queue) = queue[1] /\ 1 \in DOMAIN queue /\ Kind \in Kinds
      /\ Kind = queue[1].kind /\ Head(queue).gen \in Nat
    BY HeadOf DEF QueueTyped, Item
<1> QED
    BY <1>1 DEF QueueFits, Awaits

(* A call is answered: the job rests, and the page waits no more, or for    *)
(* another answer.                                                          *)
LEMMA Answers ==
    ASSUME QueueTyped, QueueFits, queue # <<>>, Done,
           PageTyped', PageFits',
           \/ Kind \in {"watch", "launch"} /\ page'.phase = page.phase
           \/ Kind \in {"locate", "rename", "active"} /\ page'.phase # "opening"
    PROVE  Course' /\ job' = Resting
BY QueueDone, RestFits DEF Done, Course

LEMMA Refused ==
    ASSUME Typed, Protocol, queue # <<>>, Refuse, WatchKeeps,
           Kind = "watch" => job.prior \in Names
    PROVE  /\ Course' /\ job' = Resting
           /\ page'.path = page.path /\ page'.sha = page.sha
           /\ page'.conflict = page.conflict
           /\ Kind \in {"launch", "watch"} => page'.phase = page.phase
                                              /\ page'.goal = page.goal
           /\ Kind = "launch" => page' = page
           /\ Kind = "rename" => page'.phase = "checking"
                                 /\ page'.goal = page.goal
           /\ Kind = "locate" => page'.phase = "idle"
           /\ Kind = "active" => page'.phase =
                  IF page.phase = "opening" THEN "closed" ELSE "idle"
<1>1. /\ QueueTyped /\ QueueFits /\ page \in Pages /\ PageFits
      /\ Kind \in Kinds /\ Head(queue).gen \in Nat
      /\ Kind = "rename" => page.phase = "renaming"
      /\ Kind = "locate" => page.phase = "locating"
      /\ Kind = "active" => page.phase \in {"checking", "opening"}
    BY HeadAwaited DEF Typed, PageTyped, Protocol
<1>2. CASE Kind = "launch"
  <2>1. Done /\ page' = page
      BY <1>2 DEF Refuse
  <2>2. PageTyped' /\ PageFits'
      BY <1>1, <2>1 DEF PageTyped, PageFits, WatchKeeps
  <2> QED
      BY <1>1, <1>2, <2>1, <2>2, Answers
<1>3. CASE Kind = "rename"
  <2>1. /\ queue' = Append(Tail(queue), Ask("active")) /\ job' = Resting
        /\ page' = [page EXCEPT !.phase = "checking"]
      BY <1>3 DEF Refuse
  <2>2. PageTyped' /\ PageFits'
      BY <1>1, <1>3, <2>1 DEF PageTyped, PageFits, WatchKeeps, Pages
  <2>3. /\ page'.phase = "checking" /\ page'.goal = page.goal
        /\ page'.path = page.path /\ page'.sha = page.sha
        /\ page'.conflict = page.conflict
      BY <1>1, <2>1 DEF Pages
  <2> QED
      BY <1>1, <1>3, <2>1, <2>2, <2>3, QueueDenies, RestFits DEF Course
<1>4. CASE Kind \in {"locate", "active"}
  <2>1. /\ Done
        /\ page' = IF Kind = "active" /\ page.phase = "opening"
                   THEN [page EXCEPT !.phase = "closed"] ELSE Settled(page.path)
      BY <1>4 DEF Refuse
  <2>2. /\ page' \in Pages /\ page'.path = page.path /\ page'.sha = page.sha
        /\ page'.conflict = page.conflict
        /\ page'.phase = IF Kind = "active" /\ page.phase = "opening"
                         THEN "closed" ELSE "idle"
        /\ page'.goal = None
      BY <1>1, <2>1 DEF Settled, Pages, PageFits
  <2>3. PageTyped' /\ PageFits'
      BY <1>1, <1>4, <2>2 DEF PageTyped, PageFits, WatchKeeps
  <2> QED
      BY <1>1, <1>4, <2>1, <2>2, <2>3, Answers
<1>5. CASE Kind = "watch"
  <2>1. Done /\ Hint(job.prior, Head(queue).gen, ~Exists(job.prior))
      BY <1>5 DEF Refuse
  <2>2. /\ page' \in Pages
        /\ page'.phase = page.phase /\ page'.path = page.path
        /\ page'.sha = page.sha /\ page'.goal = page.goal
        /\ page'.conflict = page.conflict
      BY <1>1, <1>5, <2>1, HintKeeps
  <2>3. PageTyped' /\ PageFits'
      BY <1>1, <2>2 DEF PageTyped, PageFits, WatchKeeps
  <2> QED
      BY <1>1, <1>5, <2>1, <2>2, <2>3, Answers
<1> QED
    BY <1>1, <1>2, <1>3, <1>4, <1>5 DEF Kinds

LEMMA Succeeded ==
    ASSUME Typed, Protocol, queue # <<>>, WatchKeeps,
           NEW n \in Names, NEW sha \in Bytes, Succeed(n, sha),
           Kind = "watch" => job.prior \in Names,
           Kind = "active" => watch'.name # None
    PROVE  /\ Course' /\ job' = Resting
           /\ page'.sha = IF Kind = "active" /\ page.phase = "opening"
                          THEN sha ELSE page.sha
           /\ page'.conflict = IF Kind = "active" /\ page.phase = "opening"
                               THEN sha # binding.sha ELSE page.conflict
           /\ Kind \in {"launch", "watch"} =>
                  /\ page'.phase = page.phase /\ page'.goal = page.goal
                  /\ page'.path = page.path
           /\ Kind = "rename" => page'.phase = "idle" /\ page'.path = n
           /\ Kind = "locate" => page'.phase = "settling" /\ page'.path = n
                                 /\ page'.goal = page.goal
           /\ Kind = "active" => /\ page'.phase = "idle"
                                 /\ page'.path = IF page.phase = "opening"
                                                    \/ Accepts(n, sha)
                                                 THEN n ELSE page.path
<1>1. /\ QueueTyped /\ QueueFits /\ page \in Pages /\ PageFits
      /\ Kind \in Kinds /\ Head(queue).gen \in Nat
      /\ Kind = "rename" => page.phase = "renaming"
      /\ Kind = "locate" => page.phase = "locating"
      /\ Kind = "active" => page.phase \in {"checking", "opening"}
      /\ watch'.gen \in Nat /\ Done
    BY HeadAwaited DEF Typed, PageTyped, Protocol, WatchKeeps, WatchTyped, Watches, Succeed
<1>2. CASE Kind = "launch"
  <2>1. page' = page
      BY <1>2 DEF Succeed
  <2>2. PageTyped' /\ PageFits'
      BY <1>1, <2>1 DEF PageTyped, PageFits, WatchKeeps
  <2> QED
      BY <1>1, <1>2, <2>1, <2>2, Answers
<1>3. CASE Kind = "rename"
  <2>1. page' = Settled(n)
      BY <1>3 DEF Succeed
  <2>2. /\ page' \in Pages /\ page'.phase = "idle" /\ page'.path = n
        /\ page'.goal = None /\ page'.sha = page.sha
        /\ page'.conflict = page.conflict
      BY <1>1, <2>1 DEF Settled, Pages
  <2>3. PageTyped' /\ PageFits'
      BY <1>1, <1>3, <2>2 DEF PageTyped, PageFits, WatchKeeps
  <2> QED
      BY <1>1, <1>3, <2>2, <2>3, Answers
<1>4. CASE Kind = "locate"
  <2>1. page' = [page EXCEPT !.phase = "settling", !.path = n,
                             !.applied = watch'.gen]
      BY <1>4 DEF Succeed
  <2>2. /\ page' \in Pages /\ page'.phase = "settling" /\ page'.path = n
        /\ page'.goal = page.goal /\ page'.sha = page.sha
        /\ page'.conflict = page.conflict
      BY <1>1, <2>1 DEF Pages
  <2>3. PageTyped' /\ PageFits'
      BY <1>1, <1>4, <2>2 DEF PageTyped, PageFits, WatchKeeps
  <2> QED
      BY <1>1, <1>4, <2>2, <2>3, Answers
<1>5. CASE Kind = "active" /\ page.phase = "opening"
  <2> DEFINE b == (sha # binding.sha)
  <2>1. page' = [Opened(n, sha) EXCEPT !.conflict = b]
      BY <1>5 DEF Succeed
  <2>0. b \in BOOLEAN
      OBVIOUS
  <2> HIDE DEF b
  <2>2. /\ page' \in Pages /\ page'.phase = "idle" /\ page'.path = n
        /\ page'.goal = None /\ page'.sha = sha /\ page'.conflict = b
      BY <2>0, <2>1 DEF Opened, Pages
  <2>3. PageTyped' /\ PageFits'
      BY <1>1, <1>5, <2>2 DEF PageTyped, PageFits, WatchKeeps
  <2>4. Course' /\ job' = Resting
      BY <1>1, <1>5, <2>2, <2>3, Answers
  <2> QED
      BY <1>5, <2>2, <2>4 DEF b
<1>6. CASE Kind = "active" /\ page.phase # "opening"
  <2>1. page' = IF Accepts(n, sha) THEN Settled(n) ELSE Settled(page.path)
      BY <1>6 DEF Succeed
  <2>2. /\ page' \in Pages /\ page'.phase = "idle"
        /\ page'.path = IF Accepts(n, sha) THEN n ELSE page.path
        /\ page'.goal = None /\ page'.sha = page.sha
        /\ page'.conflict = page.conflict
      BY <1>1, <2>1 DEF Settled, Pages
  <2>3. PageTyped' /\ PageFits'
      BY <1>1, <1>6, <2>2 DEF PageTyped, PageFits, WatchKeeps
  <2> QED
      BY <1>1, <1>6, <2>2, <2>3, Answers
<1>7. CASE Kind = "watch"
  <2> DEFINE b == (n # job.prior)
  <2>1. Hint(job.prior, Head(queue).gen, b)
      BY <1>7 DEF Succeed
  <2>0. b \in BOOLEAN
      OBVIOUS
  <2> HIDE DEF b
  <2>2. /\ page' \in Pages
        /\ page'.phase = page.phase /\ page'.path = page.path
        /\ page'.sha = page.sha /\ page'.goal = page.goal
        /\ page'.conflict = page.conflict
      BY <1>1, <1>7, <2>0, <2>1, HintKeeps
  <2>3. PageTyped' /\ PageFits'
      BY <1>1, <2>2 DEF PageTyped, PageFits, WatchKeeps
  <2> QED
      BY <1>1, <1>7, <2>2, <2>3, Answers
<1> QED
    BY <1>1, <1>2, <1>3, <1>4, <1>5, <1>6, <1>7 DEF Kinds

-----------------------------------------------------------------------------
(* Types and protocol: one lemma per action.                                *)
LEMMA Tally ==
    ASSUME CountTyped, Works \/ Fails, blind' \in BOOLEAN
    PROVE  /\ CountTyped'
           /\ count'.others = count.others /\ count'.saves = count.saves
           /\ count'.faults >= count.faults
           /\ ~rough' => ~rough /\ UNCHANGED count
           /\ rough => rough'
<1>1. /\ count.faults \in Nat /\ MaxFaults \in Nat /\ rough \in BOOLEAN
      /\ count = [others |-> count.others, faults |-> count.faults,
                  crashes |-> count.crashes, renames |-> count.renames,
                  saves |-> count.saves]
    BY Constants DEF CountTyped
<1>2. CASE Works
    BY <1>1, <1>2 DEF Works, CountTyped
<1>3. CASE Fails
  <2>1. /\ count.faults < MaxFaults /\ rough' = TRUE
        /\ count' = [count EXCEPT !.faults = @ + 1]
      BY <1>3 DEF Fails, Counts
  <2>2. count.faults + 1 \in 0..MaxFaults
      BY <1>1, <2>1
  <2> QED
      BY <1>1, <2>1, <2>2 DEF CountTyped
<1> QED
    BY <1>2, <1>3

(* The folder: names come and go, files stay as they are. *)
LEMMA FolderKept ==
    ASSUME FolderTyped, UNCHANGED <<bytes, binding>>,
           dir' \in [Names -> (1..Len(bytes)) \cup {None}],
           touched' \subseteq Names \cup Files \cup {None},
           lost' \subseteq Files,
           count'.others >= count.others, count'.saves >= count.saves,
           count.others \in Nat, count.saves \in Nat,
           count'.others \in Nat, count'.saves \in Nat
    PROVE  FolderTyped'
<1>1. Len(bytes) \in Nat /\ Len(bytes) <= 1 + count.others + count.saves
    BY LenProperties DEF FolderTyped
<1>2. Len(bytes) <= 1 + count'.others + count'.saves
    BY <1>1
<1> QED
    BY <1>1, <1>2 DEF FolderTyped

LEMMA FolderStays ==
    ASSUME Typed, UNCHANGED <<dir, bytes, binding, lost>>,
           touched' \in {touched, {}}, Works \/ Fails
    PROVE  FolderTyped'
<1>1. /\ FolderTyped /\ CountTyped
      /\ count.others \in Nat /\ count.saves \in Nat
    BY DEF Typed, CountTyped
<1>2. count'.others = count.others /\ count'.saves = count.saves
  <2>1. CASE Works
      BY <2>1 DEF Works
  <2>2. CASE Fails
      BY <1>1, <2>2 DEF Fails, Counts, CountTyped
  <2> QED
      BY <2>1, <2>2
<1> QED
    BY <1>1, <1>2, FolderKept DEF FolderTyped

(* A change in the folder is noticed, or missed by a watcher that waits for *)
(* its name.                                                                *)
Noticed == watch'.due \/ watch'.unseen

LEMMA FolderNoticed ==
    ASSUME WatchTyped, PageFits, FolderChanges
    PROVE  WatchKeeps /\ watch'.name = watch.name /\ Noticed
<1>1. watch \in Watches /\ (watch.due => watch.name # None)
    BY DEF WatchTyped, PageFits
<1>2. CASE watch.name # None /\ ~watch.missing
  <2>1. watch' = [watch EXCEPT !.due = TRUE]
      BY <1>2 DEF FolderChanges
  <2> QED
      BY <1>1, <1>2, <2>1 DEF WatchKeeps, WatchTyped, Watches, Noticed
<1>3. CASE ~(watch.name # None /\ ~watch.missing)
  <2>1. watch' = [watch EXCEPT !.unseen = TRUE]
      BY <1>3 DEF FolderChanges
  <2> QED
      BY <1>1, <2>1 DEF WatchKeeps, WatchTyped, Watches, Noticed
<1> QED
    BY <1>2, <1>3

(* A link, or an end of one. *)
LEMMA LinkTyped ==
    ASSUME Typed, Protocol, NEW n \in Names, NEW f \in (1..Len(bytes)) \cup {None},
           Link(n, f)
    PROVE  /\ dir' \in [Names -> (1..Len(bytes)) \cup {None}]
           /\ dir'[n] = f /\ \A m \in Names \ {n} : dir'[m] = dir[m]
           /\ WatchKeeps /\ watch'.name = watch.name /\ Noticed
           /\ lost' = lost
<1>1. dir \in [Names -> (1..Len(bytes)) \cup {None}]
    BY DEF Typed, FolderTyped
<1>2. FolderChanges /\ dir' = [dir EXCEPT ![n] = f] /\ lost' = lost
    BY DEF Link
<1> QED
    BY <1>1, <1>2, FolderNoticed DEF Typed, Protocol

LEMMA UnlinkTyped ==
    ASSUME Typed, Protocol, NEW n \in Names, Exists(n), Unlink(n)
    PROVE  /\ dir' \in [Names -> (1..Len(bytes)) \cup {None}]
           /\ dir'[n] = None /\ \A m \in Names \ {n} : dir'[m] = dir[m]
           /\ WatchKeeps /\ watch'.name = watch.name /\ Noticed
           /\ lost' \subseteq Files
           /\ Spare(n) => lost' = lost
<1>1. /\ dir \in [Names -> (1..Len(bytes)) \cup {None}]
      /\ lost \subseteq Files /\ 1..Len(bytes) \subseteq Files
    BY Parts DEF Typed, FolderTyped
<1>2. FolderChanges /\ dir' = [dir EXCEPT ![n] = None]
    BY DEF Unlink
<1>3. WatchKeeps /\ watch'.name = watch.name /\ Noticed
    BY <1>2, FolderNoticed DEF Typed, Protocol
<1>4. dir[n] \in Files
    BY <1>1 DEF Exists
<1>5. lost' \in {lost, lost \cup {dir[n]}}
    BY DEF Unlink
<1>6. Spare(n) => lost' = lost
    BY DEF Spare, Unlink
<1> QED
    BY <1>1, <1>2, <1>3, <1>4, <1>5, <1>6

LEMMA WatchStays ==
    ASSUME Typed, Protocol, UNCHANGED watch
    PROVE  WatchKeeps
BY DEF Typed, Protocol, WatchKeeps, WatchTyped, Watches, PageFits

LEMMA WatchesName ==
    ASSUME Typed, Protocol, NEW n \in Names, Watch(n)
    PROVE  /\ WatchKeeps /\ watch'.name = n
           /\ ~watch'.missing /\ (~Exists(n) /\ dir' = dir => Unprobed')
<1>1. watch \in Watches
    BY DEF Typed, WatchTyped
<1>2. WatchKeeps /\ watch'.name = n /\ watch'.missing = FALSE
  <2>1. CASE watch.name = n /\ ~watch.missing
      BY <1>1, <2>1, WatchStays DEF Watch, Watches
  <2>2. CASE ~(watch.name = n /\ ~watch.missing)
    <3>1. watch' = Watcher(n, watch.gen + 1)
        BY <2>2 DEF Watch
    <3> QED
        BY <1>1, <3>1, Constants DEF WatchKeeps, WatchTyped, Watches, Watcher
  <2> QED
      BY <2>1, <2>2
<1>3. ~Exists(n) /\ dir' = dir => Unprobed'
    BY <1>2, Constants DEF Unprobed, Exists
<1> QED
    BY <1>2, <1>3

(* What the main process has in memory and on disk, whatever it writes. *)
LEMMA ClearedTyped ==
    ASSUME MainTyped, mem' = [mem EXCEPT !.pending = None],
           saved' \in {saved, mem'}, IntentsMove
    PROVE  /\ MainTyped' /\ IntentsMove'
           /\ mem'.pending = None /\ mem'.active = mem.active
<1>1. /\ mem' \in Places /\ mem'.pending = None /\ mem'.active = mem.active
    BY DEF MainTyped, Places
<1> QED
    BY <1>1 DEF MainTyped, IntentsMove

LEMMA MainStays ==
    ASSUME MainTyped, IntentsMove, UNCHANGED main
    PROVE  MainTyped' /\ IntentsMove'
BY DEF MainTyped, IntentsMove, main

(* The head goes on: nothing is asked or answered. *)
LEMMA CourseGoesOn ==
    ASSUME Typed, Protocol, Stay, WatchKeeps, JobTyped', JobFits', JobNames'
    PROVE  Course'
<1>1. QueueTyped' /\ QueueFits'
    BY QueueStays DEF Typed, Protocol, Stay
<1>2. PageTyped' /\ PageFits'
    BY DEF Typed, Protocol, Stay, PageTyped, PageFits, WatchKeeps
<1> QED
    BY <1>1, <1>2 DEF Course

LEMMA GoesOn ==
    ASSUME Typed, Protocol, queue # <<>>, Kind \in {"launch", "rename"},
           GoOn, WatchKeeps
    PROVE  /\ Course' /\ page' = page
           /\ Kind = "launch" => job' = Resting /\ Done
           /\ Kind = "rename" => /\ job' = [Resting EXCEPT !.at = "prepare"]
                                 /\ queue' = queue
<1>1. CASE Kind = "launch"
  <2>1. Done /\ page' = page
      BY <1>1 DEF GoOn
  <2>2. PageTyped' /\ PageFits'
      BY <2>1 DEF Typed, Protocol, PageTyped, PageFits, WatchKeeps
  <2> QED
      BY <1>1, <2>1, <2>2, Answers DEF Typed, Protocol
<1>2. CASE Kind = "rename"
  <2>1. job' = [Resting EXCEPT !.at = "prepare"] /\ Stay
      BY <1>2 DEF GoOn, Stay
  <2>2. job' \in Jobs /\ job'.at = "prepare" /\ ~job'.retrying
      BY <2>1 DEF Jobs, Resting, Moving
  <2>3. Kind' = Kind
      BY <2>1 DEF Stay, Kind
  <2>4. JobTyped' /\ JobFits' /\ JobNames'
      BY <1>2, <2>1, <2>2, <2>3 DEF JobTyped, JobFits, JobNames, Moving, Taking, Stay
  <2> QED
      BY <1>2, <2>1, <2>4, CourseGoesOn DEF Stay
<1> QED
    BY <1>1, <1>2

(* The move goes on to its next label. *)
LEMMA MoveGoesOn ==
    ASSUME Typed, Protocol, queue # <<>>, Stay, WatchKeeps, UNCHANGED mem,
           job.at \in Taking, job' \in Jobs, job'.at \in Taking \ {"recover"},
           job'.retrying = job.retrying
    PROVE  Course'
<1>1. Kind' = Kind /\ Intent' = Intent
    BY DEF Stay, Kind, Intent
<1>2. JobFits'
    BY <1>1 DEF Protocol, JobFits, Stay, Taking, Moving
<1>3. JobNames'
    BY <1>1 DEF Protocol, JobNames, Stay, Taking
<1> QED
    BY <1>2, <1>3, CourseGoesOn DEF JobTyped

(* All of it. *)
LEMMA Together ==
    ASSUME FolderTyped', CountTyped', MainTyped', WatchKeeps, Course', IntentsMove'
    PROVE  Typed' /\ Protocol'
BY DEF Typed, Protocol, WatchKeeps, Course

(* What a step of a move starts from. *)
LEMMA MoveStarts ==
    ASSUME Typed, Protocol, NEW l \in Moving \ {"prepare", "rebind"}, At(l)
    PROVE  /\ queue # <<>> /\ job.at = l /\ job.at \in Taking
           /\ Kind \in {"launch", "rename"}
           /\ job \in Jobs /\ Intent \in Intents /\ Intent # None
           /\ Intent.from \in Names /\ Intent.to \in Names
           /\ Intent.sha \in Bytes /\ Intent.from # Intent.to
           /\ FolderTyped /\ CountTyped /\ MainTyped /\ IntentsMove
           /\ blind \in BOOLEAN /\ job.retrying \in BOOLEAN
           /\ mem \in Places
           /\ dir \in [Names -> (1..Len(bytes)) \cup {None}]
           /\ (1..Len(bytes)) \cup {None} \subseteq Files \cup {None}
           /\ lost \subseteq Files
<1>1. job.at = l /\ l \in Taking
    BY DEF At, Moving, Taking
<1>2. mem \in Places /\ mem.pending # None
    BY <1>1 DEF Typed, MainTyped, Protocol, JobFits, Intent
<1>3. Intent \in Intents /\ Intent # None
    BY <1>2 DEF Places, Intent
<1>4. Intent.from # Intent.to
    BY <1>2 DEF Protocol, IntentsMove, Intent
<1>5. 1..Len(bytes) \subseteq Files
    BY Parts
<1>6. job \in Jobs
    BY DEF Typed, JobTyped
<1> QED
    BY <1>1, <1>2, <1>3, <1>4, <1>5, <1>6
       DEF At, Moving, Typed, FolderTyped, CountTyped, Protocol, JobFits, Intents,
           Jobs

LEMMA BeginRenameFits ==
    ASSUME Typed, Protocol, BeginRename
    PROVE  Typed' /\ Protocol'
<1>0. UNCHANGED main /\ UNCHANGED touched /\ Works /\ AsItWas /\ Calm
      /\ Serves({"launch", "rename"}) /\ At("start")
    BY DEF BeginRename
<1>1. /\ queue # <<>> /\ Kind \in {"launch", "rename"} /\ job.at = "start"
      /\ UNCHANGED <<mem, saved, touched, dir, watch, lost, bytes, binding, blind>>
      /\ Works
    BY <1>0 DEF Serves, At, AsItWas, Calm, main
<1>2. /\ FolderTyped' /\ CountTyped' /\ MainTyped' /\ IntentsMove' /\ WatchKeeps
    BY <1>1, FolderStays, Tally, MainStays, WatchStays
       DEF Typed, Protocol, main, CountTyped
<1>3. CASE Intent # None
  <2>1. job' = [job EXCEPT !.at = "recover", !.retrying = TRUE] /\ Stay
      BY <1>3 DEF BeginRename
  <2>2. job' \in Jobs /\ job'.at = "recover" /\ job'.retrying = TRUE
      BY <2>1 DEF Typed, JobTyped, Jobs, Taking, Moving
  <2>3. Kind' = Kind /\ Intent' = Intent
      BY <1>1, <2>1 DEF Stay, Kind, Intent
  <2>4. JobTyped' /\ JobFits' /\ JobNames'
      BY <1>1, <1>3, <2>1, <2>2, <2>3
         DEF JobTyped, JobFits, JobNames, Moving, Taking, Stay
  <2> QED
      BY <1>2, <2>1, <2>4, CourseGoesOn, Together
<1>4. CASE Intent = None
  <2>1. GoOn
      BY <1>4 DEF BeginRename
  <2> QED
      BY <1>1, <1>2, <2>1, GoesOn, Together
<1> QED
    BY <1>3, <1>4

(* Each way out of a step of a move. *)
LEMMA Kept ==
    ASSUME Typed, Protocol, queue # <<>>, Kind \in {"launch", "rename"},
           Keep, WatchKeeps
    PROVE  Course' /\ MainTyped' /\ IntentsMove' /\ job' = Resting
<1>1. Refuse /\ UNCHANGED main
    BY DEF Keep
<1> QED
    BY <1>1, Refused, MainStays DEF Typed, Protocol

LEMMA ClearedRefused ==
    ASSUME Typed, Protocol, queue # <<>>, Kind \in {"launch", "rename"},
           mem' = [mem EXCEPT !.pending = None], saved' \in {saved, mem'},
           Refuse, WatchKeeps
    PROVE  Course' /\ MainTyped' /\ IntentsMove' /\ job' = Resting
BY Refused, ClearedTyped DEF Typed, Protocol

LEMMA ClearedGoesOn ==
    ASSUME Typed, Protocol, queue # <<>>, Kind \in {"launch", "rename"},
           mem' = [mem EXCEPT !.pending = None], saved' \in {saved, mem'},
           GoOn, WatchKeeps
    PROVE  Course' /\ MainTyped' /\ IntentsMove'
BY GoesOn, ClearedTyped DEF Typed, Protocol

LEMMA RecoverFits ==
    ASSUME Typed, Protocol, Recover
    PROVE  Typed' /\ Protocol'
<1>1. /\ At("recover") /\ touched' = {}
      /\ UNCHANGED <<dir, watch, lost, bytes, binding>>
    BY DEF Recover, AsItWas
<1>2. /\ queue # <<>> /\ job.at = "recover" /\ job.at \in Taking
      /\ Kind \in {"launch", "rename"}
      /\ job \in Jobs /\ Intent.from \in Names /\ Intent.to \in Names
      /\ CountTyped /\ MainTyped /\ IntentsMove /\ blind \in BOOLEAN
      /\ dir \in [Names -> (1..Len(bytes)) \cup {None}]
      /\ (1..Len(bytes)) \cup {None} \subseteq Files \cup {None}
    BY <1>1, MoveStarts DEF Moving, Taking
<1>3. WatchKeeps
    BY <1>1, WatchStays
<1> DEFINE Gone == \/ ~Exists(Intent.from) /\ ~Exists(Intent.to)
                   \/ Exists(Intent.from) /\ Exists(Intent.to) /\ ~SameFile(Intent)
                   \/ Exists(Intent.from) /\ ~Holds(Intent.from, Intent.sha)
           at == CASE ~Exists(Intent.from) -> "finalize"
                   [] Exists(Intent.from) /\ Exists(Intent.to) -> "check"
                   [] OTHER -> "link"
<1>4. \/ Gone /\ Clear(GoOn) /\ UNCHANGED blind
      \/ /\ job' = [job EXCEPT !.file = dir[Intent.from], !.at = at]
         /\ Works /\ Stay /\ UNCHANGED main /\ UNCHANGED blind
      \/ Fails /\ Keep /\ UNCHANGED blind
      \/ /\ Fails /\ blind' = TRUE
         /\ mem' = [mem EXCEPT !.pending = None] /\ saved' = mem' /\ GoOn
    BY DEF Recover
<1>5. at \in Taking \ {"recover"}
    BY DEF Taking
<1> HIDE DEF Gone, at
<1>6. CASE Clear(GoOn) /\ UNCHANGED blind
  <2>1. /\ mem' = [mem EXCEPT !.pending = None]
        /\ \/ saved' = mem' /\ Works /\ GoOn
           \/ Fails /\ Refuse /\ UNCHANGED saved
      BY <1>6 DEF Clear
  <2>2. FolderTyped' /\ CountTyped'
      BY <1>1, <1>2, <1>6, <2>1, FolderStays, Tally
  <2>3. Course' /\ MainTyped' /\ IntentsMove'
      BY <1>2, <1>3, <2>1, ClearedGoesOn, ClearedRefused
  <2> QED
      BY <1>3, <2>2, <2>3, Together
<1>7. CASE /\ job' = [job EXCEPT !.file = dir[Intent.from], !.at = at]
           /\ Works /\ Stay /\ UNCHANGED main /\ UNCHANGED blind
  <2>1. FolderTyped' /\ CountTyped' /\ MainTyped' /\ IntentsMove'
      BY <1>1, <1>2, <1>7, FolderStays, Tally, MainStays
  <2>2. dir[Intent.from] \in Files \cup {None}
      BY <1>2
  <2>3. job' \in Jobs /\ job'.at = at /\ job'.retrying = job.retrying
      BY <1>2, <1>5, <1>7, <2>2 DEF Jobs, Moving
  <2>4. Course'
      BY <1>2, <1>3, <1>5, <1>7, <2>3, MoveGoesOn DEF main
  <2> QED
      BY <1>3, <2>1, <2>4, Together
<1>8. CASE Fails /\ Keep /\ UNCHANGED blind
    BY <1>1, <1>2, <1>3, <1>8, FolderStays, Tally, Kept, Together
<1>9. CASE /\ Fails /\ blind' = TRUE
           /\ mem' = [mem EXCEPT !.pending = None] /\ saved' = mem' /\ GoOn
    BY <1>1, <1>2, <1>3, <1>9, FolderStays, Tally, ClearedGoesOn, Together
<1> QED
    BY <1>4, <1>6, <1>7, <1>8, <1>9

LEMMA PrepareFits ==
    ASSUME Typed, Protocol, Prepare
    PROVE  Typed' /\ Protocol'
<1>0. /\ queue # <<>> /\ job.at = "prepare" /\ touched' = {}
      /\ UNCHANGED <<dir, watch, lost, bytes, binding, blind>>
    BY DEF Prepare, At, AsItWas, Calm
<1>1. /\ queue # <<>> /\ job.at = "prepare" /\ touched' = {} /\ job \in Jobs
      /\ Kind = "rename" /\ ~job.retrying
      /\ UNCHANGED <<dir, watch, lost, bytes, binding, blind>>
      /\ page \in Pages /\ blind \in BOOLEAN /\ CountTyped /\ MainTyped
      /\ IntentsMove /\ WatchKeeps
    BY <1>0, WatchStays DEF Typed, JobTyped, PageTyped, CountTyped, Protocol,
       JobFits
<1>2. page.phase = "renaming"
    BY <1>1, HeadAwaited DEF Typed, Protocol
<1>3. page.goal \in Names /\ page.goal # page.path /\ page.path \in Names
      /\ page.sha \in Bytes
    BY <1>1, <1>2 DEF Protocol, PageFits, Pages
<1> DEFINE p == [from |-> page.path, to |-> page.goal, sha |-> page.sha]
<1>4. p \in Intents /\ p # None /\ p.from # p.to
    BY <1>3, Constants DEF Intents
<1>5. \/ Keep /\ Works
      \/ /\ mem.active = page.path /\ mem' = [mem EXCEPT !.pending = p]
         /\ \/ /\ saved' = mem' /\ Works
               /\ job' = [job EXCEPT !.at = "link", !.file = dir[page.path]]
               /\ Stay
            \/ Fails /\ Refuse /\ UNCHANGED saved
    BY DEF Prepare
<1>6. CASE Keep /\ Works
    BY <1>1, <1>6, FolderStays, Tally, Kept, Together
<1>7. CASE /\ mem.active = page.path /\ mem' = [mem EXCEPT !.pending = p]
           /\ saved' = mem' /\ Works /\ Stay
           /\ job' = [job EXCEPT !.at = "link", !.file = dir[page.path]]
  <2>1. FolderTyped' /\ CountTyped'
      BY <1>1, <1>7, FolderStays, Tally
  <2>2. mem' \in Places /\ mem'.pending = p /\ mem'.active = page.path
      BY <1>1, <1>4, <1>7 DEF MainTyped, Places
  <2>3. MainTyped' /\ IntentsMove'
      BY <1>4, <1>7, <2>2 DEF MainTyped, IntentsMove
  <2>4. dir[page.path] \in Files \cup {None}
      BY <1>3, Parts
  <2>5. job' \in Jobs /\ job'.at = "link" /\ job'.retrying = job.retrying
      BY <1>1, <1>7, <2>4 DEF Jobs, Moving, Taking
  <2>6. Kind' = Kind /\ Intent' = p /\ page' = page /\ queue' = queue
      BY <1>7, <2>2 DEF Stay, Kind, Intent
  <2>7. JobTyped' /\ JobFits'
      BY <1>1, <1>4, <2>5, <2>6 DEF JobTyped, JobFits, Moving, Taking
  <2>8. JobNames'
      BY <2>2, <2>5, <2>6 DEF JobNames, Taking
  <2> QED
      BY <1>1, <1>7, <2>1, <2>3, <2>7, <2>8, CourseGoesOn, Together
<1>8. CASE /\ mem' = [mem EXCEPT !.pending = p]
           /\ Fails /\ Refuse /\ UNCHANGED saved
  <2>1. FolderTyped' /\ CountTyped'
      BY <1>1, <1>8, FolderStays, Tally
  <2>2. mem' \in Places /\ mem'.pending = p
      BY <1>1, <1>4, <1>8 DEF MainTyped, Places
  <2>3. MainTyped' /\ IntentsMove'
      BY <1>1, <1>4, <1>8, <2>2 DEF MainTyped, IntentsMove
  <2>4. Course'
      BY <1>1, <1>8, Refused
  <2> QED
      BY <1>1, <2>1, <2>3, <2>4, Together
<1> QED
    BY <1>5, <1>6, <1>7, <1>8

(* A step of a move that goes to the next label. *)
LEMMA MoveStep ==
    ASSUME Typed, Protocol, queue # <<>>, job.at \in Taking,
           NEW k \in Taking \ {"recover"}, Goto(k), Stay, UNCHANGED main, WatchKeeps
    PROVE  Course' /\ MainTyped' /\ IntentsMove'
<1>1. job' \in Jobs /\ job'.at = k /\ job'.retrying = job.retrying
    BY DEF Goto, Typed, JobTyped, Jobs, Moving
<1>2. UNCHANGED mem
    BY DEF main
<1> QED
    BY <1>1, <1>2, MoveGoesOn, MainStays DEF Typed, Protocol

LEMMA Abandoned ==
    ASSUME Typed, Protocol, queue # <<>>, Kind \in {"launch", "rename"},
           Abandon, WatchKeeps
    PROVE  /\ Course' /\ MainTyped' /\ IntentsMove' /\ job' = Resting
           /\ Works \/ Fails
           /\ mem' = IF job.retrying THEN mem ELSE [mem EXCEPT !.pending = None]
           /\ saved' = saved \/ (saved' = mem' /\ ~job.retrying)
           /\ ~job.retrying /\ Works => saved' = mem'
           /\ Refuse
<1>1. CASE job.retrying
  <2>1. Keep /\ Works
      BY <1>1 DEF Abandon
  <2> QED
      BY <1>1, <2>1, Kept DEF Keep, main
<1>2. CASE ~job.retrying
  <2>1. /\ mem' = [mem EXCEPT !.pending = None]
        /\ \/ saved' = mem' /\ Works /\ Refuse
           \/ Fails /\ Refuse /\ UNCHANGED saved
      BY <1>2 DEF Abandon, Clear
  <2>2. Course' /\ MainTyped' /\ IntentsMove' /\ job' = Resting
      BY <2>1, ClearedRefused
  <2>3. Works /\ Fails => FALSE
    <3>1. Works => count' = count
        BY DEF Works
    <3>2. Fails => count'.faults = count.faults + 1 /\ count.faults \in Nat
        BY DEF Fails, Counts, Typed, CountTyped
    <3> QED
        BY <3>1, <3>2
  <2> QED
      BY <1>2, <2>1, <2>2, <2>3
<1> QED
    BY <1>1, <1>2

LEMMA LinkTargetFits ==
    ASSUME Typed, Protocol, LinkTarget
    PROVE  Typed' /\ Protocol'
<1>0. At("link") /\ UNCHANGED <<bytes, binding, blind, touched>>
    BY DEF LinkTarget, Calm
<1>1. /\ queue # <<>> /\ job.at = "link" /\ job.at \in Taking
      /\ Kind \in {"launch", "rename"}
      /\ Intent.from \in Names /\ Intent.to \in Names
      /\ CountTyped /\ blind \in BOOLEAN /\ FolderTyped /\ MainTyped /\ IntentsMove
      /\ dir \in [Names -> (1..Len(bytes)) \cup {None}]
    BY <1>0, MoveStarts DEF Moving, Taking
<1>2. CASE /\ Link(Intent.to, dir[Intent.from])
           /\ Goto("check") /\ Works /\ Stay /\ UNCHANGED main
  <2>1. /\ dir' \in [Names -> (1..Len(bytes)) \cup {None}]
        /\ WatchKeeps /\ lost' = lost
      BY <1>1, <1>2, LinkTyped
  <2>2. FolderTyped' /\ CountTyped'
      BY <1>0, <1>1, <1>2, <2>1, FolderKept, Tally
         DEF Works, FolderTyped, CountTyped
  <2>3. Course' /\ MainTyped' /\ IntentsMove'
      BY <1>1, <1>2, <2>1, MoveStep DEF Taking
  <2> QED
      BY <2>1, <2>2, <2>3, Together
<1>3. CASE Abandon /\ AsItWas
  <2>1. UNCHANGED <<dir, lost>> /\ WatchKeeps
      BY <1>3, WatchStays DEF AsItWas
  <2>2. Course' /\ MainTyped' /\ IntentsMove' /\ (Works \/ Fails)
      BY <1>1, <1>3, <2>1, Abandoned
  <2> QED
      BY <1>0, <1>1, <2>1, <2>2, FolderStays, Tally, Together
<1>4. CASE /\ Fails /\ AsItWas
           /\ \/ Keep
              \/ mem' = [mem EXCEPT !.pending = None] /\ saved' = mem' /\ Refuse
  <2>1. UNCHANGED <<dir, lost>> /\ WatchKeeps
      BY <1>4, WatchStays DEF AsItWas
  <2>2. Course' /\ MainTyped' /\ IntentsMove'
      BY <1>1, <1>4, <2>1, Kept, ClearedRefused
  <2> QED
      BY <1>0, <1>1, <1>4, <2>1, <2>2, FolderStays, Tally, Together
<1> QED
    BY <1>2, <1>3, <1>4 DEF LinkTarget

(* A look at what a step has done. *)
LEMMA LookFits ==
    ASSUME Typed, Protocol, CheckTarget \/ Reread
    PROVE  Typed' /\ Protocol'
<1>0. /\ At("check") \/ At("reread")
      /\ AsItWas /\ UNCHANGED <<bytes, binding, blind, touched>> /\ Stay
      /\ UNCHANGED main /\ (Works \/ Fails)
      /\ \E k \in {"unlink", "rollback", "finalize", "relink"} : Goto(k)
    BY DEF CheckTarget, Reread, Calm, main
<1>1. /\ queue # <<>> /\ job.at \in Taking /\ Kind \in {"launch", "rename"}
      /\ CountTyped /\ blind \in BOOLEAN
    BY <1>0, MoveStarts DEF Moving, Taking
<1>2. UNCHANGED <<dir, lost>> /\ WatchKeeps
    BY <1>0, WatchStays DEF AsItWas
<1>3. Course' /\ MainTyped' /\ IntentsMove'
    BY <1>0, <1>1, <1>2, MoveStep DEF Taking
<1> QED
    BY <1>0, <1>1, <1>2, <1>3, FolderStays, Tally, Together

LEMMA UnlinkSourceFits ==
    ASSUME Typed, Protocol, UnlinkSource
    PROVE  Typed' /\ Protocol'
<1>0. At("unlink") /\ UNCHANGED <<bytes, binding, blind, touched>>
    BY DEF UnlinkSource, Calm
<1>1. /\ queue # <<>> /\ job.at \in Taking /\ Kind \in {"launch", "rename"}
      /\ Intent.from \in Names
      /\ CountTyped /\ blind \in BOOLEAN /\ FolderTyped
    BY <1>0, MoveStarts DEF Moving, Taking
<1>2. CASE /\ Exists(Intent.from) /\ Unlink(Intent.from)
           /\ Goto("reread") /\ Works /\ Stay /\ UNCHANGED main
  <2>1. /\ dir' \in [Names -> (1..Len(bytes)) \cup {None}]
        /\ WatchKeeps /\ lost' \subseteq Files
      BY <1>1, <1>2, UnlinkTyped
  <2>2. FolderTyped' /\ CountTyped'
      BY <1>0, <1>1, <1>2, <2>1, FolderKept, Tally
         DEF Works, FolderTyped, CountTyped
  <2>3. Course' /\ MainTyped' /\ IntentsMove'
      BY <1>1, <1>2, <2>1, MoveStep DEF Taking
  <2> QED
      BY <2>1, <2>2, <2>3, Together
<1>3. CASE Keep /\ (Works \/ Fails) /\ AsItWas
  <2>1. UNCHANGED <<dir, lost>> /\ WatchKeeps
      BY <1>3, WatchStays DEF AsItWas
  <2> QED
      BY <1>0, <1>1, <1>3, <2>1, Kept, FolderStays, Tally, Together
<1> QED
    BY <1>2, <1>3 DEF UnlinkSource

LEMMA RelinkFits ==
    ASSUME Typed, Protocol, Relink
    PROVE  Typed' /\ Protocol'
<1>0. At("relink") /\ UNCHANGED <<bytes, binding, blind, touched>>
    BY DEF Relink, Calm
<1>1. /\ queue # <<>> /\ job.at \in Taking /\ Kind \in {"launch", "rename"}
      /\ Intent.from \in Names /\ Intent.to \in Names
      /\ CountTyped /\ blind \in BOOLEAN /\ FolderTyped
      /\ dir \in [Names -> (1..Len(bytes)) \cup {None}]
    BY <1>0, MoveStarts DEF Moving, Taking
<1>2. CASE /\ Link(Intent.from, dir[Intent.to])
           /\ Goto("rollback") /\ Works /\ Stay /\ UNCHANGED main
  <2>1. /\ dir' \in [Names -> (1..Len(bytes)) \cup {None}]
        /\ WatchKeeps /\ lost' = lost
      BY <1>1, <1>2, LinkTyped
  <2>2. FolderTyped' /\ CountTyped'
      BY <1>0, <1>1, <1>2, <2>1, FolderKept, Tally
         DEF Works, FolderTyped, CountTyped
  <2>3. Course' /\ MainTyped' /\ IntentsMove'
      BY <1>1, <1>2, <2>1, MoveStep DEF Taking
  <2> QED
      BY <2>1, <2>2, <2>3, Together
<1>3. CASE Keep /\ (Works \/ Fails) /\ AsItWas
  <2>1. UNCHANGED <<dir, lost>> /\ WatchKeeps
      BY <1>3, WatchStays DEF AsItWas
  <2> QED
      BY <1>0, <1>1, <1>3, <2>1, Kept, FolderStays, Tally, Together
<1> QED
    BY <1>2, <1>3 DEF Relink

LEMMA RollbackFits ==
    ASSUME Typed, Protocol, Rollback
    PROVE  Typed' /\ Protocol'
<1>0. At("rollback") /\ UNCHANGED <<bytes, binding, blind, touched>>
    BY DEF Rollback, Calm
<1>1. /\ queue # <<>> /\ job.at \in Taking /\ Kind \in {"launch", "rename"}
      /\ Intent.to \in Names
      /\ CountTyped /\ blind \in BOOLEAN /\ FolderTyped
    BY <1>0, MoveStarts DEF Moving, Taking
<1>2. CASE Exists(Intent.to) /\ Unlink(Intent.to) /\ Abandon
  <2>1. /\ dir' \in [Names -> (1..Len(bytes)) \cup {None}]
        /\ WatchKeeps /\ lost' \subseteq Files
      BY <1>1, <1>2, UnlinkTyped
  <2>2. Course' /\ MainTyped' /\ IntentsMove' /\ (Works \/ Fails)
      BY <1>1, <1>2, <2>1, Abandoned
  <2>3. CountTyped' /\ count'.others = count.others /\ count'.saves = count.saves
      BY <1>0, <1>1, <2>2, Tally
  <2>4. FolderTyped'
      BY <1>0, <1>1, <2>1, <2>3, FolderKept DEF FolderTyped, CountTyped
  <2> QED
      BY <2>1, <2>2, <2>3, <2>4, Together
<1>3. CASE Keep /\ (Works \/ Fails) /\ AsItWas
  <2>1. UNCHANGED <<dir, lost>> /\ WatchKeeps
      BY <1>3, WatchStays DEF AsItWas
  <2> QED
      BY <1>0, <1>1, <1>3, <2>1, Kept, FolderStays, Tally, Together
<1> QED
    BY <1>2, <1>3 DEF Rollback

(* The end of a move, as memory has it. *)
LEMMA RenamedTyped ==
    ASSUME MainTyped, IntentsMove, Intent \in Intents, mem' = Renamed,
           saved' \in {saved, mem'}
    PROVE  /\ MainTyped' /\ IntentsMove' /\ mem'.pending = None
           /\ mem'.active = IF mem.active = Intent.from THEN Intent.to
                            ELSE mem.active
<1>1. mem' \in Places /\ mem'.pending = None
    BY DEF MainTyped, Renamed, Places, Intents
<1> QED
    BY <1>1 DEF MainTyped, IntentsMove, Renamed

LEMMA FinalizeFits ==
    ASSUME Typed, Protocol, Finalize
    PROVE  Typed' /\ Protocol'
<1>0. At("finalize") /\ UNCHANGED <<bytes, binding, blind, touched>> /\ AsItWas
    BY DEF Finalize, Calm
<1>1. /\ queue # <<>> /\ job.at \in Taking /\ Kind \in {"launch", "rename"}
      /\ Intent \in Intents /\ CountTyped /\ blind \in BOOLEAN
      /\ MainTyped /\ IntentsMove /\ job \in Jobs
    BY <1>0, MoveStarts DEF Moving, Taking
<1>2. UNCHANGED <<dir, lost>> /\ WatchKeeps
    BY <1>0, WatchStays DEF AsItWas
<1>3. \/ /\ mem' = Renamed /\ saved' = mem' /\ Works
         /\ job.retrying /\ GoOn
      \/ /\ mem' = Renamed /\ saved' = mem' /\ Works
         /\ ~job.retrying /\ Goto("rebind") /\ Stay
      \/ /\ mem' = Renamed /\ UNCHANGED saved /\ Fails
         /\ GoOn \/ Refuse
      \/ UNCHANGED main /\ (Works \/ Fails) /\ (GoOn \/ Refuse)
    BY DEF Finalize
<1>4. Works \/ Fails
    BY <1>3
<1>5. FolderTyped' /\ CountTyped'
    BY <1>0, <1>1, <1>2, <1>4, FolderStays, Tally
<1>6. MainTyped' /\ IntentsMove'
    BY <1>1, <1>3, RenamedTyped, MainStays
<1>7. CASE GoOn \/ Refuse
  <2>1. Course'
      BY <1>1, <1>2, <1>7, GoesOn, Refused
  <2> QED
      BY <1>2, <1>5, <1>6, <2>1, Together
<1>8. CASE mem' = Renamed /\ ~job.retrying /\ Goto("rebind") /\ Stay /\ saved' = mem'
  <2>1. /\ mem.active = page.path /\ Intent.from = page.path
        /\ Intent.to = page.goal
      BY <1>1, <1>8 DEF Protocol, JobNames
  <2>2. mem'.active = page.goal /\ mem'.pending = None
      BY <1>1, <1>8, <2>1, RenamedTyped
  <2>3. job' \in Jobs /\ job'.at = "rebind" /\ ~job'.retrying
      BY <1>1, <1>8 DEF Goto, Jobs, Moving
  <2>4. Kind' = Kind /\ Intent' = None /\ page' = page /\ queue' = queue
      BY <1>8, <2>2 DEF Stay, Kind, Intent
  <2>5. Kind = "rename"
      BY <1>1, <1>8 DEF Protocol, JobFits
  <2>6. JobTyped' /\ JobFits' /\ JobNames'
      BY <1>1, <2>2, <2>3, <2>4, <2>5 DEF JobTyped, JobFits, JobNames, Moving, Taking
  <2> QED
      BY <1>2, <1>5, <1>6, <1>8, <2>6, CourseGoesOn, Together
<1> QED
    BY <1>3, <1>7, <1>8

(* The bridge. *)
LEMMA LocatedNames ==
    ASSUME Typed
    PROVE  Located \subseteq Names /\ BoundNames \subseteq Names
BY Parts DEF Located, BoundNames

LEMMA RebindTyped ==
    ASSUME Typed, NEW n \in Names, Rebind(n)
    PROVE  /\ binding' \in [file : 1..Len(bytes), name : Names, sha : Bytes]
           /\ binding'.name = n /\ binding'.sha = binding.sha
           /\ binding'.file = IF Holds(n, binding.sha) THEN dir[n]
                              ELSE binding.file
<1>1. /\ dir \in [Names -> (1..Len(bytes)) \cup {None}]
      /\ binding \in [file : 1..Len(bytes), name : Names, sha : Bytes]
    BY DEF Typed, FolderTyped
<1> DEFINE f == IF Holds(n, binding.sha) THEN dir[n] ELSE binding.file
<1>2. f \in 1..Len(bytes)
    BY <1>1 DEF Holds, Exists
<1>3. binding' = [binding EXCEPT !.name = n, !.file = f]
    BY <1>1 DEF Rebind
<1> HIDE DEF f
<1>4. /\ binding' \in [file : 1..Len(bytes), name : Names, sha : Bytes]
      /\ binding'.name = n /\ binding'.sha = binding.sha /\ binding'.file = f
    BY <1>1, <1>2, <1>3
<1> QED
    BY <1>4 DEF f

LEMMA FolderBound ==
    ASSUME Typed, UNCHANGED folder, UNCHANGED marks,
           count'.others = count.others, count'.saves = count.saves,
           \/ UNCHANGED binding
           \/ binding' \in [file : 1..Len(bytes), name : Names, sha : Bytes]
    PROVE  FolderTyped'
<1>1. UNCHANGED <<dir, bytes, touched, lost>>
    BY DEF folder, marks
<1> QED
    BY <1>1 DEF Typed, FolderTyped

LEMMA RebindWorkspaceFits ==
    ASSUME Typed, Protocol, RebindWorkspace
    PROVE  Typed' /\ Protocol'
<1>1. /\ queue # <<>> /\ job.at = "rebind" /\ Watch(page.goal)
      /\ Succeed(page.goal, page.sha) /\ (Works \/ Fails)
      /\ UNCHANGED folder /\ UNCHANGED main /\ UNCHANGED marks /\ UNCHANGED blind
      /\ Rebind(page.goal) \/ UNCHANGED binding
    BY DEF RebindWorkspace, At
<1>2. Kind = "rename" /\ page.phase = "renaming" /\ page \in Pages
    BY <1>1, HeadAwaited DEF Protocol, JobFits, Moving, Typed, PageTyped
<1>3. page.goal \in Names /\ page.sha \in Bytes
    BY <1>2 DEF Protocol, PageFits, Pages
<1>4. WatchKeeps
    BY <1>1, <1>3, WatchesName
<1>5. Course'
    BY <1>1, <1>2, <1>3, <1>4, Succeeded
<1>6. CountTyped' /\ count'.others = count.others /\ count'.saves = count.saves
    BY <1>1, Tally DEF Typed, CountTyped
<1>7. FolderTyped'
    BY <1>1, <1>3, <1>6, RebindTyped, FolderBound
<1> QED
    BY <1>1, <1>4, <1>5, <1>6, <1>7, MainStays, Together DEF Typed, Protocol

(* A step of following. *)
LEMMA Follows1 ==
    ASSUME Typed, Protocol, Quietly, UNCHANGED main, WatchKeeps, Course',
           \/ Works \/ Fails,
           \/ UNCHANGED binding
           \/ binding' \in [file : 1..Len(bytes), name : Names, sha : Bytes]
    PROVE  Typed' /\ Protocol'
<1>1. UNCHANGED folder /\ UNCHANGED marks /\ UNCHANGED blind
    BY DEF Quietly
<1>2. CountTyped' /\ count'.others = count.others /\ count'.saves = count.saves
    BY <1>1, Tally DEF Typed, CountTyped
<1>3. FolderTyped'
    BY <1>1, <1>2, FolderBound
<1> QED
    BY <1>2, <1>3, MainStays, Together DEF Typed, Protocol

LEMMA EmitFits ==
    ASSUME Typed, Protocol, Emit
    PROVE  Typed' /\ Protocol'
<1> DEFINE x == [kind |-> "watch", path |-> watch.name, gen |-> watch.gen]
<1>1. /\ watch.due /\ \A i \in DOMAIN queue : queue[i].kind # "watch"
      /\ watch' = [watch EXCEPT !.due = FALSE] /\ queue' = Append(queue, x)
      /\ UNCHANGED binding /\ UNCHANGED main /\ UNCHANGED job /\ UNCHANGED page
      /\ Works /\ Quietly /\ mem' = mem /\ rough' = rough
    BY DEF Emit, Works, main
<1>2. /\ watch \in Watches
      /\ watch.name # None
    BY <1>1 DEF Typed, WatchTyped, Protocol, PageFits
<1>3. x \in Item /\ x.kind = "watch" /\ x.path \in Names
    BY <1>2 DEF Item, Kinds, Watches
<1>4. WatchKeeps
    BY <1>1, <1>2 DEF WatchKeeps, WatchTyped, Watches
<1> HIDE DEF x
<1>5. /\ QueueTyped' /\ QueueFits'
      /\ queue # <<>> => Kind' = Kind
      /\ queue' # <<>>
  <2>1. queue' # <<>>
      BY <1>1, <1>3, AppendOf DEF Typed, QueueTyped
  <2> QED
      BY <1>1, <1>3, <2>1, QueueCalls DEF Typed, Protocol
<1>6. JobTyped' /\ JobFits' /\ JobNames'
  <2>1. CASE queue = <<>>
    <3>1. job' = Resting
        BY <1>1, <2>1 DEF Protocol, JobFits
    <3> QED
        BY <3>1, RestFits
  <2>2. CASE queue # <<>>
    <3>1. Kind' = Kind /\ Intent' = Intent
        BY <1>1, <1>5, <2>2 DEF Intent
    <3> QED
        BY <1>1, <1>5, <2>2, <3>1 DEF Typed, Protocol, JobTyped, JobFits, JobNames
  <2> QED
      BY <2>1, <2>2
<1>7. PageTyped' /\ PageFits'
    BY <1>1, <1>4 DEF Typed, Protocol, PageTyped, PageFits, WatchKeeps
<1> QED
    BY <1>1, <1>4, <1>5, <1>6, <1>7, Follows1 DEF Course

(* The head sets out to ask the bridge, or to read. *)
LEMMA AskFits ==
    ASSUME Typed, Protocol, queue # <<>>, Stay, UNCHANGED main, WatchKeeps,
           UNCHANGED rough \/ rough',
           NEW n \in Names, NEW l \in {"ask", "read"},
           Kind \in {"watch", "locate", "active"},
           job' = [job EXCEPT !.at = l, !.prior = n],
           Kind # "locate" => n = mem.active,
           l = "read" => Kind = "active"
    PROVE  Course'
<1>1. job' \in Jobs /\ job'.at = l /\ job'.prior = n
    BY DEF Typed, JobTyped, Jobs
<1>2. Kind' = Kind /\ mem' = mem /\ queue' = queue
    BY DEF Stay, Kind, main
<1>3. JobTyped' /\ JobFits' /\ JobNames'
    BY <1>1, <1>2 DEF JobTyped, JobFits, JobNames, Moving, Taking
<1> QED
    BY <1>3, CourseGoesOn

LEMMA BeginFits ==
    ASSUME Typed, Protocol, BeginWatch \/ BeginLocate \/ BeginActive
    PROVE  Typed' /\ Protocol'
<1>1. /\ queue # <<>> /\ job.at = "start"
      /\ UNCHANGED binding /\ UNCHANGED main /\ UNCHANGED watch
      /\ Works /\ Quietly /\ UNCHANGED rough
    BY DEF BeginWatch, BeginLocate, BeginActive, Serves, At, Works
<1>2. WatchKeeps
    BY <1>1, WatchStays
<1>3. mem.active \in Names /\ page.path \in Names /\ page \in Pages
    BY DEF Typed, MainTyped, Places, PageTyped, Pages
<1>4. CASE /\ Kind = "watch" /\ Done
           /\ Hint(Head(queue).path, Head(queue).gen, FALSE)
  <2>1. Head(queue).path \in Names /\ Head(queue).gen \in Nat
      BY <1>1, <1>4, HeadAwaited DEF Typed, Protocol
  <2>2. /\ page' \in Pages /\ page'.phase = page.phase /\ page'.path = page.path
        /\ page'.goal = page.goal
      BY <1>3, <1>4, <2>1, HintKeeps
  <2>3. PageTyped' /\ PageFits'
      BY <1>2, <2>2 DEF Protocol, PageTyped, PageFits, WatchKeeps
  <2>4. Course'
      BY <1>1, <1>4, <2>2, <2>3, Answers DEF Typed, Protocol
  <2> QED
      BY <1>1, <1>2, <2>4, Follows1
<1>5. CASE /\ Kind = "watch" /\ job' = [job EXCEPT !.at = "ask", !.prior = mem.active]
           /\ Stay
    BY <1>1, <1>2, <1>3, <1>5, AskFits, Follows1
<1>6. CASE /\ Kind = "locate" /\ job' = [job EXCEPT !.at = "ask", !.prior = page.path]
           /\ Stay
    BY <1>1, <1>2, <1>3, <1>6, AskFits, Follows1
<1>7. CASE BeginActive
  <2> DEFINE l == IF Exists(mem.active) THEN "read" ELSE "ask"
  <2>1. /\ Kind = "active" /\ Stay
        /\ job' = [job EXCEPT !.at = l, !.prior = mem.active]
    <3>1. job' = [job EXCEPT !.prior = mem.active, !.at = l]
        BY <1>7 DEF BeginActive
    <3>2. [job EXCEPT !.prior = mem.active, !.at = l]
          = [job EXCEPT !.at = l, !.prior = mem.active]
        BY DEF Typed, JobTyped, Jobs
    <3> QED
        BY <1>7, <3>1, <3>2 DEF BeginActive, Serves
  <2>2. l \in {"ask", "read"}
      OBVIOUS
  <2> HIDE DEF l
  <2>3. Course'
      BY <1>1, <1>2, <1>3, <2>1, <2>2, AskFits
  <2> QED
      BY <1>1, <1>2, <2>3, Follows1
<1> QED
    BY <1>4, <1>5, <1>6, <1>7 DEF BeginWatch, BeginLocate, BeginActive, Serves

(* What a job that follows starts from. *)
LEMMA FollowStarts ==
    ASSUME Typed, Protocol, NEW l \in {"ask", "commit", "read"}, At(l)
    PROVE  /\ queue # <<>> /\ job.at = l /\ job \in Jobs /\ job.prior \in Names
           /\ Kind \in {"watch", "locate", "active"}
           /\ l = "read" => Kind = "active"
           /\ l = "commit" => job.next \in Names /\ job.sha \in Bytes
           /\ l \in {"ask", "commit"} /\ Kind # "locate" => job.prior = mem.active
BY DEF At, Typed, JobTyped, Protocol, JobFits, JobNames

LEMMA UnansweredFits ==
    ASSUME Typed, Protocol, NEW l \in {"ask", "commit"}, At(l),
           Unanswered, WatchKeeps, mem'.active = mem.active \/ rough'
    PROVE  /\ Course'
           /\ Kind = "active" => Stay /\ Goto("read")
           /\ Kind # "active" => Refuse
<1>1. /\ queue # <<>> /\ job.at = l /\ job \in Jobs /\ job.prior \in Names
      /\ Kind \in {"watch", "locate", "active"}
      /\ Kind # "locate" => job.prior = mem.active
    BY FollowStarts
<1>2. CASE Kind = "active"
  <2>1. job' \in Jobs /\ job'.at = "read" /\ job'.prior = job.prior /\ Stay
      BY <1>1, <1>2 DEF Unanswered, Goto, Jobs
  <2>2. Kind' = Kind /\ queue' = queue
      BY <2>1 DEF Stay, Kind
  <2>3. JobTyped' /\ JobFits' /\ JobNames'
      BY <1>1, <1>2, <2>1, <2>2 DEF JobTyped, JobFits, JobNames, Moving, Taking
  <2> QED
      BY <1>2, <2>1, <2>3, CourseGoesOn DEF Unanswered
<1>3. CASE Kind # "active"
    BY <1>1, <1>3, Refused DEF Unanswered
<1> QED
    BY <1>2, <1>3

LEMMA AskBridgeFits ==
    ASSUME Typed, Protocol, AskBridge
    PROVE  Typed' /\ Protocol'
<1>1. At("ask") /\ UNCHANGED main /\ UNCHANGED watch /\ Quietly /\ mem' = mem
    BY DEF AskBridge, main
<1>2. WatchKeeps
    BY <1>1, WatchStays
<1>3. /\ queue # <<>> /\ job.at = "ask" /\ job \in Jobs /\ job.prior \in Names
      /\ Kind \in {"watch", "locate", "active"}
      /\ Kind # "locate" => job.prior = mem.active
    BY <1>1, FollowStarts
<1>4. CASE Unanswered /\ (Works \/ Fails) /\ UNCHANGED binding
    BY <1>1, <1>2, <1>4, UnansweredFits, Follows1
<1>5. ASSUME NEW n \in Located, Rebind(n), Works, Stay,
             job' = [job EXCEPT !.at = "commit", !.next = n, !.sha = bytes[dir[n]]]
      PROVE  Typed' /\ Protocol'
  <2>1. n \in Names /\ Exists(n)
    <3>1. binding.file # None
        BY Parts, Constants
    <3>2. Exists(n)
        BY <1>5, <3>1 DEF Located, BoundNames, Exists
    <3> QED
        BY <1>5, <3>2, LocatedNames
  <2>2. bytes[dir[n]] \in Bytes
    <3>1. dir[n] \in 1..Len(bytes)
        BY <2>1, Parts DEF Exists
    <3> QED
        BY <3>1, Parts, ElementOfSeq
  <2>3. /\ job' \in Jobs /\ job'.at = "commit" /\ job'.next = n
        /\ job'.sha \in Bytes /\ job'.prior = job.prior
      BY <1>3, <1>5, <2>1, <2>2 DEF Jobs
  <2>4. Kind' = Kind /\ queue' = queue
      BY <1>5 DEF Stay, Kind
  <2>5. JobTyped' /\ JobFits' /\ JobNames'
      BY <1>1, <1>3, <2>1, <2>3, <2>4 DEF JobTyped, JobFits, JobNames, Moving, Taking
  <2>6. Course'
      BY <1>2, <1>5, <2>5, CourseGoesOn
  <2>7. binding' \in [file : 1..Len(bytes), name : Names, sha : Bytes]
      BY <1>5, <2>1, RebindTyped
  <2> QED
      BY <1>1, <1>2, <1>5, <2>6, <2>7, Follows1
<1> QED
    BY <1>4, <1>5 DEF AskBridge

LEMMA CommitFits ==
    ASSUME Typed, Protocol, Commit
    PROVE  Typed' /\ Protocol'
<1>1. At("commit") /\ UNCHANGED binding /\ Quietly
    BY DEF Commit
<1>2. /\ queue # <<>> /\ job.at = "commit" /\ job \in Jobs /\ job.prior \in Names
      /\ Kind \in {"watch", "locate", "active"}
      /\ Kind # "locate" => job.prior = mem.active
      /\ job.next \in Names /\ job.sha \in Bytes
    BY <1>1, FollowStarts
<1>3. UNCHANGED folder /\ UNCHANGED marks /\ UNCHANGED blind
    BY <1>1 DEF Quietly
<1>4. CASE Unanswered /\ Works /\ UNCHANGED main /\ UNCHANGED watch
  <2>1. WatchKeeps /\ mem' = mem
      BY <1>4, WatchStays DEF main
  <2> QED
      BY <1>1, <1>4, <2>1, UnansweredFits, Follows1
<1>5. ASSUME \/ /\ Follows(job.next)
                /\ mem' = [mem EXCEPT !.active = job.next] /\ Watch(job.next)
             \/ ~Follows(job.next) /\ UNCHANGED mem /\ UNCHANGED watch,
             \/ /\ saved' = mem' /\ Works
                /\ IF Kind = "active"
                   THEN /\ job' = [job EXCEPT !.at = "read", !.prior = job.next]
                        /\ Stay
                   ELSE Succeed(job.next, job.sha)
             \/ Fails /\ Unanswered /\ UNCHANGED saved
      PROVE  Typed' /\ Protocol'
  <2>1. WatchKeeps
      BY <1>2, <1>5, WatchesName, WatchStays
  <2>2. /\ mem' \in Places /\ mem'.pending = mem.pending
        /\ Follows(job.next) => mem'.active = job.next
      BY <1>2, <1>5 DEF Typed, MainTyped, Places
  <2>3. MainTyped' /\ IntentsMove'
      BY <1>5, <2>2 DEF Typed, MainTyped, Protocol, IntentsMove
  <2>4. CountTyped' /\ count'.others = count.others /\ count'.saves = count.saves
      BY <1>3, <1>5, Tally DEF Typed, CountTyped
  <2>5. FolderTyped'
      BY <1>1, <1>3, <2>4, FolderBound DEF Typed
  <2>6. CASE Fails /\ Unanswered
    <3>1. rough'
        BY <2>6 DEF Fails
    <3>2. Course'
        BY <1>1, <2>1, <2>6, <3>1, UnansweredFits
    <3> QED
        BY <2>1, <2>3, <2>4, <2>5, <3>2, Together
  <2>7. CASE /\ Kind = "active" /\ Stay
             /\ job' = [job EXCEPT !.at = "read", !.prior = job.next]
    <3>1. job' \in Jobs /\ job'.at = "read" /\ job'.prior = job.next
        BY <1>2, <2>7 DEF Jobs
    <3>2. Kind' = Kind /\ queue' = queue
        BY <2>7 DEF Stay, Kind
    <3>3. mem'.active = job.next
        BY <1>2, <2>2, <2>7 DEF Follows
    <3>4. JobTyped' /\ JobFits' /\ JobNames'
        BY <1>2, <2>7, <3>1, <3>2, <3>3 DEF JobTyped, JobFits, JobNames, Moving, Taking
    <3>5. Course'
        BY <2>1, <2>7, <3>4, CourseGoesOn
    <3> QED
        BY <2>1, <2>3, <2>4, <2>5, <3>5, Together
  <2>8. CASE Kind # "active" /\ Succeed(job.next, job.sha)
    <3>1. Course'
        BY <1>2, <2>1, <2>8, Succeeded
    <3> QED
        BY <2>1, <2>3, <2>4, <2>5, <3>1, Together
  <2> QED
      BY <1>5, <2>6, <2>7, <2>8
<1>6. \/ Unanswered /\ Works /\ UNCHANGED main /\ UNCHANGED watch
      \/ /\ \/ /\ Follows(job.next)
               /\ mem' = [mem EXCEPT !.active = job.next] /\ Watch(job.next)
            \/ ~Follows(job.next) /\ UNCHANGED mem /\ UNCHANGED watch
         /\ \/ /\ saved' = mem' /\ Works
               /\ IF Kind = "active"
                  THEN /\ job' = [job EXCEPT !.at = "read", !.prior = job.next]
                       /\ Stay
                  ELSE Succeed(job.next, job.sha)
            \/ Fails /\ Unanswered /\ UNCHANGED saved
    BY DEF Commit
<1> QED
    BY <1>4, <1>5, <1>6

LEMMA ReadActiveFits ==
    ASSUME Typed, Protocol, ReadActive
    PROVE  Typed' /\ Protocol'
<1>1. At("read") /\ UNCHANGED main /\ Quietly
    BY DEF ReadActive
<1>2. queue # <<>> /\ job.prior \in Names /\ Kind = "active"
    BY <1>1, FollowStarts
<1>3. CASE /\ Exists(job.prior) /\ Rebind(job.prior) /\ Watch(job.prior)
           /\ Succeed(job.prior, bytes[dir[job.prior]]) /\ Works
  <2>1. bytes[dir[job.prior]] \in Bytes
    <3>1. dir[job.prior] \in 1..Len(bytes)
        BY <1>2, <1>3, Parts DEF Exists
    <3> QED
        BY <3>1, Parts, ElementOfSeq
  <2>2. WatchKeeps /\ watch'.name = job.prior
      BY <1>2, <1>3, WatchesName
  <2>3. Course'
      BY <1>2, <1>3, <2>1, <2>2, Succeeded, Constants
  <2>4. binding' \in [file : 1..Len(bytes), name : Names, sha : Bytes]
      BY <1>2, <1>3, RebindTyped
  <2> QED
      BY <1>1, <1>3, <2>2, <2>3, <2>4, Follows1
<1>4. CASE Refuse /\ (Works \/ Fails) /\ UNCHANGED binding /\ UNCHANGED watch
  <2>1. WatchKeeps
      BY <1>4, WatchStays
  <2>2. Course'
      BY <1>2, <1>4, <2>1, Refused
  <2> QED
      BY <1>1, <1>4, <2>1, <2>2, Follows1
<1> QED
    BY <1>3, <1>4 DEF ReadActive

(* The page asks. *)
LEMMA PageAsks ==
    ASSUME Typed, Protocol, page.phase \in {"idle", "settling"},
           NEW k \in {"locate", "rename"}, queue' = Append(queue, Ask(k)),
           Awaits(page'.phase, k), page'.phase # "opening", Aside
    PROVE  /\ QueueTyped' /\ QueueFits' /\ queue' # <<>>
           /\ JobTyped' /\ JobFits' /\ JobNames'
           /\ queue # <<>> => Kind' = Kind
           /\ \A i \in DOMAIN queue' : queue'[i].kind # "launch"
           /\ Calls => Calls'
<1>0. QueueTyped /\ QueueFits /\ queue \in Seq(Item)
      /\ UNCHANGED job /\ UNCHANGED mem /\ UNCHANGED rough /\ UNCHANGED watch
    BY DEF Typed, QueueTyped, Protocol, Aside, main
<1>1. /\ \A i \in DOMAIN queue : queue[i].kind = "watch" /\ queue[i].path \in Names
      /\ \A i, j \in DOMAIN queue : i = j
    BY <1>0, QueueIdle
<1>2. /\ QueueTyped' /\ QueueFits' /\ queue' # <<>>
      /\ \A i \in DOMAIN queue' : queue'[i].kind # "launch"
      /\ (\E i \in DOMAIN queue : queue[i].kind = "watch")
         => \E i \in DOMAIN queue' : queue'[i].kind = "watch"
      /\ queue # <<>> => Head(queue') = Head(queue)
    BY <1>0, <1>1, QueueAsks
<1>3. queue # <<>> => Kind' = Kind
    BY <1>2 DEF Kind
<1>4. JobTyped' /\ JobFits' /\ JobNames'
  <2>1. CASE queue = <<>>
    <3>1. job' = Resting
        BY <1>0, <2>1 DEF Protocol, JobFits
    <3> QED
        BY <3>1, RestFits
  <2>2. CASE queue # <<>>
    <3>1. Kind' = Kind /\ Intent' = Intent
        BY <1>0, <1>3, <2>2 DEF Intent
    <3>2. job.at \notin Taking /\ job.at # "rebind"
        BY <2>2, HeadAwaited DEF Typed, Protocol, JobFits, Moving
    <3> QED
        BY <1>0, <1>2, <2>2, <3>1, <3>2
           DEF Typed, Protocol, JobTyped, JobFits, JobNames, Taking, Moving
  <2> QED
      BY <2>1, <2>2
<1>5. Calls => Calls'
    BY <1>2 DEF Calls
<1> QED
    BY <1>2, <1>3, <1>4, <1>5

(* A step of the page leaves the others alone. *)
LEMMA PageTogether ==
    ASSUME Typed, Protocol, Aside, CountTyped', Course',
           count'.others = count.others, count'.saves = count.saves
    PROVE  Typed' /\ Protocol'
<1>1. /\ UNCHANGED folder /\ UNCHANGED marks /\ UNCHANGED binding
      /\ UNCHANGED main /\ UNCHANGED watch
    BY DEF Aside
<1>2. WatchKeeps
    BY <1>1, WatchStays
<1>3. FolderTyped'
    BY <1>1, FolderBound
<1> QED
    BY <1>1, <1>2, <1>3, MainStays, Together DEF Typed, Protocol

LEMMA RenameFits ==
    ASSUME Typed, Protocol, NEW n \in Names, Rename(n)
    PROVE  Typed' /\ Protocol'
<1>1. /\ page.phase = "idle" /\ n # page.path
      /\ count.renames < MaxRenames /\ Counts("renames")
      /\ page' = [page EXCEPT !.phase = "locating", !.goal = n]
      /\ queue' = Append(queue, Ask("locate")) /\ Aside
    BY DEF Rename
<1>2. page' \in Pages /\ page'.phase = "locating" /\ page'.goal = n
    BY <1>1 DEF Typed, PageTyped, Pages
<1>3. Awaits(page'.phase, "locate")
    BY <1>2 DEF Awaits
<1>4. /\ QueueTyped' /\ QueueFits' /\ JobTyped' /\ JobFits' /\ JobNames'
    BY <1>1, <1>2, <1>3, PageAsks
<1>5. UNCHANGED watch /\ UNCHANGED rough /\ UNCHANGED blind
    BY <1>1 DEF Aside
<1>6. PageTyped' /\ PageFits'
    BY <1>1, <1>2, <1>5 DEF PageTyped, PageFits, Protocol
<1>7. CountTyped' /\ count'.others = count.others /\ count'.saves = count.saves
  <2>1. /\ CountTyped /\ MaxRenames \in Nat
        /\ count' = [count EXCEPT !.renames = @ + 1]
      BY <1>1, Constants DEF Typed, Counts
  <2>2. count.renames + 1 \in 0..MaxRenames
      BY <1>1, <2>1 DEF CountTyped
  <2> QED
      BY <1>5, <2>1, <2>2 DEF CountTyped
<1> QED
    BY <1>1, <1>4, <1>6, <1>7, PageTogether DEF Course

LEMMA TakeHintFits ==
    ASSUME Typed, Protocol, TakeHint
    PROVE  Typed' /\ Protocol'
<1>1. /\ page.phase = "idle" /\ Aside /\ UNCHANGED count
      /\ \/ page' = [page EXCEPT !.hint = None] /\ UNCHANGED queue
         \/ /\ page' = [page EXCEPT !.hint = None, !.phase = "locating"]
            /\ queue' = Append(queue, Ask("locate"))
         \/ /\ page' = [page EXCEPT !.hint = None, !.phase = "settling"]
            /\ UNCHANGED queue
    BY DEF TakeHint
<1>2. /\ UNCHANGED watch /\ UNCHANGED rough /\ UNCHANGED blind
      /\ UNCHANGED job /\ UNCHANGED mem
    BY <1>1 DEF Aside, main
<1>3. CountTyped'
    BY <1>1, <1>2 DEF Typed, CountTyped
<1>4. /\ page' \in Pages
      /\ \/ page'.phase \in {"idle", "settling"} /\ UNCHANGED queue
         \/ /\ page'.phase = "locating"
            /\ queue' = Append(queue, Ask("locate"))
      /\ page'.goal = page.goal /\ page'.path = page.path
    BY <1>1 DEF Typed, PageTyped, Pages
<1>5. PageTyped' /\ PageFits'
    BY <1>1, <1>2, <1>4 DEF PageTyped, PageFits, Protocol
<1>6. /\ QueueTyped' /\ QueueFits' /\ JobTyped' /\ JobFits' /\ JobNames'
  <2>1. CASE page'.phase = "locating" /\ queue' = Append(queue, Ask("locate"))
    <3>1. Awaits(page'.phase, "locate")
        BY <2>1 DEF Awaits
    <3> QED
        BY <1>1, <2>1, <3>1, PageAsks
  <2>2. CASE page'.phase \in {"idle", "settling"} /\ UNCHANGED queue
    <3>1. QueueTyped' /\ QueueFits' /\ Kind' = Kind
        BY <1>1, <2>2, QueueStays DEF Typed, Protocol
    <3>2. JobTyped' /\ JobFits'
        BY <1>2, <2>2, <3>1 DEF Typed, Protocol, JobTyped, JobFits, Intent
    <3>3. JobNames'
        BY <1>2, <1>4, <2>2, <3>1 DEF Protocol, JobNames, Intent
    <3> QED
        BY <3>1, <3>2, <3>3
  <2> QED
      BY <1>4, <2>1, <2>2
<1> QED
    BY <1>1, <1>3, <1>5, <1>6, PageTogether DEF Course

LEMMA SettleFits ==
    ASSUME Typed, Protocol, Settle
    PROVE  Typed' /\ Protocol'
<1> DEFINE c == Exists(page.path) /\ ~Holds(page.path, page.sha)
           d == page.conflict \/ c
<1>1. /\ page.phase = "settling" /\ Aside /\ UNCHANGED count
      /\ \/ /\ page' = [Settled(page.path) EXCEPT !.conflict = @ \/ c]
            /\ UNCHANGED queue
         \/ /\ page.goal \notin {None, page.path}
            /\ page' = [page EXCEPT !.phase = "renaming"]
            /\ queue' = Append(queue, Ask("rename"))
    BY DEF Settle
<1>2. /\ UNCHANGED watch /\ UNCHANGED rough /\ UNCHANGED blind
      /\ UNCHANGED job /\ UNCHANGED mem
    BY <1>1 DEF Aside, main
<1>3. CountTyped' /\ page \in Pages
    BY <1>1, <1>2 DEF Typed, CountTyped, PageTyped
<1>0. d \in BOOLEAN
    OBVIOUS
<1>4. CASE /\ page' = [Settled(page.path) EXCEPT !.conflict = @ \/ c]
           /\ UNCHANGED queue
  <2>1. page' = [Settled(page.path) EXCEPT !.conflict = d]
      BY <1>3, <1>4 DEF Settled, Pages
  <2> HIDE DEF c, d
  <2>2. /\ page' \in Pages /\ page'.phase = "idle" /\ page'.goal = None
        /\ page'.path = page.path
      BY <1>0, <1>3, <2>1 DEF Settled, Pages
  <2>3. PageTyped' /\ PageFits'
      BY <1>1, <1>2, <2>2 DEF PageTyped, PageFits, Protocol
  <2>4. QueueTyped' /\ QueueFits' /\ Kind' = Kind
      BY <1>1, <1>4, <2>2, QueueStays DEF Typed, Protocol
  <2>5. JobTyped' /\ JobFits'
      BY <1>2, <1>4, <2>4 DEF Typed, Protocol, JobTyped, JobFits, Intent
  <2>6. queue # <<>> => job.at \notin Moving
      BY <1>1, HeadAwaited DEF Typed, Protocol, JobFits
  <2>7. job.at \notin Moving
    <3>1. queue = <<>> => job.at = "start"
        BY DEF Protocol, JobFits, Resting
    <3> QED
        BY <2>6, <3>1 DEF Moving, Taking
  <2>8. JobNames'
      BY <1>2, <1>4, <2>4, <2>7 DEF Protocol, JobNames, Moving, Intent
  <2> QED
      BY <1>1, <1>3, <2>3, <2>4, <2>5, <2>8, PageTogether DEF Course
<1>5. CASE /\ page.goal \notin {None, page.path}
           /\ page' = [page EXCEPT !.phase = "renaming"]
           /\ queue' = Append(queue, Ask("rename"))
  <2>1. /\ page' \in Pages /\ page'.phase = "renaming" /\ page'.goal = page.goal
        /\ page'.path = page.path /\ page.goal \in Names
      BY <1>3, <1>5 DEF Pages
  <2>2. PageTyped' /\ PageFits'
      BY <1>1, <1>2, <1>5, <2>1 DEF PageTyped, PageFits, Protocol
  <2>3. Awaits(page'.phase, "rename")
      BY <2>1 DEF Awaits
  <2>4. /\ QueueTyped' /\ QueueFits' /\ JobTyped' /\ JobFits' /\ JobNames'
      BY <1>1, <1>5, <2>1, <2>3, PageAsks
  <2> QED
      BY <1>1, <1>3, <2>2, <2>4, PageTogether DEF Course
<1> QED
    BY <1>1, <1>4, <1>5

(* The page, the queue and the job stay where they are. *)
LEMMA CourseStays ==
    ASSUME Typed, Protocol, UNCHANGED <<queue, job, mem, rough>>, WatchKeeps,
           page' \in Pages, page'.phase = page.phase, page'.goal = page.goal,
           \/ page'.path = page.path
           \/ page.phase \in {"idle", "settling", "closed"} /\ page'.goal = None
    PROVE  Course'
<1>1. QueueTyped' /\ QueueFits' /\ Kind' = Kind
    BY QueueStays DEF Typed, Protocol
<1>2. PageTyped' /\ PageFits'
    BY DEF PageTyped, PageFits, Protocol, WatchKeeps
<1>3. JobTyped' /\ JobFits'
    BY <1>1 DEF Typed, Protocol, JobTyped, JobFits, Intent
<1>4. JobNames'
  <2>1. CASE page'.path = page.path
      BY <1>1, <2>1 DEF Protocol, JobNames, Intent
  <2>2. CASE page.phase \in {"idle", "settling", "closed"}
    <3>1. queue # <<>> => job.at \notin Moving
        BY <2>2, HeadAwaited DEF Typed, Protocol, JobFits
    <3>2. queue = <<>> => job.at = "start"
        BY DEF Protocol, JobFits, Resting
    <3>3. job.at \notin Moving
        BY <3>1, <3>2 DEF Moving, Taking
    <3> QED
        BY <1>1, <3>3 DEF Protocol, JobNames, Moving, Intent
  <2> QED
      BY <2>1, <2>2
<1> QED
    BY <1>1, <1>2, <1>3, <1>4 DEF Course

LEMMA ProbeFits ==
    ASSUME Typed, Protocol, Probe
    PROVE  Typed' /\ Protocol'
<1>1. /\ watch.name # None
      /\ watch' = [watch EXCEPT !.missing = ~@, !.due = TRUE, !.unseen = FALSE]
      /\ UNCHANGED <<binding, dir, bytes, queue, job, page, rough, count>>
      /\ UNCHANGED <<mem, saved, touched, lost, blind>>
    BY DEF Probe, Quietly, main, folder, marks
<1>2. WatchKeeps /\ page' \in Pages
    BY <1>1 DEF WatchKeeps, WatchTyped, Watches, Typed, PageTyped
<1>3. Course'
    BY <1>1, <1>2, CourseStays
<1>4. FolderTyped' /\ CountTyped' /\ MainTyped' /\ IntentsMove'
    BY <1>1 DEF Typed, FolderTyped, CountTyped, MainTyped, Protocol, IntentsMove
<1> QED
    BY <1>2, <1>3, <1>4 DEF Typed, Protocol, Course, WatchKeeps

LEMMA SaveFits ==
    ASSUME Typed, Protocol, NEW sha \in Bytes, Save(sha)
    PROVE  Typed' /\ Protocol'
<1>1. PICK n \in Located :
          /\ bytes' = Append(bytes, sha)
          /\ dir' = [dir EXCEPT ![n] = Len(bytes')]
          /\ binding' = [file |-> Len(bytes'), name |-> n, sha |-> sha]
          /\ page' = [page EXCEPT !.path = n, !.sha = sha]
    BY DEF Save
<1>2. /\ page.phase = "idle" /\ count.saves < MaxSaves /\ Counts("saves")
      /\ FolderChanges
      /\ UNCHANGED <<mem, saved, queue, job, touched, lost, rough, blind>>
    BY DEF Save, main, marks
<1>3. n \in Names
    BY LocatedNames
<1>4. /\ bytes' \in Seq(Bytes) /\ Len(bytes') = Len(bytes) + 1
      /\ Len(bytes) \in Nat /\ Len(bytes) <= 1 + count.others + count.saves
      /\ dir \in [Names -> (1..Len(bytes)) \cup {None}]
      /\ count.others \in Nat /\ count.saves \in Nat
    BY <1>1, Parts, AppendProperties
<1>5. CountTyped' /\ count'.others = count.others /\ count'.saves = count.saves + 1
  <2>1. /\ CountTyped /\ MaxSaves \in Nat /\ count' = [count EXCEPT !.saves = @ + 1]
      BY <1>2, Constants DEF Typed, Counts
  <2>2. count.saves + 1 \in 0..MaxSaves
      BY <1>2, <2>1 DEF CountTyped
  <2> QED
      BY <1>2, <2>1, <2>2 DEF CountTyped
<1>6. FolderTyped'
  <2>1. Len(bytes') <= 1 + count'.others + count'.saves
      BY <1>4, <1>5
  <2>2. /\ Len(bytes') \in 1..Len(bytes') /\ 1..Len(bytes) \subseteq 1..Len(bytes')
      BY <1>4
  <2>3. dir' \in [Names -> (1..Len(bytes')) \cup {None}]
      BY <1>1, <1>3, <1>4, <2>2
  <2>4. binding' \in [file : 1..Len(bytes'), name : Names, sha : Bytes]
      BY <1>1, <1>3, <2>2
  <2> QED
      BY <1>2, <1>4, <2>1, <2>3, <2>4 DEF Typed, FolderTyped
<1>7. WatchKeeps
    BY <1>2, FolderNoticed DEF Typed, Protocol
<1>8. /\ page' \in Pages /\ page'.phase = page.phase /\ page'.goal = page.goal
      /\ page'.goal = None
    BY <1>1, <1>2, <1>3 DEF Typed, PageTyped, Pages, Protocol, PageFits
<1>9. Course'
    BY <1>2, <1>7, <1>8, CourseStays
<1> QED
    BY <1>2, <1>5, <1>6, <1>7, <1>9, MainStays, Together DEF main, Typed, Protocol

(* What another program does to the folder. *)
LEMMA ChangesFit ==
    ASSUME Typed, Protocol, NEW T \in SUBSET (Names \cup Files \cup {None}), Changes(T),
           bytes' \in Seq(Bytes), Len(bytes') \in {Len(bytes), Len(bytes) + 1},
           dir' \in [Names -> (1..Len(bytes')) \cup {None}]
    PROVE  Typed' /\ Protocol'
<1>1. /\ count.others < MaxExternal /\ Counts("others")
      /\ touched' = touched \cup T
      /\ FolderChanges
      /\ UNCHANGED <<binding, mem, saved, queue, job, page, lost, rough, blind>>
    BY DEF Changes, main
<1>2. /\ Len(bytes) \in Nat /\ Len(bytes) <= 1 + count.others + count.saves
      /\ count.others \in Nat /\ count.saves \in Nat
    BY Parts
<1>3. CountTyped' /\ count'.others = count.others + 1 /\ count'.saves = count.saves
  <2>1. /\ CountTyped /\ MaxExternal \in Nat
        /\ count' = [count EXCEPT !.others = @ + 1]
      BY <1>1, Constants DEF Typed, Counts
  <2>2. count.others + 1 \in 0..MaxExternal
      BY <1>1, <2>1 DEF CountTyped
  <2> QED
      BY <1>1, <2>1, <2>2 DEF CountTyped
<1>4. FolderTyped'
  <2>1. /\ Len(bytes') <= 1 + count'.others + count'.saves
        /\ 1..Len(bytes) \subseteq 1..Len(bytes')
      BY <1>2, <1>3
  <2>2. binding' \in [file : 1..Len(bytes'), name : Names, sha : Bytes]
      BY <1>1, <2>1 DEF Typed, FolderTyped
  <2> QED
      BY <1>1, <2>1, <2>2 DEF Typed, FolderTyped
<1>5. WatchKeeps
    BY <1>1, FolderNoticed DEF Typed, Protocol
<1>6. Course'
  <2>1. page' \in Pages
      BY <1>1 DEF Typed, PageTyped
  <2> QED
      BY <1>1, <1>5, <2>1, CourseStays
<1> QED
    BY <1>1, <1>3, <1>4, <1>5, <1>6, MainStays, Together DEF main, Typed, Protocol

LEMMA OthersFit ==
    ASSUME Typed, Protocol, Others
    PROVE  Typed' /\ Protocol'
<1>1. /\ bytes \in Seq(Bytes) /\ Len(bytes) \in Nat
      /\ dir \in [Names -> (1..Len(bytes)) \cup {None}]
      /\ 1..Len(bytes) \subseteq Files
    BY Parts
<1>2. \A n \in Names : dir[n] \in Files \cup {None}
    BY <1>1
<1>3. ASSUME NEW n \in Names, NEW m \in Names, MoveAway(n, m)
      PROVE  Typed' /\ Protocol'
  <2>1. /\ dir' = [dir EXCEPT ![m] = dir[n], ![n] = None]
        /\ Changes({n, m}) /\ bytes' = bytes
      BY <1>3 DEF MoveAway
  <2>2. dir' \in [Names -> (1..Len(bytes')) \cup {None}]
      BY <1>1, <2>1
  <2>3. {n, m} \in SUBSET (Names \cup Files \cup {None})
      OBVIOUS
  <2> QED
      BY <1>1, <2>1, <2>2, <2>3, ChangesFit
<1>4. ASSUME NEW n \in Names, NEW sha \in Bytes, PutAnother(n, sha)
      PROVE  Typed' /\ Protocol'
  <2>1. /\ bytes' = Append(bytes, sha) /\ dir' = [dir EXCEPT ![n] = Len(bytes')]
        /\ Changes({n, dir[n]})
      BY <1>4 DEF PutAnother
  <2>2. bytes' \in Seq(Bytes) /\ Len(bytes') = Len(bytes) + 1
      BY <1>1, <2>1, AppendProperties
  <2>3. dir' \in [Names -> (1..Len(bytes')) \cup {None}]
      BY <1>1, <2>1, <2>2
  <2>4. {n, dir[n]} \in SUBSET (Names \cup Files \cup {None})
      BY <1>2
  <2> QED
      BY <2>1, <2>2, <2>3, <2>4, ChangesFit
<1>5. ASSUME NEW n \in Names, NEW sha \in Bytes, WriteInPlace(n, sha)
      PROVE  Typed' /\ Protocol'
  <2>1. /\ Exists(n) /\ bytes' = [bytes EXCEPT ![dir[n]] = sha]
        /\ Changes({n}) /\ dir' = dir
      BY <1>5 DEF WriteInPlace
  <2>2. dir[n] \in 1..Len(bytes)
      BY <1>1, <2>1 DEF Exists
  <2>3. bytes' \in Seq(Bytes) /\ Len(bytes') = Len(bytes)
      BY <1>1, <2>1, <2>2, ExceptSeq
  <2>4. {n} \in SUBSET (Names \cup Files \cup {None})
      OBVIOUS
  <2>5. dir' \in [Names -> (1..Len(bytes')) \cup {None}]
      BY <1>1, <2>1, <2>3
  <2> QED
      BY <2>1, <2>3, <2>4, <2>5, ChangesFit
<1>6. ASSUME NEW n \in Names, Delete(n)
      PROVE  Typed' /\ Protocol'
  <2>1. dir' = [dir EXCEPT ![n] = None] /\ Changes({n, dir[n]}) /\ bytes' = bytes
      BY <1>6 DEF Delete
  <2>2. dir' \in [Names -> (1..Len(bytes')) \cup {None}]
      BY <1>1, <2>1
  <2>3. {n, dir[n]} \in SUBSET (Names \cup Files \cup {None})
      BY <1>2
  <2> QED
      BY <1>1, <2>1, <2>2, <2>3, ChangesFit
<1>7. ASSUME NEW n \in Names, BringBack(n)
      PROVE  Typed' /\ Protocol'
  <2>1. /\ dir' = [dir EXCEPT ![n] = binding.file]
        /\ Changes({n, binding.file}) /\ bytes' = bytes
      BY <1>7 DEF BringBack
  <2>2. binding.file \in 1..Len(bytes) /\ 1..Len(bytes) \subseteq Files
      BY Parts
  <2>3. dir' \in [Names -> (1..Len(bytes')) \cup {None}]
      BY <1>1, <2>1, <2>2
  <2>4. {n, binding.file} \in SUBSET (Names \cup Files \cup {None})
      BY <2>2
  <2> QED
      BY <1>1, <2>1, <2>3, <2>4, ChangesFit
<1> QED
    BY <1>3, <1>4, <1>5, <1>6, <1>7 DEF Others

LEMMA LaunchQueue ==
    LET q == <<Ask("launch"), Ask("active")>> IN
    /\ q \in Seq(Item) /\ q # <<>> /\ Len(q) = 2 /\ DOMAIN q = {1, 2}
    /\ Head(q) = q[1] /\ q[1].kind = "launch" /\ q[2].kind = "active"
<1>1. Ask("launch") \in Item /\ Ask("active") \in Item
    BY AskIs DEF Kinds
<1> QED
    BY <1>1 DEF Ask

LEMMA CrashFits ==
    ASSUME Typed, Protocol, Crash
    PROVE  Typed' /\ Protocol'
<1>1. /\ count.crashes < MaxCrashes /\ Counts("crashes")
      /\ mem' = saved
      /\ queue' = <<Ask("launch"), Ask("active")>> /\ job' = Resting
      /\ watch' = Watcher(None, 0)
      /\ page' = [Opened(saved.active, page.sha) EXCEPT !.phase = "opening"]
      /\ touched' = {} /\ rough' = FALSE
      /\ UNCHANGED <<dir, bytes, binding, saved, lost, blind>>
    BY DEF Crash, folder
<1>2. /\ queue' \in Seq(Item) /\ queue' # <<>> /\ Len(queue') = 2
      /\ DOMAIN queue' = {1, 2} /\ Head(queue') = queue'[1]
      /\ queue'[1].kind = "launch" /\ queue'[2].kind = "active"
    BY <1>1, LaunchQueue
<1>3. /\ page' \in Pages /\ page'.phase = "opening" /\ page'.goal = None
    BY <1>1 DEF Opened, Pages, Typed, PageTyped, MainTyped, Places
<1>4. QueueTyped' /\ QueueFits'
  <2>1. Kind' = "launch"
      BY <1>2 DEF Kind
  <2> QED
      BY <1>2, <1>3, <2>1 DEF QueueTyped, QueueFits, Awaits
<1>6. WatchTyped' /\ watch'.name = None /\ ~watch'.due
    BY <1>1 DEF WatchTyped, Watches, Watcher
<1>7. PageTyped' /\ PageFits'
    BY <1>3, <1>6 DEF PageTyped, PageFits
<1>8. CountTyped' /\ count'.others = count.others /\ count'.saves = count.saves
  <2>1. /\ CountTyped /\ MaxCrashes \in Nat
        /\ count' = [count EXCEPT !.crashes = @ + 1]
      BY <1>1, Constants DEF Typed, Counts
  <2>2. count.crashes + 1 \in 0..MaxCrashes
      BY <1>1, <2>1 DEF CountTyped
  <2> QED
      BY <1>1, <2>1, <2>2 DEF CountTyped
<1>9. FolderTyped'
    BY <1>1, <1>8 DEF Typed, FolderTyped
<1>10. MainTyped' /\ IntentsMove'
    BY <1>1 DEF Typed, MainTyped, Protocol, IntentsMove
<1> QED
    BY <1>1, <1>4, <1>6, <1>7, <1>8, <1>9, <1>10, RestFits DEF Typed, Protocol

LEMMA InitFits == Init => Typed /\ Protocol
<1> SUFFICES ASSUME Init PROVE Typed /\ Protocol
    OBVIOUS
<1>1. PICK sha \in Bytes :
          /\ bytes = <<sha>>
          /\ binding = [file |-> 1, name |-> First, sha |-> sha]
          /\ page = Opened(First, sha)
    BY DEF Init
<1>2. /\ bytes \in Seq(Bytes) /\ Len(bytes) = 1
    BY <1>1
<1>3. FolderTyped
    BY <1>1, <1>2, Constants DEF Init, FolderTyped
<1>0. /\ mem = [active |-> First, pending |-> None] /\ saved = mem
      /\ rough = FALSE /\ blind = FALSE
      /\ count = [others |-> 0, faults |-> 0, crashes |-> 0, renames |-> 0,
                  saves |-> 0]
    BY DEF Init
<1>4. CountTyped /\ MainTyped
  <2>1. /\ 0 \in 0..MaxExternal /\ 0 \in 0..MaxFaults /\ 0 \in 0..MaxCrashes
        /\ 0 \in 0..MaxRenames /\ 0 \in 0..MaxSaves
      BY Constants
  <2>2. CountTyped
      BY <1>0, <2>1 DEF CountTyped
  <2>3. MainTyped
      BY <1>0, Constants DEF MainTyped, Places
  <2> QED
      BY <2>2, <2>3
<1>5. QueueTyped /\ queue = <<>> /\ DOMAIN queue = {}
    BY DEF Init, QueueTyped
<1>6. page \in Pages /\ page.phase = "idle" /\ page.goal = None
    BY <1>1, Constants DEF Opened, Pages
<1>7. WatchTyped /\ watch.name \in Names /\ ~watch.due
    BY Constants DEF Init, WatchTyped, Watches, Watcher
<1>8. QueueFits /\ PageFits
    BY <1>5, <1>6, <1>7, Constants DEF QueueFits, PageFits
<1>9. job = Resting /\ IntentsMove
    BY DEF Init, IntentsMove
<1>10. JobTyped /\ JobFits /\ JobNames
    BY <1>9 DEF JobTyped, JobFits, JobNames, Jobs, Resting, Moving, Taking
<1> QED
    BY <1>3, <1>4, <1>5, <1>6, <1>7, <1>8, <1>9, <1>10 DEF Typed, Protocol, PageTyped

LEMMA StutterFits ==
    ASSUME Typed, Protocol, UNCHANGED vars
    PROVE  Typed' /\ Protocol'
<1>1. /\ UNCHANGED <<dir, bytes, binding, mem, saved, queue, job, watch>>
      /\ UNCHANGED <<page, touched, lost, rough, blind, count>>
    BY DEF vars
<1>2. Course'
  <2>1. WatchKeeps /\ page' \in Pages
      BY <1>1, WatchStays DEF Typed, PageTyped
  <2> QED
      BY <1>1, <2>1, CourseStays
<1>3. FolderTyped' /\ CountTyped' /\ MainTyped' /\ WatchTyped' /\ IntentsMove'
    BY <1>1 DEF Typed, FolderTyped, CountTyped, MainTyped, WatchTyped, Protocol,
       IntentsMove
<1> QED
    BY <1>2, <1>3 DEF Typed, Protocol, Course

LEMMA OwnStep ==
    ASSUME Own, [Next]_vars
    PROVE  Own'
<1>1. Typed /\ Protocol
    BY DEF Own
<1>2. CASE RenameStep
    BY <1>1, <1>2, BeginRenameFits, RecoverFits, PrepareFits, LinkTargetFits,
       LookFits, UnlinkSourceFits, RelinkFits, RollbackFits, FinalizeFits,
       RebindWorkspaceFits DEF RenameStep, Own
<1>3. CASE FollowStep
    BY <1>1, <1>3, ProbeFits, EmitFits, BeginFits, AskBridgeFits, CommitFits, ReadActiveFits
       DEF FollowStep, Own
<1>4. CASE PageStep
    BY <1>1, <1>4, RenameFits, TakeHintFits, SettleFits, SaveFits DEF PageStep, Own
<1>5. CASE Others \/ Crash \/ UNCHANGED vars
    BY <1>1, <1>5, OthersFit, CrashFits, StutterFits DEF Own
<1> QED
    BY <1>2, <1>3, <1>4, <1>5 DEF Next

-----------------------------------------------------------------------------
(* Sparing: nothing is lost.                                                *)
Cutting == {"link", "check", "unlink", "rollback"}

LEMMA SparingRests ==
    ASSUME Sparing, job'.at \notin Cutting, lost' = lost
    PROVE  Sparing'
BY DEF Sparing, Cutting

LEMMA SparingStays ==
    ASSUME Sparing, UNCHANGED <<job, mem, dir, touched, lost>>
    PROVE  Sparing'
BY DEF Sparing, Spare, Intent, Exists

LEMMA Rests ==
    ASSUME job' = Resting
    PROVE  job'.at = "start" /\ job'.at \notin Cutting
BY DEF Resting, Cutting

(* Where a job goes when it leaves a step without going to the next one. *)
LEMMA LeavesMove ==
    ASSUME Typed, Protocol, queue # <<>>, Kind \in {"launch", "rename"}, WatchKeeps,
           Refuse \/ GoOn
    PROVE  job'.at \notin Cutting
<1>1. CASE Refuse
    BY <1>1, Refused, Rests
<1>2. CASE GoOn
    BY <1>2, GoesOn, Rests DEF Cutting, Resting
<1> QED
    BY <1>1, <1>2

LEMMA RenameSpares ==
    ASSUME Own, Sparing, RenameStep
    PROVE  Sparing'
<1>0. Typed /\ Protocol /\ lost = {}
    BY DEF Own, Sparing
<1>1. CASE BeginRename
  <2>0. /\ UNCHANGED <<dir, watch, lost>> /\ UNCHANGED main
        /\ queue # <<>> /\ Kind \in {"launch", "rename"}
      BY <1>1 DEF BeginRename, AsItWas, Serves
  <2>1. CASE Intent # None
    <3>1. job' = [job EXCEPT !.at = "recover", !.retrying = TRUE]
        BY <1>1, <2>1 DEF BeginRename
    <3>2. job'.at \notin Cutting
        BY <1>0, <3>1 DEF Typed, JobTyped, Jobs, Cutting
    <3> QED
        BY <2>0, <3>2, SparingRests
  <2>2. CASE Intent = None
    <3>1. GoOn
        BY <1>1, <2>2 DEF BeginRename
    <3> QED
        BY <1>0, <2>0, <3>1, WatchStays, LeavesMove, SparingRests
  <2> QED
      BY <2>1, <2>2
<1>2. CASE Recover
  <2>0. /\ At("recover") /\ UNCHANGED <<dir, watch, lost>> /\ touched' = {}
      BY <1>2 DEF Recover, AsItWas
  <2>1. /\ queue # <<>> /\ job.at = "recover" /\ Kind \in {"launch", "rename"}
        /\ Intent.from \in Names /\ Intent.to \in Names /\ job \in Jobs
        /\ Intent.from # Intent.to /\ WatchKeeps
      BY <1>0, <2>0, MoveStarts, WatchStays DEF Moving, Taking
  <2>2. CASE GoOn \/ Refuse
      BY <1>0, <2>0, <2>1, <2>2, LeavesMove, SparingRests
  <2>3. CASE /\ ~(/\ Exists(Intent.from) /\ Exists(Intent.to)
                  /\ ~SameFile(Intent))
             /\ job' = [job EXCEPT !.file = dir[Intent.from],
                          !.at = CASE ~Exists(Intent.from) -> "finalize"
                                   [] Exists(Intent.from) /\ Exists(Intent.to) -> "check"
                                   [] OTHER -> "link"]
             /\ UNCHANGED main
    <3>1. /\ job'.file = dir[Intent.from] /\ Intent' = Intent
          /\ job'.at = CASE ~Exists(Intent.from) -> "finalize"
                         [] Exists(Intent.from) /\ Exists(Intent.to) -> "check"
                         [] OTHER -> "link"
        BY <2>1, <2>3 DEF Jobs, Intent, main
    <3>2. job'.at \in {"check", "link", "finalize"}
        BY <3>1
    <3>3. job'.at = "check" => Exists(Intent.from) /\ Exists(Intent.to)
        BY <3>1
    <3>4. job'.at = "check" => dir[Intent.from] = dir[Intent.to]
        BY <2>3, <3>3 DEF SameFile
    <3>5. job'.at = "check" => Spare(Intent.to)'
        BY <2>0, <2>1, <3>1, <3>4 DEF Spare
    <3> QED
        BY <1>0, <2>0, <3>1, <3>2, <3>5 DEF Sparing
  <2> QED
      BY <1>2, <2>2, <2>3 DEF Recover, Clear, Keep
<1>3. CASE Prepare
  <2>0. /\ UNCHANGED <<dir, watch, lost>> /\ touched' = {}
        /\ queue # <<>> /\ job.at = "prepare"
      BY <1>3 DEF Prepare, At, AsItWas
  <2>1. Kind = "rename" /\ job \in Jobs /\ WatchKeeps
      BY <1>0, <2>0, WatchStays DEF Protocol, JobFits, Typed, JobTyped
  <2>2. CASE Refuse
      BY <1>0, <2>0, <2>1, <2>2, LeavesMove, SparingRests
  <2>3. CASE /\ mem' = [mem EXCEPT !.pending = [from |-> page.path,
                                                to |-> page.goal, sha |-> page.sha]]
             /\ job' = [job EXCEPT !.at = "link", !.file = dir[page.path]]
    <3>1. Intent'.from = page.path
        BY <1>0, <2>3 DEF Typed, MainTyped, Places, Intent
    <3>2. job'.at = "link" /\ job'.file = dir[page.path]
        BY <2>1, <2>3 DEF Jobs
    <3> QED
        BY <1>0, <2>0, <3>1, <3>2 DEF Sparing
  <2> QED
      BY <1>3, <2>2, <2>3 DEF Prepare, Keep
<1>4. CASE LinkTarget
  <2>0. At("link") /\ UNCHANGED touched
      BY <1>4 DEF LinkTarget
  <2>1. /\ queue # <<>> /\ job.at = "link" /\ Kind \in {"launch", "rename"}
        /\ Intent.from \in Names /\ Intent.to \in Names /\ job \in Jobs
        /\ Intent.from # Intent.to
        /\ dir \in [Names -> (1..Len(bytes)) \cup {None}]
      BY <1>0, <2>0, MoveStarts DEF Moving, Taking
  <2>2. CASE Refuse /\ AsItWas
    <3>1. WatchKeeps /\ lost' = lost
        BY <1>0, <2>2, WatchStays DEF AsItWas
    <3> QED
        BY <1>0, <2>1, <2>2, <3>1, LeavesMove, SparingRests
  <2>3. CASE Link(Intent.to, dir[Intent.from]) /\ Goto("check") /\ UNCHANGED main
    <3>1. /\ dir'[Intent.to] = dir[Intent.from] /\ lost' = lost
          /\ dir'[Intent.from] = dir[Intent.from]
        BY <1>0, <2>1, <2>3, LinkTyped
    <3>2. job'.at = "check" /\ job'.file = job.file /\ Intent' = Intent
        BY <2>1, <2>3 DEF Goto, Jobs, Intent, main
    <3>3. Intent.from \in touched \/ dir[Intent.from] = job.file
        BY <2>1 DEF Sparing
    <3>4. Spare(Intent.to)'
        BY <2>1, <3>1, <3>2 DEF Spare
    <3> QED
        BY <1>0, <2>0, <3>1, <3>2, <3>3, <3>4 DEF Sparing
  <2> QED
      BY <1>4, <2>2, <2>3 DEF LinkTarget, Abandon, Clear, Keep
<1>5. CASE CheckTarget
  <2>0. At("check") /\ UNCHANGED <<touched, dir, lost>> /\ UNCHANGED main
      BY <1>5 DEF CheckTarget, AsItWas
  <2>1. /\ job.at = "check" /\ job \in Jobs /\ Intent' = Intent
        /\ Intent.from \in Names /\ Intent.to \in Names
        /\ Intent.from # Intent.to
      BY <1>0, <2>0, MoveStarts DEF Moving, Taking, Intent, main
  <2>2. CASE dir[Intent.to] = job.file /\ Goto("unlink")
    <3>1. job'.at = "unlink"
        BY <2>1, <2>2 DEF Goto, Jobs
    <3>2. Intent.from \in touched \/ dir[Intent.from] = job.file
        BY <2>1 DEF Sparing
    <3>3. Spare(Intent.from)
        BY <2>1, <2>2, <3>2 DEF Spare
    <3>4. Spare(Intent.from)'
        BY <2>0, <2>1, <3>3 DEF Spare, Exists
    <3> QED
        BY <1>0, <2>0, <3>1, <3>4 DEF Sparing
  <2>3. CASE Goto("rollback")
    <3>1. job'.at = "rollback"
        BY <2>1, <2>3 DEF Goto, Jobs
    <3>2. Spare(Intent.to)'
        BY <2>0, <2>1 DEF Spare, Exists, Sparing
    <3> QED
        BY <1>0, <2>0, <3>1, <3>2 DEF Sparing
  <2> QED
      BY <1>5, <2>2, <2>3 DEF CheckTarget
<1>6. CASE UnlinkSource
  <2>0. At("unlink")
      BY <1>6 DEF UnlinkSource
  <2>1. /\ queue # <<>> /\ job.at = "unlink" /\ Kind \in {"launch", "rename"}
        /\ Intent.from \in Names /\ job \in Jobs
      BY <1>0, <2>0, MoveStarts DEF Moving, Taking
  <2>2. CASE Refuse /\ AsItWas
    <3>1. WatchKeeps /\ lost' = lost
        BY <1>0, <2>2, WatchStays DEF AsItWas
    <3> QED
        BY <1>0, <2>1, <2>2, <3>1, LeavesMove, SparingRests
  <2>3. CASE Exists(Intent.from) /\ Unlink(Intent.from) /\ Goto("reread")
    <3>1. Spare(Intent.from)
        BY <2>1 DEF Sparing
    <3>2. lost' = lost
        BY <1>0, <2>1, <2>3, <3>1, UnlinkTyped
    <3>3. job'.at \notin Cutting
        BY <2>1, <2>3 DEF Goto, Jobs, Cutting
    <3> QED
        BY <3>2, <3>3, SparingRests
  <2> QED
      BY <1>6, <2>2, <2>3 DEF UnlinkSource, Keep
<1>7. CASE Reread
  <2>0. At("reread") /\ UNCHANGED lost
      BY <1>7 DEF Reread, AsItWas
  <2>1. job \in Jobs /\ (Goto("finalize") \/ Goto("relink"))
      BY <1>0, <1>7 DEF Reread, Typed, JobTyped
  <2>2. job'.at \notin Cutting
      BY <2>1 DEF Goto, Jobs, Cutting
  <2> QED
      BY <2>0, <2>2, SparingRests
<1>8. CASE Relink
  <2>0. At("relink") /\ UNCHANGED touched
      BY <1>8 DEF Relink
  <2>1. /\ queue # <<>> /\ job.at = "relink" /\ Kind \in {"launch", "rename"}
        /\ Intent.from \in Names /\ Intent.to \in Names /\ job \in Jobs
        /\ Intent.from # Intent.to
        /\ dir \in [Names -> (1..Len(bytes)) \cup {None}]
      BY <1>0, <2>0, MoveStarts DEF Moving, Taking
  <2>2. CASE Refuse /\ AsItWas
    <3>1. WatchKeeps /\ lost' = lost
        BY <1>0, <2>2, WatchStays DEF AsItWas
    <3> QED
        BY <1>0, <2>1, <2>2, <3>1, LeavesMove, SparingRests
  <2>3. CASE Link(Intent.from, dir[Intent.to]) /\ Goto("rollback") /\ UNCHANGED main
    <3>1. /\ dir'[Intent.from] = dir[Intent.to] /\ lost' = lost
          /\ dir'[Intent.to] = dir[Intent.to]
        BY <1>0, <2>1, <2>3, LinkTyped
    <3>2. job'.at = "rollback" /\ Intent' = Intent
        BY <2>1, <2>3 DEF Goto, Jobs, Intent, main
    <3>4. Spare(Intent.to)'
        BY <2>1, <3>1, <3>2 DEF Spare
    <3> QED
        BY <1>0, <3>1, <3>2, <3>4 DEF Sparing
  <2> QED
      BY <1>8, <2>2, <2>3 DEF Relink, Keep
<1>9. CASE Rollback
  <2>0. At("rollback")
      BY <1>9 DEF Rollback
  <2>1. /\ queue # <<>> /\ job.at = "rollback" /\ Kind \in {"launch", "rename"}
        /\ Intent.to \in Names /\ job \in Jobs
      BY <1>0, <2>0, MoveStarts DEF Moving, Taking
  <2>2. CASE Refuse /\ AsItWas
    <3>1. WatchKeeps /\ lost' = lost
        BY <1>0, <2>2, WatchStays DEF AsItWas
    <3> QED
        BY <1>0, <2>1, <2>2, <3>1, LeavesMove, SparingRests
  <2>3. CASE Exists(Intent.to) /\ Unlink(Intent.to) /\ Refuse
    <3>1. Spare(Intent.to)
        BY <2>1 DEF Sparing
    <3>2. lost' = lost /\ WatchKeeps
        BY <1>0, <2>1, <2>3, <3>1, UnlinkTyped
    <3> QED
        BY <1>0, <2>1, <2>3, <3>2, LeavesMove, SparingRests
  <2> QED
      BY <1>9, <2>2, <2>3 DEF Rollback, Abandon, Clear, Keep
<1>10. CASE Finalize
  <2>0. At("finalize") /\ UNCHANGED <<watch, lost>>
      BY <1>10 DEF Finalize, AsItWas
  <2>1. /\ queue # <<>> /\ Kind \in {"launch", "rename"} /\ job \in Jobs /\ WatchKeeps
      BY <1>0, <2>0, MoveStarts, WatchStays DEF Moving, Taking
  <2>2. Goto("rebind") \/ GoOn \/ Refuse
      BY <1>10 DEF Finalize
  <2>3. job'.at \notin Cutting
      BY <1>0, <2>1, <2>2, LeavesMove DEF Goto, Jobs, Cutting
  <2> QED
      BY <2>0, <2>3, SparingRests
<1>11. CASE RebindWorkspace
  <2>1. lost' = lost /\ job' = Resting
      BY <1>11 DEF RebindWorkspace, Succeed, Done, marks
  <2> QED
      BY <2>1, Rests, SparingRests
<1> QED
    BY <1>1, <1>2, <1>3, <1>4, <1>5, <1>6, <1>7, <1>8, <1>9, <1>10, <1>11
       DEF RenameStep

(* A change by others: whatever names it changes are noticed, and what      *)
(* leaves a name is.                                                        *)
LEMMA OthersSpare ==
    ASSUME Typed, Protocol, Sparing, NEW T, touched' = touched \cup T,
           UNCHANGED <<job, mem, lost>>,
           \A n \in Names : n \in T \/ dir'[n] = dir[n],
           \A n, m \in Names :
               Exists(n) /\ n # m /\ dir[m] = dir[n] /\ n \notin T =>
                   dir[n] \in T \/ \E k \in Names \ {n} : dir'[k] = dir[n]
    PROVE  Sparing'
<1>1. ASSUME NEW n \in Names, Spare(n)
      PROVE  Spare(n)'
  <2> SUFFICES ASSUME n \notin T, Exists(n)'
               PROVE  \/ {n, dir[n]} \cap (touched \cup T) # {}
                      \/ \E m \in Names \ {n} : dir'[m] = dir[n]
      BY DEF Spare, Exists
  <2>1. dir'[n] = dir[n] /\ Exists(n)
      BY DEF Exists
  <2> QED
      BY <1>1, <2>1 DEF Spare
<1>2. Intent' = Intent
    BY DEF Intent
<1>3. job.at \in Cutting => Intent.from \in Names /\ Intent.to \in Names
    BY DEF Cutting, Protocol, JobFits, Taking, Typed, MainTyped, Places, Intents, Intent
<1> QED
    BY <1>1, <1>2, <1>3 DEF Sparing, Cutting

LEMMA SparingStep ==
    ASSUME Own, Sparing, [Next]_vars
    PROVE  Sparing'
<1>0. Typed /\ Protocol
    BY DEF Own
<1>1. CASE RenameStep
    BY <1>1, RenameSpares
<1>2. CASE Probe \/ Emit
  <2>1. UNCHANGED <<job, mem, dir, touched, lost>>
      BY <1>2 DEF Probe, Emit, main, Quietly, folder, marks
  <2> QED
      BY <2>1, SparingStays
<1>3. CASE BeginWatch \/ BeginLocate \/ BeginActive
  <2>1. lost' = lost
      BY <1>3 DEF BeginWatch, BeginLocate, BeginActive, Quietly, marks
  <2>2. \/ job' = Resting
        \/ \E l \in {"ask", "read"}, n \in Names \cup {page.path, mem.active} :
               job' = [job EXCEPT !.prior = n, !.at = l]
    <3>1. CASE BeginWatch
        BY <3>1 DEF BeginWatch, Done
    <3>2. CASE BeginLocate
        BY <3>2 DEF BeginLocate
    <3>3. CASE BeginActive
        BY <3>3 DEF BeginActive
    <3> QED
        BY <1>3, <3>1, <3>2, <3>3
  <2>3. job'.at \notin Cutting
      BY <1>0, <2>2, Rests DEF Typed, JobTyped, Jobs, Cutting
  <2> QED
      BY <2>1, <2>3, SparingRests
<1>4. CASE AskBridge \/ Commit \/ ReadActive
  <2>1. lost' = lost
      BY <1>4 DEF AskBridge, Commit, ReadActive, Quietly, marks
  <2>2. job'.at \in {"start", "ask", "commit", "read"}
    <3>1. \E l \in {"ask", "commit", "read"} : At(l)
        BY <1>4 DEF AskBridge, Commit, ReadActive
    <3>2. /\ queue # <<>> /\ job \in Jobs /\ job.at \in {"ask", "commit", "read"}
          /\ Kind \in {"watch", "locate", "active"}
        BY <1>0, <3>1, FollowStarts
    <3>3. Typed' /\ Protocol'
        BY <1>0, <1>4, AskBridgeFits, CommitFits, ReadActiveFits
    <3>4. \/ job' = Resting
          \/ Goto("read")
          \/ \E n, s \in Names \cup Bytes \cup {bytes[dir[m]] : m \in Located} :
                 job' = [job EXCEPT !.at = "commit", !.next = n, !.sha = s]
          \/ job' = [job EXCEPT !.at = "read", !.prior = job.next]
      <4>1. Unanswered => job' = Resting \/ Goto("read")
          BY <3>2 DEF Unanswered, Refuse, Done
      <4>2. \A n, s : Succeed(n, s) => job' = Resting
          BY DEF Succeed, Done
      <4>3. Refuse => job' = Resting
          BY <3>2 DEF Refuse, Done
      <4>4. CASE AskBridge
        <5>1. CASE Unanswered
            BY <4>1, <5>1
        <5>2. ASSUME NEW n \in Located,
                     job' = [job EXCEPT !.at = "commit", !.next = n,
                                        !.sha = bytes[dir[n]]]
              PROVE  \E a, s \in Names \cup Bytes \cup {bytes[dir[m]] : m \in Located} :
                         job' = [job EXCEPT !.at = "commit", !.next = a, !.sha = s]
            BY <1>0, <5>2, LocatedNames
        <5> QED
            BY <4>4, <5>1, <5>2 DEF AskBridge
      <4>5. CASE Commit
          BY <4>1, <4>2, <4>5 DEF Commit
      <4>6. CASE ReadActive
          BY <4>2, <4>3, <4>6 DEF ReadActive
      <4> QED
          BY <1>4, <4>4, <4>5, <4>6
    <3> QED
        BY <3>2, <3>4, Rests DEF Goto, Jobs
  <2> QED
      BY <2>1, <2>2, SparingRests DEF Cutting
<1>5. CASE PageStep
  <2>1. CASE Aside
    <3>1. UNCHANGED <<job, mem, dir, touched, lost>>
        BY <2>1 DEF Aside, main, folder, marks
    <3> QED
        BY <3>1, SparingStays
  <2>2. ASSUME NEW sha \in Bytes, Save(sha)
        PROVE  Sparing'
    <3>1. page.phase = "idle" /\ UNCHANGED <<job, lost>>
        BY <2>2 DEF Save, marks
    <3>2. queue # <<>> => job.at \notin Moving
        BY <1>0, <3>1, HeadAwaited DEF Typed, Protocol, JobFits
    <3>3. queue = <<>> => job.at = "start"
        BY <1>0 DEF Protocol, JobFits, Resting
    <3>4. job'.at \notin Cutting
        BY <3>1, <3>2, <3>3 DEF Moving, Taking, Cutting
    <3> QED
        BY <3>1, <3>4, SparingRests
  <2> QED
      BY <1>5, <2>1, <2>2 DEF PageStep, Rename, TakeHint, Settle
<1>6. CASE Others
  <2>0. /\ dir \in [Names -> (1..Len(bytes)) \cup {None}]
        /\ bytes \in Seq(Bytes)
      BY <1>0, Parts
  <2>1. ASSUME NEW n \in Names, NEW m \in Names, MoveAway(n, m)
        PROVE  Sparing'
    <3>1. /\ Exists(n) /\ ~Exists(m)
          /\ dir' = [dir EXCEPT ![m] = dir[n], ![n] = None]
          /\ touched' = touched \cup {n, m} /\ UNCHANGED <<job, mem, lost>>
        BY <2>1 DEF MoveAway, Changes, main
    <3>2. dir'[m] = dir[n] /\ \A k \in Names \ {n, m} : dir'[k] = dir[k]
        BY <2>0, <3>1 DEF Exists
    <3>3. \A k \in Names : k \in {n, m} \/ dir'[k] = dir[k]
        BY <3>2
    <3>4. \A k, l \in Names :
              Exists(k) /\ k # l /\ dir[l] = dir[k] /\ k \notin {n, m} =>
                  dir[k] \in {n, m} \/ \E j \in Names \ {k} : dir'[j] = dir[k]
        BY <3>1, <3>2 DEF Exists
    <3> HIDE <2>1
    <3> QED
        BY <1>0, <3>1, <3>3, <3>4, OthersSpare
  <2>2. ASSUME NEW n \in Names, NEW f, dir' = [dir EXCEPT ![n] = f],
               touched' = touched \cup {n, dir[n]}, UNCHANGED <<job, mem, lost>>
        PROVE  Sparing'
    <3>1. \A k \in Names : k \in {n, dir[n]} \/ dir'[k] = dir[k]
        BY <2>0, <2>2
    <3>2. \A k, l \in Names :
              Exists(k) /\ k # l /\ dir[l] = dir[k] /\ k \notin {n, dir[n]} =>
                  dir[k] \in {n, dir[n]} \/ \E j \in Names \ {k} : dir'[j] = dir[k]
        BY <2>0, <2>2
    <3> QED
        BY <1>0, <2>2, <3>1, <3>2, OthersSpare
  <2>3. ASSUME NEW n \in Names, NEW sha \in Bytes, WriteInPlace(n, sha)
        PROVE  Sparing'
    <3>1. dir' = dir /\ touched' = touched \cup {n} /\ UNCHANGED <<job, mem, lost>>
        BY <2>3 DEF WriteInPlace, Changes, main
    <3> QED
        BY <1>0, <3>1, OthersSpare
  <2>4. ASSUME NEW n \in Names, NEW sha \in Bytes, PutAnother(n, sha)
        PROVE  Sparing'
      BY <2>2, <2>4 DEF PutAnother, Changes, main
  <2>5. ASSUME NEW n \in Names, Delete(n)
        PROVE  Sparing'
      BY <2>2, <2>5 DEF Delete, Changes, main
  <2>6. ASSUME NEW n \in Names, BringBack(n)
        PROVE  Sparing'
    <3>1. /\ dir' = [dir EXCEPT ![n] = binding.file] /\ ~Exists(n)
          /\ touched' = touched \cup {n, binding.file}
          /\ UNCHANGED <<job, mem, lost>>
        BY <2>6 DEF BringBack, Changes, main
    <3>2. \A k \in Names : k \in {n, binding.file} \/ dir'[k] = dir[k]
        BY <2>0, <3>1
    <3>3. \A k, l \in Names :
              Exists(k) /\ k # l /\ dir[l] = dir[k] /\ k \notin {n, binding.file} =>
                  \/ dir[k] \in {n, binding.file}
                  \/ \E j \in Names \ {k} : dir'[j] = dir[k]
        BY <2>0, <3>1 DEF Exists
    <3> QED
        BY <1>0, <3>1, <3>2, <3>3, OthersSpare
  <2> QED
      BY <1>6, <2>1, <2>3, <2>4, <2>5, <2>6 DEF Others
<1>7. CASE Crash
  <2>1. lost' = lost /\ job' = Resting
      BY <1>7 DEF Crash
  <2> QED
      BY <2>1, Rests, SparingRests
<1>8. CASE UNCHANGED vars
  <2>1. UNCHANGED <<job, mem, dir, touched, lost>>
      BY <1>8 DEF vars
  <2> QED
      BY <2>1, SparingStays
<1> QED
    BY <1>1, <1>2, <1>3, <1>4, <1>5, <1>6, <1>7, <1>8 DEF Next, FollowStep

-----------------------------------------------------------------------------
(* Watched: a missing name is noticed.                                      *)
LEMMA LocatedStays ==
    ASSUME UNCHANGED <<dir, binding>>
    PROVE  Located' = Located
BY DEF Located, BoundNames, Exists

(* An answer to another call leaves the watcher's in the queue. *)
LEMMA CallsKept ==
    ASSUME Typed, Protocol, queue # <<>>, Kind # "watch", Calls,
           \/ queue' = Tail(queue)
           \/ Kind = "rename" /\ queue' = Append(Tail(queue), Ask("active"))
    PROVE  Calls'
<1> DEFINE q == Tail(queue)
<1>1. /\ q \in Seq(Item) /\ 1 \in DOMAIN queue /\ Kind = queue[1].kind
      /\ \A i \in DOMAIN q : q[i] = queue[i + 1]
      /\ Len(q) = Len(queue) - 1 /\ Len(queue) \in Nat
    BY HeadOf DEF Typed, QueueTyped
<1>2. PICK i \in DOMAIN queue : queue[i].kind = "watch"
    BY DEF Calls
<1>3. i # 1 /\ DOMAIN queue = 1..Len(queue) /\ DOMAIN q = 1..Len(q)
    BY <1>1, <1>2, LenProperties DEF Typed, QueueTyped
<1>4. i - 1 \in DOMAIN q /\ (i - 1) + 1 = i
    BY <1>1, <1>3
<1>5. q[i - 1].kind = "watch"
    BY <1>1, <1>2, <1>4
<1> HIDE DEF q
<1>6. CASE queue' = q
    BY <1>4, <1>5, <1>6 DEF Calls
<1>7. CASE queue' = Append(q, Ask("active"))
  <2>1. Ask("active") \in Item
      BY AskIs DEF Kinds
  <2>2. i - 1 \in DOMAIN queue' /\ queue'[i - 1] = q[i - 1]
      BY <1>1, <1>3, <1>4, <1>7, <2>1, AppendOf
  <2> QED
      BY <1>5, <2>2 DEF Calls
<1> QED
    BY <1>6, <1>7 DEF q

LEMMA RefusedHears ==
    ASSUME Typed, Protocol, queue # <<>>, Refuse, WatchKeeps,
           Kind = "watch" => job.prior \in Names
    PROVE  /\ Calls /\ Kind # "watch" => Calls'
           /\ Shown' => Shown
           /\ job'.at = "start"
<1>1. Kind \in Kinds
    BY HeadAwaited DEF Typed, Protocol
<1>2. \/ queue' = Tail(queue)
      \/ Kind = "rename" /\ queue' = Append(Tail(queue), Ask("active"))
    BY <1>1 DEF Refuse, Done, Kinds
<1>3. Calls /\ Kind # "watch" => Calls'
    BY <1>2, CallsKept
<1>4. Shown' => Shown
    BY <1>1, Refused, HeadAwaited DEF Shown, Kinds, Typed, Protocol
<1>5. job'.at = "start"
    BY Refused, Rests
<1> QED
    BY <1>3, <1>4, <1>5

LEMMA GoesOnHears ==
    ASSUME Typed, Protocol, queue # <<>>, Kind \in {"launch", "rename"},
           GoOn, WatchKeeps
    PROVE  /\ Calls => Calls'
           /\ Shown' => Shown
           /\ job'.at \in {"start", "prepare"}
<1>1. page' = page /\ job'.at \in {"start", "prepare"}
    BY GoesOn, Rests DEF Resting
<1>2. queue' = Tail(queue) \/ queue' = queue
    BY GoesOn DEF Done
<1>3. Calls => Calls'
    BY <1>2, CallsKept DEF Calls
<1> QED
    BY <1>1, <1>3 DEF Shown

(* The folder has changed. *)
LEMMA WatchedNoticed ==
    ASSUME Noticed
    PROVE  Watched'
BY DEF Watched, Heard, Noticed

(* Nothing the watcher looks at has changed. *)
LEMMA WatchedStays ==
    ASSUME Watched, UNCHANGED <<dir, bytes, binding>>,
           Shown' => Shown, Calls => Calls', UNCHANGED watch,
           ~rough' => ~rough,
           mem'.active = mem.active \/ dir[mem'.active] # None,
           job'.at # "commit" \/ (job' = job /\ Kind' = Kind)
    PROVE  Watched'
<1>1. Located' = Located
    BY LocatedStays
<1>2. Heard => Heard'
    BY DEF Heard, Unprobed, Exists
<1>3. dir[mem'.active] # None => Exists(mem.active)'
    BY DEF Exists
<1>4. ~rough' /\ Shown' /\ ~Heard' => Located' = {} \/ Exists(mem.active)'
    BY <1>1, <1>2, <1>3 DEF Watched, Exists
<1>5. Shown' /\ job'.at = "commit" /\ Kind' = "watch" =>
          Holds(job.next, job.sha)' \/ watch'.due \/ watch'.unseen
    BY DEF Watched, Holds, Exists
<1> QED
    BY <1>4, <1>5 DEF Watched

(* A step of a move that leaves the folder. *)
LEMMA WatchedMove ==
    ASSUME Typed, Protocol, Watched, queue # <<>>, Kind \in {"launch", "rename"},
           UNCHANGED <<dir, bytes, binding, watch>>,
           Refuse \/ GoOn \/ (Stay /\ job'.at # "commit"),
           Works \/ Fails,
           mem'.active = mem.active \/ dir[mem'.active] # None
    PROVE  Watched'
<1>1. WatchKeeps
    BY WatchStays
<1>2. /\ Calls => Calls'
      /\ Shown' => Shown
      /\ job'.at # "commit"
  <2>1. CASE Refuse
      BY <1>1, <2>1, RefusedHears
  <2>2. CASE GoOn
      BY <1>1, <2>2, GoesOnHears
  <2>3. CASE Stay /\ job'.at # "commit"
      BY <2>3 DEF Stay, Calls, Shown
  <2> QED
      BY <2>1, <2>2, <2>3
<1>3. ~rough' => ~rough
    BY DEF Works, Fails
<1> QED
    BY <1>2, <1>3, WatchedStays

LEMMA ClearKeeps ==
    ASSUME mem' = [mem EXCEPT !.pending = None], MainTyped
    PROVE  mem'.active = mem.active
BY DEF MainTyped, Places

LEMMA RenameWatched ==
    ASSUME Own, Watched, RenameStep
    PROVE  Watched'
<1>0. Typed /\ Protocol /\ MainTyped /\ job \in Jobs
    BY DEF Own, Typed, JobTyped
<1>1. CASE BeginRename
  <2>1. /\ queue # <<>> /\ Kind \in {"launch", "rename"}
        /\ UNCHANGED <<dir, bytes, binding, watch>> /\ Works
        /\ UNCHANGED main
      BY <1>1 DEF BeginRename, Serves, AsItWas, Calm
  <2>2. mem' = mem
      BY <2>1 DEF main
  <2>3. GoOn \/ (Stay /\ job'.at # "commit")
      BY <1>0, <1>1 DEF BeginRename, Jobs
  <2> QED
      BY <1>0, <2>1, <2>2, <2>3, WatchedMove
<1>2. CASE Recover
  <2>0. At("recover") /\ UNCHANGED <<dir, watch, bytes, binding>>
      BY <1>2 DEF Recover, AsItWas
  <2>1. queue # <<>> /\ Kind \in {"launch", "rename"}
      BY <1>0, <2>0, MoveStarts DEF Moving, Taking
  <2> DEFINE at == CASE ~Exists(Intent.from) -> "finalize"
                     [] Exists(Intent.from) /\ Exists(Intent.to) -> "check"
                     [] OTHER -> "link"
  <2>2. \/ Clear(GoOn)
        \/ /\ job' = [job EXCEPT !.file = dir[Intent.from], !.at = at]
           /\ Works /\ Stay /\ UNCHANGED main
        \/ Fails /\ Keep
        \/ Fails /\ mem' = [mem EXCEPT !.pending = None] /\ GoOn
      BY <1>2 DEF Recover
  <2>3. at # "commit"
      OBVIOUS
  <2> HIDE DEF at
  <2>4. /\ Refuse \/ GoOn \/ (Stay /\ job'.at # "commit")
        /\ Works \/ Fails
        /\ mem'.active = mem.active
    <3>1. CASE Clear(GoOn)
        BY <1>0, <3>1, ClearKeeps DEF Clear
    <3>2. CASE /\ job' = [job EXCEPT !.file = dir[Intent.from], !.at = at]
               /\ Works /\ Stay /\ UNCHANGED main
        BY <1>0, <2>3, <3>2 DEF Jobs, main
    <3>3. CASE Fails /\ Keep
        BY <3>3 DEF Keep, main
    <3>4. CASE Fails /\ mem' = [mem EXCEPT !.pending = None] /\ GoOn
        BY <1>0, <3>4, ClearKeeps
    <3> QED
        BY <2>2, <3>1, <3>2, <3>3, <3>4
  <2> QED
      BY <1>0, <2>0, <2>1, <2>4, WatchedMove
<1>3. CASE Prepare
  <2>0. /\ UNCHANGED <<dir, watch, bytes, binding>>
        /\ queue # <<>> /\ job.at = "prepare"
      BY <1>3 DEF Prepare, At, AsItWas, Calm
  <2>1. Kind = "rename"
      BY <1>0, <2>0 DEF Protocol, JobFits
  <2> DEFINE p == [from |-> page.path, to |-> page.goal, sha |-> page.sha]
  <2>2. \/ Keep /\ Works
        \/ /\ mem' = [mem EXCEPT !.pending = p]
           /\ \/ /\ Works /\ Stay
                 /\ job' = [job EXCEPT !.at = "link", !.file = dir[page.path]]
              \/ Fails /\ Refuse
      BY <1>3 DEF Prepare
  <2> HIDE DEF p
  <2>3. /\ Refuse \/ (Stay /\ job'.at # "commit")
        /\ Works \/ Fails
        /\ mem'.active = mem.active
      BY <1>0, <2>2 DEF Keep, main, Jobs, MainTyped, Places
  <2> QED
      BY <1>0, <2>0, <2>1, <2>3, WatchedMove
<1>4. CASE LinkTarget
  <2>0. At("link") /\ UNCHANGED <<bytes, binding>>
      BY <1>4 DEF LinkTarget, Calm
  <2>1. /\ queue # <<>> /\ Kind \in {"launch", "rename"}
        /\ Intent.from \in Names /\ Intent.to \in Names
        /\ dir[Intent.from] \in (1..Len(bytes)) \cup {None}
      BY <1>0, <2>0, MoveStarts DEF Moving, Taking
  <2>2. CASE Link(Intent.to, dir[Intent.from]) /\ Stay
      BY <1>0, <2>1, <2>2, LinkTyped, WatchedNoticed
  <2>3. CASE /\ Refuse /\ AsItWas /\ (Works \/ Fails)
             /\ UNCHANGED main \/ mem' = [mem EXCEPT !.pending = None]
    <3>1. mem'.active = mem.active /\ UNCHANGED <<dir, watch>>
        BY <1>0, <2>3, ClearKeeps DEF main, AsItWas
    <3> QED
        BY <1>0, <2>0, <2>1, <2>3, <3>1, WatchedMove
  <2> QED
      BY <1>4, <2>2, <2>3 DEF LinkTarget, Abandon, Clear, Keep
<1>5. CASE CheckTarget \/ Reread
  <2>0. /\ At("check") \/ At("reread")
        /\ UNCHANGED <<dir, watch, bytes, binding>> /\ Stay /\ UNCHANGED main
        /\ Works \/ Fails
        /\ \E k \in {"unlink", "rollback", "finalize", "relink"} : Goto(k)
      BY <1>5 DEF CheckTarget, Reread, AsItWas, Calm
  <2>1. queue # <<>> /\ Kind \in {"launch", "rename"} /\ mem' = mem
      BY <1>0, <2>0, MoveStarts DEF Moving, Taking, main
  <2>2. job'.at # "commit"
      BY <1>0, <2>0 DEF Goto, Jobs
  <2> QED
      BY <1>0, <2>0, <2>1, <2>2, WatchedMove
<1>6. CASE UnlinkSource
  <2>0. At("unlink") /\ UNCHANGED <<bytes, binding>>
      BY <1>6 DEF UnlinkSource, Calm
  <2>1. queue # <<>> /\ Kind \in {"launch", "rename"} /\ Intent.from \in Names
      BY <1>0, <2>0, MoveStarts DEF Moving, Taking
  <2>2. CASE Exists(Intent.from) /\ Unlink(Intent.from) /\ Stay
      BY <1>0, <2>1, <2>2, UnlinkTyped, WatchedNoticed
  <2>3. CASE Keep /\ AsItWas /\ (Works \/ Fails)
    <3>1. mem' = mem /\ UNCHANGED <<dir, watch>> /\ Refuse
        BY <2>3 DEF main, AsItWas, Keep
    <3> QED
        BY <1>0, <2>0, <2>1, <2>3, <3>1, WatchedMove
  <2> QED
      BY <1>6, <2>2, <2>3 DEF UnlinkSource
<1>7. CASE Relink
  <2>0. At("relink") /\ UNCHANGED <<bytes, binding>>
      BY <1>7 DEF Relink, Calm
  <2>1. /\ queue # <<>> /\ Kind \in {"launch", "rename"}
        /\ Intent.from \in Names /\ Intent.to \in Names
        /\ dir[Intent.to] \in (1..Len(bytes)) \cup {None}
      BY <1>0, <2>0, MoveStarts DEF Moving, Taking
  <2>2. CASE Link(Intent.from, dir[Intent.to]) /\ Stay
      BY <1>0, <2>1, <2>2, LinkTyped, WatchedNoticed
  <2>3. CASE Keep /\ AsItWas /\ (Works \/ Fails)
    <3>1. mem' = mem /\ UNCHANGED <<dir, watch>> /\ Refuse
        BY <2>3 DEF main, AsItWas, Keep
    <3> QED
        BY <1>0, <2>0, <2>1, <2>3, <3>1, WatchedMove
  <2> QED
      BY <1>7, <2>2, <2>3 DEF Relink
<1>8. CASE Rollback
  <2>0. At("rollback") /\ UNCHANGED <<bytes, binding>>
      BY <1>8 DEF Rollback, Calm
  <2>1. queue # <<>> /\ Kind \in {"launch", "rename"} /\ Intent.to \in Names
      BY <1>0, <2>0, MoveStarts DEF Moving, Taking
  <2>2. CASE Exists(Intent.to) /\ Unlink(Intent.to) /\ Refuse
      BY <1>0, <2>1, <2>2, UnlinkTyped, WatchedNoticed
  <2>3. CASE Keep /\ AsItWas /\ (Works \/ Fails)
    <3>1. mem' = mem /\ UNCHANGED <<dir, watch>> /\ Refuse
        BY <2>3 DEF main, AsItWas, Keep
    <3> QED
        BY <1>0, <2>0, <2>1, <2>3, <3>1, WatchedMove
  <2> QED
      BY <1>8, <2>2, <2>3 DEF Rollback, Abandon, Clear, Keep
<1>9. CASE Finalize
  <2>0. At("finalize") /\ UNCHANGED <<dir, watch, bytes, binding>>
      BY <1>9 DEF Finalize, AsItWas, Calm
  <2>1. queue # <<>> /\ Kind \in {"launch", "rename"} /\ Intent \in Intents
      BY <1>0, <2>0, MoveStarts DEF Moving, Taking
  <2>2. /\ Works \/ Fails
        /\ Refuse \/ GoOn \/ (Stay /\ Goto("rebind"))
        /\ \/ Holds(Intent.to, Intent.sha) /\ mem' = Renamed
           \/ UNCHANGED main
      BY <1>9 DEF Finalize
  <2>3. Refuse \/ GoOn \/ (Stay /\ job'.at # "commit")
      BY <1>0, <2>2 DEF Goto, Jobs
  <2>4. mem'.active = mem.active \/ dir[mem'.active] # None
      BY <2>1, <2>2 DEF Renamed, main, Holds, Exists
  <2> QED
      BY <1>0, <2>0, <2>1, <2>2, <2>3, <2>4, WatchedMove
<1>10. CASE RebindWorkspace
  <2>0. /\ queue # <<>> /\ job.at = "rebind" /\ Watch(page.goal)
        /\ Succeed(page.goal, page.sha) /\ (Works \/ Fails)
        /\ UNCHANGED folder /\ UNCHANGED main
        /\ \/ Located = {page.goal} /\ Rebind(page.goal)
           \/ UNCHANGED binding
      BY <1>10 DEF RebindWorkspace, At
  <2>1. /\ Kind = "rename" /\ page.phase = "renaming" /\ page \in Pages
        /\ mem.active = page.goal
      BY <1>0, <2>0, HeadAwaited
         DEF Protocol, JobFits, JobNames, Moving, Typed, PageTyped
  <2>2. page.goal \in Names /\ page.sha \in Bytes
      BY <1>0, <2>1 DEF Protocol, PageFits, Pages
  <2>3. WatchKeeps
      BY <1>0, <2>0, <2>2, WatchesName
  <2>4. queue' = Tail(queue) /\ job' = Resting
      BY <2>0 DEF Succeed, Done
  <2>5. Calls => Calls'
      BY <1>0, <2>0, <2>1, <2>4, CallsKept
  <2>6. UNCHANGED <<dir, bytes, mem>> /\ (~rough' => ~rough)
      BY <2>0 DEF folder, main, Works, Fails
  <2>7. job'.at # "commit" /\ Shown
      BY <2>1, <2>4, Rests DEF Shown
  <2>8. CASE Exists(page.goal)
    <3>1. Exists(mem.active)'
        BY <2>1, <2>6, <2>8 DEF Exists
    <3> QED
        BY <2>7, <3>1 DEF Watched
  <2>9. CASE ~Exists(page.goal)
    <3>1. Heard'
        BY <1>0, <2>0, <2>2, <2>6, <2>9, WatchesName DEF Heard
    <3> QED
        BY <2>7, <3>1 DEF Watched
  <2> QED
      BY <2>8, <2>9
<1> QED
    BY <1>1, <1>2, <1>3, <1>4, <1>5, <1>6, <1>7, <1>8, <1>9, <1>10
       DEF RenameStep

LEMMA WatchedAsk ==
    ASSUME Own, Watched, AskBridge
    PROVE  Watched'
<1>0. Typed /\ Protocol
    BY DEF Own
<1>1. /\ At("ask") /\ UNCHANGED <<dir, bytes, watch, mem>>
    BY DEF AskBridge, Quietly, folder, main
<1>2. /\ queue # <<>> /\ job.at = "ask" /\ job \in Jobs /\ job.prior \in Names
      /\ Kind \in {"watch", "locate", "active"} /\ WatchKeeps
    BY <1>0, <1>1, FollowStarts, WatchStays
<1>3. CASE Unanswered /\ UNCHANGED binding /\ (Fails \/ (Works /\ Located = {}))
  <2>1. /\ job'.at # "commit"
        /\ Shown' => Shown
        /\ Calls /\ Kind # "watch" => Calls'
    <3>1. CASE Kind = "active"
      <4>1. Goto("read") /\ Stay
          BY <1>3, <3>1 DEF Unanswered
      <4> QED
          BY <1>2, <4>1 DEF Goto, Jobs, Stay, Shown, Calls
    <3>2. CASE Kind # "active"
      <4>1. Refuse
          BY <1>3, <3>2 DEF Unanswered
      <4> QED
          BY <1>0, <1>2, <4>1, RefusedHears
    <3> QED
        BY <3>1, <3>2
  <2>2. CASE Fails
      BY <2>1, <2>2 DEF Fails, Watched
  <2>3. CASE Works /\ Located = {}
    <3>1. Located' = {}
        BY <1>1, <1>3, <2>3, LocatedStays
    <3> QED
        BY <2>1, <3>1 DEF Watched
  <2> QED
      BY <1>3, <2>2, <2>3
<1>4. ASSUME NEW n \in Located, Rebind(n), Works, Stay,
             job' = [job EXCEPT !.at = "commit", !.next = n, !.sha = bytes[dir[n]]]
      PROVE  Watched'
  <2>1. Exists(n)
    <3>1. binding.file # None
        BY <1>0, Parts, Constants
    <3> QED
        BY <1>4, <3>1 DEF Located, BoundNames, Exists
  <2>2. job'.next = n /\ job'.sha = bytes[dir[n]]
      BY <1>2, <1>4 DEF Jobs
  <2>3. Holds(job.next, job.sha)'
      BY <1>1, <2>1, <2>2 DEF Holds, Exists
  <2>4. Kind = "watch" => Calls
      BY <1>0, <1>2, HeadOf DEF Calls, Typed, QueueTyped
  <2>5. Kind \in {"locate", "active"} /\ ~Heard /\ Shown /\ ~rough => Exists(mem.active)
      BY <1>4 DEF Watched
  <2>6. Calls' = Calls /\ Heard' = Heard /\ Shown' = Shown /\ rough' = rough
      BY <1>1, <1>4 DEF Calls, Heard, Unprobed, Exists, Shown, Stay, Works
  <2>7. Exists(mem.active)' <=> Exists(mem.active)
      BY <1>1 DEF Exists
  <2>8. Kind = "watch" => Heard
      BY <2>4 DEF Heard
  <2> QED
      BY <1>2, <2>3, <2>5, <2>6, <2>7, <2>8 DEF Watched
<1> QED
    BY <1>3, <1>4 DEF AskBridge

LEMMA WatchedCommit ==
    ASSUME Own, Watched, Commit
    PROVE  Watched'
<1>0. Typed /\ Protocol
    BY DEF Own
<1>1. At("commit") /\ UNCHANGED <<dir, bytes, binding>>
    BY DEF Commit, Quietly, folder
<1>2. /\ queue # <<>> /\ job.at = "commit" /\ job \in Jobs /\ job.prior \in Names
      /\ Kind \in {"watch", "locate", "active"}
      /\ Kind # "locate" => job.prior = mem.active
      /\ job.next \in Names /\ job.sha \in Bytes
    BY <1>0, <1>1, FollowStarts
<1>3. ASSUME Unanswered, WatchKeeps
      PROVE  /\ job'.at # "commit"
             /\ Shown' => Shown
             /\ Calls /\ Kind # "watch" => Calls'
  <2>1. CASE Kind = "active"
    <3>1. Goto("read") /\ Stay
        BY <1>3, <2>1 DEF Unanswered
    <3> QED
        BY <1>2, <3>1 DEF Goto, Jobs, Stay, Shown, Calls
  <2>2. CASE Kind # "active"
    <3>1. Refuse
        BY <1>3, <2>2 DEF Unanswered
    <3> QED
        BY <1>0, <1>2, <1>3, <3>1, RefusedHears
  <2> QED
      BY <2>1, <2>2
<1>4. CASE ~Holds(job.next, job.sha) /\ Unanswered /\ Works
           /\ UNCHANGED main /\ UNCHANGED watch
  <2>1. WatchKeeps /\ mem' = mem
      BY <1>0, <1>4, WatchStays DEF main
  <2>2. /\ job'.at # "commit"
        /\ Shown' => Shown
        /\ Calls /\ Kind # "watch" => Calls'
      BY <1>3, <1>4, <2>1
  <2>3. CASE Kind = "watch"
    <3>1. Shown' => watch'.due \/ watch'.unseen
        BY <1>2, <1>4, <2>2, <2>3 DEF Watched
    <3> QED
        BY <2>2, <3>1 DEF Watched, Heard
  <2>4. CASE Kind # "watch"
    <3>1. Calls => Calls'
        BY <2>2, <2>4
    <3>2. ~rough' => ~rough
        BY <1>4 DEF Works
    <3> QED
        BY <1>1, <1>4, <2>1, <2>2, <3>1, <3>2, WatchedStays
  <2> QED
      BY <2>3, <2>4
<1>5. ASSUME Holds(job.next, job.sha),
             \/ /\ Follows(job.next)
                /\ mem' = [mem EXCEPT !.active = job.next] /\ Watch(job.next)
             \/ ~Follows(job.next) /\ UNCHANGED mem /\ UNCHANGED watch,
             \/ /\ Works
                /\ IF Kind = "active"
                   THEN /\ job' = [job EXCEPT !.at = "read", !.prior = job.next]
                        /\ Stay
                   ELSE Succeed(job.next, job.sha)
             \/ Fails /\ Unanswered
      PROVE  Watched'
  <2>0. WatchKeeps
      BY <1>0, <1>2, <1>5, WatchesName, WatchStays
  <2>1. CASE Fails /\ Unanswered
    <3>1. job'.at # "commit" /\ rough'
        BY <1>3, <2>0, <2>1 DEF Fails
    <3> QED
        BY <3>1 DEF Watched
  <2>2. ASSUME Works, job'.at # "commit", Follows(job.next)
        PROVE  Watched'
    <3>1. mem'.active = job.next
        BY <1>0, <1>5, <2>2 DEF Typed, MainTyped, Places
    <3>2. Exists(mem.active)'
        BY <1>1, <1>5, <3>1 DEF Exists, Holds
    <3> QED
        BY <2>2, <3>2 DEF Watched
  <2>3. CASE /\ Works /\ Kind = "active"
             /\ job' = [job EXCEPT !.at = "read", !.prior = job.next]
    <3>1. Follows(job.next)
        BY <1>2, <2>3 DEF Follows
    <3>2. job'.at # "commit"
        BY <1>2, <2>3 DEF Jobs
    <3> QED
        BY <2>2, <2>3, <3>1, <3>2
  <2>4. CASE Works /\ Kind # "active" /\ Succeed(job.next, job.sha)
    <3>1. job'.at # "commit" /\ queue' = Tail(queue)
        BY <2>4, Rests DEF Succeed, Done
    <3>2. CASE Follows(job.next)
        BY <2>2, <2>4, <3>1, <3>2
    <3>3. CASE ~Follows(job.next)
      <4>1. Kind = "locate" /\ mem' = mem /\ watch' = watch
          BY <1>2, <1>5, <2>4, <3>3 DEF Follows
      <4>2. Calls => Calls'
          BY <1>0, <1>2, <3>1, <4>1, CallsKept
      <4>3. Shown' => Shown
          BY <1>0, <1>2, <4>1, HeadAwaited DEF Shown, Typed, Protocol
      <4>4. ~rough' => ~rough
          BY <2>4 DEF Works
      <4> QED
          BY <1>1, <3>1, <4>1, <4>2, <4>3, <4>4, WatchedStays
    <3> QED
        BY <3>2, <3>3
  <2> QED
      BY <1>5, <2>1, <2>3, <2>4
<1> QED
    BY <1>4, <1>5 DEF Commit

LEMMA WatchedRead ==
    ASSUME Own, Watched, ReadActive
    PROVE  Watched'
<1>0. Typed /\ Protocol
    BY DEF Own
<1>1. At("read") /\ UNCHANGED <<dir, bytes, mem>>
    BY DEF ReadActive, Quietly, folder, main
<1>2. /\ queue # <<>> /\ job.at = "read" /\ job.prior \in Names
      /\ Kind = "active"
    BY <1>0, <1>1, FollowStarts
<1>3. CASE Exists(job.prior) /\ Works /\ Succeed(job.prior, bytes[dir[job.prior]])
  <2>1. job'.at # "commit"
      BY <1>3, Rests DEF Succeed, Done
  <2>2. ~rough' => Exists(mem.active)'
      BY <1>0, <1>1, <1>2, <1>3 DEF Works, Protocol, JobNames, Exists
  <2> QED
      BY <2>1, <2>2 DEF Watched
<1>4. CASE Refuse /\ (Works \/ Fails) /\ UNCHANGED binding /\ UNCHANGED watch
  <2>1. WatchKeeps
      BY <1>0, <1>4, WatchStays
  <2>2. /\ Calls => Calls'
        /\ Shown' => Shown
        /\ job'.at # "commit"
      BY <1>0, <1>2, <1>4, <2>1, RefusedHears
  <2>3. ~rough' => ~rough
      BY <1>4 DEF Works, Fails
  <2> QED
      BY <1>1, <1>4, <2>2, <2>3, WatchedStays
<1> QED
    BY <1>3, <1>4 DEF ReadActive

LEMMA WatchedBegin ==
    ASSUME Own, Watched, BeginWatch \/ BeginLocate \/ BeginActive
    PROVE  Watched'
<1>0. Typed /\ Protocol /\ job \in Jobs
    BY DEF Own, Typed, JobTyped
<1>1. UNCHANGED <<dir, bytes, binding, mem, watch, rough>>
    BY DEF BeginWatch, BeginLocate, BeginActive, Quietly, folder, main
<1>2. CASE Stay /\ job'.at # "commit"
  <2>1. /\ Calls => Calls'
        /\ Shown' => Shown
      BY <1>2 DEF Stay, Calls, Shown
  <2> QED
      BY <1>1, <1>2, <2>1, WatchedStays
<1>3. CASE Exists(mem.active) /\ Done
  <2>1. Exists(mem.active)' /\ job'.at # "commit"
      BY <1>1, <1>3, Rests DEF Exists, Done
  <2> QED
      BY <2>1 DEF Watched
<1>4. CASE BeginWatch
    BY <1>0, <1>2, <1>3, <1>4 DEF BeginWatch, Jobs
<1>5. CASE BeginLocate
    BY <1>0, <1>2, <1>5 DEF BeginLocate, Jobs
<1>6. CASE BeginActive
  <2>1. job'.at \in {"read", "ask"} /\ Stay
      BY <1>0, <1>6 DEF BeginActive, Jobs
  <2> QED
      BY <1>2, <2>1
<1> QED
    BY <1>4, <1>5, <1>6

LEMMA WatchedProbe ==
    ASSUME Own, Watched, Probe
    PROVE  Watched'
<1>1. /\ watch \in Watches
      /\ watch' = [watch EXCEPT !.missing = ~@, !.due = TRUE, !.unseen = FALSE]
    BY DEF Own, Typed, WatchTyped, Probe
<1>2. watch'.due
    BY <1>1 DEF Watches
<1> QED
    BY <1>2, WatchedNoticed DEF Noticed

LEMMA WatchedEmit ==
    ASSUME Own, Watched, Emit
    PROVE  Watched'
<1>0. Typed /\ Protocol
    BY DEF Own
<1> DEFINE x == [kind |-> "watch", path |-> watch.name, gen |-> watch.gen]
<1>1. /\ \A i \in DOMAIN queue : queue[i].kind # "watch"
      /\ queue' = Append(queue, x) /\ UNCHANGED job
    BY DEF Emit
<1>2. x \in Item /\ x.kind = "watch"
    BY <1>0 DEF Item, Kinds, Typed, WatchTyped, Watches
<1> HIDE DEF x
<1>3. /\ Len(queue) + 1 \in DOMAIN queue' /\ queue'[Len(queue) + 1] = x
      /\ queue # <<>> => Head(queue') = Head(queue)
    BY <1>0, <1>1, <1>2, AppendOf DEF Typed, QueueTyped
<1>4. Heard'
    BY <1>2, <1>3 DEF Heard, Calls
<1>5. job'.at = "commit" => Kind' # "watch"
  <2>1. job.at = "commit" => queue # <<>>
      BY <1>0 DEF Protocol, JobFits, Resting
  <2>2. queue # <<>> => Kind # "watch"
      BY <1>0, <1>1, HeadOf DEF Typed, QueueTyped
  <2> QED
      BY <1>1, <1>3, <2>1, <2>2 DEF Kind
<1> QED
    BY <1>4, <1>5 DEF Watched

LEMMA WatchedPage ==
    ASSUME Own, Watched, PageStep
    PROVE  Watched'
<1>0. Typed /\ Protocol /\ page \in Pages
    BY DEF Own, Typed, PageTyped
<1>1. ASSUME Aside, page.phase \in {"idle", "settling"},
             \/ UNCHANGED queue
             \/ \E k \in {"locate", "rename"} :
                    /\ queue' = Append(queue, Ask(k))
                    /\ Awaits(page'.phase, k) /\ page'.phase # "opening"
      PROVE  Watched'
  <2>1. UNCHANGED <<dir, bytes, binding, mem, watch, rough, job>>
      BY <1>1 DEF Aside, folder, main
  <2>2. Shown
      BY <1>1 DEF Shown
  <2>3. /\ Calls => Calls'
        /\ queue # <<>> => Kind' = Kind
    <3>1. CASE UNCHANGED queue
        BY <3>1 DEF Calls, Kind
    <3>2. ASSUME NEW k \in {"locate", "rename"}, queue' = Append(queue, Ask(k)),
                 Awaits(page'.phase, k), page'.phase # "opening"
          PROVE  /\ Calls => Calls'
                 /\ queue # <<>> => Kind' = Kind
        BY <1>0, <1>1, <3>2, PageAsks
    <3> QED
        BY <1>1, <3>1, <3>2
  <2>4. job'.at # "commit" \/ (job' = job /\ Kind' = Kind)
    <3>1. queue = <<>> => job.at = "start"
        BY <1>0 DEF Protocol, JobFits, Resting
    <3> QED
        BY <2>1, <2>3, <3>1
  <2> QED
      BY <2>1, <2>2, <2>3, <2>4, WatchedStays
<1>2. ASSUME NEW n \in Names, Rename(n)
      PROVE  Watched'
  <2>1. page'.phase = "locating"
      BY <1>0, <1>2 DEF Rename, Pages
  <2>2. Awaits(page'.phase, "locate") /\ page'.phase # "opening"
      BY <2>1 DEF Awaits
  <2> QED
      BY <1>1, <1>2, <2>2 DEF Rename
<1>3. CASE TakeHint
  <2>1. \/ UNCHANGED queue
        \/ /\ page' = [page EXCEPT !.hint = None, !.phase = "locating"]
           /\ queue' = Append(queue, Ask("locate"))
      BY <1>3 DEF TakeHint
  <2>2. CASE UNCHANGED queue
      BY <1>1, <1>3, <2>2 DEF TakeHint
  <2>3. CASE /\ page' = [page EXCEPT !.hint = None, !.phase = "locating"]
             /\ queue' = Append(queue, Ask("locate"))
    <3>1. page'.phase = "locating"
        BY <1>0, <2>3 DEF Pages
    <3>2. Awaits(page'.phase, "locate") /\ page'.phase # "opening"
        BY <3>1 DEF Awaits
    <3> QED
        BY <1>1, <1>3, <2>3, <3>2 DEF TakeHint
  <2> QED
      BY <2>1, <2>2, <2>3
<1>4. CASE Settle
  <2>1. \/ UNCHANGED queue
        \/ /\ page' = [page EXCEPT !.phase = "renaming"]
           /\ queue' = Append(queue, Ask("rename"))
      BY <1>4 DEF Settle
  <2>2. CASE UNCHANGED queue
      BY <1>1, <1>4, <2>2 DEF Settle
  <2>3. CASE /\ page' = [page EXCEPT !.phase = "renaming"]
             /\ queue' = Append(queue, Ask("rename"))
    <3>1. page'.phase = "renaming"
        BY <1>0, <2>3 DEF Pages
    <3>2. Awaits(page'.phase, "rename") /\ page'.phase # "opening"
        BY <3>1 DEF Awaits
    <3> QED
        BY <1>1, <1>4, <2>3, <3>2 DEF Settle
  <2> QED
      BY <2>1, <2>2, <2>3
<1>5. ASSUME NEW sha \in Bytes, Save(sha)
      PROVE  Watched'
  <2>1. FolderChanges
      BY <1>5 DEF Save
  <2> QED
      BY <1>0, <2>1, FolderNoticed, WatchedNoticed DEF Typed, Protocol
<1> QED
    BY <1>2, <1>3, <1>4, <1>5 DEF PageStep

LEMMA WatchedStep ==
    ASSUME Own, Watched, [Next]_vars
    PROVE  Watched'
<1>0. Typed /\ Protocol
    BY DEF Own
<1>1. CASE Others
  <2>1. FolderChanges
      BY <1>1 DEF Others, MoveAway, PutAnother, WriteInPlace, Delete, BringBack, Changes
  <2> QED
      BY <1>0, <2>1, FolderNoticed, WatchedNoticed DEF Typed, Protocol
<1>2. CASE Crash
  <2>1. page'.phase = "opening"
      BY <1>2 DEF Crash, Opened
  <2> QED
      BY <2>1 DEF Watched, Shown
<1>3. CASE UNCHANGED vars
  <2>1. /\ UNCHANGED <<dir, bytes, binding, mem, watch, rough, job>>
        /\ UNCHANGED <<queue, page>>
      BY <1>3 DEF vars
  <2>2. /\ Calls => Calls'
        /\ Shown' => Shown
        /\ Kind' = Kind
      BY <2>1 DEF Calls, Shown, Kind
  <2> QED
      BY <2>1, <2>2, WatchedStays
<1> QED
    BY <1>1, <1>2, <1>3, RenameWatched, WatchedProbe, WatchedEmit, WatchedBegin, WatchedAsk,
       WatchedCommit, WatchedRead, WatchedPage DEF Next, FollowStep

(* Memory and disk, and the failures. *)
LEMMA FailedStep ==
    ASSUME Typed, [Next]_vars
    PROVE  /\ \/ rough' \/ saved' = mem'
              \/ UNCHANGED main /\ (~rough' => ~rough)
           /\ \/ count'.faults > 0
              \/ /\ count'.faults = count.faults
                 /\ (rough' => rough) /\ (blind' => blind)
<1>1. /\ count.faults \in Nat
      /\ count \in [others : 0..MaxExternal, faults : 0..MaxFaults,
                    crashes : 0..MaxCrashes, renames : 0..MaxRenames,
                    saves : 0..MaxSaves]
    BY DEF Typed, CountTyped
<1>2. Fails => rough' /\ count'.faults > 0
    BY <1>1 DEF Fails, Counts
<1>3. Works => rough' = rough /\ count' = count
    BY DEF Works
<1>4. CASE RenameStep
  <2>1. Works \/ Fails
      BY <1>4 DEF RenameStep, BeginRename, Recover, Prepare, LinkTarget, CheckTarget,
         UnlinkSource, Reread, Relink, Rollback, Finalize, RebindWorkspace,
         Clear, Abandon
  <2>2. blind' = blind \/ Fails
      BY <1>4 DEF RenameStep, BeginRename, Recover, Prepare, LinkTarget, CheckTarget,
         UnlinkSource, Reread, Relink, Rollback, Finalize, RebindWorkspace, Calm
  <2>3. Fails \/ saved' = mem' \/ UNCHANGED main
      BY <1>4 DEF RenameStep, BeginRename, Recover, Prepare, LinkTarget, CheckTarget,
         UnlinkSource, Reread, Relink, Rollback, Finalize, RebindWorkspace,
         Clear, Abandon, Keep
  <2> QED
      BY <1>2, <1>3, <2>1, <2>2, <2>3
<1>5. CASE FollowStep
  <2>1. Works \/ Fails
      BY <1>5 DEF FollowStep, Probe, Emit, BeginWatch, BeginLocate, BeginActive, AskBridge,
         Commit, ReadActive, Works
  <2>2. blind' = blind
      BY <1>5 DEF FollowStep, Probe, Emit, BeginWatch, BeginLocate, BeginActive, AskBridge,
         Commit, ReadActive, Quietly
  <2>3. Fails \/ saved' = mem' \/ UNCHANGED main
      BY <1>5 DEF FollowStep, Probe, Emit, BeginWatch, BeginLocate, BeginActive, AskBridge,
         Commit, ReadActive
  <2> QED
      BY <1>2, <1>3, <2>1, <2>2, <2>3
<1>6. CASE PageStep \/ Others
  <2>1. UNCHANGED main /\ UNCHANGED <<rough, blind>>
      BY <1>6 DEF PageStep, Others, Rename, TakeHint, Settle, Save, Aside, MoveAway,
         PutAnother, WriteInPlace, Delete, BringBack, Changes
  <2>2. \/ UNCHANGED count
        \/ \E f \in {"renames", "saves", "others"} : Counts(f)
      BY <1>6 DEF PageStep, Others, Rename, TakeHint, Settle, Save, MoveAway,
         PutAnother, WriteInPlace, Delete, BringBack, Changes
  <2>3. count'.faults = count.faults
      BY <1>1, <2>2 DEF Counts
  <2> QED
      BY <2>1, <2>3
<1>7. CASE Crash
  <2>1. mem' = saved /\ saved' = saved /\ rough' = FALSE /\ blind' = blind
        /\ Counts("crashes")
      BY <1>7 DEF Crash
  <2>2. count'.faults = count.faults
      BY <1>1, <2>1 DEF Counts
  <2> QED
      BY <2>1, <2>2
<1>8. CASE UNCHANGED vars
    BY <1>8 DEF vars, main
<1> QED
    BY <1>4, <1>5, <1>6, <1>7, <1>8 DEF Next

LEMMA FailuresStep ==
    ASSUME Typed, SavedFollows, FaultsCount, [Next]_vars
    PROVE  SavedFollows' /\ FaultsCount'
<1>1. SavedFollows'
    BY FailedStep DEF SavedFollows, main
<1>2. FaultsCount'
    BY FailedStep DEF FaultsCount
<1> QED
    BY <1>1, <1>2

-----------------------------------------------------------------------------
(* The beginning.                                                           *)
LEMMA InitHolds ==
    Init => Own /\ Sparing /\ Watched /\ SavedFollows /\ FaultsCount
<1> SUFFICES ASSUME Init PROVE Own /\ Sparing /\ Watched /\ SavedFollows /\ FaultsCount
    OBVIOUS
<1>1. Own
    BY InitFits DEF Own
<1>2. job.at = "start" /\ lost = {} /\ saved = mem /\ ~rough /\ ~blind
    BY DEF Init, Resting
<1>3. Sparing
    BY <1>2 DEF Sparing
<1>4. Exists(mem.active)
    BY Constants DEF Init, Exists
<1> QED
    BY <1>1, <1>2, <1>3, <1>4 DEF Watched, SavedFollows, FaultsCount

LEMMA PartStep ==
    ASSUME Own, Sparing, Watched, SavedFollows, FaultsCount, [Next]_vars
    PROVE  (Own /\ Sparing /\ Watched /\ SavedFollows /\ FaultsCount)'
BY OwnStep, SparingStep, WatchedStep, FailuresStep DEF Own

(* A queue has one call of each of at most three kinds.                     *)
LEMMA ShortQueue ==
    ASSUME QueueTyped, QueueFits
    PROVE  Len(queue) <= 3
<1>1. Len(queue) \in Nat /\ DOMAIN queue = 1..Len(queue)
    BY LenProperties DEF QueueTyped
<1>2. SUFFICES ASSUME Len(queue) > 3 PROVE FALSE
    BY <1>1
<1>3. /\ {1, 2, 3, 4} \subseteq DOMAIN queue
      /\ \A i \in {1, 2, 3, 4} : queue[i].kind \in Kinds
  <2>1. {1, 2, 3, 4} \subseteq DOMAIN queue
      BY <1>1, <1>2
  <2>2. \A i \in DOMAIN queue : queue[i] \in Item
      BY <1>1, ElementOfSeq DEF QueueTyped
  <2> QED
      BY <2>1, <2>2 DEF Item
<1>4. \A i \in {1, 2, 3, 4} :
          queue[i].kind # "watch" => Awaits(page.phase, queue[i].kind)
    BY <1>3 DEF QueueFits
<1>5. \A i, j \in {1, 2, 3, 4} : queue[i].kind = queue[j].kind => i = j
    BY <1>3 DEF QueueFits
<1>6. \E k \in Kinds, l \in Kinds : \A i \in {1, 2, 3, 4} : queue[i].kind \in {"watch", k, l}
    BY <1>3, <1>4 DEF Awaits, Kinds
<1> QED
    BY <1>5, <1>6

-----------------------------------------------------------------------------
(* The folder, when nobody else changes it.                                 *)
LEMMA NamedFacts ==
    ASSUME Typed, World
    PROVE  /\ Named \subseteq Names /\ Named # {}
           /\ \A n \in Names : Exists(n) <=> n \in Named
           /\ \A n \in Named : dir[n] = binding.file
           /\ \A n \in Named : bytes[dir[n]] = binding.sha
           /\ \A n \in Names, s \in Bytes : Holds(n, s) <=> n \in Named /\ s = binding.sha
           /\ BoundNames = Named
           /\ \A n \in Names : Named = {n} => Located = {n}
           /\ \A n \in Located : n \in Names /\ Named = {n}
           /\ Located = {} => ~Alone
<1>1. binding.file # None /\ binding.name \in Names /\ binding.sha \in Bytes
    BY Parts, Constants
<1>2. /\ Named \subseteq Names
      /\ \A n \in Names : Exists(n) <=> n \in Named
    BY DEF Named
<1>3. \A n \in Named : dir[n] = binding.file
    BY DEF World, Named, Exists
<1>4. BoundNames = Named
    BY <1>1, <1>3 DEF BoundNames, Named, Exists
<1>5. \A n \in Named : bytes[dir[n]] = binding.sha
    BY <1>3 DEF World
<1>6. \A n \in Names, s \in Bytes : Holds(n, s) <=> n \in Named /\ s = binding.sha
    BY <1>2, <1>5 DEF Holds
<1>7. \A n \in Names : Named = {n} => Located = {n}
  <2> SUFFICES ASSUME NEW n \in Names, Named = {n} PROVE Located = {n}
      OBVIOUS
  <2>1. CASE Exists(binding.name)
      BY <1>1, <1>2, <1>4, <2>1 DEF Located
  <2>2. CASE ~Exists(binding.name)
    <3>1. Cardinality({n}) = 1
        BY FS_Singleton
    <3> QED
        BY <1>4, <2>2, <3>1 DEF Located
  <2> QED
      BY <2>1, <2>2
<1>8. \A n \in Located : n \in Names /\ Named = {n}
  <2> SUFFICES ASSUME NEW n \in Located PROVE Named = {n}
      BY LocatedNames, <1>1
  <2>1. CASE Exists(binding.name)
      BY <1>1, <1>2, <1>4, <2>1 DEF Located
  <2>2. CASE ~Exists(binding.name)
    <3>1. n \in Named /\ Cardinality(Named) = 1
        BY <1>4, <2>2 DEF Located
    <3>2. IsFiniteSet(Named)
        BY <1>2, Constants, FS_Subset
    <3>3. PICK x : Named = {x}
        BY <3>1, <3>2, FS_Singleton
    <3> QED
        BY <3>1, <3>3
  <2> QED
      BY <2>1, <2>2
<1>9. Located = {} => ~Alone
    BY <1>7 DEF Alone
<1> QED
    BY <1>1, <1>2, <1>3, <1>4, <1>5, <1>6, <1>7, <1>8, <1>9 DEF World

LEMMA WorldStays ==
    ASSUME World, UNCHANGED <<dir, bytes>>,
           binding'.file = binding.file, binding'.sha = binding.sha,
           page'.sha = page.sha, ~page'.conflict, touched' \in {touched, {}}
    PROVE  World' /\ Named' = Named /\ (Alone' <=> Alone)
<1>1. Named' = Named
    BY DEF Named, Exists
<1> QED
    BY <1>1 DEF World, Alone

LEMMA RebindKeeps ==
    ASSUME Typed, World, NEW n \in Names, Rebind(n)
    PROVE  binding'.file = binding.file /\ binding'.sha = binding.sha
<1>1. binding \in [file : 1..Len(bytes), name : Names, sha : Bytes]
    BY DEF Typed, FolderTyped
<1> DEFINE f == IF Holds(n, binding.sha) THEN dir[n] ELSE binding.file
<1>2. f = binding.file
    BY <1>1, NamedFacts
<1>3. binding' = [binding EXCEPT !.name = n, !.file = f]
    BY DEF Rebind
<1> HIDE DEF f
<1> QED
    BY <1>1, <1>2, <1>3

LEMMA LinkNamed ==
    ASSUME Typed, Protocol, World, NEW n \in Names, NEW m \in Named, Link(n, dir[m]),
           UNCHANGED <<bytes, binding, touched>>,
           page'.sha = page.sha, ~page'.conflict
    PROVE  World' /\ Named' = Named \cup {n}
<1>1. m \in Names /\ dir[m] = binding.file /\ binding.file # None
    BY NamedFacts, Parts, Constants
<1>2. dir[m] \in (1..Len(bytes)) \cup {None}
    BY <1>1, Parts
<1>3. dir'[n] = binding.file /\ \A k \in Names \ {n} : dir'[k] = dir[k]
    BY <1>1, <1>2, LinkTyped
<1>4. Named' = Named \cup {n}
    BY <1>1, <1>3 DEF Named, Exists
<1> QED
    BY <1>3, <1>4 DEF World

LEMMA UnlinkNamed ==
    ASSUME Typed, Protocol, World, NEW n \in Named, Named # {n}, Unlink(n),
           UNCHANGED <<bytes, binding, touched>>,
           page'.sha = page.sha, ~page'.conflict
    PROVE  World' /\ Named' = Named \ {n}
<1>1. n \in Names /\ Exists(n)
    BY DEF Named
<1>2. dir'[n] = None /\ \A k \in Names \ {n} : dir'[k] = dir[k]
    BY <1>1, UnlinkTyped
<1>3. Named' = Named \ {n}
    BY <1>1, <1>2 DEF Named, Exists
<1>4. Named' # {}
    BY <1>3
<1> QED
    BY <1>2, <1>3, <1>4 DEF World

(* Neither memory nor disk is written, nor the folder. *)
LEMMA PlacedStays ==
    ASSUME Placed(mem), Placed(saved), Named' = Named,
           binding'.sha = binding.sha, blind' = blind, UNCHANGED main
    PROVE  Placed(mem)' /\ Placed(saved)'
BY DEF Placed, main

(* A move that ends with one name: memory and disk may forget it. *)
LEMMA PlacedCleared ==
    ASSUME MainTyped, NEW n, Named' = {n}, blind' = blind,
           binding'.sha = binding.sha,
           mem' = [mem EXCEPT !.pending = None], saved' \in {saved, mem'},
           blind \/ mem.active = n, Placed(saved)'
                                    \/ saved' = mem'
    PROVE  Placed(mem)' /\ Placed(saved)'
<1>1. mem'.pending = None /\ mem'.active = mem.active
    BY DEF MainTyped, Places
<1> QED
    BY <1>1 DEF Placed

-----------------------------------------------------------------------------
(* Tracked: where a step leaves the head of the queue.                      *)
LEMMA FirstOf ==
    ASSUME NEW q \in Seq(Item), q # <<>>
    PROVE  1 \in DOMAIN q /\ Head(q) = q[1]
<1>1. Len(q) \in Nat /\ DOMAIN q = 1..Len(q) /\ Len(q) > 0
    BY LenProperties, EmptySeq
<1> QED
    BY <1>1

(* No launch is asked for again. *)
LEMMA NoLaunchLeft ==
    ASSUME Typed, Protocol, queue # <<>>, WatchKeeps,
           Kind = "watch" => job.prior \in Names,
           Refuse \/ (Done /\ Course' /\ (page'.phase = "opening" => Kind = "launch"))
    PROVE  queue' # <<>> => Kind' # "launch"
<1>1. Course' /\ (page'.phase = "opening" => Kind = "launch")
  <2>1. CASE Refuse
      BY <2>1, Refused, HeadAwaited DEF Typed, Protocol, Kinds, QueueFits
  <2> QED
      BY <2>1
<1>2. /\ queue' \in Seq(Item)
      /\ \A i \in DOMAIN queue' : queue'[i].kind = "launch" =>
             Awaits(page'.phase, "launch")
    BY <1>1 DEF Course, QueueTyped, QueueFits
<1>3. SUFFICES ASSUME queue' # <<>>, Kind' = "launch" PROVE FALSE
    OBVIOUS
<1>4. 1 \in DOMAIN queue' /\ Head(queue') = queue'[1]
    BY <1>2, <1>3, FirstOf
<1>5. page'.phase = "opening"
    BY <1>2, <1>3, <1>4 DEF Kind, Awaits
<1>6. Kind = "launch" /\ Done
    BY <1>1, <1>5 DEF Refuse
<1>7. page'.phase = page.phase
    BY <1>1, <1>5, <1>6, HeadAwaited DEF Typed, Protocol
<1>8. \A i \in DOMAIN queue' : queue'[i].kind # "launch"
    BY <1>6, <1>7, QueueDone DEF Typed, Protocol, Done
<1> QED
    BY <1>3, <1>4, <1>8 DEF Kind

LEMMA TrackRests ==
    ASSUME World', Placed(mem)', Placed(saved)', job' = Resting,
           queue' # <<>> => Kind' # "launch",
           Renaming' => Named' = {page'.path} /\ mem'.pending = saved'.pending,
           page'.phase = "checking" => Alone' \/ dir'[page'.path] # None
    PROVE  Track'
<1>1. job'.at = "start" /\ job'.retrying = FALSE
    BY DEF Resting
<1>2. Steps' /\ Looks' /\ WillKnow'
    BY <1>1 DEF Steps, Looks, WillKnow, Taking
<1>3. Ready'
    BY <1>1 DEF Ready
<1>4. Told'
    BY DEF Told, Exists
<1> QED
    BY <1>2, <1>3, <1>4 DEF Track

LEMMA TrackMoves ==
    ASSUME World', Placed(mem)', Placed(saved)', Steps', Stay,
           job'.at \in (Taking \ {"recover"}) \cup {"rebind"},
           page.phase # "checking"
    PROVE  Track'
<1>1. Ready' /\ Looks'
    BY DEF Ready, Looks, Taking
<1>2. WillKnow' /\ Told'
    BY DEF WillKnow, Told, Stay
<1> QED
    BY <1>1, <1>2 DEF Track

LEMMA TrackGoesOn ==
    ASSUME Typed, Protocol, World', Placed(mem)', Placed(saved)',
           queue # <<>>, Kind \in {"launch", "rename"}, GoOn, WatchKeeps,
           Kind = "rename" => Alone'
    PROVE  Track'
<1>1. Course' /\ page' = page
    BY GoesOn
<1>2. CASE Kind = "launch"
  <2>1. job' = Resting /\ Done /\ page.phase = "opening"
      BY <1>2, GoesOn, HeadAwaited DEF Typed, Protocol
  <2>2. queue' # <<>> => Kind' # "launch"
      BY <1>1, <1>2, <2>1, NoLaunchLeft
  <2>3. ~Renaming' /\ page'.phase # "checking"
      BY <1>1, <2>1 DEF Renaming
  <2> QED
      BY <2>1, <2>2, <2>3, TrackRests
<1>3. CASE Kind = "rename"
  <2>1. /\ job' = [Resting EXCEPT !.at = "prepare"] /\ queue' = queue
        /\ page.phase = "renaming"
      BY <1>3, GoesOn, HeadAwaited DEF Typed, Protocol
  <2>2. job'.at = "prepare"
      BY <2>1 DEF Resting
  <2>3. Steps' /\ Ready' /\ Looks' /\ WillKnow'
      BY <1>3, <2>2 DEF Steps, Ready, Looks, WillKnow, Taking
  <2>4. Told'
      BY <1>1, <2>1 DEF Told
  <2> QED
      BY <2>3, <2>4 DEF Track
<1> QED
    BY <1>2, <1>3

LEMMA TrackRefuses ==
    ASSUME Typed, Protocol, World', Placed(mem)', Placed(saved)',
           queue # <<>>, Kind \in {"launch", "rename"}, Refuse, WatchKeeps,
           Kind = "rename" => Alone' \/ dir'[page.path] # None
    PROVE  Track'
<1>1. /\ job' = Resting /\ page'.path = page.path
      /\ Kind = "launch" => page'.phase = "opening"
      /\ Kind = "rename" => page'.phase = "checking"
    BY Refused, HeadAwaited DEF Typed, Protocol
<1>2. queue' # <<>> => Kind' # "launch"
    BY NoLaunchLeft
<1>3. ~Renaming'
    BY <1>1 DEF Renaming
<1> QED
    BY <1>1, <1>2, <1>3, TrackRests

-----------------------------------------------------------------------------
(* Tracked: the move, step by step.                                         *)
LEMMA MoveTracked ==
    ASSUME Typed, Protocol, Track, NEW l \in Taking, At(l)
    PROVE  /\ queue # <<>> /\ job.at = l /\ Kind \in {"launch", "rename"}
           /\ Intent \in Intents /\ Intent # None /\ mem \in Places
           /\ Intent.from \in Names /\ Intent.to \in Names
           /\ Intent.sha \in Bytes /\ Intent.from # Intent.to
           /\ MainTyped /\ IntentsMove /\ saved.pending = Intent
           /\ job \in Jobs /\ page \in Pages
           /\ Named # {} /\ Named \subseteq {Intent.from, Intent.to}
           /\ page.phase \in {"opening", "renaming"}
           /\ Kind = "rename" <=> page.phase = "renaming"
           /\ World /\ Steps /\ Placed(mem) /\ Placed(saved)
<1>1. /\ queue # <<>> /\ job.at = l /\ Kind \in {"launch", "rename"}
      /\ Intent \in Intents /\ Intent # None /\ mem \in Places
      /\ Intent.from \in Names /\ Intent.to \in Names
      /\ Intent.sha \in Bytes /\ Intent.from # Intent.to
      /\ MainTyped /\ IntentsMove /\ job \in Jobs
    BY MoveStarts DEF Moving, Taking
<1>2. /\ Kind = "rename" => page.phase = "renaming"
      /\ Kind = "launch" => page.phase = "opening"
    BY <1>1, HeadAwaited DEF Typed, Protocol
<1>3. World /\ Steps /\ Placed(mem) /\ Placed(saved)
    BY DEF Track
<1>4. saved.pending = Intent
    BY <1>1, <1>3 DEF Steps, Intent
<1>5. Named \subseteq {Intent.from, Intent.to}
    BY <1>1, <1>3 DEF Placed, Intent
<1>6. Named # {} /\ page \in Pages
    BY <1>3 DEF World, Typed, PageTyped
<1> QED
    BY <1>1, <1>2, <1>3, <1>4, <1>5, <1>6

LEMMA BeginRenameTracked ==
    ASSUME Typed, Protocol, Track, BeginRename
    PROVE  Track'
<1>1. /\ queue # <<>> /\ Kind \in {"launch", "rename"} /\ job.at = "start"
      /\ UNCHANGED main /\ UNCHANGED <<dir, watch, bytes, binding, blind, touched>>
      /\ count' = count
    BY DEF BeginRename, Serves, At, AsItWas, Calm, Works
<1>2. /\ Kind = "rename" => page.phase = "renaming"
      /\ Kind = "launch" => page.phase = "opening"
    BY <1>1, HeadAwaited DEF Typed, Protocol
<1>3. World /\ Placed(mem) /\ Placed(saved)
    BY DEF Track
<1>4. page' = page
    BY <1>1, GoesOn, WatchStays DEF BeginRename, Stay
<1>5. World' /\ Named' = Named /\ (Alone' <=> Alone)
  <2>1. ~page.conflict
      BY <1>3 DEF World
  <2> QED
      BY <1>1, <1>3, <1>4, <2>1, WorldStays
<1>6. Placed(mem)' /\ Placed(saved)'
    BY <1>1, <1>3, <1>5, PlacedStays
<1>7. Kind = "rename" => Named = {page.path} /\ mem.pending = saved.pending
    BY <1>1, <1>2 DEF Track, Ready, Renaming
<1>8. Kind = "launch" => mem.pending = saved.pending
    BY <1>1 DEF Track, Ready
<1>9. CASE Intent # None
  <2>1. job' = [job EXCEPT !.at = "recover", !.retrying = TRUE] /\ Stay
      BY <1>9 DEF BeginRename
  <2>2. job'.at = "recover" /\ job'.retrying = TRUE
      BY <2>1 DEF Typed, JobTyped, Jobs
  <2>3. Steps'
      BY <1>1, <1>7, <1>8, <2>2 DEF Steps, Taking, main
  <2>4. Ready'
      BY <1>2, <1>4, <1>5, <1>7, <1>1, <2>2 DEF Ready, Renaming
  <2>5. Looks' /\ WillKnow'
      BY <2>2 DEF Looks, WillKnow
  <2>6. Told'
      BY <1>1, <1>2, <1>4 DEF Told
  <2> QED
      BY <1>5, <1>6, <2>3, <2>4, <2>5, <2>6 DEF Track
<1>10. CASE Intent = None
  <2>1. GoOn
      BY <1>10 DEF BeginRename
  <2>2. WatchKeeps
      BY <1>1, WatchStays
  <2>3. Kind = "rename" => Alone'
    <3>1. page.path \in Names
        BY DEF Typed, PageTyped, Pages
    <3> QED
        BY <1>5, <1>7, <3>1 DEF Alone
  <2> QED
      BY <1>1, <1>5, <1>6, <2>1, <2>2, <2>3, TrackGoesOn
<1> QED
    BY <1>9, <1>10

(* The folder as it was, the intent cleared or kept. *)
LEMMA ClearTracked ==
    ASSUME Typed, Protocol, World', NEW n \in Names, Named' = {n},
           queue # <<>>, Kind \in {"launch", "rename"}, WatchKeeps,
           UNCHANGED <<binding, blind>>, MainTyped, Placed(saved)',
           blind \/ mem.active = n, mem' = [mem EXCEPT !.pending = None],
           saved' \in {saved, mem'}, GoOn \/ Refuse
    PROVE  Track'
<1>1. Placed(mem)' /\ Placed(saved)'
    BY PlacedCleared
<1>2. Alone'
    BY DEF Alone
<1> QED
    BY <1>1, <1>2, TrackGoesOn, TrackRefuses

LEMMA MoveWorld ==
    ASSUME Typed, Protocol, World, queue # <<>>, Kind \in {"launch", "rename"},
           Refuse \/ GoOn \/ Stay, WatchKeeps
    PROVE  /\ page'.sha = page.sha /\ ~page'.conflict
           /\ UNCHANGED <<dir, bytes, binding>> /\ touched' \in {touched, {}}
              => World' /\ Named' = Named /\ (Alone' <=> Alone)
<1>1. page'.sha = page.sha /\ ~page'.conflict
    BY Refused, GoesOn DEF Stay, World
<1> QED
    BY <1>1, WorldStays

(* The caller is refused, and nothing else happens. *)
LEMMA KeepTracked ==
    ASSUME Typed, Protocol, Track, queue # <<>>, Kind \in {"launch", "rename"},
           Keep, UNCHANGED <<dir, watch, bytes, binding, blind>>,
           touched' \in {touched, {}},
           Kind = "rename" => Alone \/ page.path \in Named
    PROVE  Track'
<1>1. WatchKeeps /\ Refuse /\ UNCHANGED main
    BY WatchStays DEF Keep
<1>2. World /\ Placed(mem) /\ Placed(saved)
    BY DEF Track
<1>3. World' /\ Named' = Named /\ (Alone' <=> Alone)
    BY <1>1, <1>2, MoveWorld
<1>4. Placed(mem)' /\ Placed(saved)'
    BY <1>1, <1>2, <1>3, PlacedStays
<1>5. page.path \in Named => dir'[page.path] # None
    BY DEF Named, Exists
<1> QED
    BY <1>1, <1>3, <1>4, <1>5, TrackRefuses

LEMMA RecoverTracked ==
    ASSUME Typed, Protocol, Track, Recover
    PROVE  Track'
<1> DEFINE from == Intent.from
           to == Intent.to
<1>1. /\ At("recover") /\ touched' = {}
      /\ UNCHANGED <<dir, watch, lost, bytes, binding>>
    BY DEF Recover, AsItWas
<1>2. /\ queue # <<>> /\ job.at = "recover" /\ Kind \in {"launch", "rename"}
      /\ Intent # None /\ mem \in Places
      /\ from \in Names /\ to \in Names /\ Intent.sha \in Bytes /\ from # to
      /\ MainTyped /\ saved.pending = Intent
      /\ job \in Jobs /\ Named # {} /\ Named \subseteq {from, to}
      /\ page.phase \in {"opening", "renaming"}
      /\ Kind = "rename" <=> page.phase = "renaming"
      /\ World /\ Placed(mem) /\ Placed(saved)
    BY <1>1, MoveTracked DEF Taking
<1>3. /\ job.retrying /\ WatchKeeps
    BY <1>1, <1>2, WatchStays DEF Protocol, JobFits
<1>4. Kind = "rename" => Named = {page.path} /\ page.path \in Names
    BY <1>2 DEF Track, Ready, Renaming, Typed, PageTyped, Pages
<1>5. /\ \A n \in Names : Exists(n) <=> n \in Named
      /\ \A n \in Named : dir[n] = binding.file
      /\ \A n \in Names, s \in Bytes : Holds(n, s) <=> n \in Named /\ s = binding.sha
    BY <1>2, NamedFacts
<1>6. /\ {from, to} \subseteq Named => Intent.sha = binding.sha
      /\ from \in Named => blind \/ (mem.active = from /\ saved.active = from)
    BY <1>2 DEF Placed, Intent
<1> HIDE DEF from, to
<1> DEFINE Gone == \/ ~Exists(from) /\ ~Exists(to)
                   \/ Exists(from) /\ Exists(to) /\ ~SameFile(Intent)
                   \/ Exists(from) /\ ~Holds(from, Intent.sha)
           at == CASE ~Exists(from) -> "finalize"
                   [] Exists(from) /\ Exists(to) -> "check"
                   [] OTHER -> "link"
<1>7. \/ Gone /\ Clear(GoOn) /\ UNCHANGED blind
      \/ /\ ~Gone
         /\ job' = [job EXCEPT !.file = dir[from], !.at = at]
         /\ Works /\ Stay /\ UNCHANGED main /\ UNCHANGED blind
      \/ Fails /\ Keep /\ UNCHANGED blind
      \/ /\ Exists(from) /\ Fails /\ blind' = TRUE
         /\ mem' = [mem EXCEPT !.pending = None] /\ saved' = mem' /\ GoOn
    BY DEF Recover, from, to
<1>8. Gone => Named = {from} /\ from \in Named
  <2>1. ~(~Exists(from) /\ ~Exists(to))
      BY <1>2, <1>5
  <2>2. Exists(from) /\ Exists(to) => SameFile(Intent)
      BY <1>2, <1>5 DEF SameFile, from, to
  <2>3. Exists(from) /\ ~Holds(from, Intent.sha) => from \in Named /\ to \notin Named
      BY <1>2, <1>5, <1>6
  <2> QED
      BY <1>2, <2>1, <2>2, <2>3
<1>9. ~Gone => \/ at = "finalize" /\ Named = {to}
               \/ at = "check" /\ Named = {from, to} /\ Intent.sha = binding.sha
               \/ at = "link" /\ Named = {from} /\ Intent.sha = binding.sha
  <2>1. CASE ~Exists(from)
      BY <1>2, <1>5, <2>1
  <2>2. CASE Exists(from) /\ Exists(to)
      BY <1>2, <1>5, <1>6, <2>2
  <2>3. CASE Exists(from) /\ ~Exists(to)
      BY <1>2, <1>5, <2>3
  <2> QED
      BY <2>1, <2>2, <2>3
<1> HIDE DEF Gone, at
<1>10. CASE Gone /\ Clear(GoOn) /\ UNCHANGED blind
  <2>1. /\ mem' = [mem EXCEPT !.pending = None]
        /\ \/ saved' = mem' /\ GoOn
           \/ Refuse /\ UNCHANGED saved
      BY <1>10 DEF Clear
  <2>2. World' /\ Named' = Named
      BY <1>1, <1>2, <1>3, <2>1, MoveWorld
  <2>3. saved' = saved => Placed(saved)'
      BY <1>1, <1>2, <1>10, <2>2 DEF Placed
  <2>4. Placed(mem)' /\ Placed(saved)'
      BY <1>1, <1>2, <1>6, <1>8, <1>10, <2>1, <2>2, <2>3, PlacedCleared
  <2> QED
      BY <1>1, <1>2, <1>3, <1>6, <1>8, <1>10, <2>1, <2>2, <2>4, ClearTracked
<1>11. CASE /\ ~Gone /\ job' = [job EXCEPT !.file = dir[from], !.at = at]
            /\ Stay /\ UNCHANGED main /\ UNCHANGED blind
  <2>1. job'.at = at /\ job'.retrying = job.retrying
      BY <1>2, <1>11 DEF Jobs
  <2>2. World' /\ Named' = Named
      BY <1>1, <1>2, <1>3, <1>11, MoveWorld
  <2>3. Placed(mem)' /\ Placed(saved)'
      BY <1>1, <1>2, <1>11, <2>2, PlacedStays
  <2>4. Intent' = Intent /\ Kind' = Kind /\ saved' = saved /\ mem' = mem
      BY <1>11 DEF main, Intent, Stay, Kind
  <2>5. Kind = "rename" /\ at # "finalize" => from = page.path
      BY <1>2, <1>4, <1>9, <1>11
  <2>6. Steps'
      BY <1>1, <1>2, <1>3, <1>6, <1>9, <1>11, <2>1, <2>2, <2>4, <2>5
         DEF Steps, Taking, from, to, Intent, Stay
  <2>7. job'.at \in Taking \ {"recover"} /\ page.phase # "checking"
      BY <1>2, <1>9, <1>11, <2>1 DEF Taking
  <2> QED
      BY <1>11, <2>2, <2>3, <2>6, <2>7, TrackMoves
<1>12. CASE Fails /\ Keep /\ UNCHANGED blind
    BY <1>1, <1>2, <1>4, <1>12, KeepTracked DEF Alone
<1>13. CASE /\ blind' = TRUE
            /\ mem' = [mem EXCEPT !.pending = None] /\ saved' = mem' /\ GoOn
  <2>1. World' /\ Named' = Named /\ (Alone' <=> Alone)
      BY <1>1, <1>2, <1>3, <1>13, MoveWorld
  <2>2. Placed(mem)' /\ Placed(saved)'
      BY <1>2, <1>13 DEF Placed, Places
  <2> QED
      BY <1>2, <1>3, <1>4, <1>13, <2>1, <2>2, TrackGoesOn DEF Alone
<1> QED
    BY <1>7, <1>10, <1>11, <1>12, <1>13

LEMMA PrepareTracked ==
    ASSUME Typed, Protocol, Track, Prepare
    PROVE  Track'
<1>1. /\ queue # <<>> /\ job.at = "prepare" /\ touched' = {}
      /\ UNCHANGED <<dir, watch, bytes, binding, blind>>
    BY DEF Prepare, At, AsItWas, Calm
<1>2. /\ Kind = "rename" /\ page.phase = "renaming" /\ ~job.retrying
      /\ page \in Pages /\ page.goal \in Names /\ page.goal # page.path
      /\ page.path \in Names /\ page.sha \in Bytes
      /\ WatchKeeps /\ mem \in Places /\ job \in Jobs
    BY <1>1, WatchStays, HeadAwaited
       DEF Typed, Protocol, JobFits, PageFits, PageTyped, Pages, MainTyped, JobTyped
<1>3. Alone /\ World /\ Placed(mem) /\ Placed(saved)
    BY <1>1, <1>2 DEF Track, Ready, Renaming
<1> DEFINE p == [from |-> page.path, to |-> page.goal, sha |-> page.sha]
<1>4. \/ Keep
      \/ /\ mem.active = page.path /\ Holds(page.path, page.sha)
         /\ ~Exists(page.goal) /\ mem' = [mem EXCEPT !.pending = p]
         /\ \/ /\ saved' = mem' /\ Stay
               /\ job' = [job EXCEPT !.at = "link", !.file = dir[page.path]]
            \/ Refuse /\ UNCHANGED saved
    BY DEF Prepare
<1>5. p # None /\ p.from = page.path /\ p.to = page.goal /\ p.sha = binding.sha
    BY <1>2, <1>3, Constants DEF Intents, World
<1> HIDE DEF p
<1>6. CASE Keep
    BY <1>1, <1>2, <1>3, <1>6, KeepTracked
<1>7. ASSUME mem.active = page.path, Holds(page.path, page.sha),
             ~Exists(page.goal), mem' = [mem EXCEPT !.pending = p],
             \/ /\ saved' = mem' /\ Stay
                /\ job' = [job EXCEPT !.at = "link", !.file = dir[page.path]]
             \/ Refuse /\ UNCHANGED saved
      PROVE  Track'
  <2>1. Named = {page.path} /\ page.goal \notin Named
      BY <1>2, <1>3, <1>7, NamedFacts DEF Alone
  <2>2. World' /\ Named' = Named /\ (Alone' <=> Alone)
      BY <1>1, <1>2, <1>3, <1>7, MoveWorld
  <2>3. mem'.pending = p /\ mem'.active = page.path
      BY <1>2, <1>7 DEF Places
  <2>4. Placed(mem)'
      BY <1>2, <1>5, <2>1, <2>2, <2>3 DEF Placed
  <2>5. Placed(saved)'
    <3>1. CASE saved' = mem'
        BY <2>4, <3>1 DEF Placed
    <3>2. CASE UNCHANGED saved
        BY <1>1, <1>3, <2>2, <3>2 DEF Placed
    <3> QED
        BY <1>7, <3>1, <3>2
  <2>6. CASE /\ saved' = mem' /\ Stay
             /\ job' = [job EXCEPT !.at = "link", !.file = dir[page.path]]
    <3>1. job'.at = "link"
        BY <1>2, <2>6 DEF Jobs
    <3>2. Intent' = p /\ saved'.pending = p /\ saved'.active = page.path
          /\ page' = page
        BY <2>3, <2>6 DEF Intent, Stay
    <3>3. Steps'
        BY <1>1, <1>5, <2>1, <2>2, <2>3, <3>1, <3>2 DEF Steps, Taking
    <3> QED
        BY <1>2, <2>2, <2>4, <2>5, <2>6, <3>1, <3>3, TrackMoves DEF Taking
  <2>7. CASE Refuse
      BY <1>1, <1>2, <1>3, <2>2, <2>4, <2>5, <2>7, TrackRefuses
  <2> QED
      BY <1>7, <2>6, <2>7
<1> QED
    BY <1>4, <1>6, <1>7

LEMMA LinkTargetTracked ==
    ASSUME Typed, Protocol, Track, LinkTarget
    PROVE  Track'
<1> DEFINE from == Intent.from
           to == Intent.to
<1>1. At("link") /\ UNCHANGED <<bytes, binding, blind, touched>>
    BY DEF LinkTarget, Calm
<1>2. /\ queue # <<>> /\ job.at = "link" /\ Kind \in {"launch", "rename"}
      /\ Intent # None /\ mem \in Places
      /\ from \in Names /\ to \in Names /\ from # to
      /\ MainTyped /\ saved.pending = Intent /\ mem.pending = Intent
      /\ job \in Jobs /\ page.phase \in {"opening", "renaming"}
      /\ World /\ Steps /\ Placed(mem) /\ Placed(saved)
    BY <1>1, MoveTracked DEF Taking, Intent
<1>3. /\ Named = {from} /\ Intent.sha = binding.sha
      /\ blind \/ (mem.active = from /\ saved.active = from)
      /\ Kind = "rename" => from = page.path
    BY <1>2 DEF Steps, Taking
<1>4. Exists(from) /\ ~Exists(to)
    BY <1>2, <1>3, NamedFacts
<1> HIDE DEF from, to
<1>5. \/ /\ Link(to, dir[from]) /\ Goto("check") /\ Stay /\ UNCHANGED main
      \/ /\ AsItWas
         /\ \/ Keep
            \/ mem' = [mem EXCEPT !.pending = None] /\ saved' = mem' /\ Refuse
    BY <1>4 DEF LinkTarget, from, to
<1>6. CASE Link(to, dir[from]) /\ Goto("check") /\ Stay /\ UNCHANGED main
  <2>1. World' /\ Named' = {from, to}
      BY <1>1, <1>2, <1>3, <1>6, LinkNamed DEF Stay, World
  <2>2. mem' = mem /\ saved' = saved /\ page' = page /\ Kind' = Kind /\ Intent' = Intent
      BY <1>6 DEF main, Stay, Kind, Intent
  <2>3. Placed(mem)' /\ Placed(saved)'
      BY <1>1, <1>2, <1>3, <2>1, <2>2 DEF Placed, from, to
  <2>4. job'.at = "check"
      BY <1>2, <1>6 DEF Goto, Jobs
  <2>5. Steps'
      BY <1>1, <1>2, <1>3, <2>1, <2>2, <2>4 DEF Steps, Taking, from, to, Intent
  <2> QED
      BY <1>2, <1>6, <2>1, <2>3, <2>4, <2>5, TrackMoves DEF Taking
<1>7. CASE AsItWas /\ Keep
    BY <1>1, <1>2, <1>3, <1>7, KeepTracked DEF AsItWas, Alone
<1>8. CASE AsItWas /\ mem' = [mem EXCEPT !.pending = None] /\ saved' = mem' /\ Refuse
  <2>1. WatchKeeps /\ UNCHANGED <<dir, watch>>
      BY <1>8, WatchStays DEF AsItWas
  <2>2. World' /\ Named' = Named
      BY <1>1, <1>2, <1>8, <2>1, MoveWorld
  <2>3. Placed(mem)' /\ Placed(saved)'
      BY <1>1, <1>2, <1>3, <1>8, <2>2, PlacedCleared
  <2> QED
      BY <1>1, <1>2, <1>3, <1>8, <2>1, <2>2, <2>3, ClearTracked
<1> QED
    BY <1>5, <1>6, <1>7, <1>8

LEMMA LookTracked ==
    ASSUME Typed, Protocol, Track, CheckTarget \/ Reread
    PROVE  Track'
<1>1. /\ At("check") \/ At("reread")
      /\ UNCHANGED <<dir, watch, bytes, binding, blind, touched>>
      /\ Stay /\ UNCHANGED main
      /\ \/ At("check") /\ (Goto("unlink") \/ Goto("rollback"))
         \/ At("reread") /\ (Goto("finalize") \/ Goto("relink"))
    BY DEF CheckTarget, Reread, AsItWas, Calm
<1>2. PICK l \in {"check", "reread"} : At(l)
    BY <1>1
<1>3. /\ queue # <<>> /\ job.at = l /\ Kind \in {"launch", "rename"}
      /\ saved.pending = Intent /\ mem.pending = Intent
      /\ job \in Jobs /\ page.phase \in {"opening", "renaming"}
      /\ World /\ Steps /\ Placed(mem) /\ Placed(saved)
    BY <1>2, MoveTracked DEF Taking, Intent
<1>4. WatchKeeps
    BY <1>1, WatchStays
<1>5. World' /\ Named' = Named
    BY <1>1, <1>3, <1>4, MoveWorld
<1>6. Placed(mem)' /\ Placed(saved)'
    BY <1>1, <1>3, <1>5, PlacedStays
<1>7. mem' = mem /\ saved' = saved /\ page' = page /\ Kind' = Kind /\ Intent' = Intent
    BY <1>1 DEF main, Stay, Kind, Intent
<1>8. /\ \/ job.at = "check" /\ job'.at \in {"unlink", "rollback"}
         \/ job.at = "reread" /\ job'.at \in {"finalize", "relink"}
      /\ job'.retrying = job.retrying
    BY <1>1, <1>3 DEF Goto, Jobs, At
<1>9. Steps'
    BY <1>1, <1>3, <1>5, <1>7, <1>8 DEF Steps, Taking
<1> QED
    BY <1>1, <1>3, <1>5, <1>6, <1>8, <1>9, TrackMoves DEF Taking

LEMMA UnlinkSourceTracked ==
    ASSUME Typed, Protocol, Track, UnlinkSource
    PROVE  Track'
<1> DEFINE from == Intent.from
           to == Intent.to
<1>1. At("unlink") /\ UNCHANGED <<bytes, binding, blind, touched>>
    BY DEF UnlinkSource, Calm
<1>2. /\ queue # <<>> /\ job.at = "unlink" /\ Kind \in {"launch", "rename"}
      /\ Intent # None /\ from \in Names /\ to \in Names /\ from # to
      /\ saved.pending = Intent /\ mem.pending = Intent
      /\ job \in Jobs /\ page.phase \in {"opening", "renaming"}
      /\ World /\ Steps /\ Placed(mem) /\ Placed(saved)
    BY <1>1, MoveTracked DEF Taking, Intent
<1>3. /\ Named = {from, to} /\ Intent.sha = binding.sha
      /\ blind \/ (mem.active = from /\ saved.active = from)
      /\ Kind = "rename" => from = page.path
    BY <1>2 DEF Steps, Taking
<1> HIDE DEF from, to
<1>4. \/ Unlink(from) /\ Goto("reread") /\ Stay /\ UNCHANGED main
      \/ AsItWas /\ Keep
    BY DEF UnlinkSource, from
<1>5. CASE Unlink(from) /\ Goto("reread") /\ Stay /\ UNCHANGED main
  <2>1. World' /\ Named' = {to}
    <3>1. from \in Named /\ Named # {from} /\ Named \ {from} = {to}
        BY <1>2, <1>3
    <3>2. page'.sha = page.sha /\ ~page'.conflict
        BY <1>2, <1>5 DEF World, Stay
    <3> QED
        BY <1>1, <1>2, <1>5, <3>1, <3>2, UnlinkNamed
  <2>2. mem' = mem /\ saved' = saved /\ page' = page /\ Kind' = Kind /\ Intent' = Intent
      BY <1>5 DEF main, Stay, Kind, Intent
  <2>3. Placed(mem)' /\ Placed(saved)'
      BY <1>1, <1>2, <1>3, <2>1, <2>2 DEF Placed, from, to
  <2>4. job'.at = "reread"
      BY <1>2, <1>5 DEF Goto, Jobs
  <2>5. Steps'
      BY <1>1, <1>2, <1>3, <2>1, <2>2, <2>4 DEF Steps, Taking, from, to, Intent
  <2> QED
      BY <1>2, <1>5, <2>1, <2>3, <2>4, <2>5, TrackMoves DEF Taking
<1>6. CASE AsItWas /\ Keep
    BY <1>1, <1>2, <1>3, <1>6, KeepTracked DEF AsItWas
<1> QED
    BY <1>4, <1>5, <1>6

LEMMA RelinkTracked ==
    ASSUME Typed, Protocol, Track, Relink
    PROVE  Track'
<1> DEFINE from == Intent.from
           to == Intent.to
<1>1. At("relink") /\ UNCHANGED <<bytes, binding, blind, touched>>
    BY DEF Relink, Calm
<1>2. /\ queue # <<>> /\ job.at = "relink" /\ Kind \in {"launch", "rename"}
      /\ Intent # None /\ from \in Names /\ to \in Names /\ from # to
      /\ saved.pending = Intent /\ mem.pending = Intent
      /\ job \in Jobs /\ page.phase \in {"opening", "renaming"}
      /\ World /\ Steps /\ Placed(mem) /\ Placed(saved)
    BY <1>1, MoveTracked DEF Taking, Intent
<1>3. /\ Named = {to} /\ Intent.sha = binding.sha
      /\ blind \/ (mem.active = from /\ saved.active = from)
      /\ Kind = "rename" => from = page.path
    BY <1>2 DEF Steps, Taking
<1> HIDE DEF from, to
<1>4. \/ Link(from, dir[to]) /\ Goto("rollback") /\ Stay /\ UNCHANGED main
      \/ AsItWas /\ Keep
    BY DEF Relink, from, to
<1>5. CASE Link(from, dir[to]) /\ Goto("rollback") /\ Stay /\ UNCHANGED main
  <2>1. World' /\ Named' = {from, to}
    <3>1. to \in Named /\ Named \cup {from} = {from, to}
        BY <1>3
    <3> QED
        BY <1>1, <1>2, <1>5, <3>1, LinkNamed DEF Stay, World
  <2>2. mem' = mem /\ saved' = saved /\ page' = page /\ Kind' = Kind /\ Intent' = Intent
      BY <1>5 DEF main, Stay, Kind, Intent
  <2>3. Placed(mem)' /\ Placed(saved)'
      BY <1>1, <1>2, <1>3, <2>1, <2>2 DEF Placed, from, to
  <2>4. job'.at = "rollback"
      BY <1>2, <1>5 DEF Goto, Jobs
  <2>5. Steps'
      BY <1>1, <1>2, <1>3, <2>1, <2>2, <2>4 DEF Steps, Taking, from, to, Intent
  <2> QED
      BY <1>2, <1>5, <2>1, <2>3, <2>4, <2>5, TrackMoves DEF Taking
<1>6. CASE AsItWas /\ Keep
    BY <1>1, <1>2, <1>3, <1>6, KeepTracked DEF AsItWas, Alone
<1> QED
    BY <1>4, <1>5, <1>6

LEMMA RollbackTracked ==
    ASSUME Typed, Protocol, Track, Rollback
    PROVE  Track'
<1> DEFINE from == Intent.from
           to == Intent.to
<1>1. At("rollback") /\ UNCHANGED <<bytes, binding, blind, touched>>
    BY DEF Rollback, Calm
<1>2. /\ queue # <<>> /\ job.at = "rollback" /\ Kind \in {"launch", "rename"}
      /\ Intent # None /\ from \in Names /\ to \in Names /\ from # to
      /\ saved.pending = Intent /\ mem.pending = Intent /\ MainTyped
      /\ job \in Jobs /\ page.phase \in {"opening", "renaming"}
      /\ World /\ Steps /\ Placed(mem) /\ Placed(saved)
    BY <1>1, MoveTracked DEF Taking, Intent
<1>3. /\ Named = {from, to} /\ Intent.sha = binding.sha
      /\ blind \/ (mem.active = from /\ saved.active = from)
      /\ Kind = "rename" => from = page.path
    BY <1>2 DEF Steps, Taking
<1> HIDE DEF from, to
<1>4. \/ Exists(to) /\ Unlink(to) /\ Abandon
      \/ AsItWas /\ Keep
    BY DEF Rollback, to
<1>5. CASE Exists(to) /\ Unlink(to) /\ Abandon
  <2>1. \/ Keep
        \/ /\ mem' = [mem EXCEPT !.pending = None] /\ saved' \in {saved, mem'}
           /\ Refuse
      BY <1>5 DEF Abandon, Clear
  <2>2. Refuse /\ WatchKeeps
      BY <1>2, <1>5, <2>1, UnlinkTyped DEF Keep
  <2>3. World' /\ Named' = {from}
    <3>1. to \in Named /\ Named # {to} /\ Named \ {to} = {from}
        BY <1>2, <1>3
    <3>2. page'.sha = page.sha /\ ~page'.conflict
        BY <1>2, <2>2, MoveWorld
    <3> QED
        BY <1>1, <1>2, <1>5, <3>1, <3>2, UnlinkNamed
  <2>4. saved' = saved => Placed(saved)'
      BY <1>1, <1>2, <1>3, <2>3 DEF Placed, from, to
  <2>5. CASE Keep
    <3>1. mem' = mem /\ saved' = saved
        BY <2>5 DEF Keep, main
    <3>2. Placed(mem)'
        BY <1>1, <1>2, <1>3, <2>3, <3>1 DEF Placed, from, to
    <3>3. Alone'
        BY <1>2, <2>3 DEF Alone
    <3> QED
        BY <1>2, <2>2, <2>3, <2>4, <3>1, <3>2, <3>3, TrackRefuses
  <2>6. CASE mem' = [mem EXCEPT !.pending = None] /\ saved' \in {saved, mem'}
    <3>1. Placed(mem)' /\ Placed(saved)'
        BY <1>1, <1>2, <1>3, <2>3, <2>4, <2>6, PlacedCleared
    <3> QED
        BY <1>1, <1>2, <1>3, <2>2, <2>3, <2>6, <3>1, ClearTracked
  <2> QED
      BY <2>1, <2>5, <2>6
<1>6. CASE AsItWas /\ Keep
    BY <1>1, <1>2, <1>3, <1>6, KeepTracked DEF AsItWas
<1> QED
    BY <1>4, <1>5, <1>6

LEMMA FinalizeTracked ==
    ASSUME Typed, Protocol, Track, Finalize
    PROVE  Track'
<1> DEFINE from == Intent.from
           to == Intent.to
<1>1. /\ At("finalize")
      /\ UNCHANGED <<dir, watch, bytes, binding, blind, touched>>
    BY DEF Finalize, AsItWas, Calm
<1>2. /\ queue # <<>> /\ job.at = "finalize" /\ Kind \in {"launch", "rename"}
      /\ Intent # None /\ from \in Names /\ to \in Names /\ from # to
      /\ saved.pending = Intent /\ mem.pending = Intent /\ MainTyped
      /\ job \in Jobs /\ page.phase \in {"opening", "renaming"}
      /\ World /\ Steps /\ Placed(mem) /\ Placed(saved)
    BY <1>1, MoveTracked DEF Taking, Intent
<1>3. Named = {to} /\ Alone /\ WatchKeeps
    BY <1>1, <1>2, WatchStays DEF Steps, Alone
<1>4. blind \/ mem.active \in {from, to}
    BY <1>2 DEF Placed, from, to
<1> HIDE DEF from, to
<1>5. \/ /\ mem' = Renamed
         /\ \/ saved' = mem' /\ job.retrying /\ GoOn
            \/ saved' = mem' /\ ~job.retrying /\ Goto("rebind") /\ Stay
            \/ UNCHANGED saved /\ (GoOn \/ Refuse)
      \/ (GoOn \/ Refuse) /\ UNCHANGED main
    BY DEF Finalize
<1>6. World' /\ Named' = Named /\ (Alone' <=> Alone)
    BY <1>1, <1>2, <1>3, <1>5, MoveWorld
<1>7. saved' = saved => Placed(saved)'
    BY <1>1, <1>2, <1>6 DEF Placed
<1>8. CASE mem' = Renamed
  <2>1. mem'.pending = None /\ (blind \/ mem'.active = to)
      BY <1>2, <1>4, <1>8 DEF Renamed, from, to
  <2>2. Placed(mem)'
      BY <1>1, <1>3, <1>6, <2>1 DEF Placed
  <2>3. Placed(saved)'
    <3>1. CASE saved' = mem'
        BY <2>2, <3>1 DEF Placed
    <3> QED
        BY <1>2, <1>5, <1>7, <1>8, <3>1 DEF main
  <2>4. CASE GoOn \/ Refuse
      BY <1>2, <1>3, <1>6, <2>2, <2>3, <2>4, TrackGoesOn, TrackRefuses
  <2>5. CASE ~job.retrying /\ Goto("rebind") /\ Stay
    <3>1. job'.at = "rebind"
        BY <1>2, <2>5 DEF Goto, Jobs
    <3>2. page.goal = to
        BY <1>2, <2>5 DEF Protocol, JobNames, Taking, to
    <3>3. Steps'
        BY <1>3, <1>6, <2>5, <3>1, <3>2 DEF Steps, Taking, Stay
    <3> QED
        BY <1>2, <1>6, <2>2, <2>3, <2>5, <3>1, <3>3, TrackMoves
  <2> QED
      BY <1>2, <1>5, <1>8, <2>4, <2>5 DEF main, Keep
<1>9. CASE (GoOn \/ Refuse) /\ UNCHANGED main
  <2>1. Placed(mem)' /\ Placed(saved)'
      BY <1>1, <1>2, <1>6, <1>9, PlacedStays
  <2> QED
      BY <1>2, <1>3, <1>6, <1>9, <2>1, TrackGoesOn, TrackRefuses
<1> QED
    BY <1>5, <1>8, <1>9

LEMMA RebindTracked ==
    ASSUME Typed, Protocol, Track, RebindWorkspace
    PROVE  Track'
<1>1. /\ queue # <<>> /\ job.at = "rebind" /\ UNCHANGED main
      /\ UNCHANGED <<dir, bytes, blind, touched>>
      /\ Watch(page.goal) /\ Succeed(page.goal, page.sha)
      /\ Rebind(page.goal) \/ UNCHANGED binding
    BY DEF RebindWorkspace, At, folder, marks
<1>2. /\ Kind = "rename" /\ page.phase = "renaming" /\ page \in Pages
      /\ page.goal \in Names /\ page.sha \in Bytes
    BY <1>1, HeadAwaited
       DEF Typed, Protocol, JobFits, PageFits, PageTyped, Pages, Moving
<1>3. World /\ Placed(mem) /\ Placed(saved) /\ ~page.conflict
    BY DEF Track, World
<1>4. WatchKeeps
    BY <1>1, <1>2, WatchesName
<1>5. /\ Course' /\ job' = Resting /\ page'.sha = page.sha /\ ~page'.conflict
      /\ page'.phase = "idle"
    BY <1>1, <1>2, <1>3, <1>4, Succeeded
<1>6. binding'.file = binding.file /\ binding'.sha = binding.sha
    BY <1>1, <1>2, <1>3, RebindKeeps
<1>7. World' /\ Named' = Named
    BY <1>1, <1>3, <1>5, <1>6, WorldStays
<1>8. Placed(mem)' /\ Placed(saved)'
    BY <1>1, <1>3, <1>6, <1>7, PlacedStays
<1>9. queue' # <<>> => Kind' # "launch"
    BY <1>1, <1>2, <1>4, <1>5, NoLaunchLeft DEF Succeed
<1> QED
    BY <1>5, <1>7, <1>8, <1>9, TrackRests DEF Renaming

-----------------------------------------------------------------------------
(* Tracked: following.                                                      *)
LEMMA FollowWorld ==
    ASSUME Typed, World, Quietly, page'.sha = page.sha, ~page'.conflict,
           UNCHANGED binding \/ \E n \in Names : Rebind(n)
    PROVE  /\ World' /\ Named' = Named /\ (Alone' <=> Alone)
           /\ blind' = blind /\ binding'.sha = binding.sha /\ dir' = dir
<1>1. binding'.file = binding.file /\ binding'.sha = binding.sha
    BY RebindKeeps
<1> QED
    BY <1>1, WorldStays DEF Quietly, folder, marks

LEMMA HeadFollows ==
    ASSUME Typed, Protocol, queue # <<>>, Kind \in {"watch", "locate", "active"}
    PROVE  /\ Kind = "watch" => page.phase # "opening"
           /\ Kind = "locate" => page.phase = "locating"
           /\ Kind = "active" => page.phase \in {"checking", "opening"}
           /\ Head(queue).path \in Names \cup {None} /\ Head(queue).gen \in Nat
BY HeadAwaited, HeadOf DEF Typed, QueueTyped, Protocol, QueueFits, Item

LEMMA FollowRefuses ==
    ASSUME Typed, Protocol, Track, queue # <<>>, Refuse, WatchKeeps,
           Kind \in {"watch", "locate", "active"},
           Kind = "watch" => job.at \in {"start", "ask", "commit"}
                             /\ job.prior \in Names,
           World', Named' = Named, dir' = dir, Placed(mem)', Placed(saved)',
           mem'.pending = mem.pending, saved'.pending = saved.pending
    PROVE  Track'
<1>1. /\ job' = Resting /\ page'.path = page.path
      /\ Kind = "watch" => page'.phase = page.phase /\ page'.goal = page.goal
      /\ Kind \in {"locate", "active"} => page'.phase \in {"idle", "closed"}
    BY Refused
<1>2. queue' # <<>> => Kind' # "launch"
    BY NoLaunchLeft
<1>3. Renaming' => Named' = {page'.path} /\ mem'.pending = saved'.pending
    BY <1>1 DEF Renaming, Track, Ready
<1>4. page'.phase = "checking" => Alone' \/ dir'[page'.path] # None
    BY <1>1 DEF Track, Told, Alone, Exists
<1> QED
    BY <1>1, <1>2, <1>3, <1>4, TrackRests

LEMMA FollowSucceeds ==
    ASSUME Typed, Protocol, Track, queue # <<>>, WatchKeeps,
           NEW n \in Names, NEW sha \in Bytes, Succeed(n, sha),
           Kind \in {"watch", "locate", "active"},
           Kind = "watch" => job.at = "commit" /\ job.prior \in Names,
           Kind = "active" => watch'.name # None,
           World', Named' = Named, dir' = dir, Placed(mem)', Placed(saved)',
           Kind = "active" \/ (Named = {n} /\ mem'.pending = saved'.pending)
    PROVE  Track'
<1>1. /\ Course' /\ job' = Resting
      /\ Kind = "watch" => /\ page'.phase = page.phase /\ page'.goal = page.goal
                           /\ page'.path = page.path
      /\ Kind = "locate" => page'.phase = "settling" /\ page'.path = n
      /\ Kind = "active" => page'.phase = "idle"
    BY Succeeded
<1>2. queue' # <<>> => Kind' # "launch"
  <2>1. page'.phase # "opening"
      BY <1>1, HeadFollows
  <2> QED
      BY <1>1, <2>1, NoLaunchLeft DEF Succeed
<1>3. Renaming' => Named' = {page'.path} /\ mem'.pending = saved'.pending
    BY <1>1 DEF Renaming, Track, Ready
<1>4. page'.phase = "checking" => Alone' \/ dir'[page'.path] # None
    BY <1>1 DEF Alone
<1> QED
    BY <1>1, <1>2, <1>3, <1>4, TrackRests

(* The head sets out for the bridge or to read: nothing else changes. *)
LEMMA FollowMoves ==
    ASSUME Typed, Protocol, Track, queue # <<>>, Stay,
           Kind \in {"watch", "locate", "active"},
           job.at \in {"start", "ask", "commit"},
           job'.at \in {"ask", "commit", "read"},
           World', Named' = Named, Placed(mem)', Placed(saved)',
           mem'.pending = mem.pending, saved'.pending = saved.pending,
           Looks', WillKnow'
    PROVE  Track'
<1>1. page' = page /\ queue' = queue /\ Kind' = Kind
    BY DEF Stay, Kind
<1>2. Steps'
    BY DEF Steps, Taking
<1>3. Ready'
    BY <1>1 DEF Ready, Renaming, Track
<1>4. Told'
  <2>1. page.phase = "checking" => Alone \/ page.path \in Named
      BY DEF Track, Told, Typed, PageTyped, Pages, Named
  <2> QED
      BY <1>1, <2>1 DEF Told, Alone, Named
<1> QED
    BY <1>2, <1>3, <1>4 DEF Track

LEMMA BeginFollowTracked ==
    ASSUME Typed, Protocol, Track, BeginWatch \/ BeginLocate \/ BeginActive
    PROVE  Track'
<1>1. /\ queue # <<>> /\ job.at = "start" /\ Kind \in {"watch", "locate", "active"}
      /\ UNCHANGED binding /\ UNCHANGED main /\ UNCHANGED watch
      /\ UNCHANGED count /\ Quietly
    BY DEF BeginWatch, BeginLocate, BeginActive, Serves, At
<1>2. /\ World /\ Placed(mem) /\ Placed(saved) /\ ~page.conflict
      /\ job \in Jobs /\ page \in Pages
    BY DEF Track, World, Typed, JobTyped, PageTyped
<1>3. WatchKeeps /\ mem' = mem /\ saved' = saved
    BY <1>1, WatchStays DEF main
<1>4. CASE Stay /\ \E n, l : /\ job' = [job EXCEPT !.at = l, !.prior = n]
                             /\ \/ l = "ask"
                                \/ l = "read" /\ n = mem.active /\ Exists(mem.active)
  <2>1. PICK n, l : /\ job' = [job EXCEPT !.at = l, !.prior = n]
                    /\ \/ l = "ask"
                       \/ l = "read" /\ n = mem.active /\ Exists(mem.active)
      BY <1>4
  <2>2. job'.at = l /\ job'.prior = n
      BY <1>2, <2>1 DEF Jobs
  <2>3. World' /\ Named' = Named /\ blind' = blind /\ binding'.sha = binding.sha
      BY <1>1, <1>2, <1>4, FollowWorld DEF Stay
  <2>4. Placed(mem)' /\ Placed(saved)'
      BY <1>1, <1>2, <2>3, PlacedStays
  <2>5. Looks'
      BY <1>3, <2>1, <2>2 DEF Looks
  <2>6. l = "read" => mem.active \in Named
      BY <2>1 DEF Named, Typed, MainTyped, Places
  <2>7. WillKnow'
      BY <2>1, <2>2, <2>3, <2>6 DEF WillKnow
  <2> QED
      BY <1>1, <1>3, <1>4, <2>1, <2>2, <2>3, <2>4, <2>5, <2>7, FollowMoves
<1>5. CASE BeginWatch /\ Exists(mem.active)
  <2>1. Done /\ Hint(Head(queue).path, Head(queue).gen, FALSE) /\ Kind = "watch"
      BY <1>5 DEF BeginWatch, Serves
  <2>2. Head(queue).path \in Names /\ Head(queue).gen \in Nat /\ page.phase # "opening"
      BY <1>1, <2>1, HeadAwaited, HeadFollows DEF Typed, Protocol
  <2>3. /\ page'.phase = page.phase /\ page'.path = page.path
        /\ page'.sha = page.sha /\ page'.goal = page.goal
        /\ page'.conflict = page.conflict /\ page' \in Pages
      BY <1>2, <2>1, <2>2, HintKeeps
  <2>4. World' /\ Named' = Named /\ blind' = blind /\ binding'.sha = binding.sha
        /\ dir' = dir
      BY <1>1, <1>2, <2>3, FollowWorld
  <2>5. Placed(mem)' /\ Placed(saved)'
      BY <1>1, <1>2, <2>4, PlacedStays
  <2>6. PageTyped' /\ PageFits'
      BY <1>3, <2>3 DEF PageTyped, Protocol, PageFits, WatchKeeps
  <2>7. Course' /\ job' = Resting
      BY <1>1, <2>1, <2>3, <2>6, Answers DEF Typed, Protocol
  <2>8. queue' # <<>> => Kind' # "launch"
    <3>1. Kind = "watch" => job.prior \in Names \/ Done
        BY <2>1
    <3>2. \A i \in DOMAIN queue' : queue'[i].kind # "launch"
        BY <1>1, <2>1, <2>3, QueueDone DEF Typed, Protocol, Done
    <3>3. queue' # <<>> => Head(queue') = queue'[1] /\ 1 \in DOMAIN queue'
        BY <2>7, FirstOf DEF Course, QueueTyped
    <3> QED
        BY <3>2, <3>3 DEF Kind
  <2>9. Renaming' => Named' = {page'.path} /\ mem'.pending = saved'.pending
      BY <1>1, <1>3, <2>3, <2>4 DEF Renaming, Track, Ready
  <2>10. page'.phase = "checking" => Alone' \/ dir'[page'.path] # None
      BY <2>3, <2>4 DEF Track, Told, Alone, Exists
  <2> QED
      BY <2>4, <2>5, <2>7, <2>8, <2>9, <2>10, TrackRests
<1>6. CASE BeginWatch /\ ~Exists(mem.active)
    BY <1>4, <1>6 DEF BeginWatch
<1>7. CASE BeginLocate
    BY <1>4, <1>7 DEF BeginLocate
<1>8. CASE BeginActive
  <2>1. CASE Exists(mem.active)
    <3>1. job' = [job EXCEPT !.at = "read", !.prior = mem.active] /\ Stay
        BY <1>8, <2>1 DEF BeginActive
    <3> QED
        BY <1>4, <2>1, <3>1
  <2>2. CASE ~Exists(mem.active)
    <3>1. job' = [job EXCEPT !.at = "ask", !.prior = mem.active] /\ Stay
        BY <1>8, <2>2 DEF BeginActive
    <3> QED
        BY <1>4, <3>1
  <2> QED
      BY <2>1, <2>2
<1> QED
    BY <1>5, <1>6, <1>7, <1>8

(* A first failure finds every part of the program where the document is.   *)
LEMMA FirstFailure ==
    ASSUME CountTyped, FaultsCount, Sound, Undisturbed, Fails, count'.faults <= 1
    PROVE  ~rough /\ ~blind /\ Smooth
<1>1. count.faults \in Nat
    BY DEF CountTyped
<1>2. count'.faults = count.faults + 1
    BY DEF Fails, Counts, CountTyped
<1>3. ~(count.faults > 0)
    BY <1>1, <1>2
<1> QED
    BY <1>3 DEF FaultsCount, Sound

LEMMA AskBridgeTracked ==
    ASSUME Typed, Protocol, Track, FaultsCount, Sound, Undisturbed, AskBridge
    PROVE  Track'
<1>1. At("ask") /\ UNCHANGED main /\ UNCHANGED watch /\ Quietly
    BY DEF AskBridge
<1>2. /\ queue # <<>> /\ job.at = "ask" /\ job \in Jobs /\ job.prior \in Names
      /\ Kind \in {"watch", "locate", "active"}
      /\ Kind # "locate" => job.prior = mem.active
    BY <1>1, FollowStarts
<1>3. /\ World /\ Placed(mem) /\ Placed(saved) /\ ~page.conflict
      /\ page \in Pages /\ WatchKeeps /\ mem' = mem /\ saved' = saved
    BY <1>1, WatchStays DEF Track, World, Typed, PageTyped, main
<1>4. ASSUME NEW n \in Located, Rebind(n), Works, Stay,
             job' = [job EXCEPT !.at = "commit", !.next = n, !.sha = bytes[dir[n]]]
      PROVE  Track'
  <2>1. n \in Names /\ Named = {n} /\ bytes[dir[n]] = binding.sha
      BY <1>3, <1>4, NamedFacts
  <2>2. World' /\ Named' = Named /\ blind' = blind /\ binding'.sha = binding.sha
      BY <1>1, <1>3, <1>4, <2>1, FollowWorld DEF Stay
  <2>3. Placed(mem)' /\ Placed(saved)'
      BY <1>1, <1>3, <2>2, PlacedStays
  <2>4. job'.at = "commit" /\ job'.next = n /\ job'.sha = binding.sha
      BY <1>2, <1>4, <2>1 DEF Jobs
  <2>5. Looks' /\ WillKnow'
      BY <2>1, <2>2, <2>4 DEF Looks, WillKnow
  <2> QED
      BY <1>2, <1>3, <1>4, <2>2, <2>3, <2>4, <2>5, FollowMoves
<1>5. ASSUME Unanswered, UNCHANGED binding, (Works /\ Located = {}) \/ Fails
      PROVE  Track'
  <2>1. CASE Kind = "active"
    <3>1. Goto("read") /\ Stay
        BY <1>5, <2>1 DEF Unanswered
    <3>2. job'.at = "read" /\ job'.prior = mem.active
        BY <1>2, <2>1, <3>1 DEF Goto, Jobs
    <3>3. World' /\ Named' = Named /\ blind' = blind /\ binding'.sha = binding.sha
        BY <1>1, <1>3, <1>5, <3>1, FollowWorld DEF Stay
    <3>4. Placed(mem)' /\ Placed(saved)'
        BY <1>1, <1>3, <3>3, PlacedStays
    <3>5. Looks'
        BY <1>3, <3>2 DEF Looks
    <3>6. WillKnow'
      <4>1. SUFFICES ASSUME count'.faults <= 1, page.phase = "checking",
                            Named = {page.goal}
                     PROVE  FALSE
          BY <3>1, <3>3 DEF WillKnow, Stay
      <4>2. page.goal \in Names
          BY <4>1 DEF Protocol, PageFits
      <4>3. Located # {}
          BY <1>3, <4>1, <4>2, NamedFacts
      <4>4. Smooth
          BY <1>5, <4>1, <4>3, FirstFailure DEF Typed
      <4> QED
          BY <4>1, <4>4 DEF Smooth
    <3> QED
        BY <1>2, <1>3, <2>1, <3>1, <3>2, <3>3, <3>4, <3>5, <3>6, FollowMoves
  <2>2. CASE Kind # "active"
    <3>1. Refuse
        BY <1>5, <2>2 DEF Unanswered
    <3>2. page'.sha = page.sha /\ ~page'.conflict
        BY <1>2, <1>3, <3>1, Refused
    <3>3. World' /\ Named' = Named /\ blind' = blind /\ binding'.sha = binding.sha
          /\ dir' = dir
        BY <1>1, <1>3, <1>5, <3>2, FollowWorld
    <3>4. Placed(mem)' /\ Placed(saved)'
        BY <1>1, <1>3, <3>3, PlacedStays
    <3> QED
        BY <1>2, <1>3, <3>1, <3>3, <3>4, FollowRefuses
  <2> QED
      BY <2>1, <2>2
<1> QED
    BY <1>4, <1>5 DEF AskBridge

LEMMA CommitTracked ==
    ASSUME Typed, Protocol, Track, FaultsCount, Sound, Undisturbed, Commit
    PROVE  Track'
<1>1. At("commit") /\ UNCHANGED binding /\ Quietly
    BY DEF Commit
<1>2. /\ queue # <<>> /\ job.at = "commit" /\ job \in Jobs /\ job.prior \in Names
      /\ Kind \in {"watch", "locate", "active"}
      /\ Kind # "locate" => job.prior = mem.active
      /\ job.next \in Names /\ job.sha \in Bytes
    BY <1>1, FollowStarts
<1>3. /\ World /\ Placed(mem) /\ Placed(saved) /\ ~page.conflict
      /\ page \in Pages /\ mem \in Places /\ saved \in Places
      /\ Named = {job.next}
      /\ Kind # "watch" => job.sha = binding.sha
    BY <1>2 DEF Track, World, Looks, Typed, PageTyped, MainTyped
<1>4. CASE ~Holds(job.next, job.sha)
  <2>1. Unanswered /\ UNCHANGED main /\ UNCHANGED watch
      BY <1>4 DEF Commit
  <2>2. Kind = "watch"
      BY <1>2, <1>3, <1>4, NamedFacts
  <2>3. Refuse /\ WatchKeeps /\ mem' = mem /\ saved' = saved
      BY <2>1, <2>2, WatchStays DEF Unanswered, main
  <2>4. page'.sha = page.sha /\ ~page'.conflict
      BY <1>2, <1>3, <2>3, Refused
  <2>5. World' /\ Named' = Named /\ blind' = blind /\ binding'.sha = binding.sha
        /\ dir' = dir
      BY <1>1, <1>3, <2>4, FollowWorld
  <2>6. Placed(mem)' /\ Placed(saved)'
      BY <1>1, <1>3, <2>1, <2>5, PlacedStays
  <2> QED
      BY <1>2, <1>3, <2>3, <2>5, <2>6, FollowRefuses
<1>5. ASSUME \/ /\ Follows(job.next)
                /\ mem' = [mem EXCEPT !.active = job.next] /\ Watch(job.next)
             \/ ~Follows(job.next) /\ UNCHANGED mem /\ UNCHANGED watch,
             \/ /\ saved' = mem'
                /\ IF Kind = "active"
                   THEN /\ job' = [job EXCEPT !.at = "read", !.prior = job.next]
                        /\ Stay
                   ELSE Succeed(job.next, job.sha)
             \/ Fails /\ Unanswered /\ UNCHANGED saved
      PROVE  Track'
  <2>1. WatchKeeps
      BY <1>2, <1>5, WatchesName, WatchStays
  <2>2. /\ mem'.pending = mem.pending
        /\ mem'.active \in {mem.active, job.next}
        /\ Follows(job.next) => mem'.active = job.next
        /\ ~Follows(job.next) => mem'.active = mem.active
      BY <1>3, <1>5 DEF Places
  <2>3. page'.sha = page.sha /\ ~page'.conflict
    <3>1. CASE Stay
        BY <1>3, <3>1 DEF Stay
    <3>2. CASE Refuse
        BY <1>2, <1>3, <2>1, <3>2, Refused
    <3>3. CASE Succeed(job.next, job.sha) /\ Kind # "active"
        BY <1>2, <1>3, <2>1, <3>3, Succeeded
    <3> QED
        BY <1>5, <3>1, <3>2, <3>3 DEF Unanswered
  <2>4. World' /\ Named' = Named /\ blind' = blind /\ binding'.sha = binding.sha
        /\ dir' = dir
      BY <1>1, <1>3, <2>3, FollowWorld
  <2>5. Placed(mem)'
    <3>1. CASE mem'.active = mem.active
        BY <1>3, <2>2, <2>4, <3>1 DEF Placed
    <3>2. CASE mem'.active = job.next
        BY <1>3, <2>2, <2>4, <3>2 DEF Placed
    <3> QED
        BY <2>2, <3>1, <3>2
  <2>6. Placed(saved)'
    <3>1. CASE saved' = mem'
        BY <2>5, <3>1 DEF Placed
    <3>2. CASE UNCHANGED saved
        BY <1>3, <2>4, <3>2 DEF Placed
    <3> QED
        BY <1>5, <3>1, <3>2
  <2>7. CASE Fails /\ Unanswered /\ UNCHANGED saved
    <3>1. CASE Kind = "active"
      <4>1. Goto("read") /\ Stay
          BY <2>7, <3>1 DEF Unanswered
      <4>2. job'.at = "read" /\ job'.prior = job.prior
          BY <1>2, <4>1 DEF Goto, Jobs
      <4>3. mem'.active = job.next
          BY <1>2, <2>2, <3>1 DEF Follows
      <4>4. Looks'
        <5>1. dir'[job.prior] # None => job.prior \in Named
            BY <1>2, <2>4 DEF Named, Exists
        <5> QED
            BY <1>3, <4>2, <4>3, <5>1 DEF Looks, Exists
      <4>5. WillKnow'
        <5>1. SUFFICES ASSUME count'.faults <= 1, page.phase = "checking"
                       PROVE  FALSE
            BY <4>1 DEF WillKnow, Stay
        <5> QED
            BY <2>7, <5>1, FirstFailure DEF Typed, Smooth
      <4> QED
          BY <1>2, <2>2, <2>4, <2>5, <2>6, <2>7, <3>1, <4>1, <4>2, <4>4, <4>5,
             FollowMoves
    <3>2. CASE Kind # "active"
      <4>1. Refuse
          BY <2>7, <3>2 DEF Unanswered
      <4> QED
          BY <1>2, <2>1, <2>2, <2>4, <2>5, <2>6, <2>7, <4>1, FollowRefuses
    <3> QED
        BY <3>1, <3>2
  <2>8. CASE /\ saved' = mem' /\ Kind = "active" /\ Stay
             /\ job' = [job EXCEPT !.at = "read", !.prior = job.next]
    <3>1. job'.at = "read" /\ job'.prior = job.next /\ mem'.active = job.next
        BY <1>2, <2>2, <2>8 DEF Jobs, Follows
    <3>2. Looks' /\ WillKnow'
        BY <1>3, <2>4, <3>1 DEF Looks, WillKnow
    <3>3. Steps' /\ Told'
      <4>1. page.phase = "checking" => Alone \/ page.path \in Named
          BY <1>3 DEF Track, Told, Pages, Named
      <4> QED
          BY <2>4, <2>8, <3>1, <4>1 DEF Steps, Taking, Told, Alone, Named, Stay
    <3>4. Ready'
        BY <3>1 DEF Ready
    <3> QED
        BY <2>4, <2>5, <2>6, <3>2, <3>3, <3>4 DEF Track
  <2>9. CASE saved' = mem' /\ Kind # "active" /\ Succeed(job.next, job.sha)
      BY <1>2, <1>3, <2>1, <2>4, <2>5, <2>6, <2>9, FollowSucceeds
  <2> QED
      BY <1>5, <2>7, <2>8, <2>9
<1>6. \/ ~Holds(job.next, job.sha)
      \/ /\ \/ /\ Follows(job.next)
               /\ mem' = [mem EXCEPT !.active = job.next] /\ Watch(job.next)
            \/ ~Follows(job.next) /\ UNCHANGED mem /\ UNCHANGED watch
         /\ \/ /\ saved' = mem'
               /\ IF Kind = "active"
                  THEN /\ job' = [job EXCEPT !.at = "read", !.prior = job.next]
                       /\ Stay
                  ELSE Succeed(job.next, job.sha)
            \/ Fails /\ Unanswered /\ UNCHANGED saved
    BY DEF Commit
<1> QED
    BY <1>4, <1>5, <1>6

LEMMA ReadActiveTracked ==
    ASSUME Typed, Protocol, Track, ReadActive
    PROVE  Track'
<1>1. At("read") /\ UNCHANGED main /\ Quietly
    BY DEF ReadActive
<1>2. /\ queue # <<>> /\ job.at = "read" /\ job \in Jobs /\ job.prior \in Names
      /\ Kind = "active"
    BY <1>1, FollowStarts
<1>3. /\ World /\ Placed(mem) /\ Placed(saved) /\ ~page.conflict
      /\ page \in Pages /\ mem' = mem /\ saved' = saved
    BY <1>1 DEF Track, World, Typed, PageTyped, main
<1>4. CASE /\ Exists(job.prior) /\ Rebind(job.prior) /\ Watch(job.prior)
           /\ Succeed(job.prior, bytes[dir[job.prior]])
  <2>1. bytes[dir[job.prior]] = binding.sha /\ binding.sha \in Bytes
      BY <1>2, <1>3, <1>4, NamedFacts, Parts
  <2>2. WatchKeeps /\ watch'.name # None
      BY <1>2, <1>4, WatchesName, Constants
  <2>3. Succeed(job.prior, binding.sha)
      BY <1>4, <2>1
  <2>4. page'.sha = page.sha /\ ~page'.conflict
      BY <1>2, <1>3, <2>1, <2>2, <2>3, Succeeded DEF World
  <2>5. World' /\ Named' = Named /\ blind' = blind /\ binding'.sha = binding.sha
        /\ dir' = dir
      BY <1>1, <1>2, <1>3, <1>4, <2>4, FollowWorld
  <2>6. Placed(mem)' /\ Placed(saved)'
      BY <1>1, <1>3, <2>5, PlacedStays
  <2> QED
      BY <1>2, <2>1, <2>2, <2>3, <2>5, <2>6, FollowSucceeds
<1>5. CASE Refuse /\ UNCHANGED binding /\ UNCHANGED watch
  <2>1. WatchKeeps
      BY <1>5, WatchStays
  <2>2. page'.sha = page.sha /\ ~page'.conflict
      BY <1>2, <1>3, <1>5, <2>1, Refused
  <2>3. World' /\ Named' = Named /\ blind' = blind /\ binding'.sha = binding.sha
        /\ dir' = dir
      BY <1>1, <1>3, <1>5, <2>2, FollowWorld
  <2>4. Placed(mem)' /\ Placed(saved)'
      BY <1>1, <1>3, <2>3, PlacedStays
  <2> QED
      BY <1>2, <1>3, <1>5, <2>1, <2>3, <2>4, FollowRefuses
<1> QED
    BY <1>4, <1>5 DEF ReadActive

(* The queue grows at its end: the head goes on as before. *)
LEMMA TrackBehind ==
    ASSUME Protocol, Track, World', Named' = Named, dir' = dir,
           binding'.sha = binding.sha, UNCHANGED <<mem, saved, job, blind>>,
           queue # <<>> => queue' # <<>> /\ Kind' = Kind,
           queue = <<>> => queue' = <<>> \/ Kind' # "launch",
           count'.faults = count.faults,
           \/ page' = page
           \/ /\ page'.phase \in {"locating", "settling", "renaming", "idle"}
              /\ page.phase \in {"idle", "settling"}
              /\ Renaming' => Renaming /\ page'.path = page.path
                              /\ page'.goal = page.goal
              /\ job.at \notin Moving
    PROVE  Track'
<1>1. Intent' = Intent /\ main' = main
    BY DEF Intent, main
<1>2. Placed(mem)' /\ Placed(saved)'
    BY <1>1, PlacedStays DEF Track
<1>3. queue = <<>> => job.at = "start"
    BY DEF Protocol, JobFits, Resting
<1>4. Steps'
    BY <1>1, <1>3 DEF Track, Steps, Moving, Taking
<1>5. Ready'
    BY <1>3 DEF Track, Ready, Renaming, Alone
<1>6. Looks'
    BY <1>3 DEF Track, Looks, Exists
<1>7. WillKnow' /\ Told'
    BY DEF Track, WillKnow, Told, Alone, Exists
<1> QED
    BY <1>2, <1>4, <1>5, <1>6, <1>7 DEF Track

LEMMA ProbeTracked ==
    ASSUME Typed, Protocol, Track, Probe
    PROVE  Track'
<1>1. UNCHANGED <<dir, bytes, binding, mem, saved, queue, job, page, blind, count>>
      /\ UNCHANGED touched
    BY DEF Probe, main, Quietly, folder, marks
<1>2. World' /\ Named' = Named
    BY <1>1, WorldStays DEF Track, World
<1>3. Kind' = Kind
    BY <1>1 DEF Kind
<1> QED
    BY <1>1, <1>2, <1>3, TrackBehind

LEMMA EmitTracked ==
    ASSUME Typed, Protocol, Track, Emit
    PROVE  Track'
<1> DEFINE x == [kind |-> "watch", path |-> watch.name, gen |-> watch.gen]
<1>1. /\ watch.due /\ \A i \in DOMAIN queue : queue[i].kind # "watch"
      /\ queue' = Append(queue, x) /\ Quietly
      /\ UNCHANGED <<binding, mem, saved, job, page, count>>
    BY DEF Emit, main
<1>2. x \in Item /\ x.kind = "watch" /\ x.path \in Names
    BY <1>1 DEF Typed, WatchTyped, Watches, Protocol, PageFits, Item, Kinds
<1> HIDE DEF x
<1>3. /\ queue # <<>> => Kind' = Kind
      /\ queue = <<>> => Kind' = "watch"
      /\ queue' # <<>>
  <2>1. queue' # <<>>
      BY <1>1, <1>2, AppendOf DEF Typed, QueueTyped
  <2> QED
      BY <1>1, <1>2, <2>1, QueueCalls DEF Typed, Protocol
<1>4. World /\ ~page'.conflict /\ page'.sha = page.sha
    BY <1>1 DEF Track, World
<1>5. /\ World' /\ Named' = Named /\ dir' = dir /\ binding'.sha = binding.sha
      /\ blind' = blind
    BY <1>1, <1>4, FollowWorld
<1> QED
    BY <1>1, <1>3, <1>5, TrackBehind

-----------------------------------------------------------------------------
(* Tracked: the page, and the end of the program.                           *)
LEMMA IdleJob ==
    ASSUME Typed, Protocol, page.phase \in {"idle", "settling"}
    PROVE  /\ job.at \notin Moving
           /\ job.at \in {"ask", "commit"} => Kind = "watch"
           /\ job.at # "read"
           /\ ~Launching
<1>1. queue = <<>> => job.at = "start"
    BY DEF Protocol, JobFits, Resting
<1>2. queue # <<>> => Kind = "watch"
    BY HeadAwaited DEF Typed, Protocol, Kinds
<1>3. ~Launching
    BY DEF Launching, Protocol, QueueFits, Awaits
<1> QED
    BY <1>1, <1>2, <1>3 DEF Protocol, JobFits, Moving, Taking

LEMMA PageAsksTracked ==
    ASSUME Typed, Protocol, Track, page.phase \in {"idle", "settling"}, Aside,
           page'.phase \in {"locating", "settling", "renaming", "idle"},
           page'.path = page.path, page'.sha = page.sha, ~page'.conflict,
           Renaming' => Renaming /\ page'.goal = page.goal,
           \/ UNCHANGED queue
           \/ \E k \in {"locate", "rename"} :
                  /\ queue' = Append(queue, Ask(k))
                  /\ Awaits(page'.phase, k) /\ page'.phase # "opening",
           count'.faults = count.faults
    PROVE  Track'
<1>1. UNCHANGED <<mem, saved, job, blind, dir, bytes, binding, touched>>
    BY DEF Aside, main, folder, marks
<1>2. World' /\ Named' = Named
    BY <1>1, WorldStays DEF Track
<1>3. /\ queue # <<>> => queue' # <<>> /\ Kind' = Kind
      /\ queue = <<>> => queue' = <<>> \/ Kind' # "launch"
  <2>1. CASE UNCHANGED queue
      BY <2>1 DEF Kind
  <2>2. ASSUME NEW k \in {"locate", "rename"}, queue' = Append(queue, Ask(k)),
               Awaits(page'.phase, k), page'.phase # "opening"
        PROVE  queue' # <<>> /\ Kind' # "launch" /\ (queue # <<>> => Kind' = Kind)
    <3>1. /\ QueueTyped' /\ queue' # <<>>
          /\ \A i \in DOMAIN queue' : queue'[i].kind # "launch"
          /\ queue # <<>> => Kind' = Kind
        BY <2>2, PageAsks
    <3>2. Head(queue') = queue'[1] /\ 1 \in DOMAIN queue'
        BY <3>1, FirstOf DEF QueueTyped
    <3> QED
        BY <3>1, <3>2 DEF Kind
  <2> QED
      BY <2>1, <2>2
<1>4. job.at \notin Moving
    BY IdleJob
<1> QED
    BY <1>1, <1>2, <1>3, <1>4, TrackBehind

LEMMA CountKeepsFaults ==
    ASSUME CountTyped, NEW f \in {"renames", "saves", "crashes"}, Counts(f)
    PROVE  count'.faults = count.faults /\ count'.others = count.others
BY DEF CountTyped, Counts

LEMMA SaveTracked ==
    ASSUME Typed, Protocol, Track, NEW sha \in Bytes, Save(sha)
    PROVE  Track' /\ Named' = Named /\ Named = {page'.path}
<1>1. PICK n \in Located :
          /\ bytes' = Append(bytes, sha)
          /\ dir' = [dir EXCEPT ![n] = Len(bytes')]
          /\ binding' = [file |-> Len(bytes'), name |-> n, sha |-> sha]
          /\ page' = [page EXCEPT !.path = n, !.sha = sha]
    BY DEF Save
<1>2. /\ page.phase = "idle" /\ ~page.conflict /\ page \in Pages
      /\ UNCHANGED main /\ UNCHANGED <<queue, job, touched, blind>>
    BY DEF Save, marks, Typed, PageTyped
<1>3. World /\ Placed(mem) /\ Placed(saved) /\ Looks
    BY DEF Track
<1>4. n \in Names /\ Named = {n}
    BY <1>1, <1>3, NamedFacts
<1>5. /\ page'.phase = "idle" /\ page'.path = n /\ page'.sha = sha
      /\ page'.conflict = page.conflict
    BY <1>1, <1>2 DEF Pages
<1>6. /\ bytes \in Seq(Bytes) /\ Len(bytes) \in Nat /\ Len(bytes') = Len(bytes) + 1
      /\ bytes'[Len(bytes')] = sha /\ dir \in [Names -> (1..Len(bytes)) \cup {None}]
    BY <1>1, Parts, AppendProperties
<1>7. /\ dir'[n] = Len(bytes') /\ Len(bytes') # None
      /\ \A m \in Names \ {n} : dir'[m] = dir[m]
    BY <1>1, <1>4, <1>6, Constants
<1>8. Named' = Named
    BY <1>4, <1>7 DEF Named, Exists
<1>9. \A m \in Names \ {n} : dir[m] = None
    BY <1>4 DEF Named, Exists
<1>10. binding'.file = Len(bytes') /\ binding'.sha = sha
    BY <1>1
<1>11. World'
  <2>1. \A m \in Names : dir'[m] \in {None, binding'.file}
      BY <1>7, <1>9, <1>10
  <2>2. bytes'[binding'.file] = binding'.sha
      BY <1>6, <1>10
  <2>3. page'.sha = binding'.sha /\ ~page'.conflict
      BY <1>2, <1>5, <1>10
  <2>4. Named' # {} /\ touched' = {}
      BY <1>2, <1>3, <1>8 DEF World
  <2> QED
      BY <2>1, <2>2, <2>3, <2>4 DEF World
<1>12. Placed(mem)' /\ Placed(saved)'
  <2>1. mem' = mem /\ saved' = saved /\ blind' = blind
      BY <1>2 DEF main
  <2> QED
      BY <1>3, <1>4, <1>8, <2>1 DEF Placed, Protocol, IntentsMove
<1>13. /\ job.at \notin Moving /\ job.at # "read"
       /\ job.at = "commit" => Kind = "watch"
       /\ ~Launching
    BY <1>2, IdleJob
<1>14. job' = job /\ Kind' = Kind /\ queue' = queue
    BY <1>2 DEF Kind
<1>15. Steps' /\ Looks' /\ WillKnow'
    BY <1>3, <1>8, <1>13, <1>14 DEF Steps, Looks, WillKnow, Moving, Taking
<1>16. Told' /\ ~Renaming'
    BY <1>5 DEF Told, Renaming
<1>17. queue # <<>> => Kind # "launch"
    BY <1>2, HeadAwaited DEF Typed, Protocol
<1>18. Ready'
    BY <1>14, <1>16, <1>17 DEF Ready
<1> QED
    BY <1>4, <1>5, <1>8, <1>11, <1>12, <1>15, <1>16, <1>18 DEF Track

LEMMA PageTracked ==
    ASSUME Typed, Protocol, Track, PageStep
    PROVE  Track'
<1>0. page \in Pages /\ CountTyped /\ World /\ ~page.conflict
    BY DEF Typed, PageTyped, Track, World
<1>1. ASSUME NEW n \in Names, Rename(n)
      PROVE  Track'
  <2>1. /\ page.phase = "idle" /\ Aside /\ Counts("renames")
        /\ page' = [page EXCEPT !.phase = "locating", !.goal = n]
        /\ queue' = Append(queue, Ask("locate"))
      BY <1>1 DEF Rename
  <2>2. /\ page'.phase = "locating" /\ page'.path = page.path
        /\ page'.sha = page.sha /\ ~page'.conflict
      BY <1>0, <2>1 DEF Pages
  <2>3. ~Renaming' /\ Awaits(page'.phase, "locate")
      BY <2>2 DEF Renaming, Awaits
  <2> QED
      BY <1>0, <2>1, <2>2, <2>3, PageAsksTracked, CountKeepsFaults
<1>2. CASE TakeHint
  <2>1. /\ page.phase = "idle" /\ Aside /\ UNCHANGED count
        /\ \/ page' = [page EXCEPT !.hint = None] /\ UNCHANGED queue
           \/ /\ page' = [page EXCEPT !.hint = None, !.phase = "locating"]
              /\ queue' = Append(queue, Ask("locate"))
           \/ /\ page' = [page EXCEPT !.hint = None, !.phase = "settling"]
              /\ UNCHANGED queue
      BY <1>2 DEF TakeHint
  <2>2. page.goal = None
      BY <2>1 DEF Protocol, PageFits
  <2>3. /\ page'.path = page.path /\ page'.sha = page.sha /\ ~page'.conflict
        /\ page'.goal = None
        /\ \/ page'.phase \in {"idle", "settling"} /\ UNCHANGED queue
           \/ page'.phase = "locating" /\ queue' = Append(queue, Ask("locate"))
      BY <1>0, <2>1, <2>2 DEF Pages
  <2>4. ~Renaming' /\ (page'.phase = "locating" => Awaits(page'.phase, "locate"))
      BY <2>3 DEF Renaming, Awaits
  <2> QED
      BY <2>1, <2>3, <2>4, PageAsksTracked
<1>3. CASE Settle
  <2> DEFINE conflict == Exists(page.path) /\ ~Holds(page.path, page.sha)
  <2>1. /\ page.phase = "settling" /\ Aside /\ UNCHANGED count
        /\ \/ /\ page.goal \in {None, page.path} \/ conflict
              /\ page' = [Settled(page.path) EXCEPT !.conflict = @ \/ conflict]
              /\ UNCHANGED queue
           \/ /\ page.goal \notin {None, page.path}
              /\ page' = [page EXCEPT !.phase = "renaming"]
              /\ queue' = Append(queue, Ask("rename"))
      BY <1>3 DEF Settle
  <2>2. ~conflict
    <3>1. page.path \in Names /\ page.sha \in Bytes /\ page.sha = binding.sha
        BY <1>0 DEF Pages, World
    <3> QED
        BY <1>0, <3>1, NamedFacts
  <2> HIDE DEF conflict
  <2>3. CASE /\ page' = [Settled(page.path) EXCEPT !.conflict = @ \/ conflict]
             /\ UNCHANGED queue
    <3> DEFINE b == page.conflict \/ conflict
    <3>1. page' = [Settled(page.path) EXCEPT !.conflict = b]
        BY <1>0, <2>3 DEF Settled, Pages
    <3>2. ~b
        BY <1>0, <2>2
    <3> HIDE DEF b
    <3>3. /\ page'.phase = "idle" /\ page'.path = page.path
          /\ page'.sha = page.sha /\ page'.conflict = b
        BY <1>0, <3>1 DEF Settled, Pages
    <3>4. ~Renaming'
        BY <3>3 DEF Renaming
    <3> QED
        BY <2>1, <2>3, <3>2, <3>3, <3>4, PageAsksTracked
  <2>4. CASE /\ page.goal \notin {None, page.path}
             /\ page' = [page EXCEPT !.phase = "renaming"]
             /\ queue' = Append(queue, Ask("rename"))
    <3>1. /\ page'.phase = "renaming" /\ page'.path = page.path
          /\ page'.sha = page.sha /\ ~page'.conflict /\ page'.goal = page.goal
        BY <1>0, <2>4 DEF Pages
    <3>2. Renaming /\ Awaits(page'.phase, "rename")
        BY <2>1, <2>4, <3>1 DEF Renaming, Awaits
    <3> QED
        BY <2>1, <2>4, <3>1, <3>2, PageAsksTracked
  <2> QED
      BY <2>1, <2>3, <2>4
<1> QED
    BY <1>1, <1>2, <1>3, SaveTracked DEF PageStep

LEMMA CrashTracked ==
    ASSUME Typed, Protocol, Track, Crash
    PROVE  Track'
<1>1. /\ mem' = saved /\ queue' = <<Ask("launch"), Ask("active")>>
      /\ job' = Resting /\ touched' = {}
      /\ page' = [Opened(saved.active, page.sha) EXCEPT !.phase = "opening"]
      /\ UNCHANGED <<dir, bytes, binding, saved, blind>>
    BY DEF Crash, folder
<1>2. /\ page'.phase = "opening" /\ page'.sha = page.sha /\ ~page'.conflict
    BY <1>1 DEF Opened
<1>3. World' /\ Named' = Named
    BY <1>1, <1>2, WorldStays DEF Track
<1>4. Placed(mem)' /\ Placed(saved)'
    BY <1>1, <1>3 DEF Track, Placed
<1>5. job'.at = "start"
    BY <1>1 DEF Resting
<1>6. Steps' /\ Looks' /\ WillKnow'
    BY <1>5 DEF Steps, Looks, WillKnow, Taking
<1>7. Ready' /\ Told'
    BY <1>1, <1>2, <1>5 DEF Ready, Renaming, Told
<1> QED
    BY <1>3, <1>4, <1>6, <1>7 DEF Track

(* While others have done nothing, this is not their step. *)
LEMMA UndisturbedStays ==
    ASSUME CountTyped, Undisturbed', [Next]_vars
    PROVE  Undisturbed /\ ~Others
<1>1. ~Others
  <2>1. SUFFICES ASSUME NEW T, Changes(T) PROVE FALSE
      BY DEF Others, MoveAway, PutAnother, WriteInPlace, Delete, BringBack
  <2>2. count'.others = count.others + 1 /\ count.others \in Nat
      BY <2>1 DEF Changes, Counts, CountTyped
  <2> QED
      BY <2>2 DEF Undisturbed
<1>2. \/ count' = count
      \/ \E f \in {"faults", "renames", "saves", "crashes"} : Counts(f)
  <2>1. CASE RenameStep
      BY <2>1 DEF RenameStep, BeginRename, Recover, Prepare, LinkTarget,
         CheckTarget, UnlinkSource, Reread, Relink, Rollback, Finalize,
         RebindWorkspace, Clear, Abandon, Works, Fails
  <2>2. CASE FollowStep
      BY <2>2 DEF FollowStep, Probe, Emit, BeginWatch, BeginLocate, BeginActive,
         AskBridge, Commit, ReadActive, Works, Fails
  <2>3. CASE PageStep \/ Crash
      BY <2>3 DEF PageStep, Rename, TakeHint, Settle, Save, Crash
  <2>4. CASE UNCHANGED vars
      BY <2>4 DEF vars
  <2> QED
      BY <1>1, <2>1, <2>2, <2>3, <2>4 DEF Next
<1>3. count'.others = count.others
    BY <1>2 DEF Counts, CountTyped
<1> QED
    BY <1>1, <1>3 DEF Undisturbed

LEMMA TrackedStep ==
    ASSUME Own, FaultsCount, Tracked, Sound, [Next]_vars
    PROVE  Tracked'
<1>1. SUFFICES ASSUME Undisturbed' PROVE Track'
    BY DEF Tracked
<1>2. Typed /\ Protocol /\ CountTyped
    BY DEF Own, Typed
<1>3. Undisturbed /\ ~Others
    BY <1>1, <1>2, UndisturbedStays
<1>4. Track
    BY <1>3 DEF Tracked
<1>5. CASE RenameStep
    BY <1>2, <1>4, <1>5, BeginRenameTracked, RecoverTracked, PrepareTracked,
       LinkTargetTracked, LookTracked, UnlinkSourceTracked, RelinkTracked,
       RollbackTracked, FinalizeTracked, RebindTracked DEF RenameStep
<1>6. CASE FollowStep
    BY <1>2, <1>3, <1>4, <1>6, ProbeTracked, EmitTracked, BeginFollowTracked, AskBridgeTracked,
       CommitTracked, ReadActiveTracked DEF FollowStep
<1>7. CASE UNCHANGED vars
  <2>1. /\ UNCHANGED <<dir, bytes, binding, mem, saved, queue, job, page>>
        /\ UNCHANGED <<touched, blind, count>>
      BY <1>7 DEF vars
  <2>2. World' /\ Named' = Named
      BY <1>4, <2>1, WorldStays DEF Track, World
  <2>3. Kind' = Kind
      BY <2>1 DEF Kind
  <2> QED
      BY <1>2, <1>4, <2>1, <2>2, <2>3, TrackBehind
<1> QED
    BY <1>2, <1>3, <1>4, <1>5, <1>6, <1>7, PageTracked, CrashTracked DEF Next

-----------------------------------------------------------------------------
(* Sound: without failures, and nobody else in the folder.                  *)
LEMMA LaunchHeads ==
    ASSUME Typed, Protocol
    PROVE  /\ queue = <<>> => ~Launching
           /\ queue # <<>> => (Launching <=> Kind = "launch")
           /\ Launching => page.phase = "opening"
<1>1. queue # <<>> => 1 \in DOMAIN queue /\ Kind = queue[1].kind
    BY HeadOf DEF Typed, QueueTyped
<1>2. Launching => page.phase = "opening"
    BY DEF Launching, Protocol, QueueFits, Awaits
<1>3. Launching => queue # <<>> /\ Kind = "launch"
    BY <1>1 DEF Launching, Protocol, QueueFits
<1> QED
    BY <1>1, <1>2, <1>3 DEF Launching

LEMMA SmoothRests ==
    ASSUME job' = Resting, page'.phase \notin {"closed", "checking"},
           ~Launching' =>
               /\ Alone'
               /\ mem'.pending # None => dir'[mem'.pending.from] = None,
           page'.phase # "opening" =>
               Named' = {mem'.active} /\ page'.path = mem'.active
    PROVE  Smooth'
<1>1. job'.at = "start" /\ job'.retrying = FALSE
    BY DEF Resting
<1> QED
    BY <1>1 DEF Smooth, Exists, Taking

LEMMA SmoothMoves ==
    ASSUME Typed, Protocol, Stay, queue # <<>>, Kind \in {"launch", "rename"},
           job'.at \in {"link", "check", "unlink", "reread", "finalize", "rebind"},
           Kind = "launch" \/ ~job'.retrying
    PROVE  Smooth'
<1>1. page' = page /\ queue' = queue /\ Kind' = Kind /\ Launching' = Launching
    BY DEF Stay, Kind, Launching
<1>2. Kind = "launch" => page.phase = "opening" /\ Launching
    BY LaunchHeads
<1>3. Kind = "rename" => page.phase = "renaming"
    BY HeadAwaited DEF Typed, Protocol
<1> QED
    BY <1>1, <1>2, <1>3 DEF Smooth, Busy, Taking

LEMMA SmoothGoesOn ==
    ASSUME Typed, Protocol, queue # <<>>, Kind \in {"launch", "rename"},
           GoOn, WatchKeeps, Alone',
           mem'.pending # None => dir'[mem'.pending.from] = None,
           Kind = "rename" => Named' = {mem'.active} /\ page.path = mem'.active
    PROVE  Smooth'
<1>1. CASE Kind = "launch"
  <2>1. job' = Resting /\ page' = page /\ page.phase = "opening"
      BY <1>1, GoesOn, HeadAwaited DEF Typed, Protocol
  <2> QED
      BY <2>1, SmoothRests
<1>2. CASE Kind = "rename"
  <2>1. /\ job' = [Resting EXCEPT !.at = "prepare"] /\ queue' = queue
        /\ page' = page /\ page.phase = "renaming" /\ Kind' = Kind
      BY <1>2, GoesOn, HeadAwaited DEF Typed, Protocol, Kind
  <2>2. job'.at = "prepare"
      BY <2>1 DEF Resting
  <2> QED
      BY <1>2, <2>1, <2>2 DEF Smooth, Exists, Taking
<1> QED
    BY <1>1, <1>2

(* Where a rename stands that is not the end of another one. *)
LEMMA SmoothBusy ==
    ASSUME Typed, Protocol, Smooth, NEW l \in Taking, At(l)
    PROVE  /\ Kind = "rename" /\ (job.retrying \/ l = "recover") =>
                  /\ l \in {"recover", "finalize"} /\ Alone
                  /\ ~Exists(Intent.from)
                  /\ Named = {mem.active} /\ page.path = mem.active
           /\ l \notin {"relink", "rollback"}
<1>1. queue # <<>> /\ job.at = l /\ (l = "recover" => job.retrying) /\ Intent # None
    BY DEF At, Protocol, JobFits
<1>2. CASE Kind = "rename" /\ job.retrying
  <2>1. ~Launching /\ page.phase = "renaming" /\ ~Busy
      BY <1>1, <1>2, LaunchHeads, HeadAwaited DEF Typed, Protocol, Busy
  <2> QED
      BY <1>1, <2>1 DEF Smooth, Intent
<1> QED
    BY <1>1, <1>2 DEF Smooth

LEMMA BeginRenameSmooth ==
    ASSUME Typed, Protocol, Track, Smooth, ~blind, BeginRename, Track'
    PROVE  Smooth'
<1>1. /\ queue # <<>> /\ Kind \in {"launch", "rename"} /\ job.at = "start"
      /\ UNCHANGED main /\ UNCHANGED <<dir, watch>>
    BY DEF BeginRename, Serves, At, AsItWas
<1>2. mem' = mem /\ WatchKeeps /\ Named' = Named /\ ~Busy /\ (Alone' <=> Alone)
    BY <1>1, WatchStays DEF main, Named, Exists, Alone, Busy, Taking
<1>3. /\ Kind = "rename" => page.phase = "renaming"
      /\ Kind = "launch" => page.phase = "opening"
    BY <1>1, HeadAwaited DEF Typed, Protocol
<1>4. CASE Intent # None
  <2>1. job' = [job EXCEPT !.at = "recover", !.retrying = TRUE] /\ Stay
      BY <1>4 DEF BeginRename
  <2>2. job'.at = "recover" /\ job'.retrying = TRUE
      BY <2>1 DEF Typed, JobTyped, Jobs
  <2>3. page' = page /\ queue' = queue /\ Kind' = Kind /\ Launching' = Launching
      BY <2>1 DEF Stay, Kind, Launching
  <2> QED
      BY <1>1, <1>2, <2>2, <2>3 DEF Smooth, Exists
<1>5. CASE Intent = None
  <2>1. GoOn
      BY <1>5 DEF BeginRename
  <2>2. Named = {mem.active} /\ mem.active \in Names
      BY <1>5 DEF Track, Placed, Intent, Typed, MainTyped, Places
  <2>3. Kind = "rename" => Named = {mem.active} /\ page.path = mem.active
      BY <1>2, <1>3 DEF Smooth
  <2> QED
      BY <1>1, <1>2, <1>5, <2>1, <2>2, <2>3, SmoothGoesOn DEF Intent, Alone
<1> QED
    BY <1>4, <1>5

LEMMA RecoverSmooth ==
    ASSUME Typed, Protocol, Track, Smooth, ~rough', ~blind', Recover
    PROVE  Smooth'
<1> DEFINE from == Intent.from
           to == Intent.to
<1>1. /\ At("recover") /\ UNCHANGED <<dir, watch, lost, bytes, binding>>
    BY DEF Recover, AsItWas
<1>2. /\ queue # <<>> /\ job.at = "recover" /\ Kind \in {"launch", "rename"}
      /\ Intent # None /\ mem \in Places /\ mem.pending = Intent
      /\ from \in Names /\ to \in Names /\ Intent.sha \in Bytes /\ from # to
      /\ job \in Jobs /\ Named # {} /\ Named \subseteq {from, to}
      /\ page.phase \in {"opening", "renaming"}
      /\ Kind = "rename" <=> page.phase = "renaming"
      /\ World /\ Placed(mem)
    BY <1>1, MoveTracked DEF Taking, Intent
<1>3. job.retrying /\ WatchKeeps /\ Named' = Named /\ (Alone' <=> Alone)
    BY <1>1, <1>2, WatchStays DEF Protocol, JobFits, Named, Exists, Alone
<1>4. Kind = "rename" => /\ ~Exists(from) /\ Alone
                         /\ Named = {mem.active} /\ page.path = mem.active
    BY <1>1, <1>2, <1>3, SmoothBusy DEF Taking
<1>5. /\ \A n \in Names : Exists(n) <=> n \in Named
      /\ \A n \in Named : dir[n] = binding.file
      /\ \A n \in Names, s \in Bytes : Holds(n, s) <=> n \in Named /\ s = binding.sha
    BY <1>2, NamedFacts
<1>6. {from, to} \subseteq Named => Intent.sha = binding.sha
    BY <1>2 DEF Placed, Intent
<1> HIDE DEF from, to
<1> DEFINE Gone == \/ ~Exists(from) /\ ~Exists(to)
                   \/ Exists(from) /\ Exists(to) /\ ~SameFile(Intent)
                   \/ Exists(from) /\ ~Holds(from, Intent.sha)
           at == CASE ~Exists(from) -> "finalize"
                   [] Exists(from) /\ Exists(to) -> "check"
                   [] OTHER -> "link"
<1>7. ~Fails
    BY DEF Fails
<1>8. \/ Gone /\ Clear(GoOn)
      \/ /\ ~Gone
         /\ job' = [job EXCEPT !.file = dir[from], !.at = at]
         /\ Stay /\ UNCHANGED main
    BY <1>7 DEF Recover, from, to
<1>9. Gone => Named = {from} /\ Exists(from)
  <2>1. ~(~Exists(from) /\ ~Exists(to))
      BY <1>2, <1>5
  <2>2. Exists(from) /\ Exists(to) => SameFile(Intent)
      BY <1>2, <1>5 DEF SameFile, from, to
  <2>3. Exists(from) /\ ~Holds(from, Intent.sha) => from \in Named /\ to \notin Named
      BY <1>2, <1>5, <1>6
  <2> QED
      BY <1>2, <1>5, <2>1, <2>2, <2>3
<1>10. at \in {"finalize", "check", "link"} /\ (at = "finalize" <=> ~Exists(from))
    OBVIOUS
<1> HIDE DEF Gone, at
<1>11. CASE Gone /\ Clear(GoOn)
  <2>1. mem' = [mem EXCEPT !.pending = None] /\ GoOn
      BY <1>7, <1>11 DEF Clear
  <2>2. Kind = "launch"
      BY <1>2, <1>4, <1>9, <1>11
  <2>3. mem'.pending = None
      BY <1>2, <2>1 DEF Places
  <2>4. Alone'
      BY <1>2, <1>3, <1>9, <1>11 DEF Alone
  <2> QED
      BY <1>2, <1>3, <2>1, <2>2, <2>3, <2>4, SmoothGoesOn
<1>12. CASE /\ job' = [job EXCEPT !.file = dir[from], !.at = at]
            /\ Stay /\ UNCHANGED main
  <2>1. job'.at = at /\ job'.retrying = job.retrying
      BY <1>2, <1>12 DEF Jobs
  <2>2. CASE Kind = "launch"
      BY <1>2, <1>10, <1>12, <2>1, <2>2, SmoothMoves
  <2>3. CASE Kind = "rename"
    <3>1. job'.at = "finalize"
        BY <1>4, <1>10, <2>1, <2>3
    <3>2. /\ page' = page /\ queue' = queue /\ Kind' = Kind
          /\ mem' = mem /\ Launching' = Launching
        BY <1>12 DEF Stay, Kind, Launching, main
    <3>3. page.phase = "renaming"
        BY <1>2, <2>3
    <3>4. dir'[mem'.pending.from] = None
        BY <1>1, <1>2, <1>4, <2>3, <3>2 DEF Exists, from
    <3> QED
        BY <1>3, <1>4, <2>1, <2>3, <3>1, <3>2, <3>3, <3>4 DEF Smooth, Exists
  <2> QED
      BY <1>2, <2>2, <2>3
<1> QED
    BY <1>8, <1>11, <1>12

LEMMA PrepareSmooth ==
    ASSUME Typed, Protocol, Track, Smooth, ~rough', Prepare
    PROVE  Smooth'
<1>1. queue # <<>> /\ job.at = "prepare"
    BY DEF Prepare, At
<1>2. /\ Kind = "rename" /\ page.phase = "renaming" /\ ~job.retrying
      /\ page \in Pages /\ page.goal \in Names /\ page.goal # page.path
      /\ page.path \in Names /\ page.sha \in Bytes /\ job \in Jobs
    BY <1>1, HeadAwaited
       DEF Typed, Protocol, JobFits, PageFits, PageTyped, Pages, JobTyped
<1>3. World /\ page.sha = binding.sha
    BY DEF Track, World
<1>4. Named = {mem.active} /\ page.path = mem.active
    BY <1>1, <1>2 DEF Smooth, Busy, Taking
<1>5. /\ mem.active = page.path /\ Holds(page.path, page.sha)
      /\ ~Exists(page.goal)
    BY <1>2, <1>3, <1>4, NamedFacts
<1>6. ~Fails
    BY DEF Fails
<1>7. Stay /\ job' = [job EXCEPT !.at = "link", !.file = dir[page.path]]
    BY <1>5, <1>6 DEF Prepare
<1>8. job'.at = "link" /\ ~job'.retrying
    BY <1>2, <1>7 DEF Jobs
<1> QED
    BY <1>1, <1>2, <1>7, <1>8, SmoothMoves

(* A move that nothing disturbs goes from label to label. *)
LEMMA MoveSmooth ==
    ASSUME Typed, Protocol, Track, Smooth, NEW l \in Taking \ {"recover", "finalize"},
           At(l), Stay,
           job'.at \in {"link", "check", "unlink", "reread", "finalize", "rebind"},
           job'.retrying = job.retrying
    PROVE  Smooth'
<1>1. l \in Taking /\ queue # <<>> /\ Kind \in {"launch", "rename"}
    BY MoveTracked
<1>2. Kind = "launch" \/ ~job'.retrying
    BY <1>1, SmoothBusy
<1> QED
    BY <1>1, <1>2, SmoothMoves

LEMMA LinkTargetSmooth ==
    ASSUME Typed, Protocol, Track, Smooth, ~rough', LinkTarget
    PROVE  Smooth'
<1>1. At("link") /\ ~Fails
    BY DEF LinkTarget, Fails
<1>2. /\ Intent.from \in Names /\ Intent.to \in Names /\ Intent.from # Intent.to
      /\ job.at = "link" /\ job \in Jobs /\ World /\ Steps
    BY <1>1, MoveTracked DEF Taking
<1>3. Exists(Intent.from) /\ ~Exists(Intent.to)
    BY <1>2, NamedFacts DEF Steps
<1>4. Goto("check") /\ Stay
    BY <1>1, <1>3 DEF LinkTarget
<1>5. job'.at = "check" /\ job'.retrying = job.retrying
    BY <1>2, <1>4 DEF Goto, Jobs
<1> QED
    BY <1>1, <1>4, <1>5, MoveSmooth DEF Taking

(* The file that was linked is the document, whatever the label before.     *)
LEMMA CheckTargetSmooth ==
    ASSUME Typed, Protocol, Track, Smooth, Sparing, ~rough', CheckTarget
    PROVE  Smooth'
<1>1. At("check") /\ ~Fails /\ Stay
    BY DEF CheckTarget, Fails
<1>2. /\ Intent.from \in Names /\ Intent.to \in Names /\ Intent.sha \in Bytes
      /\ job.at = "check" /\ job \in Jobs /\ World /\ Steps
    BY <1>1, MoveTracked DEF Taking
<1>3. /\ Named = {Intent.from, Intent.to} /\ Intent.sha = binding.sha
      /\ touched = {}
    BY <1>2 DEF Steps, Taking, World
<1>4. dir[Intent.from] = job.file
    BY <1>2, <1>3 DEF Sparing
<1>5. dir[Intent.to] = job.file /\ Holds(Intent.to, Intent.sha)
    BY <1>2, <1>3, <1>4, NamedFacts
<1>6. Goto("unlink")
    BY <1>1, <1>5 DEF CheckTarget
<1>7. job'.at = "unlink" /\ job'.retrying = job.retrying
    BY <1>2, <1>6 DEF Goto, Jobs
<1> QED
    BY <1>1, <1>7, MoveSmooth DEF Taking

LEMMA UnlinkSourceSmooth ==
    ASSUME Typed, Protocol, Track, Smooth, ~rough', UnlinkSource
    PROVE  Smooth'
<1>1. At("unlink") /\ ~Fails
    BY DEF UnlinkSource, Fails
<1>2. /\ Intent.from \in Names /\ job.at = "unlink" /\ job \in Jobs
      /\ World /\ Steps
    BY <1>1, MoveTracked DEF Taking
<1>3. Exists(Intent.from)
    BY <1>2, NamedFacts DEF Steps
<1>4. Goto("reread") /\ Stay
    BY <1>1, <1>3 DEF UnlinkSource
<1>5. job'.at = "reread" /\ job'.retrying = job.retrying
    BY <1>2, <1>4 DEF Goto, Jobs
<1> QED
    BY <1>1, <1>4, <1>5, MoveSmooth DEF Taking

LEMMA RereadSmooth ==
    ASSUME Typed, Protocol, Track, Smooth, ~rough', Reread
    PROVE  Smooth'
<1>1. At("reread") /\ ~Fails /\ Stay
    BY DEF Reread, Fails
<1>2. /\ Intent.to \in Names /\ Intent.sha \in Bytes /\ job.at = "reread"
      /\ job \in Jobs /\ World /\ Steps
    BY <1>1, MoveTracked DEF Taking
<1>3. Named = {Intent.to} /\ Intent.sha = binding.sha
    BY <1>2 DEF Steps, Taking
<1>4. Holds(Intent.to, Intent.sha)
    BY <1>2, <1>3, NamedFacts
<1>5. Goto("finalize")
    BY <1>1, <1>4 DEF Reread
<1>6. job'.at = "finalize" /\ job'.retrying = job.retrying
    BY <1>2, <1>5 DEF Goto, Jobs
<1> QED
    BY <1>1, <1>6, MoveSmooth DEF Taking

(* A recovery goes on when the document has changed since. *)
LEMMA FinalizeSmooth ==
    ASSUME Typed, Protocol, Track, Smooth, ~rough', Finalize
    PROVE  Smooth'
<1> DEFINE from == Intent.from
           to == Intent.to
<1>1. /\ At("finalize") /\ ~Fails /\ UNCHANGED <<dir, watch>>
    BY DEF Finalize, AsItWas, Fails
<1>2. /\ queue # <<>> /\ job.at = "finalize" /\ Kind \in {"launch", "rename"}
      /\ mem \in Places /\ mem.pending = Intent
      /\ from \in Names /\ to \in Names /\ from # to /\ Intent.sha \in Bytes
      /\ job \in Jobs /\ World /\ Steps
    BY <1>1, MoveTracked DEF Taking, Intent
<1>3. Named = {to} /\ (~job.retrying => Intent.sha = binding.sha)
    BY <1>2 DEF Steps
<1>4. WatchKeeps /\ Named' = {to} /\ Alone'
    BY <1>1, <1>2, <1>3, WatchStays DEF Named, Exists, Alone
<1>5. Kind = "rename" /\ job.retrying => Named = {mem.active} /\ page.path = mem.active
    BY <1>1, SmoothBusy DEF Taking
<1> HIDE DEF from, to
<1>6. \/ /\ Holds(to, Intent.sha) /\ mem' = Renamed
         /\ IF job.retrying THEN GoOn ELSE Goto("rebind") /\ Stay
      \/ /\ ~Holds(to, Intent.sha) /\ UNCHANGED main
         /\ IF job.retrying THEN GoOn ELSE Refuse
    BY <1>1 DEF Finalize, to
<1>7. CASE /\ ~Holds(to, Intent.sha) /\ UNCHANGED main
           /\ IF job.retrying THEN GoOn ELSE Refuse
  <2>1. job.retrying /\ GoOn
      BY <1>2, <1>3, <1>7, NamedFacts
  <2>2. mem' = mem /\ dir[from] = None
      BY <1>2, <1>3, <1>7, NamedFacts DEF main, Exists
  <2> QED
      BY <1>1, <1>2, <1>3, <1>4, <1>5, <2>1, <2>2, SmoothGoesOn DEF from
<1>8. CASE Holds(to, Intent.sha) /\ mem' = Renamed /\ job.retrying /\ GoOn
  <2>1. mem'.pending = None
      BY <1>8 DEF Renamed
  <2>2. Kind = "rename" => mem'.active = mem.active
      BY <1>2, <1>3, <1>5, <1>8 DEF Renamed, from
  <2> QED
      BY <1>2, <1>3, <1>4, <1>5, <1>8, <2>1, <2>2, SmoothGoesOn
<1>9. CASE ~job.retrying /\ Goto("rebind") /\ Stay
  <2>1. job'.at = "rebind" /\ job'.retrying = job.retrying
      BY <1>2, <1>9 DEF Goto, Jobs
  <2> QED
      BY <1>2, <1>9, <2>1, SmoothMoves
<1> QED
    BY <1>6, <1>7, <1>8, <1>9

LEMMA RebindSmooth ==
    ASSUME Typed, Protocol, Track, Smooth, RebindWorkspace
    PROVE  Smooth'
<1>1. /\ queue # <<>> /\ job.at = "rebind" /\ UNCHANGED main /\ UNCHANGED dir
      /\ Watch(page.goal) /\ Succeed(page.goal, page.sha)
    BY DEF RebindWorkspace, At, folder
<1>2. /\ Kind = "rename" /\ page \in Pages
      /\ page.goal \in Names /\ page.sha \in Bytes
    BY <1>1, HeadAwaited
       DEF Typed, Protocol, JobFits, PageFits, PageTyped, Pages, Moving
<1>3. /\ mem.active = page.goal /\ Intent = None
      /\ Named = {page.goal}
    BY <1>1 DEF Protocol, JobNames, Track, Steps
<1>4. WatchKeeps
    BY <1>1, <1>2, WatchesName
<1>5. job' = Resting /\ page'.phase = "idle" /\ page'.path = page.goal
    BY <1>1, <1>2, <1>4, Succeeded
<1>6. mem' = mem /\ Named' = {page.goal} /\ Alone'
    BY <1>1, <1>2, <1>3 DEF main, Named, Exists, Alone
<1> QED
    BY <1>3, <1>5, <1>6, SmoothRests DEF Intent

LEMMA RenameSmooth ==
    ASSUME Typed, Protocol, Sparing, Track, Smooth, ~blind, ~rough', ~blind',
           Track', RenameStep
    PROVE  Smooth'
<1>1. ~Relink /\ ~Rollback
    BY DEF Smooth, Relink, Rollback, At
<1> QED
    BY <1>1, BeginRenameSmooth, RecoverSmooth, PrepareSmooth, LinkTargetSmooth,
       CheckTargetSmooth, UnlinkSourceSmooth, RereadSmooth, FinalizeSmooth,
       RebindSmooth DEF RenameStep

-----------------------------------------------------------------------------
(* Sound: following.                                                        *)
LEMMA SmoothBehind ==
    ASSUME Protocol, Smooth, UNCHANGED <<dir, mem, job>>, Launching' <=> Launching,
           queue # <<>> => queue' # <<>> /\ Kind' = Kind,
           page'.path = page.path, page'.phase \notin {"closed", "checking"},
           page'.phase = "opening" <=> page.phase = "opening"
    PROVE  Smooth'
<1>1. Named' = Named /\ (Alone' <=> Alone) /\ (Busy' <=> Busy)
    BY DEF Named, Exists, Alone, Busy
<1>2. queue = <<>> => job.at = "start"
    BY DEF Protocol, JobFits, Resting
<1>3. /\ ~Launching' /\ ~Busy' =>
             /\ Alone'
             /\ mem'.pending # None => ~(dir'[mem'.pending.from] # None)
             /\ job'.at \notin Taking \ {"recover", "finalize"}
      /\ page'.phase # "opening" /\ ~Busy' =>
             Named' = {mem'.active} /\ page'.path = mem'.active
      /\ job'.at \notin {"relink", "rollback"}
      /\ job'.at = "read" => dir'[job'.prior] # None
    BY <1>1 DEF Smooth, Exists
<1>4. queue' # <<>> /\ Kind' = "watch" => job'.at = "start"
    BY <1>2 DEF Smooth
<1> QED
    BY <1>3, <1>4 DEF Smooth, Exists

LEMMA ProbeSmooth ==
    ASSUME Typed, Protocol, Smooth, Probe
    PROVE  Smooth'
<1>1. UNCHANGED <<dir, mem, queue, job, page>>
    BY DEF Probe, main, Quietly, folder
<1>2. (Launching' <=> Launching) /\ Kind' = Kind
    BY <1>1 DEF Launching, Kind
<1> QED
    BY <1>1, <1>2, SmoothBehind DEF Smooth

LEMMA EmitSmooth ==
    ASSUME Typed, Protocol, Smooth, Emit
    PROVE  Smooth'
<1> DEFINE x == [kind |-> "watch", path |-> watch.name, gen |-> watch.gen]
<1>1. /\ watch.due /\ \A i \in DOMAIN queue : queue[i].kind # "watch"
      /\ queue' = Append(queue, x) /\ UNCHANGED <<dir, mem, job, page>>
    BY DEF Emit, main, Quietly, folder
<1>2. x \in Item /\ x.kind = "watch" /\ x.path \in Names
    BY <1>1 DEF Typed, WatchTyped, Watches, Protocol, PageFits, Item, Kinds
<1> HIDE DEF x
<1>3. queue' # <<>>
    BY <1>1, <1>2, AppendOf DEF Typed, QueueTyped
<1>4. (Launching' <=> Launching) /\ (queue # <<>> => Kind' = Kind)
    BY <1>1, <1>2, QueueCalls DEF Typed, Protocol
<1> QED
    BY <1>1, <1>3, <1>4, SmoothBehind DEF Smooth

(* What is at the head of the queue, and what the page thinks.              *)
LEMMA FollowSmooth ==
    ASSUME Typed, Protocol, Smooth, queue # <<>>, job.at \notin Moving,
           Kind \in {"watch", "locate", "active"}
    PROVE  /\ ~Launching /\ ~Busy /\ Alone
           /\ mem.pending # None => ~Exists(mem.pending.from)
           /\ page.phase # "opening" =>
                  Named = {mem.active} /\ page.path = mem.active
           /\ Kind = "watch" => job.at = "start" /\ page.phase # "opening"
           /\ Kind = "locate" => page.phase = "locating"
           /\ Kind = "active" => page.phase = "opening"
<1>1. ~Launching /\ ~Busy
    BY LaunchHeads DEF Busy, Moving
<1> QED
    BY <1>1, HeadFollows DEF Smooth

(* The answer leaves the document where it is, and the page with it. *)
LEMMA FollowRests ==
    ASSUME Typed, Protocol, Smooth, queue # <<>>, job.at \notin Moving,
           Kind \in {"watch", "locate", "active"},
           UNCHANGED dir, job' = Resting,
           page'.phase \notin {"closed", "checking"},
           mem'.pending = mem.pending,
           page'.phase # "opening" =>
               Named = {mem'.active} /\ page'.path = mem'.active
    PROVE  Smooth'
<1>1. Named' = Named /\ (Alone' <=> Alone)
    BY DEF Named, Exists, Alone
<1>2. Alone /\ (mem.pending # None => ~Exists(mem.pending.from))
    BY FollowSmooth
<1> QED
    BY <1>1, <1>2, SmoothRests DEF Exists

(* The head sets out, or goes on. *)
LEMMA FollowGoes ==
    ASSUME Typed, Protocol, Smooth, queue # <<>>, job.at \notin Moving,
           Kind \in {"locate", "active"}, UNCHANGED dir, Stay,
           job'.at \in {"ask", "commit", "read"},
           mem'.pending = mem.pending,
           page.phase # "opening" => mem'.active = mem.active,
           job'.at = "read" => Exists(job'.prior)
    PROVE  Smooth'
<1>1. Named' = Named /\ (Alone' <=> Alone) /\ ~Busy'
    BY DEF Named, Exists, Alone, Busy, Taking
<1>2. page' = page /\ queue' = queue /\ Kind' = Kind /\ Launching' = Launching
    BY DEF Stay, Kind, Launching
<1>3. /\ Alone /\ ~Launching
      /\ mem.pending # None => ~Exists(mem.pending.from)
      /\ page.phase # "opening" =>
             Named = {mem.active} /\ page.path = mem.active
    BY FollowSmooth
<1>4. page.phase \notin {"closed", "checking"}
    BY DEF Smooth
<1> QED
    BY <1>1, <1>2, <1>3, <1>4 DEF Smooth, Exists, Taking

LEMMA BeginFollowSmooth ==
    ASSUME Typed, Protocol, Track, Smooth, BeginWatch \/ BeginLocate \/ BeginActive
    PROVE  Smooth'
<1>1. /\ queue # <<>> /\ job.at = "start" /\ Kind \in {"watch", "locate", "active"}
      /\ UNCHANGED main /\ UNCHANGED dir
    BY DEF BeginWatch, BeginLocate, BeginActive, Serves, At, Quietly, folder
<1>2. /\ job \in Jobs /\ page \in Pages /\ World /\ mem' = mem
      /\ mem.active \in Names /\ job.at \notin Moving
    BY <1>1 DEF Track, Typed, JobTyped, PageTyped, MainTyped, Places, main,
            Moving, Taking
<1>3. CASE BeginWatch
  <2>1. Kind = "watch" /\ Named = {mem.active} /\ page.path = mem.active
        /\ page.phase # "opening"
    <3>1. Kind = "watch"
        BY <1>3 DEF BeginWatch, Serves
    <3> QED
        BY <1>1, <1>2, <3>1, FollowSmooth
  <2>2. Exists(mem.active)
      BY <1>2, <2>1, NamedFacts
  <2>3. Done /\ Hint(Head(queue).path, Head(queue).gen, FALSE)
      BY <1>3, <2>2 DEF BeginWatch
  <2>4. Head(queue).path \in Names /\ Head(queue).gen \in Nat
      BY <1>1, <2>1, HeadAwaited DEF Typed, Protocol
  <2>5. page'.phase = page.phase /\ page'.path = page.path
      BY <1>2, <2>3, <2>4, HintKeeps
  <2> QED
      BY <1>1, <1>2, <2>1, <2>3, <2>5, FollowRests DEF Done, Smooth
<1>4. CASE BeginLocate
  <2>1. Stay /\ Kind = "locate" /\ job' = [job EXCEPT !.at = "ask", !.prior = page.path]
      BY <1>4 DEF BeginLocate, Serves
  <2>2. job'.at = "ask"
      BY <1>2, <2>1 DEF Jobs
  <2> QED
      BY <1>1, <1>2, <2>1, <2>2, FollowGoes
<1>5. CASE BeginActive
  <2> DEFINE l == IF Exists(mem.active) THEN "read" ELSE "ask"
  <2>1. Stay /\ Kind = "active" /\ job' = [job EXCEPT !.prior = mem.active, !.at = l]
      BY <1>5 DEF BeginActive, Serves
  <2>2. l \in {"read", "ask"} /\ (l = "read" => Exists(mem.active))
      OBVIOUS
  <2> HIDE DEF l
  <2>3. job'.at = l /\ job'.prior = mem.active
      BY <1>2, <2>1 DEF Jobs
  <2> QED
      BY <1>1, <1>2, <2>1, <2>2, <2>3, FollowGoes
<1> QED
    BY <1>3, <1>4, <1>5

LEMMA AskBridgeSmooth ==
    ASSUME Typed, Protocol, Track, Smooth, ~rough', AskBridge
    PROVE  Smooth'
<1>1. At("ask") /\ UNCHANGED main /\ UNCHANGED dir /\ ~Fails
    BY DEF AskBridge, Fails, Quietly, folder
<1>2. /\ queue # <<>> /\ job.at = "ask" /\ job \in Jobs
      /\ Kind \in {"watch", "locate", "active"} /\ mem' = mem /\ World
      /\ job.at \notin Moving
    BY <1>1, FollowStarts DEF main, Track, Moving, Taking
<1>3. Alone /\ Kind # "watch"
    BY <1>2, FollowSmooth
<1>4. Located # {}
    BY <1>2, <1>3, NamedFacts
<1>5. PICK n : Stay /\ job' = [job EXCEPT !.at = "commit", !.next = n,
                                          !.sha = bytes[dir[n]]]
    BY <1>1, <1>4 DEF AskBridge
<1>6. job'.at = "commit"
    BY <1>2, <1>5 DEF Jobs
<1> QED
    BY <1>1, <1>2, <1>3, <1>5, <1>6, FollowGoes

LEMMA CommitSmooth ==
    ASSUME Typed, Protocol, Track, Smooth, ~rough', Commit
    PROVE  Smooth'
<1>1. At("commit") /\ UNCHANGED dir /\ ~Fails
    BY DEF Commit, Fails, Quietly, folder
<1>2. /\ queue # <<>> /\ job.at = "commit" /\ job \in Jobs
      /\ Kind \in {"watch", "locate", "active"}
      /\ Kind # "locate" => job.prior = mem.active
      /\ job.next \in Names /\ job.sha \in Bytes /\ job.at \notin Moving
    BY <1>1, FollowStarts DEF Moving, Taking
<1>3. /\ Kind \in {"locate", "active"}
      /\ Kind = "active" => page.phase = "opening"
      /\ Kind = "locate" => page.phase = "locating" /\ Named = {mem.active}
    BY <1>2, FollowSmooth
<1>4. /\ World /\ mem \in Places /\ Named = {job.next} /\ job.sha = binding.sha
    BY <1>2, <1>3 DEF Track, Looks, Typed, MainTyped
<1>5. Holds(job.next, job.sha) /\ Exists(job.next)
    BY <1>2, <1>4, NamedFacts
<1>6. Follows(job.next)
    BY <1>2, <1>3, <1>4 DEF Follows
<1>7. /\ mem' = [mem EXCEPT !.active = job.next] /\ Watch(job.next)
      /\ IF Kind = "active"
         THEN /\ job' = [job EXCEPT !.at = "read", !.prior = job.next]
              /\ Stay
         ELSE Succeed(job.next, job.sha)
    BY <1>1, <1>5, <1>6 DEF Commit
<1>8. mem'.pending = mem.pending /\ mem'.active = job.next
    BY <1>4, <1>7 DEF Places
<1>9. CASE Kind = "active"
  <2>1. job'.at = "read" /\ job'.prior = job.next /\ Stay
      BY <1>2, <1>7, <1>9 DEF Jobs
  <2> QED
      BY <1>1, <1>2, <1>3, <1>5, <1>8, <1>9, <2>1, FollowGoes
<1>10. CASE Kind = "locate"
  <2>1. WatchKeeps
      BY <1>2, <1>7, WatchesName
  <2>2. job' = Resting /\ page'.phase = "settling" /\ page'.path = job.next
      BY <1>2, <1>7, <1>10, <2>1, Succeeded
  <2> QED
      BY <1>1, <1>2, <1>4, <1>8, <1>10, <2>2, FollowRests
<1> QED
    BY <1>3, <1>9, <1>10

LEMMA ReadActiveSmooth ==
    ASSUME Typed, Protocol, Track, Smooth, ~rough, ~rough', ReadActive
    PROVE  Smooth'
<1>1. At("read") /\ UNCHANGED main /\ UNCHANGED dir /\ ~Fails
    BY DEF ReadActive, Fails, Quietly, folder
<1>2. /\ queue # <<>> /\ job.at = "read" /\ job.prior \in Names
      /\ Kind = "active" /\ mem' = mem /\ World /\ job.at \notin Moving
    BY <1>1, FollowStarts DEF main, Track, Moving, Taking
<1>3. /\ Alone /\ page.phase = "opening" /\ Exists(job.prior)
      /\ job.prior = mem.active
    BY <1>2, FollowSmooth DEF Smooth, Protocol, JobNames
<1>4. Located = {job.prior} /\ Named = {job.prior}
    BY <1>2, <1>3, NamedFacts DEF Alone
<1>5. Watch(job.prior) /\ Succeed(job.prior, bytes[dir[job.prior]])
    BY <1>1, <1>3, <1>4 DEF ReadActive
<1>6. bytes[dir[job.prior]] \in Bytes
    BY <1>2, <1>4, NamedFacts, Parts
<1>7. WatchKeeps /\ watch'.name # None
    BY <1>2, <1>5, WatchesName, Constants
<1>8. job' = Resting /\ page'.phase = "idle" /\ page'.path = job.prior
    BY <1>2, <1>3, <1>5, <1>6, <1>7, Succeeded
<1> QED
    BY <1>1, <1>2, <1>3, <1>4, <1>8, FollowRests

-----------------------------------------------------------------------------
(* Sound: the page, and the end of the program.                             *)
LEMMA PageAsksSmooth ==
    ASSUME Typed, Protocol, Smooth, page.phase \in {"idle", "settling"}, Aside,
           page'.phase \in {"locating", "settling", "renaming", "idle"},
           page'.path = page.path,
           \/ UNCHANGED queue
           \/ \E k \in {"locate", "rename"} :
                  queue' = Append(queue, Ask(k)) /\ Awaits(page'.phase, k)
    PROVE  Smooth'
<1>1. UNCHANGED <<dir, mem, job>> /\ ~Launching
    BY IdleJob DEF Aside, main, folder
<1>2. (queue # <<>> => queue' # <<>> /\ Kind' = Kind) /\ ~Launching'
  <2>1. CASE UNCHANGED queue
      BY <1>1, <2>1 DEF Kind, Launching
  <2>2. CASE \E k \in {"locate", "rename"} :
                 queue' = Append(queue, Ask(k)) /\ Awaits(page'.phase, k)
    <3>1. /\ queue' # <<>>
          /\ \A i \in DOMAIN queue' : queue'[i].kind # "launch"
          /\ queue # <<>> => Kind' = Kind
        BY <2>2, PageAsks
    <3> QED
        BY <3>1 DEF Launching
  <2> QED
      BY <2>1, <2>2
<1> QED
    BY <1>1, <1>2, SmoothBehind

LEMMA SaveSmooth ==
    ASSUME Typed, Protocol, Track, Smooth, NEW sha \in Bytes, Save(sha)
    PROVE  Smooth'
<1>1. page.phase = "idle" /\ UNCHANGED main /\ UNCHANGED <<queue, job>>
    BY DEF Save
<1>2. Named' = Named /\ Named = {page'.path} /\ mem' = mem
    BY <1>1, SaveTracked DEF main
<1>3. page'.phase = "idle"
    BY <1>1 DEF Save, Typed, PageTyped, Pages
<1>4. ~Launching /\ job.at \notin Moving /\ job.at # "read"
    BY <1>1, IdleJob
<1>5. /\ Named = {mem.active} /\ Alone
      /\ mem.pending # None => ~Exists(mem.pending.from)
    BY <1>1, <1>4 DEF Smooth, Busy, Moving
<1>6. mem.pending # None => dir'[mem.pending.from] = None
    BY <1>2, <1>5 DEF Named, Exists, Typed, MainTyped, Places, Intents
<1>7. Kind' = Kind /\ queue' = queue /\ job' = job /\ (Alone' <=> Alone)
    BY <1>1, <1>2 DEF Kind, Alone
<1> QED
    BY <1>2, <1>3, <1>4, <1>5, <1>6, <1>7 DEF Smooth, Exists, Moving, Taking

LEMMA PageSmooth ==
    ASSUME Typed, Protocol, Track, Smooth, PageStep
    PROVE  Smooth'
<1>0. page \in Pages
    BY DEF Typed, PageTyped
<1>1. ASSUME NEW n \in Names, Rename(n)
      PROVE  Smooth'
  <2>1. /\ page.phase = "idle" /\ Aside
        /\ page' = [page EXCEPT !.phase = "locating", !.goal = n]
        /\ queue' = Append(queue, Ask("locate"))
      BY <1>1 DEF Rename
  <2>2. page'.phase = "locating" /\ page'.path = page.path
      BY <1>0, <2>1 DEF Pages
  <2>3. Awaits(page'.phase, "locate")
      BY <2>2 DEF Awaits
  <2> QED
      BY <2>1, <2>2, <2>3, PageAsksSmooth
<1>2. CASE TakeHint
  <2>1. /\ page.phase = "idle" /\ Aside
        /\ \/ page' = [page EXCEPT !.hint = None] /\ UNCHANGED queue
           \/ /\ page' = [page EXCEPT !.hint = None, !.phase = "locating"]
              /\ queue' = Append(queue, Ask("locate"))
           \/ /\ page' = [page EXCEPT !.hint = None, !.phase = "settling"]
              /\ UNCHANGED queue
      BY <1>2 DEF TakeHint
  <2>2. /\ page'.path = page.path
        /\ \/ page'.phase \in {"idle", "settling"} /\ UNCHANGED queue
           \/ page'.phase = "locating" /\ queue' = Append(queue, Ask("locate"))
      BY <1>0, <2>1 DEF Pages
  <2>3. page'.phase = "locating" => Awaits(page'.phase, "locate")
      BY DEF Awaits
  <2> QED
      BY <2>1, <2>2, <2>3, PageAsksSmooth
<1>3. CASE Settle
  <2> DEFINE conflict == Exists(page.path) /\ ~Holds(page.path, page.sha)
             b == page.conflict \/ conflict
  <2>1. /\ page.phase = "settling" /\ Aside
        /\ \/ /\ page' = [Settled(page.path) EXCEPT !.conflict = @ \/ conflict]
              /\ UNCHANGED queue
           \/ /\ page' = [page EXCEPT !.phase = "renaming"]
              /\ queue' = Append(queue, Ask("rename"))
      BY <1>3 DEF Settle
  <2>2. CASE /\ page' = [Settled(page.path) EXCEPT !.conflict = @ \/ conflict]
             /\ UNCHANGED queue
    <3>1. page' = [Settled(page.path) EXCEPT !.conflict = b]
        BY <1>0, <2>2 DEF Settled, Pages
    <3> HIDE DEF b
    <3>2. page'.phase = "idle" /\ page'.path = page.path
        BY <1>0, <3>1 DEF Settled, Pages
    <3> QED
        BY <2>1, <2>2, <3>2, PageAsksSmooth
  <2>3. CASE /\ page' = [page EXCEPT !.phase = "renaming"]
             /\ queue' = Append(queue, Ask("rename"))
    <3>1. page'.phase = "renaming" /\ page'.path = page.path
        BY <1>0, <2>3 DEF Pages
    <3>2. Awaits(page'.phase, "rename")
        BY <3>1 DEF Awaits
    <3> QED
        BY <2>1, <2>3, <3>1, <3>2, PageAsksSmooth
  <2> QED
      BY <2>1, <2>2, <2>3
<1> QED
    BY <1>1, <1>2, <1>3, SaveSmooth DEF PageStep

LEMMA CrashSmooth ==
    ASSUME Crash
    PROVE  Smooth'
<1>1. /\ queue' = <<Ask("launch"), Ask("active")>> /\ job' = Resting
      /\ page' = [Opened(saved.active, page.sha) EXCEPT !.phase = "opening"]
    BY DEF Crash
<1>2. page'.phase = "opening"
    BY <1>1 DEF Opened
<1>3. 1 \in DOMAIN queue' /\ queue'[1].kind = "launch"
    BY <1>1, LaunchQueue
<1>4. Launching'
    BY <1>3 DEF Launching
<1> QED
    BY <1>1, <1>2, <1>4, SmoothRests

(* A failure is remembered until the next launch. *)
LEMMA FailuresStay ==
    ASSUME [Next]_vars, ~Crash, ~Others
    PROVE  (rough' = rough \/ rough') /\ (blind' = blind \/ blind')
<1>1. CASE RenameStep
    BY <1>1 DEF RenameStep, BeginRename, Recover, Prepare, LinkTarget,
       CheckTarget, UnlinkSource, Reread, Relink, Rollback, Finalize,
       RebindWorkspace, Clear, Abandon, Works, Fails, Calm
<1>2. CASE FollowStep
    BY <1>2 DEF FollowStep, Probe, Emit, BeginWatch, BeginLocate, BeginActive,
       AskBridge, Commit, ReadActive, Works, Fails, Quietly
<1>3. CASE PageStep
    BY <1>3 DEF PageStep, Rename, TakeHint, Settle, Save, Aside
<1>4. CASE UNCHANGED vars
    BY <1>4 DEF vars
<1> QED
    BY <1>1, <1>2, <1>3, <1>4 DEF Next

LEMMA SoundStep ==
    ASSUME Own, Sparing, FaultsCount, Tracked, Sound, [Next]_vars
    PROVE  Sound'
<1>1. SUFFICES ASSUME Undisturbed', ~rough', ~blind' PROVE Smooth'
    BY DEF Sound
<1>2. Typed /\ Protocol /\ CountTyped
    BY DEF Own, Typed
<1>3. Undisturbed /\ ~Others
    BY <1>1, <1>2, UndisturbedStays
<1>4. CASE Crash
    BY <1>4, CrashSmooth
<1>5. CASE ~Crash
  <2>1. ~rough /\ ~blind
      BY <1>1, <1>3, <1>5, FailuresStay
  <2>2. Track /\ Smooth /\ Track'
      BY <1>1, <1>3, <2>1, TrackedStep DEF Tracked, Sound
  <2>3. CASE RenameStep
      BY <1>1, <1>2, <2>1, <2>2, <2>3, RenameSmooth
  <2>4. CASE FollowStep
      BY <1>1, <1>2, <2>1, <2>2, <2>4, ProbeSmooth, EmitSmooth, BeginFollowSmooth,
         AskBridgeSmooth, CommitSmooth, ReadActiveSmooth DEF FollowStep
  <2>5. CASE PageStep
      BY <1>2, <2>2, <2>5, PageSmooth
  <2>6. CASE UNCHANGED vars
    <3>1. UNCHANGED <<dir, mem, queue, job, page>>
        BY <2>6 DEF vars
    <3>2. (Launching' <=> Launching) /\ Kind' = Kind
        BY <3>1 DEF Launching, Kind
    <3> QED
        BY <1>2, <2>2, <3>1, <3>2, SmoothBehind DEF Smooth
  <2> QED
      BY <1>3, <1>5, <2>3, <2>4, <2>5, <2>6 DEF Next
<1> QED
    BY <1>4, <1>5

-----------------------------------------------------------------------------
(* The beginning, and every step.                                           *)
LEMMA InitTracked ==
    Init => Tracked /\ Sound
<1> SUFFICES ASSUME Init PROVE Track /\ Smooth
    BY DEF Tracked, Sound
<1>1. PICK sha \in Bytes :
          /\ bytes = <<sha>>
          /\ binding = [file |-> 1, name |-> First, sha |-> sha]
          /\ page = Opened(First, sha)
    BY DEF Init
<1>2. /\ dir = [n \in Names |-> IF n = First THEN 1 ELSE None]
      /\ mem = [active |-> First, pending |-> None] /\ saved = mem
      /\ queue = <<>> /\ job = Resting /\ touched = {}
    BY DEF Init
<1>3. First \in Names /\ 1 # None
    BY Constants
<1>4. Named = {First} /\ Alone
  <2>1. \A n \in Names : dir[n] # None <=> n = First
      BY <1>2, <1>3
  <2>2. Named = {First}
      BY <1>3, <2>1 DEF Named, Exists
  <2> QED
      BY <1>3, <2>2 DEF Alone
<1>5. /\ page.phase = "idle" /\ page.path = First /\ page.sha = sha
      /\ ~page.conflict /\ job.at = "start" /\ job.retrying = FALSE
    BY <1>1, <1>2 DEF Opened, Resting
<1>6. World
  <2>1. bytes[1] = sha /\ binding.file = 1 /\ binding.sha = sha
      BY <1>1
  <2> QED
      BY <1>2, <1>4, <1>5, <2>1 DEF World
<1>7. Placed(mem) /\ Placed(saved)
    BY <1>2, <1>4 DEF Placed
<1>8. Steps /\ Ready /\ Looks /\ WillKnow /\ Told
    BY <1>2, <1>5 DEF Steps, Ready, Renaming, Looks, WillKnow, Told, Taking
<1>9. Smooth
    BY <1>2, <1>4, <1>5 DEF Smooth, Taking
<1> QED
    BY <1>6, <1>7, <1>8, <1>9 DEF Track

(* The groups hold together, at every step of the program and of others,    *)
(* whatever fails and wherever the program stops.                           *)
THEOREM Invariance == Spec => []IInv
<1>1. Init => IInv
    BY InitHolds, InitTracked DEF IInv
<1>2. IInv /\ [Next]_vars => IInv'
  <2> SUFFICES ASSUME IInv, [Next]_vars PROVE IInv'
      OBVIOUS
  <2>1. (Own /\ Sparing /\ Watched /\ SavedFollows /\ FaultsCount)'
      BY PartStep DEF IInv
  <2>2. Tracked' /\ Sound'
      BY TrackedStep, SoundStep DEF IInv
  <2> QED
      BY <2>1, <2>2 DEF IInv
<1> QED
    BY <1>1, <1>2, PTL DEF Spec

(* Every variable keeps its type and its bound, and at most three questions *)
(* wait in projectOpenQueue.                                                *)
THEOREM TypeCorrect == Spec => []TypeOK
<1>1. IInv => TypeOK
  <2> SUFFICES ASSUME IInv PROVE TypeOK
      OBVIOUS
  <2>1. Typed /\ Protocol
      BY DEF IInv, Own
  <2>2. dir \in [Names -> Files \cup {None}] /\ binding \in [file : Files, name : Names, sha : Bytes]
    <3>1. 1..Len(bytes) \subseteq Files
        BY <2>1, Parts
    <3> QED
        BY <2>1, <3>1 DEF Typed, FolderTyped
  <2>3. bytes \in Seq(Bytes) /\ Len(bytes) <= 1 + MaxExternal + MaxSaves
      BY <2>1, Parts, Constants
  <2>4. {mem, saved} \subseteq [active : Names, pending : Intents \cup {None}]
      BY <2>1 DEF Typed, MainTyped, Places
  <2>5. Len(queue) <= 3
      BY <2>1, ShortQueue DEF Typed, Protocol
  <2>6. \A i \in DOMAIN queue :
           queue[i] \in [kind : {"launch", "rename", "locate", "active", "watch"},
                         path : Names \cup {None}, gen : Nat]
      BY <2>1, ElementOfSeq, LenProperties DEF Typed, QueueTyped, Item, Kinds
  <2>7. /\ job \in Jobs /\ page \in Pages
        /\ watch \in Watches
        /\ touched \subseteq Names \cup Files \cup {None} /\ lost \subseteq Files
      BY <2>1 DEF Typed, JobTyped, PageTyped, WatchTyped, Watches, FolderTyped
  <2>8. {rough, blind} \subseteq BOOLEAN /\ CountTyped
      BY <2>1 DEF Typed, CountTyped
  <2> QED
      BY <2>2, <2>3, <2>4, <2>5, <2>6, <2>7, <2>8
         DEF TypeOK, Jobs, Moving, Taking, Pages, Watches, CountTyped
<1> QED
    BY <1>1, Invariance, PTL

(* moveRegularFileNoReplace, its rollback and recoverPendingSourceRename    *)
(* never remove the last name of a file that was there before the move,     *)
(* however others change the folder and whichever step fails.               *)
THEOREM NothingIsLost == Spec => []NothingLost
<1>1. IInv => NothingLost
    BY DEF IInv, Sparing, NothingLost
<1> QED
    BY <1>1, Invariance, PTL

(* In rest, the main process does not name a missing file while the bridge  *)
(* can find the document: a watcher that has nothing to say and has missed  *)
(* nothing, a probe that has nothing to do, and no call in the queue mean   *)
(* that recoverWatchedManagedSource has followed.                           *)
THEOREM MainFollowsDocument == Spec => []MainFollows
<1>1. IInv => MainFollows
  <2> SUFFICES ASSUME IInv, Quiet, page.phase = "idle", ~rough, ~watch.unseen,
                      Located # {}
               PROVE  Exists(mem.active)
      BY DEF MainFollows
  <2>1. ~Unprobed
      BY DEF Quiet, Unprobed, Exists
  <2>2. ~Heard
      BY <2>1 DEF Quiet, Heard, Calls
  <2> QED
      BY <2>2 DEF IInv, Watched, Shown
<1> QED
    BY <1>1, Invariance, PTL

(* A launch after any crash, and any error of an earlier launch, leaves the *)
(* document under one name, every part of the program at that name, and no  *)
(* intent to move it.                                                       *)
THEOREM Recovered == Spec => []RecoveredIsSettled
<1>1. IInv => RecoveredIsSettled
  <2> SUFFICES ASSUME IInv, queue = <<>>, page.phase \in {"idle", "closed"},
                      Undisturbed, ~rough, ~blind
               PROVE  /\ BoundNames = {saved.active}
                      /\ page.path = saved.active
                      /\ saved.pending # None => ~Exists(saved.pending.from)
      BY DEF RecoveredIsSettled
  <2>1. Typed /\ Protocol /\ World /\ Smooth /\ saved = mem
      BY DEF IInv, Own, Tracked, Track, Sound, SavedFollows
  <2>2. ~Launching /\ job = Resting
      BY <2>1, LaunchHeads DEF Protocol, JobFits
  <2>3. ~Busy
      BY <2>2 DEF Busy, Resting, Taking
  <2>4. BoundNames = Named
      BY <2>1, NamedFacts
  <2> QED
      BY <2>1, <2>2, <2>3, <2>4 DEF Smooth
<1> QED
    BY <1>1, Invariance, PTL

(* A document with two names, both of Stemmio's making, has an intent on     *)
(* disk that tells which of them goes (recoverPendingSourceRename relies on *)
(* it).                                                                     *)
THEOREM TwoNamesAreRecorded == Spec => []MovesAreRecorded
<1>1. IInv => MovesAreRecorded
  <2> SUFFICES ASSUME IInv, Undisturbed, ~blind, Cardinality(BoundNames) = 2,
                      saved.pending = None
               PROVE  FALSE
      BY DEF MovesAreRecorded
  <2>1. Typed /\ World /\ Placed(saved)
      BY DEF IInv, Own, Tracked, Track
  <2>2. BoundNames = {saved.active}
      BY <2>1, NamedFacts DEF Placed
  <2>3. Cardinality({saved.active}) = 1
      BY FS_Singleton
  <2> QED
      BY <2>2, <2>3
<1> QED
    BY <1>1, Invariance, PTL

-----------------------------------------------------------------------------
(* What the user is told.                                                   *)

(* Only the end of a rename, or the question after an error, is an answer.  *)
LEMMA AnsweredBy ==
    ASSUME Typed, Protocol, Next, Answered
    PROVE  \/ RebindWorkspace /\ page.phase = "renaming"
           \/ ReadActive /\ page.phase = "checking"
<1>1. /\ page \in Pages /\ page.phase \in {"renaming", "checking"}
      /\ page'.phase = "idle"
    BY DEF Answered, Typed, PageTyped
<1>2. CASE RenameStep
  <2>1. queue # <<>>
      BY <1>2 DEF RenameStep, BeginRename, Recover, Prepare, LinkTarget,
         CheckTarget, UnlinkSource, Reread, Relink, Rollback, Finalize,
         RebindWorkspace, At
  <2>2. Kind \in {"launch", "rename"}
      BY <1>2, <2>1 DEF RenameStep, BeginRename, Recover, Prepare, LinkTarget,
         CheckTarget, UnlinkSource, Reread, Relink, Rollback, Finalize,
         RebindWorkspace, At, Serves, Protocol, JobFits, Moving, Taking
  <2>3. Kind = "rename" /\ page.phase = "renaming"
      BY <1>1, <2>1, <2>2, HeadAwaited DEF Typed, Protocol
  <2>4. CASE ~RebindWorkspace
    <3>1. page' = page \/ Refuse
        BY <1>2, <2>3, <2>4 DEF RenameStep, BeginRename, Recover, Prepare,
           LinkTarget, CheckTarget, UnlinkSource, Reread, Relink, Rollback,
           Finalize, Clear, Abandon, Keep, Stay, GoOn
    <3>2. ~Refuse
        BY <1>1, <2>3 DEF Refuse, Pages
    <3> QED
        BY <1>1, <3>1, <3>2
  <2> QED
      BY <2>3, <2>4
<1>3. CASE FollowStep
  <2>1. CASE Probe \/ Emit
      BY <1>1, <2>1 DEF Probe, Emit
  <2>2. CASE BeginWatch \/ BeginLocate \/ BeginActive
    <3>1. CASE page' = page
        BY <1>1, <3>1
    <3>2. ASSUME NEW p, NEW g, Hint(p, g, FALSE)
          PROVE  page'.phase = page.phase
        BY <1>1, <3>2 DEF Hint, Pages
    <3> QED
        BY <1>1, <2>2, <3>1, <3>2 DEF BeginWatch, BeginLocate, BeginActive, Stay
  <2>3. CASE AskBridge \/ Commit
    <3>1. /\ queue # <<>> /\ job.prior \in Names
          /\ Kind \in {"watch", "locate", "active"}
          /\ job.at = "commit" => job.next \in Names /\ job.sha \in Bytes
        BY <2>3, FollowStarts DEF AskBridge, Commit, At
    <3>2. Kind # "locate"
        BY <1>1, <3>1, HeadAwaited DEF Typed, Protocol
    <3>3. \/ page' = page
          \/ Kind = "watch" /\ (Refuse \/ \E n, sha : Succeed(n, sha))
        BY <2>3, <3>1, <3>2 DEF AskBridge, Commit, Unanswered, Stay
    <3>4. ASSUME NEW p, NEW g, NEW m, Hint(p, g, m)
          PROVE  page'.phase = page.phase
        BY <1>1, <3>4 DEF Hint, Pages
    <3>5. page'.phase = page.phase
        BY <3>3, <3>4 DEF Refuse, Succeed
    <3> QED
        BY <1>1, <3>5
  <2>4. CASE ReadActive
    <3>1. queue # <<>> /\ Kind = "active"
        BY <2>4 DEF ReadActive, At, Protocol, JobFits
    <3> QED
        BY <1>1, <2>4, <3>1, HeadAwaited DEF Typed, Protocol
  <2> QED
      BY <1>3, <2>1, <2>2, <2>3, <2>4 DEF FollowStep
<1>4. ~PageStep /\ ~Crash
    BY <1>1 DEF PageStep, Rename, TakeHint, Settle, Save, Crash, Opened
<1>5. ~Others
    BY <1>1 DEF Others, MoveAway, PutAnother, WriteInPlace, Delete, BringBack, Changes
<1> QED
    BY <1>2, <1>3, <1>4, <1>5 DEF Next

(* A rename that is reported is a fact for the main process, and for the    *)
(* folder unless others changed it; one that is denied has not given the    *)
(* file its new name in place of the old one, whichever step failed, if no  *)
(* other did (renameHtmlSource, #runSourceRename).                          *)
THEOREM AnswersAreHonest == Spec => HonestAnswer
<1> DEFINE Honest ==
        /\ ~Denied => /\ page.phase = "renaming" \/ Undisturbed \/ ~rough
                         => mem'.active = page.goal
                      /\ Undisturbed => \A n \in {page.path, page.goal} :
                                            dir'[n] = None <=> n = page.path
        /\ Denied /\ Undisturbed /\ count'.faults <= 1
           => dir'[page.goal] = None \/ dir'[page.path] # None
<1>1. ASSUME IInv, Next, Answered
      PROVE  Honest
  <2>1. /\ Typed /\ Protocol /\ page \in Pages
        /\ FaultsCount /\ Sound /\ CountTyped
        /\ Undisturbed => Track /\ World
      BY <1>1 DEF IInv, Own, Typed, PageTyped, Tracked, Track
  <2>2. /\ page.phase \in {"renaming", "checking"} /\ page.path \in Names
        /\ page.goal \in Names /\ page.goal # page.path
      BY <1>1, <2>1 DEF Answered, Protocol, PageFits, Pages
  <2>3. CASE RebindWorkspace /\ page.phase = "renaming"
    <3>1. /\ queue # <<>> /\ job.at = "rebind" /\ UNCHANGED main /\ UNCHANGED dir
          /\ Watch(page.goal) /\ Succeed(page.goal, page.sha)
        BY <2>3 DEF RebindWorkspace, At, folder
    <3>2. Kind = "rename" /\ page.sha \in Bytes /\ WatchKeeps
        BY <2>1, <2>2, <3>1, WatchesName DEF Protocol, JobFits, Moving, Pages
    <3>3. ~Denied
        BY <2>1, <2>2, <3>1, <3>2, Succeeded DEF Denied
    <3>4. mem'.active = page.goal
        BY <2>1, <3>1 DEF Protocol, JobNames, main
    <3>5. Undisturbed => Named = {page.goal}
        BY <2>1, <3>1 DEF Track, Steps
    <3>6. Undisturbed => \A n \in {page.path, page.goal} :
                             dir'[n] = None <=> n = page.path
        BY <2>2, <3>1, <3>5 DEF Named, Exists
    <3> QED
        BY <3>3, <3>4, <3>6
  <2>4. CASE ReadActive /\ page.phase = "checking"
    <3>1. At("read") /\ UNCHANGED main /\ UNCHANGED dir
        BY <2>4 DEF ReadActive, Quietly, folder
    <3>2. queue # <<>> /\ job.prior \in Names /\ Kind = "active" /\ job.at = "read"
        BY <2>1, <3>1, FollowStarts
    <3>3. CASE /\ Exists(job.prior) /\ Located = {job.prior} /\ Watch(job.prior)
               /\ Succeed(job.prior, bytes[dir[job.prior]])
      <4>1. bytes[dir[job.prior]] \in Bytes
        <5>1. dir[job.prior] \in 1..Len(bytes) /\ bytes \in Seq(Bytes)
            BY <2>1, <3>2, <3>3, Parts DEF Exists
        <5> QED
            BY <5>1, ElementOfSeq
      <4>2. WatchKeeps /\ watch'.name # None
          BY <2>1, <3>2, <3>3, WatchesName, Constants
      <4>3. page'.path = IF Accepts(job.prior, bytes[dir[job.prior]])
                         THEN job.prior ELSE page.path
          BY <2>1, <2>4, <3>2, <3>3, <4>1, <4>2, Succeeded
      <4>4. Undisturbed => /\ Named = {job.prior} /\ job.prior = mem.active
                           /\ bytes[dir[job.prior]] = page.sha
        <5>1. SUFFICES ASSUME Undisturbed
                       PROVE  /\ Named = {job.prior} /\ job.prior = mem.active
                              /\ bytes[dir[job.prior]] = page.sha
            OBVIOUS
        <5>2. Named = {job.prior} /\ bytes[dir[job.prior]] = binding.sha
            BY <2>1, <3>3, <5>1, NamedFacts
        <5> QED
            BY <2>1, <3>2, <3>3, <5>1, <5>2 DEF Track, Looks, World
      <4>5. ~rough => job.prior = mem.active
          BY <2>1, <3>2 DEF Protocol, JobNames
      <4>6. ~Denied => job.prior = page.goal
          BY <2>2, <4>3 DEF Denied, Accepts
      <4>7. Denied /\ Undisturbed => job.prior # page.goal
          BY <4>3, <4>4 DEF Denied, Accepts
      <4>8. \A n \in Names : dir'[n] = None <=> n \notin Named
          BY <3>1 DEF Named, Exists
      <4>9. mem' = mem
          BY <3>1 DEF main
      <4> QED
          BY <2>2, <2>4, <4>4, <4>5, <4>6, <4>7, <4>8, <4>9
    <3>4. ASSUME Refuse,
                 \/ Works /\ (~Exists(job.prior) \/ Located # {job.prior})
                 \/ Fails
          PROVE  Honest
      <4>1. Denied
        <5>1. page'.path = page.path
            BY <2>1, <2>4, <3>2, <3>4 DEF Refuse, Settled, Pages
        <5> QED
            BY <2>2, <5>1 DEF Denied
      <4>2. SUFFICES ASSUME Undisturbed, count'.faults <= 1,
                            dir'[page.goal] # None, dir'[page.path] = None
                     PROVE  FALSE
          BY <4>1
      <4>3. ~Fails
          BY <2>1, <2>4, <4>2, FirstFailure DEF Smooth
      <4>4. page.goal \in Named /\ page.path \notin Named
          BY <2>2, <3>1, <4>2 DEF Named, Exists
      <4>5. Named = {page.goal}
        <5>1. ~Exists(page.path)
            BY <2>2, <4>4 DEF Named
        <5>2. Alone
            BY <2>1, <2>4, <4>2, <5>1 DEF Track, Told
        <5> QED
            BY <4>4, <5>2 DEF Alone
      <4>6. job.prior = page.goal
          BY <2>1, <2>4, <3>2, <3>4, <4>2, <4>3, <4>5 DEF Track, WillKnow, Works
      <4>7. Exists(job.prior) /\ Located = {job.prior}
          BY <2>1, <2>2, <4>2, <4>5, <4>6, NamedFacts
      <4> QED
          BY <3>4, <4>3, <4>7
    <3> QED
        BY <2>4, <3>3, <3>4 DEF ReadActive
  <2> QED
      BY <1>1, <2>1, <2>3, <2>4, AnsweredBy
<1>2. IInv /\ [Next]_vars => [Answered => Honest]_vars
    BY <1>1
<1> QED
    BY <1>2, Invariance, PTL DEF Spec, HonestAnswer
=============================================================================
