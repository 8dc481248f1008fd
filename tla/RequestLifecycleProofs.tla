------------------------ MODULE RequestLifecycleProofs ------------------------
(***************************************************************************)
(* Proofs about RequestLifecycle, for any Requests and any number of       *)
(* faults, crashes and calls given up.                                     *)
(*                                                                         *)
(* The invariant has four parts.  Ordered: in what order the files of a    *)
(* Request change, whatever is cut off.  Standing: what a turn in the      *)
(* middle of its writes has done so far.  Queued: what the calls at the    *)
(* serial writer rely on, above all that a Request is created by one call  *)
(* only and that a poll comes after a recovery.  Informed and Awaiting:    *)
(* what the window may conclude from the answers it has and still expects. *)
(*                                                                         *)
(* A turn writes files and moves its call on.  The first half of the       *)
(* module is about the files, one lemma per kind of write (Good); the      *)
(* second about the queue and the window, one lemma per way a turn may     *)
(* leave its call; the last joins them, one lemma per action.              *)
(***************************************************************************)
EXTENDS RequestLifecycle, SequenceTheorems, TLAPS

Statuses == {"none", "processing", "candidate-ready"} \cup Terminal
Answers == {"ok", "unknown", "refused", "processing", "candidate-ready",
            "result-ready", "inactive"} \cup Terminal
Kinds == {"start", "read", "record", "create", "unstarted", "status",
          "cancel", "promote"}
Phases == {"free", "opening", "loading", "recording", "repeat",
           "rerecording", "recorded", "creating", "running", "uncertain",
           "checking", "doubtful", "rechecking", "ending", "settling",
           "unsettled", "resettling"}
Labels == {"start", "staging", "staged", "marked", "published", "anchored",
           "cleanup", "unmark", "failed", "candidate", "sealed", "cancelled",
           "rejected", "released"}
Plans == {<<"recover", "restart">>, <<"restart">>, <<"recover">>, <<"record">>,
          <<"receipt", "prepare", "created">>, <<"prepare", "created">>,
          <<"created">>, <<"unstarted">>, <<"recover", "status">>, <<"status">>,
          <<"recover", "stop", "cancel">>, <<"recover", "cancel">>,
          <<"stop", "cancel">>, <<"cancel">>, <<"promote", "recover">>}
Calls == [kind : Kinds, r : Requests \cup {None}, stages : Plans,
          discard : BOOLEAN, answer : Answers, awaited : BOOLEAN]
Clients == [phase : Phases, run : Requests \cup {None}, ready : BOOLEAN,
            unsure : BOOLEAN, waits : SUBSET Kinds]

Typed ==
    /\ receipt \in [Requests -> {"none", "accepted", "request-created", "not-started"}]
    /\ facts \in [Requests -> SUBSET ({"stop-requested", "candidate-ready"} \cup Terminal)]
    /\ freeze \in [Requests -> [staging : {"none", "partial", "whole"}, marker : BOOLEAN]]
    /\ request \in [Requests -> [status : Statuses,
                                 events : SUBSET ({"candidate-ready"} \cup Terminal)]]
    /\ candidate \in [Requests -> {"none", "pending-review", "promoted", "rejected"}]
    /\ completion \in [Requests -> {"none", "good", "bad"}]
    /\ authority \subseteq Requests
    /\ adoption \in [Requests -> {"none", "prepared", "completed", "aborted"}]
    /\ runtime \in {Idle} \cup [request : Requests, sealed : BOOLEAN]

-----------------------------------------------------------------------------
(* The files of a Request.                                                  *)
Reviewed(r) == Status(r) \in {"candidate-ready", "rejected", "promoted"}
Alive(r) == Status(r) \in {"processing", "candidate-ready"}

Ordered(r) ==
    /\ Status(r) = "none" =>
           candidate[r] = "none" /\ ~Active(r) /\ request[r].events = {}
    /\ Status(r) = "processing" => candidate[r] \in {"none", "pending-review"}
    /\ Status(r) = "candidate-ready" => candidate[r] \in {"pending-review", "promoted"}
    /\ Status(r) = "cancelled" => "cancelled" \in request[r].events
    /\ Status(r) = "promoted" => candidate[r] = "promoted"
    /\ candidate[r] = "promoted" =>
           adoption[r] = "completed" /\ (Status(r) = "promoted" \/ Sealed(r))
    /\ adoption[r] # "none" => Reviewed(r) /\ candidate[r] # "none"
    /\ Alive(r) => Active(r) \/ freeze[r].marker

(* A Request that no turn has begun to freeze, and one whose bundle a       *)
(* recovery has closed.                                                     *)
NotYet(r) == /\ Status(r) = "none"
             /\ freeze[r] = [staging |-> "none", marker |-> FALSE]
Settled(r) == Published(r) /\ ~freeze[r].marker

-----------------------------------------------------------------------------
(* The turn that is under way.                                              *)
Mid == at # "start"
Busy(kind, stages) ==
    queue # <<>> /\ queue[1].kind = kind /\ queue[1].stages = stages

Freezes(r) ==
    /\ Busy("create", <<"prepare", "created">>)
    /\ at \in {"staging", "staged", "marked", "published"} =>
           runtime.request \in {None, r}
    /\ \/ at \in {"staging", "staged"} /\ Status(r) = "none" /\ ~freeze[r].marker
       \/ at = "marked" /\ Status(r) = "none" /\ freeze[r].marker
       \/ at = "published" /\ Status(r) = "processing" /\ freeze[r].marker
       \/ /\ at = "anchored" /\ Status(r) = "processing" /\ freeze[r].marker
          /\ Active(r)
       \/ at \in {"cleanup", "unmark"} /\ Status(r) = "none"
Polls(r) ==
    /\ Busy("status", <<"status">>) /\ Active(r)
    /\ \/ at = "failed" /\ Status(r) = "error"
       \/ /\ at \in {"candidate", "sealed"} /\ Status(r) = "processing"
          /\ candidate[r] = "pending-review"
          /\ at = "sealed" => runtime.sealed
Cancels(r) ==
    /\ Busy("cancel", <<"cancel">>)
    /\ \/ at = "cancelled" /\ Status(r) = "cancelled" /\ Active(r)
       \/ /\ at = "rejected" /\ Status(r) = "rejected" /\ Active(r)
          /\ candidate[r] = "pending-review"
       \/ /\ at = "released" /\ Status(r) = "rejected"
          /\ candidate[r] = "pending-review"

Standing ==
    /\ at \in Labels
    /\ Mid => \/ Freezes(queue[1].r)
              \/ Polls(queue[1].r)
              \/ Cancels(queue[1].r)

-----------------------------------------------------------------------------
(* The calls.                                                               *)
Shape(c) ==
    /\ c.kind = "start" => c.stages \in {<<"recover", "restart">>, <<"restart">>}
    /\ c.kind = "read" => c.stages = <<"recover">>
    /\ c.kind = "record" => c.stages = <<"record">>
    /\ c.kind = "create" =>
           c.stages \in {<<"receipt", "prepare", "created">>,
                         <<"prepare", "created">>, <<"created">>}
    /\ c.kind = "unstarted" => c.stages = <<"unstarted">>
    /\ c.kind = "status" =>
           c.stages \in {<<"recover", "status">>, <<"status">>, <<"recover">>}
    /\ c.kind = "cancel" =>
           c.stages \in {<<"recover", "stop", "cancel">>, <<"recover", "cancel">>,
                         <<"stop", "cancel">>, <<"cancel">>}
    /\ c.kind = "promote" => c.stages \in {<<"promote", "recover">>, <<"recover">>}

Sound(c) ==
    /\ Shape(c)
    /\ c.kind \in {"read", "start"} <=> c.r = None
    /\ c.kind = "start" => ~c.awaited
    /\ c.kind \in {"status", "cancel", "promote"} => Published(c.r)
    /\ c.stages = <<"created">> => Published(c.r)
    /\ c.stages = <<"status">> => Settled(c.r)
    /\ c.kind = "promote" => Reviewed(c.r)
    /\ c.answer = "candidate-ready" => c.kind = "status" /\ Reviewed(c.r)

Creates(i, r) == queue[i].kind = "create" /\ queue[i].r = r
NoCreate(r) == \A i \in 1..Len(queue) : ~Creates(i, r)
OneCreate ==
    \A i, j \in 1..Len(queue) :
        /\ queue[i].kind = "create" /\ queue[j].kind = "create"
        /\ queue[i].r = queue[j].r
        => i = j
Fresh(i) ==
    /\ queue[i].kind = "create" /\ queue[i].stages # <<"created">>
    /\ ~(i = 1 /\ Mid)
    => NotYet(queue[i].r)

Queued ==
    /\ queue \in Seq(Calls)
    /\ \A i \in 1..Len(queue) : Sound(queue[i]) /\ Fresh(i)
    /\ OneCreate
    /\ \A r \in Requests : receipt[r] = "none" => NotYet(r) /\ NoCreate(r)

-----------------------------------------------------------------------------
(* The window.                                                              *)
Unsent == {"recording", "repeat", "rerecording", "recorded"}

Informed(c) ==
    /\ c \in Clients
    /\ c.phase \notin {"free", "opening", "loading"} => c.run \in Requests
    /\ c.ready => c.phase = "running" /\ Reviewed(c.run)
    /\ c.phase = "running" => Published(c.run)
    /\ c.phase \in Unsent => NotYet(c.run) /\ NoCreate(c.run)
    /\ c.phase = "recorded" => receipt[c.run] # "none"

Expected(c, phase) ==
    /\ c.kind # "start"
    /\ c.kind = "record" => phase \in {"recording", "rerecording"}
    /\ c.kind = "create" => phase = "creating"
    /\ c.kind = "unstarted" => phase \in {"settling", "resettling"}
    /\ c.kind = "read" => phase \in {"loading", "checking", "rechecking"}
    /\ c.kind \in {"status", "cancel", "promote"} => phase = "running"

Awaiting ==
    /\ \A i \in 1..Len(queue) : queue[i].awaited =>
           /\ Expected(queue[i], client.phase)
           /\ queue[i].kind # "read" => queue[i].r = client.run
    /\ client.phase # "running" =>
           \A i, j \in 1..Len(queue) : queue[i].awaited /\ queue[j].awaited => i = j

IInv ==
    /\ Typed /\ (\A r \in Requests : Ordered(r)) /\ Standing
    /\ Queued /\ Informed(client) /\ Awaiting

-----------------------------------------------------------------------------
(* What every write does for the other parts: the files stay in order, a    *)
(* Request only moves on, and what comes late stays out.                    *)
Keeps(q) ==
    /\ Published(q) => Published(q)'
    /\ Reviewed(q) => Reviewed(q)'
    /\ Settled(q) => Settled(q)'
    /\ receipt'[q] = "none" => receipt[q] = "none"
Late(q) ==
    /\ Status(q) \in {"cancelled", "error", "promoted"} => UNCHANGED request[q]
    /\ "stop-requested" \in facts[q] /\ candidate[q] = "none"
          => candidate'[q] = "none"
Untouched(q) == NotYet(q) => NotYet(q)'

Files == Typed /\ (\A r \in Requests : Ordered(r))
Good == Files' /\ (\A q \in Requests : Keeps(q) /\ Late(q))
Clean == Good /\ (\A q \in Requests : Untouched(q))

(* A write beside the files that Ordered is about: the record of the        *)
(* submission, the Agent's completion, the cancellation.                    *)
LEMMA Aside ==
    ASSUME Files, Typed',
           UNCHANGED <<freeze, request, candidate, adoption, runtime>>,
           \A q \in Requests : receipt'[q] = "none" => receipt[q] = "none"
    PROVE  Clean
<1>1. \A q \in Requests : Ordered(q)'
  BY DEF Files, Ordered, Status, Active, Sealed, Reviewed, Alive
<1>2. \A q \in Requests : Keeps(q) /\ Late(q) /\ Untouched(q)
  BY DEF Keeps, Late, Untouched, NotYet, Settled, Published, Reviewed, Status
<1>. QED
  BY <1>1, <1>2 DEF Clean, Good, Files

LEMMA Nothing ==
    ASSUME Files, UNCHANGED disk
    PROVE  Clean
<1>1. /\ UNCHANGED <<receipt, facts, freeze, request, candidate, completion>>
      /\ UNCHANGED <<authority, adoption, runtime>>
  BY DEF disk
<1>2. Typed'
  BY <1>1 DEF Files, Typed
<1>. QED
  BY <1>1, <1>2, Aside

(* The receipt is finished.                                                 *)
LEMMA Receipts ==
    ASSUME Files, NEW r \in Requests, NEW v \in {"accepted", "request-created", "not-started"},
           receipt' = [receipt EXCEPT ![r] = v],
           facts' \in [Requests -> SUBSET ({"stop-requested", "candidate-ready"} \cup Terminal)],
           UNCHANGED <<freeze, request, candidate, completion, authority,
                       adoption, runtime>>
    PROVE  Clean
<1>1. Typed'
  BY DEF Files, Typed
<1>2. \A q \in Requests : receipt'[q] = "none" => receipt[q] = "none"
  BY DEF Files, Typed
<1>. QED
  BY <1>1, <1>2, Aside

(* A bundle is staged, marked, cleaned up.                                  *)
LEMMA Bundles ==
    ASSUME Files, NEW r \in Requests,
           NEW b \in [staging : {"none", "partial", "whole"}, marker : BOOLEAN],
           freeze' = [freeze EXCEPT ![r] = b],
           Alive(r) => Active(r) \/ b.marker,
           Settled(r) => ~b.marker,
           UNCHANGED <<receipt, facts, request, candidate, completion,
                       authority, adoption, runtime>>
    PROVE  /\ Good
           /\ \A q \in Requests \ {r} : Untouched(q)
           /\ ~NotYet(r) => Untouched(r)
<1>1. freeze'[r] = b /\ \A q \in Requests \ {r} : freeze'[q] = freeze[q]
  BY DEF Files, Typed
<1>2. Typed'
  BY DEF Files, Typed
<1>3. \A q \in Requests : Ordered(q)'
  BY <1>1 DEF Files, Ordered, Status, Active, Sealed, Reviewed, Alive
<1>4. \A q \in Requests : Keeps(q) /\ Late(q)
  BY <1>1 DEF Keeps, Late, Settled, Published, Reviewed, Status
<1>5. \A q \in Requests \ {r} : Untouched(q)
  BY <1>1 DEF Untouched, NotYet, Status
<1>. QED
  BY <1>2, <1>3, <1>4, <1>5 DEF Good, Files, Untouched

(* A bundle is renamed into its place: request.json appears.                *)
LEMMA Publishes ==
    ASSUME Files, NEW r \in Requests, Status(r) = "none", freeze[r].marker,
           freeze' = [freeze EXCEPT ![r].staging = "none"],
           request' = [request EXCEPT ![r].status = "processing"],
           UNCHANGED <<receipt, facts, candidate, completion, authority,
                       adoption, runtime>>
    PROVE  Clean /\ Status(r)' = "processing" /\ freeze'[r].marker
<1>1. /\ freeze'[r].marker = freeze[r].marker
      /\ \A q \in Requests \ {r} : freeze'[q] = freeze[q]
  BY DEF Files, Typed
<1>2. /\ request'[r].status = "processing" /\ request'[r].events = request[r].events
      /\ \A q \in Requests \ {r} : request'[q] = request[q]
  BY DEF Files, Typed
<1>3. Typed'
  <2>1. freeze' \in [Requests -> [staging : {"none", "partial", "whole"}, marker : BOOLEAN]]
    BY DEF Files, Typed
  <2>2. request' \in [Requests -> [status : Statuses,
                           events : SUBSET ({"candidate-ready"} \cup Terminal)]]
    BY SMTT(30), "processing" \in Statuses DEF Files, Typed, Statuses
  <2>. QED
    BY <2>1, <2>2 DEF Files, Typed
<1>4. \A q \in Requests : Ordered(q)'
  <2>1. ASSUME NEW q \in Requests, q # r PROVE Ordered(q)'
    BY <1>1, <1>2, <2>1 DEF Files, Ordered, Status, Active, Sealed, Reviewed, Alive
  <2>2. Ordered(r)'
    BY <1>1, <1>2 DEF Files, Ordered, Status, Active, Sealed, Reviewed, Alive
  <2>. QED
    BY <2>1, <2>2
<1>5. \A q \in Requests : Keeps(q) /\ Late(q) /\ Untouched(q)
  BY <1>1, <1>2 DEF Keeps, Late, Settled, Published, Reviewed, Status, Untouched, NotYet
<1>. QED
  BY <1>1, <1>2, <1>3, <1>4, <1>5 DEF Clean, Good, Files, Status

(* The adoption moves on.                                                   *)
LEMMA Adoptions ==
    ASSUME Files, NEW r \in Requests,
           NEW v \in {"prepared", "completed", "aborted"},
           adoption' = [adoption EXCEPT ![r] = v],
           Reviewed(r), candidate[r] # "none",
           candidate[r] = "promoted" => v = "completed",
           UNCHANGED <<receipt, facts, freeze, request, candidate, completion,
                       authority, runtime>>
    PROVE  Clean
<1>1. adoption'[r] = v /\ \A q \in Requests \ {r} : adoption'[q] = adoption[q]
  BY DEF Files, Typed
<1>2. Typed'
  BY DEF Files, Typed
<1>3. \A q \in Requests : Ordered(q)'
  BY <1>1 DEF Files, Ordered, Status, Active, Sealed, Reviewed, Alive
<1>4. \A q \in Requests : Keeps(q) /\ Late(q) /\ Untouched(q)
  BY DEF Keeps, Late, Settled, Published, Reviewed, Status, Untouched, NotYet
<1>. QED
  BY <1>2, <1>3, <1>4 DEF Clean, Good, Files

(* The Candidate appears, is adopted or is discarded.                       *)
LEMMA Candidates ==
    ASSUME Files, NEW r \in Requests,
           NEW v \in {"pending-review", "promoted", "rejected"},
           candidate' = [candidate EXCEPT ![r] = v],
           v = "pending-review" => /\ Status(r) = "processing" /\ candidate[r] = "none"
                                   /\ "stop-requested" \notin facts[r],
           v = "promoted" => adoption[r] = "completed" /\ Sealed(r),
           v = "rejected" => Status(r) = "rejected" /\ candidate[r] # "none",
           UNCHANGED <<receipt, facts, freeze, request, completion, authority,
                       adoption, runtime>>
    PROVE  Clean
<1>1. candidate'[r] = v /\ \A q \in Requests \ {r} : candidate'[q] = candidate[q]
  BY DEF Files, Typed
<1>2. Typed'
  BY DEF Files, Typed
<1>3. \A q \in Requests : Ordered(q)'
  <2>1. ASSUME NEW q \in Requests, q # r PROVE Ordered(q)'
    BY <1>1, <2>1 DEF Files, Ordered, Status, Active, Sealed, Reviewed, Alive
  <2>2. Ordered(r)'
    BY <1>1 DEF Files, Ordered, Status, Active, Sealed, Reviewed, Alive
  <2>. QED
    BY <2>1, <2>2
<1>4. \A q \in Requests : Keeps(q) /\ Late(q) /\ Untouched(q)
  BY <1>1 DEF Files, Ordered, Keeps, Late, Settled, Published, Reviewed, Status,
              Untouched, NotYet
<1>. QED
  BY <1>2, <1>3, <1>4 DEF Clean, Good, Files

(* The status of a Request that is published moves on.                      *)
LEMMA StatusMoves ==
    ASSUME Files, NEW r \in Requests,
           NEW s \in {"candidate-ready"} \cup Terminal, WriteRequest(r, s),
           s = "candidate-ready" =>
               Status(r) = "processing" /\ candidate[r] = "pending-review",
           s = "error" => Status(r) = "processing",
           s = "cancelled" => Status(r) \in {"processing", "cancelled"},
           s = "rejected" => Status(r) = "candidate-ready",
           s = "promoted" => /\ Status(r) \in {"candidate-ready", "rejected"}
                             /\ candidate[r] = "promoted",
           UNCHANGED <<receipt, freeze, candidate, completion, authority,
                       adoption, runtime>>
    PROVE  Clean /\ Status(r)' = s
<1>. DEFINE events == Outbox(r, s)
<1>1. /\ request' = [request EXCEPT ![r] = [status |-> s, events |-> events]]
      /\ \E told \in Appended(events) : facts' = [facts EXCEPT ![r] = @ \cup told]
  BY DEF WriteRequest
<1>2. /\ events \in SUBSET ({"candidate-ready"} \cup Terminal)
      /\ request[r].events \subseteq events
      /\ s = "cancelled" => s \in events
      /\ s = "cancelled" /\ s \in request[r].events => events = request[r].events
  BY DEF Outbox, Files, Typed, Terminal, Statuses
<1>. HIDE DEF events
<1>3. /\ request'[r] = [status |-> s, events |-> events]
      /\ \A q \in Requests \ {r} : request'[q] = request[q]
  BY <1>1 DEF Files, Typed
<1>4. Typed'
  <2>1. request' \in [Requests -> [status : Statuses,
                           events : SUBSET ({"candidate-ready"} \cup Terminal)]]
    <3>1. [status |-> s, events |-> events] \in [status : Statuses,
                           events : SUBSET ({"candidate-ready"} \cup Terminal)]
      BY <1>2 DEF Statuses
    <3>. QED
      BY <1>1, <3>1 DEF Files, Typed
  <2>2. facts' \in [Requests -> SUBSET ({"stop-requested", "candidate-ready"} \cup Terminal)]
    <3>1. PICK told \in Appended(events) : facts' = [facts EXCEPT ![r] = @ \cup told]
      BY <1>1
    <3>2. told \in SUBSET ({"candidate-ready"} \cup Terminal)
      BY <1>2 DEF Appended
    <3>. QED
      BY <3>1, <3>2 DEF Files, Typed
  <2>. QED
    BY <2>1, <2>2 DEF Files, Typed
<1>5. Status(r) # "none" /\ Status(r)' = s
  BY <1>3 DEF Status, Terminal
<1>6. \A q \in Requests : Ordered(q)'
  <2>1. ASSUME NEW q \in Requests, q # r PROVE Ordered(q)'
    BY <1>3, <2>1 DEF Files, Ordered, Status, Active, Sealed, Reviewed, Alive
  <2>2. Ordered(r)'
    BY <1>2, <1>3 DEF Files, Ordered, Status, Active, Sealed, Reviewed, Alive, Terminal
  <2>. QED
    BY <2>1, <2>2
<1>7. \A q \in Requests : Keeps(q) /\ Untouched(q)
  BY <1>3, <1>5 DEF Keeps, Settled, Published, Reviewed, Status, Untouched, NotYet, Terminal
<1>8. \A q \in Requests : Late(q)
  <2>1. Status(r) = "cancelled" => request'[r] = request[r]
    <3>1. SUFFICES ASSUME Status(r) = "cancelled" PROVE request'[r] = request[r]
      OBVIOUS
    <3>2. s = "cancelled" /\ "cancelled" \in request[r].events
      BY <3>1 DEF Files, Ordered, Terminal
    <3>3. events = request[r].events
      BY <3>2, <1>2
    <3>4. request[r] = [status |-> "cancelled", events |-> request[r].events]
      BY <3>1 DEF Files, Typed, Status
    <3>. QED
      BY <3>2, <3>3, <3>4, <1>3
  <2>2. Status(r) \notin {"error", "promoted"}
    BY DEF Terminal
  <2>. QED
    BY <2>1, <2>2, <1>3 DEF Late
<1>. QED
  BY <1>4, <1>5, <1>6, <1>7, <1>8 DEF Clean, Good, Files

(* The runtime gives its Request up, or takes one.                          *)
LEMMA Releases ==
    ASSUME Files, runtime' = Released,
           \A q \in Requests : Active(q) =>
               ~Alive(q) /\ (candidate[q] = "promoted" => Status(q) = "promoted"),
           UNCHANGED <<receipt, facts, freeze, request, candidate, completion,
                       authority, adoption>>
    PROVE  Clean
<1>1. runtime' = Idle /\ \A q \in Requests : runtime'.request # q
  BY RequestAssumption DEF Released, Idle
<1>2. Typed'
  BY <1>1 DEF Files, Typed
<1>3. \A q \in Requests : Ordered(q)'
  BY <1>1 DEF Files, Ordered, Status, Active, Sealed, Reviewed, Alive
<1>4. \A q \in Requests : Keeps(q) /\ Late(q) /\ Untouched(q)
  BY DEF Keeps, Late, Settled, Published, Reviewed, Status, Untouched, NotYet
<1>. QED
  BY <1>2, <1>3, <1>4 DEF Clean, Good, Files

LEMMA Anchors ==
    ASSUME Files, NEW r \in Requests, NEW s \in BOOLEAN,
           runtime' = [request |-> r, sealed |-> s],
           runtime.request \in {None, r}, Status(r) = "processing",
           UNCHANGED <<receipt, facts, freeze, request, candidate, completion,
                       authority, adoption>>
    PROVE  Clean /\ Active(r)' /\ (runtime.sealed' <=> s)
<1>1. runtime'.request = r /\ (runtime'.sealed <=> s)
  OBVIOUS
<1>2. \A q \in Requests : Active(q) => q = r
  BY RequestAssumption DEF Active
<1>3. Typed'
  BY DEF Files, Typed
<1>4. \A q \in Requests : Ordered(q)'
  BY <1>1, <1>2 DEF Files, Ordered, Status, Active, Sealed, Reviewed, Alive
<1>5. \A q \in Requests : Keeps(q) /\ Late(q) /\ Untouched(q)
  BY DEF Keeps, Late, Settled, Published, Reviewed, Status, Untouched, NotYet
<1>. QED
  BY <1>1, <1>3, <1>4, <1>5 DEF Clean, Good, Files, Active

-----------------------------------------------------------------------------
(* The queue and the window.                                                *)

(* A turn makes progress, and touches no Request that is still to be frozen *)
(* but the one it creates.                                                  *)
Progress == /\ Good
            /\ \A q \in Requests : Untouched(q) \/ (queue # <<>> /\ Creates(1, q))

(* The calls at the writer are calls that were there before, each of them   *)
(* once: as it was, or renewed by its turn.                                 *)
Kept(i, j) ==
    /\ queue'[i].stages = queue[j].stages /\ queue'[i].answer = queue[j].answer
    /\ j = 1 => /\ i = 1
                /\ Mid' \/ (~Mid /\ \A q \in Requests : Untouched(q))
Renewed(i) == Sound(queue[i])' /\ Fresh(i)'
Descends(f) ==
    /\ queue' \in Seq(Calls)
    /\ f \in [1..Len(queue') -> 1..Len(queue)]
    /\ \A i, j \in 1..Len(queue') : f[i] = f[j] => i = j
    /\ \A i \in 1..Len(queue') :
           /\ queue'[i].kind = queue[f[i]].kind /\ queue'[i].r = queue[f[i]].r
           /\ queue'[i].awaited => queue[f[i]].awaited
           /\ Kept(i, f[i]) \/ Renewed(i)
CreatesStay == \A r \in Requests : NoCreate(r) => NoCreate(r)'

LEMMA SoundStays ==
    ASSUME NEW c \in Calls, NEW d \in Calls, Sound(c), \A q \in Requests : Keeps(q),
           d.kind = c.kind, d.r = c.r, d.stages = c.stages, d.answer = c.answer,
           d.awaited => c.awaited
    PROVE  Sound(d)'
<1>1. c.kind \in Kinds /\ c.r \in Requests \cup {None} /\ c.answer \in Answers
  BY DEF Calls
<1>2. c.r # None => Keeps(c.r)
  BY <1>1
<1>3. Shape(d)
  BY DEF Sound, Shape
<1>4. c.kind = "create" \/ c.kind = "status" \/ c.stages \notin {<<"created">>, <<"status">>}
  BY <1>1 DEF Sound, Shape, Kinds
<1>5. /\ d.kind \in {"read", "start"} <=> d.r = None
      /\ d.kind = "start" => ~d.awaited
  BY DEF Sound
<1>6. /\ d.kind \in {"status", "cancel", "promote"} => Published(d.r)'
      /\ d.stages = <<"created">> => Published(d.r)'
      /\ d.stages = <<"status">> => Settled(d.r)'
      /\ d.kind = "promote" => Reviewed(d.r)'
      /\ d.answer = "candidate-ready" => d.kind = "status" /\ Reviewed(d.r)'
  BY <1>1, <1>2, <1>4 DEF Sound, Keeps
<1>. QED
  BY <1>3, <1>5, <1>6 DEF Sound, Shape

LEMMA QueueKept ==
    ASSUME IInv, Progress, NEW f, Descends(f)
    PROVE  Queued' /\ CreatesStay
<1>1. /\ queue \in Seq(Calls) /\ queue' \in Seq(Calls)
      /\ \A i \in 1..Len(queue) : Sound(queue[i]) /\ Fresh(i)
      /\ \A q \in Requests : Keeps(q)
  BY DEF IInv, Queued, Descends, Progress, Good
<1>2. /\ \A i \in 1..Len(queue) : queue[i] \in Calls
      /\ \A i \in 1..Len(queue') : queue'[i] \in Calls
  BY <1>1, ElementOfSeq
<1>3. \A i \in 1..Len(queue') : f[i] \in 1..Len(queue)
  BY DEF Descends
<1>4. CreatesStay
  BY <1>3 DEF CreatesStay, NoCreate, Creates, Descends
<1>5. OneCreate'
  BY <1>3 DEF IInv, Queued, OneCreate, Descends
<1>6. ASSUME NEW i \in 1..Len(queue') PROVE Sound(queue[i])' /\ Fresh(i)'
  <2>1. CASE Renewed(i)
    BY <2>1 DEF Renewed
  <2>2. CASE Kept(i, f[i])
    <3>1. Sound(queue[i])'
      <4>1. PICK c \in Calls : c = queue[f[i]]
        BY <1>2, <1>3
      <4>2. PICK d \in Calls : d = queue'[i]
        BY <1>2
      <4>3. Sound(c)
        BY <1>1, <1>3, <4>1
      <4>4. Sound(d)'
        BY <1>1, <2>2, <4>1, <4>2, <4>3, SoundStays DEF Descends, Kept
      <4>. QED
        BY <4>2, <4>4
    <3>2. Fresh(i)'
      <4>1. SUFFICES ASSUME queue'[i].kind = "create", queue'[i].stages # <<"created">>,
                            ~(i = 1 /\ Mid')
                     PROVE  NotYet(queue[i].r)'
        BY DEF Fresh
      <4>0. PICK j \in 1..Len(queue) : j = f[i]
        BY <1>3
      <4>2. /\ queue[j].kind = "create" /\ queue[j].stages # <<"created">>
            /\ queue[j].r = queue'[i].r
        BY <2>2, <4>0, <4>1 DEF Descends, Kept
      <4>3. PICK r \in Requests : r = queue[j].r
        <5>1. queue[j].r \in Requests \cup {None}
          BY <1>2 DEF Calls
        <5>2. queue[j].r # None
          BY <1>1, <4>2 DEF Sound
        <5>. QED
          BY <5>1, <5>2
      <4>6. SUFFICES NotYet(r)'
        BY <4>2, <4>3
      <4>4. CASE j = 1
        <5>1. ~Mid /\ Untouched(r)
          BY <2>2, <4>0, <4>1, <4>4 DEF Kept
        <5>2. NotYet(r)
          BY <1>1, <4>2, <4>3, <5>1 DEF Fresh
        <5>. QED
          BY <5>1, <5>2 DEF Untouched
      <4>5. CASE j # 1
        <5>1. NotYet(r)
          BY <1>1, <4>2, <4>3, <4>5 DEF Fresh
        <5>2. queue # <<>> => ~Creates(1, r)
          <6>1. queue # <<>> => 1 \in 1..Len(queue)
            BY <1>1
          <6>. QED
            BY <6>1, <4>2, <4>3, <4>5 DEF IInv, Queued, OneCreate, Creates
        <5>. QED
          BY <5>1, <5>2 DEF Untouched, Progress
      <4>. QED
        BY <4>4, <4>5
    <3>. QED
      BY <3>1, <3>2
  <2>. QED
    BY <2>1, <2>2 DEF Descends
<1>7. \A r \in Requests : receipt'[r] = "none" => NotYet(r)' /\ NoCreate(r)'
  <2>1. SUFFICES ASSUME NEW r \in Requests, receipt'[r] = "none"
                 PROVE  NotYet(r)' /\ NoCreate(r)'
    OBVIOUS
  <2>2. receipt[r] = "none"
    BY <1>1, <2>1 DEF Keeps
  <2>3. NotYet(r) /\ NoCreate(r)
    BY <2>2 DEF IInv, Queued
  <2>4. queue # <<>> => ~Creates(1, r)
    <3>1. queue # <<>> => 1 \in 1..Len(queue)
      BY <1>1
    <3>. QED
      BY <2>3, <3>1 DEF NoCreate
  <2>5. NotYet(r)'
    BY <2>3, <2>4 DEF Untouched, Progress
  <2>. QED
    BY <2>3, <2>5, <1>4 DEF CreatesStay
<1>. QED
  BY <1>1, <1>4, <1>5, <1>6, <1>7 DEF Queued

(* What the window knows stays true while it hears nothing.                 *)
LEMMA InformedStays ==
    ASSUME IInv, Progress, CreatesStay, NEW c, Informed(c), client' = c
    PROVE  Informed(client)'
<1>1. c \in Clients /\ c.phase \in Phases /\ c.run \in Requests \cup {None}
  BY DEF Informed, Clients
<1>2. CASE c.run \in Requests
  <2>1. Keeps(c.run)
    BY <1>2 DEF Progress, Good
  <2>2. c.phase \in Unsent => NotYet(c.run)' /\ NoCreate(c.run)'
    <3>1. SUFFICES ASSUME c.phase \in Unsent PROVE NotYet(c.run)' /\ NoCreate(c.run)'
      OBVIOUS
    <3>2. NotYet(c.run) /\ NoCreate(c.run)
      BY <3>1 DEF Informed
    <3>3. queue # <<>> => ~Creates(1, c.run)
      <4>1. queue # <<>> => 1 \in 1..Len(queue)
        BY DEF IInv, Queued
      <4>. QED
        BY <4>1, <3>2 DEF NoCreate
    <3>. QED
      BY <1>2, <3>2, <3>3 DEF Progress, Untouched, CreatesStay
  <2>. QED
    BY <1>1, <1>2, <2>1, <2>2 DEF Informed, Keeps
<1>3. CASE c.run \notin Requests
  <2>1. c.phase \in {"free", "opening", "loading"} /\ ~c.ready
    BY <1>3 DEF Informed
  <2>. QED
    BY <1>1, <2>1 DEF Informed, Unsent
<1>. QED
  BY <1>2, <1>3

(* What an answer may say.                                                  *)
WillBePublished(r) == request'[r].status # "none"
WillBeReviewed(r) ==
    request'[r].status \in {"candidate-ready", "rejected", "promoted"}
Hears(c, answer) ==
    c.awaited =>
        /\ c.kind = "record" /\ answer = "ok" => receipt'[c.r] # "none"
        /\ c.kind = "create" /\ answer = "ok" => WillBePublished(c.r)
        /\ c.kind = "read" /\ answer = "ok" /\ runtime.request # None =>
               /\ WillBePublished(runtime.request)
               /\ runtime.sealed => WillBeReviewed(runtime.request)
        /\ answer = "candidate-ready" => c.kind = "status" /\ WillBeReviewed(c.r)

LEMMA HearsNothing ==
    ASSUME NEW c, NEW answer \in {"refused", "unknown"}
    PROVE  Hears(c, answer)
BY DEF Hears

(* A window that listens for a call hears what it may conclude.             *)
LEMMA Listening ==
    ASSUME IInv, Progress, CreatesStay, NEW i \in 1..Len(queue),
           NEW answer \in Answers, Hears(queue[i], answer),
           client' = Heard(queue[i], answer)
    PROVE  /\ Informed(client)'
           /\ \/ client' = client
              \/ /\ queue[i].awaited
                 /\ \/ client' = Free
                    \/ client.phase # "running"
                    \/ client'.phase = "running" /\ client'.run = client.run
<1>. DEFINE c == queue[i]
<1>1. c \in Calls /\ c.kind \in Kinds /\ c.awaited \in BOOLEAN
  <2>1. c \in Calls
    BY ElementOfSeq DEF IInv, Queued
  <2>. QED
    BY <2>1 DEF Calls
<1>2. /\ client \in Clients /\ client.phase \in Phases
      /\ client.run \in Requests \cup {None} /\ client.waits \in SUBSET Kinds
      /\ client.ready \in BOOLEAN /\ client.unsure \in BOOLEAN
      /\ Informed(client)
  BY DEF IInv, Informed, Clients
<1>3. Sound(c) /\ (c.awaited => /\ Expected(c, client.phase)
                                /\ c.kind # "read" => c.r = client.run)
  BY DEF IInv, Queued, Awaiting
<1>4. Hears(c, answer) /\ client' = Heard(c, answer)
  OBVIOUS
<1>5. /\ Free \in Clients /\ Free.phase = "free" /\ ~Free.ready /\ Informed(Free)
  BY DEF Free, Clients, Phases, Informed, Unsent
<1>. HIDE DEF c
<1>6. CASE ~c.awaited
  BY <1>2, <1>4, <1>6, InformedStays DEF Heard
<1>7. CASE c.awaited /\ c.kind = "read"
  <2>1. client' = HeardByRead(answer) /\ client.phase \in {"loading", "checking", "rechecking"}
    BY <1>3, <1>4, <1>7 DEF Heard, Expected
  <2>2. CASE answer # "ok"
    <3>1. \/ client' = [client EXCEPT !.phase = "opening"]
          \/ /\ client' = [client EXCEPT !.phase = "doubtful"]
             /\ client.phase # "loading"
      BY <2>1, <2>2 DEF HeardByRead
    <3>2. Informed(client')
      BY <1>2, <2>1, <3>1 DEF Informed, Clients, Phases, Unsent
    <3>. QED
      BY <1>7, <2>1, <3>2, InformedStays DEF c
  <2>3. CASE answer = "ok" /\ runtime.request # None
    <3>1. client' = [phase |-> "running", run |-> runtime.request,
                     ready |-> runtime.sealed, unsure |-> FALSE, waits |-> {}]
      BY <2>1, <2>3 DEF HeardByRead, Free
    <3>2. runtime.request \in Requests /\ runtime.sealed \in BOOLEAN
      BY <2>3 DEF IInv, Typed, Idle
    <3>3. /\ WillBePublished(runtime.request)
          /\ runtime.sealed => WillBeReviewed(runtime.request)
      BY <1>4, <1>7, <2>3 DEF Hears
    <3>4. client' \in Clients /\ client'.phase = "running"
          /\ client'.run = runtime.request /\ client'.ready = runtime.sealed
      BY <3>1, <3>2 DEF Clients, Phases
    <3>5. Informed(client)'
      BY <3>2, <3>3, <3>4 DEF Informed, Unsent, WillBePublished, WillBeReviewed,
         Published, Reviewed, Status
    <3>. QED
      BY <1>7, <2>1, <3>5 DEF c
  <2>4. CASE answer = "ok" /\ runtime.request = None
    <3>1. \/ /\ client' = [client EXCEPT !.phase = "ending"]
             /\ client.phase = "checking"
          \/ client' = Free
      BY <2>1, <2>4 DEF HeardByRead
    <3>2. Informed(client')
      BY <1>2, <1>5, <2>1, <3>1 DEF Informed, Clients, Phases, Unsent
    <3>. QED
      BY <1>7, <2>1, <3>2, InformedStays DEF c
  <2>. QED
    BY <2>2, <2>3, <2>4
<1>8. CASE c.awaited /\ c.kind = "record"
  <2>1. /\ client.phase \in {"recording", "rerecording"} /\ c.r = client.run
        /\ client.run \in Requests /\ ~client.ready
        /\ NotYet(client.run) /\ NoCreate(client.run)
    BY <1>2, <1>3, <1>8 DEF Expected, Informed, Unsent
  <2>2. \E p \in {"recorded", "repeat", "ending"} :
            /\ client' = [client EXCEPT !.phase = p]
            /\ p = "recorded" => answer = "ok"
    BY <1>4, <1>8 DEF Heard, HeardBySubmit
  <2>3. PICK p \in {"recorded", "repeat", "ending"} :
            /\ client' = [client EXCEPT !.phase = p]
            /\ p = "recorded" => answer = "ok"
    BY <2>2
  <2>4. CASE p # "recorded"
    <3>1. Informed(client')
      BY <1>2, <2>1, <2>3, <2>4 DEF Informed, Clients, Phases, Unsent
    <3>. QED
      BY <1>8, <2>1, <3>1, InformedStays DEF c
  <2>5. CASE p = "recorded"
    <3>. DEFINE b == [client EXCEPT !.phase = "repeat"]
    <3>1. b \in Clients /\ b.phase = "repeat" /\ b.run = client.run /\ ~b.ready
      BY <1>2, <2>1 DEF Clients, Phases
    <3>2. client' \in Clients /\ client'.phase = "recorded"
          /\ client'.run = client.run /\ ~client'.ready
      BY <1>2, <2>1, <2>3, <2>5 DEF Clients, Phases
    <3>3. receipt'[client.run] # "none"
      BY <1>4, <1>8, <2>1, <2>3, <2>5 DEF Hears
    <3>0. PICK run \in Requests : run = client.run
      BY <2>1
    <3>4. NotYet(run)' /\ NoCreate(run)'
      <4>1. queue # <<>> => ~Creates(1, run)
        <5>1. queue # <<>> => 1 \in 1..Len(queue)
          BY DEF IInv, Queued
        <5>. QED
          BY <5>1, <2>1, <3>0 DEF NoCreate
      <4>. QED
        BY <2>1, <3>0, <4>1 DEF Progress, Untouched, CreatesStay
    <3>5. Informed(client)'
      BY <3>0, <3>2, <3>3, <3>4 DEF Informed, Unsent
    <3>. QED
      BY <1>8, <2>1, <3>5 DEF c
  <2>. QED
    BY <2>4, <2>5
<1>9. CASE c.awaited /\ c.kind = "create"
  <2>1. /\ client.phase = "creating" /\ c.r = client.run
        /\ client.run \in Requests /\ ~client.ready
    BY <1>2, <1>3, <1>9 DEF Expected, Informed
  <2>2. PICK p \in {"running", "uncertain", "ending"} :
            /\ client' = [client EXCEPT !.phase = p]
            /\ p = "running" => answer = "ok"
    BY <1>4, <1>9 DEF Heard, HeardBySubmit
  <2>3. client' \in Clients /\ client'.phase = p /\ client'.run = client.run
        /\ ~client'.ready
    BY <1>2, <2>1, <2>2 DEF Clients, Phases
  <2>4. p = "running" => WillBePublished(client.run)
    BY <1>4, <1>9, <2>1, <2>2 DEF Hears
  <2>5. Informed(client)'
    BY <2>1, <2>3, <2>4 DEF Informed, Unsent, WillBePublished, Published, Status
  <2>. QED
    BY <1>9, <2>1, <2>5 DEF c
<1>10. CASE c.awaited /\ c.kind = "unstarted"
  <2>1. /\ client.phase \in {"settling", "resettling"}
        /\ client.run \in Requests /\ ~client.ready
    BY <1>2, <1>3, <1>10 DEF Expected, Informed
  <2>2. client' = Free \/ client' = [client EXCEPT !.phase = "unsettled"]
    BY <1>4, <1>10 DEF Heard, HeardBySubmit
  <2>3. Informed(client')
    BY <1>2, <1>5, <2>1, <2>2 DEF Informed, Clients, Phases, Unsent
  <2>. QED
    BY <1>10, <2>1, <2>3, InformedStays DEF c
<1>11. CASE c.awaited /\ c.kind \in {"status", "cancel", "promote"}
  <2>1. /\ client.phase = "running" /\ c.r = client.run
        /\ client.run \in Requests /\ Published(client.run)
        /\ client' = HeardByRun(c, answer)
    BY <1>2, <1>3, <1>4, <1>11 DEF Expected, Informed, Heard
  <2>2. CASE client' = Free
    BY <1>5, <1>11, <2>2, InformedStays DEF c
  <2>3. CASE client' # Free
    <3>1. /\ client'.phase = "running" /\ client'.run = client.run
          /\ client' \in Clients
          /\ client'.ready => client.ready \/ answer = "candidate-ready"
      <4>. DEFINE w == [client EXCEPT !.waits = @ \ {c.kind}]
                  ready == w.ready \/ answer = "candidate-ready"
                  unsure == IF c.kind = "promote" THEN answer = "unknown" ELSE w.unsure
      <4>1. client' = [w EXCEPT !.ready = ready, !.unsure = unsure]
        BY <2>1, <2>3 DEF HeardByRun
      <4>2. w \in Clients /\ w.phase = "running" /\ w.run = client.run
            /\ w.ready = client.ready /\ w.unsure \in BOOLEAN
        BY <1>2, <2>1 DEF Clients
      <4>3. ready \in BOOLEAN /\ unsure \in BOOLEAN
        BY <1>2, <4>2
      <4>4. ready => client.ready \/ answer = "candidate-ready"
        BY <4>2
      <4>. HIDE DEF w, ready, unsure
      <4>5. client' = [phase |-> w.phase, run |-> w.run, ready |-> ready,
                       unsure |-> unsure, waits |-> w.waits]
        BY <4>1, <4>2 DEF Clients
      <4>. QED
        BY <4>2, <4>3, <4>4, <4>5 DEF Clients
    <3>2. client.ready => Reviewed(client.run)
      BY <1>2 DEF Informed
    <3>0. PICK run \in Requests : run = client.run
      BY <2>1
    <3>3. Published(run)' /\ (client.ready => Reviewed(run)')
      BY <2>1, <3>0, <3>2 DEF Progress, Good, Keeps
    <3>4. answer = "candidate-ready" => Reviewed(run)'
      BY <1>4, <1>11, <2>1, <3>0 DEF Hears, WillBeReviewed, Reviewed, Status
    <3>5. Informed(client)'
      BY <3>0, <3>1, <3>3, <3>4 DEF Informed, Unsent
    <3>. QED
      BY <1>11, <3>1, <3>5 DEF c
  <2>. QED
    BY <2>2, <2>3
<1>12. c.awaited => c.kind # "start"
  BY <1>3 DEF Sound
<1>. QED
  BY <1>1, <1>6, <1>7, <1>8, <1>9, <1>10, <1>11, <1>12 DEF Kinds

-----------------------------------------------------------------------------
(* How a turn leaves its call, and what that does for queue and window.     *)
Preserved == IInv' /\ (\A q \in Requests : Late(q))

LEMMA Queues ==
    ASSUME IInv
    PROVE  /\ queue \in Seq(Calls) /\ Len(queue) \in Nat
           /\ \A i \in 1..Len(queue) : queue[i] \in Calls /\ Sound(queue[i]) /\ Fresh(i)
           /\ queue # <<>> => /\ Len(queue) >= 1 /\ 1 \in 1..Len(queue)
                              /\ Head(queue) = queue[1] /\ queue[1] \in Calls
                              /\ Tail(queue) \in Seq(Calls)
                              /\ Len(Tail(queue)) = Len(queue) - 1
                              /\ \A i \in 1..(Len(queue) - 1) :
                                     Tail(queue)[i] = queue[i + 1]
<1>1. queue \in Seq(Calls) /\ Len(queue) \in Nat
  BY DEF IInv, Queued
<1>2. \A i \in 1..Len(queue) : queue[i] \in Calls
  BY <1>1, ElementOfSeq
<1>3. \A i \in 1..Len(queue) : Sound(queue[i]) /\ Fresh(i)
  BY DEF IInv, Queued
<1>4. queue # <<>> => /\ Len(queue) >= 1 /\ 1 \in 1..Len(queue)
                      /\ Head(queue) = queue[1] /\ queue[1] \in Calls
                      /\ Tail(queue) \in Seq(Calls)
                      /\ Len(Tail(queue)) = Len(queue) - 1
                      /\ \A i \in 1..(Len(queue) - 1) : Tail(queue)[i] = queue[i + 1]
  BY <1>1, <1>2
<1>. QED
  BY <1>1, <1>2, <1>3, <1>4

LEMMA Unheards ==
    ASSUME NEW calls \in Seq(Calls)
    PROVE  /\ Unheard(calls) \in Seq(Calls) /\ Len(Unheard(calls)) = Len(calls)
           /\ \A i \in 1..Len(calls) :
                  /\ Unheard(calls)[i].kind = calls[i].kind
                  /\ Unheard(calls)[i].r = calls[i].r
                  /\ Unheard(calls)[i].stages = calls[i].stages
                  /\ Unheard(calls)[i].answer = calls[i].answer
                  /\ ~Unheard(calls)[i].awaited
<1>1. Len(calls) \in Nat /\ DOMAIN calls = 1..Len(calls)
  OBVIOUS
<1>5. \A i \in 1..Len(calls) : calls[i] \in Calls
  BY ElementOfSeq
<1>2. \A i \in 1..Len(calls) :
          [calls[i] EXCEPT !.awaited = FALSE] \in Calls
  BY <1>5 DEF Calls
<1>3. Unheard(calls) = [i \in 1..Len(calls) |-> [calls[i] EXCEPT !.awaited = FALSE]]
  BY <1>1 DEF Unheard
<1>4. Unheard(calls) \in Seq(Calls) /\ Len(Unheard(calls)) = Len(calls)
  BY <1>1, <1>2, <1>3, IsASeq
<1>6. \A i \in 1..Len(calls) : /\ Unheard(calls)[i].kind = calls[i].kind
                               /\ Unheard(calls)[i].r = calls[i].r
                               /\ Unheard(calls)[i].stages = calls[i].stages
                               /\ Unheard(calls)[i].answer = calls[i].answer
                               /\ ~Unheard(calls)[i].awaited
  BY <1>3, <1>5 DEF Calls
<1>. QED
  BY <1>4, <1>6

(* The window keeps waiting for what it waits for, or for nothing.          *)
LEMMA AwaitingKept ==
    ASSUME IInv, NEW f, Descends(f),
           \/ client'.phase = client.phase /\ client'.run = client.run
           \/ \A i \in 1..Len(queue') : ~queue'[i].awaited
    PROVE  Awaiting'
<1>1. CASE \A i \in 1..Len(queue') : ~queue'[i].awaited
  BY <1>1 DEF Awaiting
<1>2. CASE client'.phase = client.phase /\ client'.run = client.run
  <2>1. \A i \in 1..Len(queue') : f[i] \in 1..Len(queue)
    BY DEF Descends
  <2>2. \A i \in 1..Len(queue') : queue'[i].awaited =>
            /\ Expected(queue'[i], client'.phase)
            /\ queue'[i].kind # "read" => queue'[i].r = client'.run
    BY <1>2, <2>1 DEF IInv, Awaiting, Descends, Expected
  <2>3. client'.phase # "running" =>
            \A i, j \in 1..Len(queue') : queue'[i].awaited /\ queue'[j].awaited => i = j
    BY <1>2, <2>1 DEF IInv, Awaiting, Descends
  <2>. QED
    BY <2>2, <2>3 DEF Awaiting
<1>. QED
  BY <1>1, <1>2

LEMMA Quiet ==
    ASSUME IInv,
           client.phase \in {"free", "opening", "repeat", "recorded", "uncertain",
                             "doubtful", "ending", "unsettled"}
    PROVE  \A i \in 1..Len(queue) : ~queue[i].awaited
<1>1. SUFFICES ASSUME NEW i \in 1..Len(queue), queue[i].awaited PROVE FALSE
  OBVIOUS
<1>2. Expected(queue[i], client.phase)
  BY <1>1 DEF IInv, Awaiting
<1>3. queue[i].kind \in Kinds
  BY Queues DEF Calls
<1>. QED
  BY <1>2, <1>3 DEF Expected, Kinds

(* The turn goes on, or another process took a step.                        *)
LEMMA Rests ==
    ASSUME IInv, Progress, UNCHANGED <<queue, client>>, Standing',
           Mid' \/ (~Mid /\ \A q \in Requests : Untouched(q))
    PROVE  Preserved
<1>. DEFINE f == [i \in 1..Len(queue) |-> i]
<1>1. Descends(f)
  BY Queues DEF Descends, Kept
<1>2. Queued' /\ CreatesStay
  BY <1>1, QueueKept
<1>3. Informed(client)'
  BY <1>2, InformedStays DEF IInv
<1>4. Awaiting'
  BY <1>1, AwaitingKept
<1>. QED
  BY <1>2, <1>3, <1>4 DEF Preserved, IInv, Progress, Good, Files

LEMMA Stays ==
    ASSUME IInv, Clean, ~Mid, Stay
    PROVE  Preserved
BY Rests DEF Stay, Standing, Mid, Labels, Progress, Clean

(* The call is answered.                                                    *)
LEMMA Responds ==
    ASSUME IInv, Progress, queue # <<>>, NEW answer \in Answers,
           Hears(queue[1], answer), Respond(answer)
    PROVE  Preserved
<1>. DEFINE f == [i \in 1..(Len(queue) - 1) |-> i + 1]
<1>1. /\ client' = Heard(queue[1], answer) /\ at' = "start"
      /\ queue' = IF client' = Free THEN Unheard(Tail(queue)) ELSE Tail(queue)
  BY Queues DEF Respond
<1>2. /\ queue' \in Seq(Calls) /\ Len(queue') = Len(queue) - 1 /\ Len(queue) \in Nat
      /\ \A i \in 1..Len(queue') :
             /\ queue'[i].kind = queue[i + 1].kind /\ queue'[i].r = queue[i + 1].r
             /\ queue'[i].stages = queue[i + 1].stages
             /\ queue'[i].answer = queue[i + 1].answer
             /\ queue'[i].awaited => queue[i + 1].awaited
             /\ client' = Free => ~queue'[i].awaited
  <2>1. CASE client' = Free
    <3>1. PICK tail \in Seq(Calls) :
              /\ tail = Tail(queue) /\ Len(tail) = Len(queue) - 1
              /\ Len(queue) \in Nat
              /\ \A i \in 1..(Len(queue) - 1) : tail[i] = queue[i + 1]
      BY Queues
    <3>2. queue' = Unheard(tail)
      BY <1>1, <2>1, <3>1
    <3>3. queue' \in Seq(Calls) /\ Len(queue') = Len(tail)
      BY <3>2, Unheards
    <3>4. \A i \in 1..Len(queue') :
             /\ queue'[i].kind = tail[i].kind /\ queue'[i].r = tail[i].r
             /\ queue'[i].stages = tail[i].stages
             /\ queue'[i].answer = tail[i].answer
             /\ ~queue'[i].awaited
      BY <3>2, <3>3, Unheards
    <3>. QED
      BY <3>1, <3>3, <3>4
  <2>2. CASE client' # Free
    BY <1>1, <2>2, Queues
  <2>. QED
    BY <2>1, <2>2
<1>3. Descends(f)
  BY <1>2 DEF Descends, Kept
<1>4. Queued' /\ CreatesStay
  BY <1>3, QueueKept
<1>5. /\ Informed(client)'
      /\ \/ client' = client
         \/ /\ queue[1].awaited
            /\ \/ client' = Free
               \/ client.phase # "running"
               \/ client'.phase = "running" /\ client'.run = client.run
  BY <1>1, <1>4, Queues, Listening
<1>6. Awaiting'
  <2>1. CASE client' = client
    BY <1>3, <2>1, AwaitingKept
  <2>2. CASE client' = Free
    BY <1>2, <1>3, <2>2, AwaitingKept
  <2>3. CASE queue[1].awaited /\ client.phase # "running"
    <3>1. \A i \in 1..Len(queue') : ~queue[i + 1].awaited
      <4>1. SUFFICES ASSUME NEW i \in 1..Len(queue') PROVE ~queue[i + 1].awaited
        OBVIOUS
      <4>2. i + 1 \in 1..Len(queue) /\ i + 1 # 1 /\ 1 \in 1..Len(queue)
        BY <1>2, Queues
      <4>. QED
        BY <2>3, <4>2 DEF IInv, Awaiting
    <3>2. \A i \in 1..Len(queue') : ~queue'[i].awaited
      BY <1>2, <3>1
    <3>. QED
      BY <1>3, <3>2, AwaitingKept
  <2>4. CASE client.phase = "running" /\ client'.phase = "running" /\ client'.run = client.run
    BY <1>3, <2>4, AwaitingKept
  <2>. QED
    BY <1>5, <2>1, <2>2, <2>3, <2>4
<1>7. Standing'
  BY <1>1 DEF Standing, Mid, Labels
<1>. QED
  BY <1>4, <1>5, <1>6, <1>7 DEF Preserved, IInv, Progress, Good, Files

LEMMA Refuses ==
    ASSUME IInv, Progress, queue # <<>>, Refuse \/ Respond("unknown")
    PROVE  Preserved
<1>1. \E answer \in {"refused", "unknown"} : Respond(answer)
  BY DEF Refuse
<1>2. {"refused", "unknown"} \subseteq Answers
  BY DEF Answers
<1>. QED
  BY <1>1, <1>2, HearsNothing, Responds

(* The call goes on with its next turn, behind the others or, at the start  *)
(* of the bridge, at once.                                                  *)
LEMMA Moves ==
    ASSUME IInv, Progress, queue # <<>>, NEW next \in Calls,
           next.kind = queue[1].kind, next.r = queue[1].r,
           next.awaited => queue[1].awaited, Sound(next)',
           next.kind = "create" /\ next.stages # <<"created">> => NotYet(next.r)',
           \/ queue' = <<next>> \o Tail(queue)
           \/ queue' = Append(Tail(queue), next),
           at' = "start", UNCHANGED client
    PROVE  Preserved
<1>1. \E n \in {1, Len(queue)} :
          /\ queue' \in Seq(Calls) /\ Len(queue') = Len(queue)
          /\ queue'[n] = next
          /\ \A i \in 1..Len(queue) : i # n =>
                 queue'[i] = queue[IF n = 1 THEN i ELSE i + 1]
  <2>1. CASE queue' = <<next>> \o Tail(queue)
    <3>1. /\ queue' \in Seq(Calls) /\ Len(queue') = Len(queue) /\ queue'[1] = next
          /\ \A i \in 1..Len(queue) : i # 1 => queue'[i] = queue[i]
      BY <2>1, Queues
    <3>. QED
      BY <3>1
  <2>2. CASE queue' = Append(Tail(queue), next)
    <3>1. /\ queue' \in Seq(Calls) /\ Len(queue') = Len(queue)
          /\ queue'[Len(queue)] = next
          /\ \A i \in 1..Len(queue) : i # Len(queue) => queue'[i] = queue[i + 1]
      <4>1. PICK tail \in Seq(Calls) :
                /\ tail = Tail(queue) /\ Len(tail) = Len(queue) - 1
                /\ Len(queue) \in Nat /\ Len(queue) >= 1
                /\ \A i \in 1..(Len(queue) - 1) : tail[i] = queue[i + 1]
        BY Queues
      <4>2. queue' = Append(tail, next)
        BY <2>2, <4>1
      <4>3. queue' \in Seq(Calls) /\ Len(queue') = Len(tail) + 1
            /\ queue'[Len(tail) + 1] = next
            /\ \A i \in 1..Len(tail) : queue'[i] = tail[i]
        BY <4>2, AppendProperties
      <4>4. Len(tail) + 1 = Len(queue)
        BY <4>1
      <4>5. ASSUME NEW i \in 1..Len(queue), i # Len(queue)
            PROVE  queue'[i] = queue[i + 1]
        <5>1. i \in 1..Len(tail) /\ i \in 1..(Len(queue) - 1)
          BY <4>1, <4>5
        <5>. QED
          BY <4>1, <4>3, <5>1
      <4>6. queue' \in Seq(Calls) /\ Len(queue') = Len(queue)
            /\ queue'[Len(queue)] = next
        BY <4>3, <4>4
      <4>. QED
        BY <4>5, <4>6
    <3>2. Len(queue) = 1 => \A i \in 1..Len(queue) : i # Len(queue) => queue'[i] = queue[i]
      OBVIOUS
    <3>. QED
      BY <3>1, <3>2
  <2>. QED
    BY <2>1, <2>2
<1>2. PICK n \in {1, Len(queue)} :
          /\ queue' \in Seq(Calls) /\ Len(queue') = Len(queue)
          /\ queue'[n] = next
          /\ \A i \in 1..Len(queue) : i # n =>
                 queue'[i] = queue[IF n = 1 THEN i ELSE i + 1]
  BY <1>1
<1>. DEFINE f == [i \in 1..Len(queue) |->
                      IF i = n THEN 1 ELSE IF n = 1 THEN i ELSE i + 1]
<1>3. f \in [1..Len(queue') -> 1..Len(queue)]
      /\ \A i, j \in 1..Len(queue') : f[i] = f[j] => i = j
  BY <1>2, Queues
<1>4. ASSUME NEW i \in 1..Len(queue')
      PROVE  /\ queue'[i].kind = queue[f[i]].kind /\ queue'[i].r = queue[f[i]].r
             /\ queue'[i].awaited => queue[f[i]].awaited
             /\ Kept(i, f[i]) \/ Renewed(i)
  <2>1. CASE i = n
    <3>1. f[i] = 1 /\ queue'[i] = next
      BY <1>2, <2>1
    <3>2. Sound(queue[i])' /\ Fresh(i)'
      BY <3>1 DEF Fresh
    <3>. QED
      BY <3>1, <3>2 DEF Renewed
  <2>2. CASE i # n
    <3>1. f[i] \in 1..Len(queue) /\ f[i] # 1 /\ queue'[i] = queue[f[i]]
      BY <1>2, <2>2, Queues
    <3>. QED
      BY <3>1 DEF Kept
  <2>. QED
    BY <2>1, <2>2
<1>. HIDE DEF f
<1>5. Descends(f)
  BY <1>2, <1>3, <1>4 DEF Descends
<1>6. Queued' /\ CreatesStay
  BY <1>5, QueueKept
<1>7. Informed(client)'
  BY <1>6, InformedStays DEF IInv
<1>8. Awaiting'
  BY <1>5, AwaitingKept
<1>9. Standing'
  BY DEF Standing, Mid, Labels
<1>. QED
  BY <1>6, <1>7, <1>8, <1>9 DEF Preserved, IInv, Progress, Good, Files

(* A call comes in.                                                         *)
LEMMA StandingStays ==
    ASSUME Standing, UNCHANGED <<freeze, request, candidate, runtime, at>>,
           queue # <<>> => /\ queue' # <<>> /\ queue'[1].kind = queue[1].kind
                           /\ queue'[1].stages = queue[1].stages
                           /\ queue'[1].r = queue[1].r
    PROVE  Standing'
<1>1. SUFFICES ASSUME Mid PROVE Standing'
  BY DEF Standing, Mid
<1>2. queue # <<>>
  BY <1>1 DEF Standing, Freezes, Polls, Cancels, Busy
<1>3. PICK r : r = queue[1].r /\ r = queue'[1].r
  BY <1>2
<1>4. Freezes(r) => Freezes(r)'
  BY <1>2 DEF Freezes, Busy, Status, Active
<1>5. Polls(r) => Polls(r)'
  BY <1>2 DEF Polls, Busy, Status, Active
<1>6. Cancels(r) => Cancels(r)'
  BY <1>2 DEF Cancels, Busy, Status, Active
<1>7. (Freezes(r) \/ Polls(r) \/ Cancels(r)) /\ at' \in Labels
  BY <1>1, <1>3 DEF Standing
<1>8. Freezes(queue[1].r)' \/ Polls(queue[1].r)' \/ Cancels(queue[1].r)'
  BY <1>3, <1>4, <1>5, <1>6, <1>7
<1>. QED
  BY <1>7, <1>8 DEF Standing

LEMMA Sends ==
    ASSUME IInv, NEW call \in Calls, Sound(call),
           call.kind = "create" =>
               NotYet(call.r) /\ NoCreate(call.r) /\ receipt[call.r] # "none",
           NEW w, Informed(w), w.phase \in Unsent => call.kind # "create",
           call.awaited => /\ Expected(call, w.phase)
                           /\ call.kind # "read" => call.r = w.run,
           \/ client.phase = "running" /\ w.phase = "running" /\ w.run = client.run
           \/ \A i \in 1..Len(queue) : ~queue[i].awaited,
           queue' = Append(queue, call), client' = w,
           UNCHANGED <<disk, at>>
    PROVE  Preserved
<1>1. Clean
  BY Nothing DEF IInv, Files
<1>2. UNCHANGED <<receipt, facts, freeze, request, candidate, completion>>
      /\ UNCHANGED <<authority, adoption, runtime>>
  BY DEF disk
<1>3. /\ queue' \in Seq(Calls) /\ Len(queue') = Len(queue) + 1 /\ Len(queue) \in Nat
      /\ queue'[Len(queue) + 1] = call
      /\ \A i \in 1..Len(queue) : queue'[i] = queue[i]
  BY Queues, AppendProperties
<1>4. \A i \in 1..Len(queue') : i \in 1..Len(queue) \/ i = Len(queue) + 1
  BY <1>3
<1>5. \A i \in 1..Len(queue') : Sound(queue[i])'
  <2>1. SUFFICES ASSUME NEW i \in 1..Len(queue') PROVE Sound(queue[i])'
    OBVIOUS
  <2>2. PICK c : c = queue'[i]
    OBVIOUS
  <2>3. Sound(c)
    BY <1>3, <1>4, <2>2, Queues
  <2>4. Sound(c)'
    BY <1>2, <2>3 DEF Sound, Shape, Published, Settled, Reviewed, Status
  <2>. QED
    BY <2>2, <2>4
<1>6. \A i \in 1..Len(queue') : Fresh(i)'
  <2>1. SUFFICES ASSUME NEW i \in 1..Len(queue') PROVE Fresh(i)'
    OBVIOUS
  <2>2. CASE i \in 1..Len(queue)
    BY <1>2, <1>3, <2>2, Queues DEF Fresh, NotYet, Status, Mid
  <2>3. CASE i = Len(queue) + 1
    BY <1>2, <1>3, <2>3 DEF Fresh, NotYet, Status
  <2>. QED
    BY <1>4, <2>2, <2>3
<1>7. OneCreate'
  <2>1. SUFFICES ASSUME NEW i \in 1..Len(queue'), NEW j \in 1..Len(queue'),
                        queue'[i].kind = "create", queue'[j].kind = "create",
                        queue'[i].r = queue'[j].r
                 PROVE  i = j
    BY DEF OneCreate
  <2>2. CASE i \in 1..Len(queue) /\ j \in 1..Len(queue)
    BY <1>3, <2>1, <2>2 DEF IInv, Queued, OneCreate
  <2>3. CASE i \in 1..Len(queue) /\ j = Len(queue) + 1
    BY <1>3, <2>1, <2>3 DEF NoCreate, Creates
  <2>4. CASE j \in 1..Len(queue) /\ i = Len(queue) + 1
    BY <1>3, <2>1, <2>4 DEF NoCreate, Creates
  <2>. QED
    BY <1>4, <2>2, <2>3, <2>4
<1>8. ASSUME NEW r \in Requests, NoCreate(r), call.kind = "create" => call.r # r
      PROVE  NoCreate(r)'
  BY <1>3, <1>4, <1>8 DEF NoCreate, Creates
<1>9. \A r \in Requests : receipt'[r] = "none" => NotYet(r)' /\ NoCreate(r)'
  <2>1. SUFFICES ASSUME NEW r \in Requests, receipt'[r] = "none"
                 PROVE  NotYet(r)' /\ NoCreate(r)'
    OBVIOUS
  <2>2. NotYet(r) /\ NoCreate(r) /\ (call.kind = "create" => call.r # r)
    BY <1>2, <2>1 DEF IInv, Queued
  <2>. QED
    BY <1>2, <1>8, <2>2 DEF NotYet, Status
<1>10. Informed(client)'
  <2>1. w.phase \in Unsent => NoCreate(w.run)'
    <3>1. SUFFICES ASSUME w.phase \in Unsent PROVE NoCreate(w.run)'
      OBVIOUS
    <3>2. w.run \in Requests /\ NoCreate(w.run) /\ call.kind # "create"
      BY <3>1 DEF Informed, Unsent
    <3>. QED
      BY <1>8, <3>2
  <2>. QED
    BY <1>2, <2>1 DEF Informed, NotYet, Published, Reviewed, Status
<1>11. Awaiting'
  <2>1. \A i \in 1..Len(queue') : queue'[i].awaited =>
            /\ Expected(queue'[i], w.phase)
            /\ queue'[i].kind # "read" => queue'[i].r = w.run
    <3>1. SUFFICES ASSUME NEW i \in 1..Len(queue'), queue'[i].awaited
                   PROVE  /\ Expected(queue'[i], w.phase)
                          /\ queue'[i].kind # "read" => queue'[i].r = w.run
      OBVIOUS
    <3>2. CASE i = Len(queue) + 1
      BY <1>3, <3>1, <3>2
    <3>3. CASE i \in 1..Len(queue)
      <4>1. queue[i].awaited /\ queue'[i] = queue[i]
        BY <1>3, <3>1, <3>3
      <4>2. client.phase = w.phase /\ w.run = client.run
        BY <3>3, <4>1
      <4>. QED
        BY <3>3, <4>1, <4>2 DEF IInv, Awaiting
    <3>. QED
      BY <1>4, <3>2, <3>3
  <2>2. w.phase # "running" =>
            \A i, j \in 1..Len(queue') : queue'[i].awaited /\ queue'[j].awaited => i = j
    BY <1>3, <1>4
  <2>. QED
    BY <2>1, <2>2 DEF Awaiting
<1>12. Standing'
  BY <1>2, <1>3, Queues, StandingStays DEF IInv
<1>. QED
  BY <1>1, <1>3, <1>5, <1>6, <1>7, <1>9, <1>10, <1>11, <1>12
  DEF Preserved, IInv, Queued, Clean, Good, Files

(* What is true at the start.                                               *)
LEMMA Begins == Init => IInv
<1>. SUFFICES ASSUME Init PROVE IInv
  OBVIOUS
<1>1. Typed
  BY DEF Init, Typed, Statuses
<1>2. \A r \in Requests : Ordered(r)
  BY RequestAssumption DEF Init, Ordered, Status, Active, Sealed, Reviewed, Alive, Idle
<1>3. Standing
  BY DEF Init, Standing, Mid, Labels
<1>4. Queued
  <2>1. queue \in Seq(Calls) /\ Len(queue) = 0
    BY DEF Init
  <2>2. \A r \in Requests : NotYet(r)
    BY DEF Init, NotYet, Status
  <2>3. 1..Len(queue) = {}
    BY <2>1
  <2>. QED
    BY <2>1, <2>2, <2>3 DEF Queued, OneCreate, NoCreate
<1>5. Informed(client)
  BY DEF Init, Free, Informed, Clients, Phases, Unsent
<1>6. Awaiting
  BY DEF Init, Awaiting
<1>. QED
  BY <1>1, <1>2, <1>3, <1>4, <1>5, <1>6 DEF IInv

-----------------------------------------------------------------------------
(* Which call a turn belongs to, and what is left of it.                    *)
LEMMA Stages ==
    ASSUME IInv, NEW stage, Turn(stage)
    PROVE  LET c == queue[1] IN
           /\ queue # <<>> /\ at \notin {"cleanup", "unmark"}
           /\ c \in Calls /\ c = Head(queue) /\ Running = c.r
           /\ c.kind \notin {"start", "read"} => c.r \in Requests
           /\ stage = "record" => c.kind = "record" /\ c.stages = <<"record">>
           /\ stage = "receipt" => /\ c.kind = "create"
                                   /\ c.stages = <<"receipt", "prepare", "created">>
           /\ stage = "prepare" => c.kind = "create" /\ c.stages = <<"prepare", "created">>
           /\ stage = "created" => c.kind = "create" /\ c.stages = <<"created">>
           /\ stage = "unstarted" => c.kind = "unstarted" /\ c.stages = <<"unstarted">>
           /\ stage = "restart" => c.kind = "start" /\ c.stages = <<"restart">>
           /\ stage = "status" => c.kind = "status" /\ c.stages = <<"status">>
           /\ stage = "stop" => c.kind = "cancel" /\ c.stages = <<"stop", "cancel">>
           /\ stage = "cancel" => c.kind = "cancel" /\ c.stages = <<"cancel">>
           /\ stage = "promote" => c.kind = "promote" /\ c.stages = <<"promote", "recover">>
           /\ stage = "recover" =>
                  \/ c.kind = "start" /\ c.stages = <<"recover", "restart">>
                  \/ c.kind = "status" /\ c.stages = <<"recover", "status">>
                  \/ c.kind = "cancel" /\ c.stages = <<"recover", "stop", "cancel">>
                  \/ c.kind = "cancel" /\ c.stages = <<"recover", "cancel">>
                  \/ c.kind \in {"read", "status", "promote"} /\ c.stages = <<"recover">>
<1>. DEFINE c == queue[1]
<1>1. /\ queue # <<>> /\ at \notin {"cleanup", "unmark"} /\ Head(c.stages) = stage
      /\ c \in Calls /\ c = Head(queue) /\ Running = c.r /\ Sound(c)
  BY Queues DEF Turn, Running
<1>. HIDE DEF c
<1>2. c.kind \in Kinds /\ c.r \in Requests \cup {None}
  BY <1>1 DEF Calls
<1>3. c.kind \notin {"start", "read"} => c.r \in Requests
  BY <1>1, <1>2 DEF Sound
<1>4. Shape(c)
  BY <1>1 DEF Sound
<1>5. c.kind = "start" =>
          \/ stage = "recover" /\ c.stages = <<"recover", "restart">>
          \/ stage = "restart" /\ c.stages = <<"restart">>
  BY <1>1, <1>4 DEF Shape
<1>6. c.kind = "read" => stage = "recover" /\ c.stages = <<"recover">>
  BY <1>1, <1>4 DEF Shape
<1>7. c.kind = "record" => stage = "record" /\ c.stages = <<"record">>
  BY <1>1, <1>4 DEF Shape
<1>8. c.kind = "create" =>
          \/ stage = "receipt" /\ c.stages = <<"receipt", "prepare", "created">>
          \/ stage = "prepare" /\ c.stages = <<"prepare", "created">>
          \/ stage = "created" /\ c.stages = <<"created">>
  BY <1>1, <1>4 DEF Shape
<1>9. c.kind = "unstarted" => stage = "unstarted" /\ c.stages = <<"unstarted">>
  BY <1>1, <1>4 DEF Shape
<1>10. c.kind = "status" =>
          \/ stage = "recover" /\ c.stages = <<"recover", "status">>
          \/ stage = "status" /\ c.stages = <<"status">>
          \/ stage = "recover" /\ c.stages = <<"recover">>
  BY <1>1, <1>4 DEF Shape
<1>11. c.kind = "cancel" =>
          \/ stage = "recover" /\ c.stages = <<"recover", "stop", "cancel">>
          \/ stage = "recover" /\ c.stages = <<"recover", "cancel">>
          \/ stage = "stop" /\ c.stages = <<"stop", "cancel">>
          \/ stage = "cancel" /\ c.stages = <<"cancel">>
  BY <1>1, <1>4 DEF Shape
<1>12. c.kind = "promote" =>
          \/ stage = "promote" /\ c.stages = <<"promote", "recover">>
          \/ stage = "recover" /\ c.stages = <<"recover">>
  BY <1>1, <1>4 DEF Shape
<1>. HIDE <1>4
<1>13. LET d == c IN
           /\ stage = "record" => c.kind = "record" /\ c.stages = <<"record">>
           /\ stage = "receipt" => /\ c.kind = "create"
                                   /\ c.stages = <<"receipt", "prepare", "created">>
           /\ stage = "prepare" => c.kind = "create" /\ c.stages = <<"prepare", "created">>
           /\ stage = "created" => c.kind = "create" /\ c.stages = <<"created">>
           /\ stage = "unstarted" => c.kind = "unstarted" /\ c.stages = <<"unstarted">>
           /\ stage = "restart" => c.kind = "start" /\ c.stages = <<"restart">>
  BY <1>2, <1>5, <1>6, <1>7, <1>8, <1>9, <1>10, <1>11, <1>12 DEF Kinds
<1>14. /\ stage = "status" => c.kind = "status" /\ c.stages = <<"status">>
       /\ stage = "stop" => c.kind = "cancel" /\ c.stages = <<"stop", "cancel">>
       /\ stage = "cancel" => c.kind = "cancel" /\ c.stages = <<"cancel">>
       /\ stage = "promote" => c.kind = "promote" /\ c.stages = <<"promote", "recover">>
       /\ stage = "recover" =>
              \/ c.kind = "start" /\ c.stages = <<"recover", "restart">>
              \/ c.kind = "status" /\ c.stages = <<"recover", "status">>
              \/ c.kind = "cancel" /\ c.stages = <<"recover", "stop", "cancel">>
              \/ c.kind = "cancel" /\ c.stages = <<"recover", "cancel">>
              \/ c.kind \in {"read", "status", "promote"} /\ c.stages = <<"recover">>
  BY <1>2, <1>5, <1>6, <1>7, <1>8, <1>9, <1>10, <1>11, <1>12 DEF Kinds
<1>. QED
  BY <1>1, <1>3, <1>13, <1>14 DEF c

(* Only three turns are ever found in the middle of their writes.           *)
LEMMA Middle ==
    ASSUME IInv, NEW stage, Turn(stage)
    PROVE  /\ stage \notin {"prepare", "status", "cancel"} => ~Mid
           /\ stage = "prepare" /\ Mid => Freezes(queue[1].r)
           /\ stage = "status" /\ Mid => Polls(queue[1].r)
           /\ stage = "cancel" /\ Mid => Cancels(queue[1].r)
<1>1. Mid => Freezes(queue[1].r) \/ Polls(queue[1].r) \/ Cancels(queue[1].r)
  BY DEF IInv, Standing
<1>2. Head(queue[1].stages) = stage
  BY Queues DEF Turn
<1>3. Freezes(queue[1].r) => stage = "prepare"
  BY <1>2 DEF Freezes, Busy
<1>4. Polls(queue[1].r) => stage = "status"
  BY <1>2 DEF Polls, Busy
<1>5. Cancels(queue[1].r) => stage = "cancel"
  BY <1>2 DEF Cancels, Busy
<1>. QED
  BY <1>1, <1>3, <1>4, <1>5

(* The last turn of a call.                                                 *)
LEMMA Ends ==
    ASSUME IInv, Progress, queue # <<>>, NEW stage, queue[1].stages = <<stage>>,
           NEW answer \in Answers, Hears(queue[1], answer), Proceed(answer, <<>>)
    PROVE  Preserved
<1>1. queue[1] \in Calls /\ Head(queue) = queue[1]
  BY Queues
<1>2. PICK c \in Calls : c = queue[1]
  BY <1>1
<1>3. Tail(c.stages) \o <<>> = <<>>
  <2>1. Tail(<<stage>>) \o <<>> = <<>>
    OBVIOUS
  <2>. QED
    BY <1>2, <2>1
<1>4. [c EXCEPT !.stages = Tail(@) \o <<>>, !.answer = answer].stages = <<>>
  BY <1>3 DEF Calls
<1>5. Respond(answer)
  BY <1>1, <1>2, <1>4 DEF Proceed
<1>. QED
  BY <1>5, Responds

(* A turn with another one to follow.                                       *)
LEMMA GoesOn ==
    ASSUME IInv, Progress, queue # <<>>, NEW r, r = queue[1].r, NEW kind,
           kind = queue[1].kind, NEW answer \in Answers, NEW more, NEW stages,
           Proceed(answer, more), Tail(queue[1].stages) \o more = stages,
           \/ kind = "start" /\ stages = <<"restart">>
           \/ kind = "create" /\ stages = <<"prepare", "created">> /\ NotYet(r)'
           \/ kind = "create" /\ stages = <<"created">> /\ Published(r)'
           \/ kind = "status" /\ stages = <<"status">> /\ Settled(r)'
           \/ kind = "status" /\ stages = <<"recover">>
           \/ kind = "cancel" /\ stages \in {<<"stop", "cancel">>, <<"cancel">>}
           \/ kind = "promote" /\ stages = <<"recover">>,
           answer = "candidate-ready" => kind = "status" /\ Reviewed(r)'
    PROVE  Preserved
<1>1. queue[1] \in Calls /\ Head(queue) = queue[1] /\ Sound(queue[1])
  BY Queues
<1>2. PICK c \in Calls : c = queue[1]
  BY <1>1
<1>3. stages \in Plans /\ stages # <<>>
  BY DEF Plans
<1>. DEFINE next == [c EXCEPT !.stages = stages, !.answer = answer]
<1>4. /\ next \in Calls /\ next.kind = kind /\ next.r = r /\ next.stages = stages
      /\ next.answer = answer /\ next.awaited = c.awaited
      /\ next = [c EXCEPT !.stages = Tail(@) \o more, !.answer = answer]
  BY <1>2, <1>3 DEF Calls
<1>. HIDE DEF next
<1>5. /\ \/ queue' = <<next>> \o Tail(queue)
         \/ queue' = Append(Tail(queue), next)
      /\ at' = "start" /\ UNCHANGED client
  BY <1>1, <1>2, <1>3, <1>4 DEF Proceed
<1>6. PICK d \in Calls : d = next
  BY <1>4
<1>7. Sound(d)'
  <2>1. Shape(d)
    BY <1>4, <1>6 DEF Shape
  <2>2. /\ d.kind \in {"read", "start"} <=> d.r = None
        /\ d.kind = "start" => ~d.awaited
    BY <1>1, <1>2, <1>4, <1>6 DEF Sound
  <2>3. r \in Requests \/ r = None
    BY <1>2 DEF Calls
  <2>4. r # None => Keeps(r)
    BY <2>3 DEF Progress, Good
  <2>5. /\ kind \in {"status", "cancel", "promote"} => Published(r)'
        /\ kind = "promote" => Reviewed(r)'
    BY <1>1, <1>2, <2>4 DEF Sound, Keeps
  <2>6. /\ stages = <<"created">> => Published(r)'
        /\ stages = <<"status">> => Settled(r)'
    OBVIOUS
  <2>7. /\ d.kind = kind /\ d.r = r /\ d.stages = stages /\ d.answer = answer
    BY <1>4, <1>6
  <2>8. /\ d.kind \in {"status", "cancel", "promote"} => Published(d.r)'
        /\ d.stages = <<"created">> => Published(d.r)'
        /\ d.stages = <<"status">> => Settled(d.r)'
        /\ d.kind = "promote" => Reviewed(d.r)'
        /\ d.answer = "candidate-ready" => d.kind = "status" /\ Reviewed(d.r)'
    BY <2>5, <2>6, <2>7
  <2>. QED
    BY <2>1, <2>2, <2>8 DEF Sound, Shape
<1>8. d.kind = "create" /\ d.stages # <<"created">> => NotYet(d.r)'
  BY <1>4, <1>6
<1>. QED
  BY <1>2, <1>4, <1>5, <1>6, <1>7, <1>8, Moves

(* A step of a turn that leaves its call where it is, or fails it.          *)
LEMMA Steps ==
    ASSUME IInv, Clean, queue # <<>>, ~Mid, Stay \/ Refuse
    PROVE  Preserved
BY Stays, Refuses DEF Progress, Clean

LEMMA Unchanged ==
    ASSUME IInv, UNCHANGED disk
    PROVE  Clean /\ Progress
BY Nothing DEF IInv, Files, Progress, Clean

-----------------------------------------------------------------------------
(* The turns of a submission.                                               *)
LEMMA RecordTurns ==
    ASSUME IInv, RecordTurn
    PROVE  Preserved
<1>1. /\ queue # <<>> /\ queue[1].kind = "record" /\ queue[1].stages = <<"record">>
      /\ Running = queue[1].r /\ queue[1].r \in Requests /\ ~Mid
  BY Stages, Middle DEF RecordTurn
<1>2. PICK r \in Requests : r = queue[1].r
  BY <1>1
<1>3. Record(r)
  BY <1>1, <1>2 DEF RecordTurn
<1>4. CASE Refuse /\ UNCHANGED disk
  BY <1>1, <1>4, Unchanged, Refuses
<1>5. CASE /\ receipt' = [receipt EXCEPT ![r] = IF @ = "none" THEN "accepted" ELSE @]
           /\ IF receipt[r] \in {"none", "accepted"} THEN Proceed("ok", <<>>) ELSE Refuse
           /\ UNCHANGED <<facts, freeze, request, candidate, completion, authority,
                          adoption, runtime>>
  <2>. DEFINE v == IF receipt[r] = "none" THEN "accepted" ELSE receipt[r]
  <2>1. v \in {"accepted", "request-created", "not-started"}
    BY DEF IInv, Typed
  <2>2. receipt' = [receipt EXCEPT ![r] = v]
    BY <1>5
  <2>. HIDE DEF v
  <2>3. Clean /\ Progress
    BY <1>5, <2>1, <2>2, Receipts DEF IInv, Files, Typed, Progress, Clean
  <2>4. receipt'[r] # "none"
    BY <2>1, <2>2 DEF IInv, Typed
  <2>5. Hears(queue[1], "ok")
    BY <1>1, <1>2, <2>4 DEF Hears
  <2>. QED
    BY <1>1, <1>5, <2>3, <2>5, Ends, Refuses DEF Answers
<1>. QED
  BY <1>3, <1>4, <1>5 DEF Record

LEMMA ReceiptTurns ==
    ASSUME IInv, ReceiptTurn
    PROVE  Preserved
<1>1. /\ queue # <<>> /\ queue[1].kind = "create"
      /\ queue[1].stages = <<"receipt", "prepare", "created">>
      /\ Running = queue[1].r /\ queue[1].r \in Requests /\ ~Mid
  BY Stages, Middle DEF ReceiptTurn
<1>2. PICK r \in Requests : r = queue[1].r
  BY <1>1
<1>3. Clean /\ Progress /\ (Proceed("ok", <<>>) \/ Refuse)
  BY Unchanged DEF ReceiptTurn, ReadReceipt
<1>4. NotYet(r)'
  <2>1. NotYet(r)
    <3>1. Fresh(1)
      BY <1>1, Queues
    <3>2. <<"receipt", "prepare", "created">> # <<"created">>
      OBVIOUS
    <3>. QED
      BY <1>1, <1>2, <3>1, <3>2 DEF Fresh
  <2>. QED
    BY <1>3, <2>1 DEF Clean, Untouched
<1>5. Tail(queue[1].stages) \o <<>> = <<"prepare", "created">>
  <2>1. Tail(<<"receipt", "prepare", "created">>) \o <<>> = <<"prepare", "created">>
    OBVIOUS
  <2>. QED
    BY <1>1, <2>1
<1>. QED
  BY <1>1, <1>2, <1>3, <1>4, <1>5, GoesOn, Refuses DEF Answers

(* The bundle of a Request is frozen step by step.                          *)
LEMMA PrepareTurns ==
    ASSUME IInv, PrepareTurn
    PROVE  Preserved
<1>1. /\ queue # <<>> /\ queue[1].kind = "create"
      /\ queue[1].stages = <<"prepare", "created">>
      /\ Running = queue[1].r /\ queue[1].r \in Requests
      /\ Busy("create", <<"prepare", "created">>)
      /\ Mid => Freezes(queue[1].r)
      /\ at \notin {"cleanup", "unmark"}
  BY Stages, Middle DEF PrepareTurn, Busy
<1>2. PICK r \in Requests : r = queue[1].r
  BY <1>1
<1>3. Prepare(r) /\ (Mid => Freezes(r)) /\ Files
  BY <1>1, <1>2 DEF PrepareTurn, IInv, Files
<1>4. Creates(1, r)
  BY <1>1, <1>2 DEF Creates
<1>5. at = "start" => NotYet(r)
  <2>1. Fresh(1)
    BY <1>1, Queues
  <2>2. <<"prepare", "created">> # <<"created">>
    OBVIOUS
  <2>. QED
    BY <1>1, <1>2, <2>1, <2>2 DEF Fresh, Mid
<1>6. freeze[r] \in [staging : {"none", "partial", "whole"}, marker : BOOLEAN]
  BY DEF IInv, Typed
<1>7. ASSUME NEW b \in [staging : {"none", "partial", "whole"}, marker : BOOLEAN],
             freeze' = [freeze EXCEPT ![r] = b],
             Alive(r) => Active(r) \/ b.marker, Settled(r) => ~b.marker,
             UNCHANGED <<receipt, facts, request, candidate, completion,
                         authority, adoption, runtime>>
      PROVE  Progress /\ freeze'[r] = b /\ Status(r)' = Status(r)
  <2>1. /\ Good
        /\ \A q \in Requests \ {r} : Untouched(q)
    BY <1>3, <1>7, Bundles
  <2>2. Progress
    BY <1>1, <1>4, <2>1 DEF Progress
  <2>. QED
    BY <1>7, <2>2 DEF IInv, Typed, Status
<1>8. ASSUME NEW label \in {"staging", "staged", "marked", "published", "anchored"},
             Goto(label), Progress, Freezes(r)'
      PROVE  Preserved
  <2>1. UNCHANGED <<queue, client>> /\ at' = label /\ Mid'
    BY <1>8 DEF Goto, Mid
  <2>2. Standing'
    BY <1>2, <1>8, <2>1 DEF Standing, Labels
  <2>. QED
    BY <1>8, <2>1, <2>2, Rests
<1>9. CASE at = "start" /\ Refuse /\ UNCHANGED disk
  BY <1>1, <1>9, Unchanged, Refuses
<1>10. CASE /\ at = "start" /\ MayPrepare(r) /\ Goto("staging")
            /\ freeze' = [freeze EXCEPT ![r] = [staging |-> "partial", marker |-> FALSE]]
            /\ UNCHANGED <<receipt, facts, request, candidate, completion,
                           authority, adoption, runtime>>
  <2>. DEFINE b == [staging |-> "partial", marker |-> FALSE]
  <2>1. b \in [staging : {"none", "partial", "whole"}, marker : BOOLEAN] /\ ~b.marker
    OBVIOUS
  <2>2. ~Alive(r) /\ Status(r) = "none"
    BY <1>5, <1>10 DEF NotYet, Alive
  <2>3. Progress /\ freeze'[r] = b /\ Status(r)' = "none"
    BY <1>7, <1>10, <2>1, <2>2
  <2>4. Freezes(r)'
    BY <1>1, <1>10, <2>1, <2>3 DEF Freezes, Busy, MayPrepare, Goto
  <2>. QED
    BY <1>8, <1>10, <2>3, <2>4
<1>11. CASE /\ at = "staging" /\ Refuse
            /\ freeze' = [freeze EXCEPT ![r] = [staging |-> "none", marker |-> FALSE]]
            /\ UNCHANGED <<receipt, facts, request, candidate, completion,
                           authority, adoption, runtime>>
  <2>. DEFINE b == [staging |-> "none", marker |-> FALSE]
  <2>1. b \in [staging : {"none", "partial", "whole"}, marker : BOOLEAN] /\ ~b.marker
    OBVIOUS
  <2>2. ~Alive(r)
    BY <1>3, <1>11 DEF Freezes, Alive, Mid
  <2>3. Progress
    BY <1>7, <1>11, <2>1, <2>2
  <2>. QED
    BY <1>1, <1>11, <2>3, Refuses
<1>12. CASE /\ at = "staging" /\ Goto("staged")
            /\ freeze' = [freeze EXCEPT ![r] = [staging |-> "whole", marker |-> FALSE]]
            /\ UNCHANGED <<receipt, facts, request, candidate, completion,
                           authority, adoption, runtime>>
  <2>. DEFINE b == [staging |-> "whole", marker |-> FALSE]
  <2>1. b \in [staging : {"none", "partial", "whole"}, marker : BOOLEAN] /\ ~b.marker
    OBVIOUS
  <2>2. ~Alive(r) /\ Status(r) = "none" /\ runtime.request \in {None, r}
    BY <1>3, <1>12 DEF Freezes, Alive, Mid
  <2>3. Progress /\ freeze'[r] = b /\ Status(r)' = "none"
    BY <1>7, <1>12, <2>1, <2>2
  <2>4. Freezes(r)'
    BY <1>1, <1>12, <2>1, <2>2, <2>3 DEF Freezes, Busy, Goto
  <2>. QED
    BY <1>8, <1>12, <2>3, <2>4
<1>13. CASE /\ at = "staged" /\ Goto("marked")
            /\ freeze' = [freeze EXCEPT ![r] = [freeze[r] EXCEPT !.marker = TRUE]]
            /\ UNCHANGED <<receipt, facts, request, candidate, completion,
                           authority, adoption, runtime>>
  <2>. DEFINE b == [freeze[r] EXCEPT !.marker = TRUE]
  <2>1. b \in [staging : {"none", "partial", "whole"}, marker : BOOLEAN] /\ b.marker
    BY <1>6
  <2>2. ~Settled(r) /\ Status(r) = "none" /\ runtime.request \in {None, r}
    BY <1>3, <1>13 DEF Freezes, Settled, Published, Mid
  <2>. HIDE DEF b
  <2>3. Progress /\ freeze'[r] = b /\ Status(r)' = "none"
    BY <1>7, <1>13, <2>1, <2>2 DEF b
  <2>4. Freezes(r)'
    BY <1>1, <1>13, <2>1, <2>2, <2>3 DEF Freezes, Busy, Goto
  <2>. QED
    BY <1>8, <1>13, <2>3, <2>4
<1>14. CASE /\ at = "marked"
            /\ freeze' = [freeze EXCEPT ![r].staging = "none"]
            /\ request' = [request EXCEPT ![r].status = "processing"]
            /\ Goto("published")
            /\ UNCHANGED <<receipt, facts, candidate, completion, authority,
                           adoption, runtime>>
  <2>1. Status(r) = "none" /\ freeze[r].marker /\ runtime.request \in {None, r}
    BY <1>3, <1>14 DEF Freezes, Mid
  <2>2. Clean /\ Status(r)' = "processing" /\ freeze'[r].marker
    BY <1>3, <1>14, <2>1, Publishes
  <2>3. Freezes(r)'
    BY <1>1, <1>14, <2>1, <2>2 DEF Freezes, Busy, Goto
  <2>. QED
    BY <1>8, <1>14, <2>2, <2>3 DEF Progress, Clean
<1>15. CASE /\ at = "published"
            /\ runtime' = [request |-> r, sealed |-> FALSE]
            /\ Goto("anchored")
            /\ UNCHANGED <<receipt, facts, freeze, request, candidate, completion,
                           authority, adoption>>
  <2>1. Status(r) = "processing" /\ freeze[r].marker /\ runtime.request \in {None, r}
    BY <1>3, <1>15 DEF Freezes, Mid
  <2>2. Clean /\ Active(r)'
    BY <1>3, <1>15, <2>1, Anchors
  <2>3. Freezes(r)'
    BY <1>1, <1>15, <2>1, <2>2 DEF Freezes, Busy, Goto, Status
  <2>. QED
    BY <1>8, <1>15, <2>2, <2>3 DEF Progress, Clean
<1>16. CASE /\ at = "anchored"
            /\ \E marker \in {FALSE, TRUE} :
                   freeze' = [freeze EXCEPT ![r] = [freeze[r] EXCEPT !.marker = marker]]
            /\ UNCHANGED <<receipt, facts, request, candidate, completion,
                           authority, adoption, runtime>>
            /\ Proceed("ok", <<>>)
  <2>1. PICK marker \in {FALSE, TRUE} :
            freeze' = [freeze EXCEPT ![r] = [freeze[r] EXCEPT !.marker = marker]]
    BY <1>16
  <2>. DEFINE b == [freeze[r] EXCEPT !.marker = marker]
  <2>2. b \in [staging : {"none", "partial", "whole"}, marker : BOOLEAN]
    BY <1>6
  <2>3. Active(r) /\ Status(r) = "processing" /\ freeze[r].marker
    BY <1>3, <1>16 DEF Freezes, Mid
  <2>. HIDE DEF b
  <2>4. Progress /\ Status(r)' = "processing"
    BY <1>7, <1>16, <2>1, <2>2, <2>3 DEF b, Settled
  <2>5. Tail(queue[1].stages) \o <<>> = <<"created">>
    <3>1. Tail(<<"prepare", "created">>) \o <<>> = <<"created">>
      OBVIOUS
    <3>. QED
      BY <1>1, <3>1
  <2>6. Published(r)'
    BY <2>4 DEF Published
  <2>. QED
    BY <1>1, <1>2, <1>16, <2>4, <2>5, <2>6, GoesOn DEF Answers
<1>. QED
  BY <1>3, <1>9, <1>10, <1>11, <1>12, <1>13, <1>14, <1>15, <1>16 DEF Prepare

LEMMA CleanUpTurns ==
    ASSUME IInv, CleanUpTurn
    PROVE  Preserved
<1>1. /\ at \in {"cleanup", "unmark"} /\ CleanUp(Running) /\ Mid
  BY DEF CleanUpTurn, Mid
<1>2. /\ queue # <<>> /\ queue[1].kind = "create" /\ Freezes(queue[1].r)
      /\ Busy("create", <<"prepare", "created">>)
  BY <1>1 DEF IInv, Standing, Freezes, Polls, Cancels, Busy
<1>3. Running = queue[1].r /\ queue[1].r \in Requests
  <2>1. Head(queue) = queue[1] /\ queue[1] \in Calls /\ Sound(queue[1])
    BY <1>2, Queues
  <2>2. queue[1].r \in Requests \cup {None}
    BY <2>1 DEF Calls
  <2>. QED
    BY <1>2, <2>1, <2>2 DEF Running, Sound
<1>4. PICK r \in Requests : r = queue[1].r /\ CleanUp(r)
  BY <1>1, <1>3
<1>5. Status(r) = "none" /\ ~Alive(r) /\ ~Settled(r) /\ Creates(1, r) /\ Files
  BY <1>1, <1>2, <1>4 DEF Freezes, Alive, Settled, Published, Creates, IInv, Files
<1>6. freeze[r] \in [staging : {"none", "partial", "whole"}, marker : BOOLEAN]
  BY DEF IInv, Typed
<1>7. /\ UNCHANGED <<receipt, facts, request, candidate, completion, authority,
                     adoption, runtime>>
      /\ \/ \E staging \in {"none", "partial"} :
                freeze' = [freeze EXCEPT ![r].staging = staging]
         \/ freeze' = [freeze EXCEPT ![r].marker = FALSE]
      /\ Goto("cleanup") \/ Goto("unmark") \/ Respond("unknown")
  BY <1>4 DEF CleanUp
<1>8. \E b \in [staging : {"none", "partial", "whole"}, marker : BOOLEAN] :
          freeze' = [freeze EXCEPT ![r] = b]
  <2>1. ASSUME NEW staging \in {"none", "partial"},
               freeze' = [freeze EXCEPT ![r].staging = staging]
        PROVE  \E b \in [staging : {"none", "partial", "whole"}, marker : BOOLEAN] :
                   freeze' = [freeze EXCEPT ![r] = b]
    <3>1. [freeze[r] EXCEPT !.staging = staging]
              \in [staging : {"none", "partial", "whole"}, marker : BOOLEAN]
      BY <1>6
    <3>. QED
      BY <2>1, <3>1
  <2>2. ASSUME freeze' = [freeze EXCEPT ![r].marker = FALSE]
        PROVE  \E b \in [staging : {"none", "partial", "whole"}, marker : BOOLEAN] :
                   freeze' = [freeze EXCEPT ![r] = b]
    <3>1. [freeze[r] EXCEPT !.marker = FALSE]
              \in [staging : {"none", "partial", "whole"}, marker : BOOLEAN]
      BY <1>6
    <3>. QED
      BY <2>2, <3>1
  <2>. QED
    BY <1>7, <2>1, <2>2
<1>9. Progress
  <2>1. Good /\ \A q \in Requests \ {r} : Untouched(q)
    BY <1>5, <1>7, <1>8, Bundles
  <2>. QED
    BY <1>2, <1>5, <2>1 DEF Progress
<1>10. CASE Respond("unknown")
  BY <1>2, <1>9, <1>10, Refuses
<1>11. CASE Goto("cleanup") \/ Goto("unmark")
  <2>1. UNCHANGED <<queue, client>> /\ at' \in {"cleanup", "unmark"} /\ Mid'
    BY <1>11 DEF Goto, Mid
  <2>2. Freezes(r)'
    BY <1>2, <1>5, <1>7, <2>1 DEF Freezes, Busy, Status
  <2>3. Standing'
    BY <1>4, <2>1, <2>2 DEF Standing, Labels
  <2>. QED
    BY <1>9, <2>1, <2>3, Rests
<1>. QED
  BY <1>7, <1>10, <1>11

(* A receipt is finished, with request-created or not-started.              *)
LEMMA Finishes ==
    ASSUME IInv, NEW r \in Requests, NEW status \in {"request-created", "not-started"},
           Finish(r, status)
    PROVE  Clean /\ Progress /\ (Refuse \/ Proceed("ok", <<>>))
<1>. DEFINE v == IF receipt[r] = "accepted" THEN status ELSE receipt[r]
<1>1. receipt' = [receipt EXCEPT ![r] = v]
  BY DEF Finish, FinishReceipt
<1>2. /\ UNCHANGED <<facts, freeze, request, candidate, completion, authority,
                     adoption, runtime>>
      /\ Refuse \/ Proceed("ok", <<>>)
  BY DEF Finish
<1>3. CASE receipt[r] = "none"
  <2>1. receipt' = receipt
    BY <1>1, <1>3 DEF IInv, Typed
  <2>2. UNCHANGED disk
    BY <1>2, <2>1 DEF disk
  <2>. QED
    BY <1>2, <2>2, Unchanged
<1>4. CASE receipt[r] # "none"
  <2>1. v \in {"accepted", "request-created", "not-started"}
    BY <1>4 DEF IInv, Typed
  <2>. HIDE DEF v
  <2>2. Clean
    BY <1>1, <1>2, <2>1, Receipts DEF IInv, Files, Typed
  <2>. QED
    BY <1>2, <2>2 DEF Progress, Clean
<1>. QED
  BY <1>3, <1>4

LEMMA FinishTurns ==
    ASSUME IInv, CreatedTurn \/ UnstartedTurn
    PROVE  Preserved
<1>1. CASE CreatedTurn
  <2>1. /\ queue # <<>> /\ queue[1].kind = "create" /\ queue[1].stages = <<"created">>
        /\ Running = queue[1].r /\ queue[1].r \in Requests
    BY <1>1, Stages DEF CreatedTurn
  <2>2. PICK r \in Requests : r = queue[1].r /\ Finish(r, "request-created")
    BY <1>1, <2>1 DEF CreatedTurn
  <2>3. Progress /\ (Refuse \/ Proceed("ok", <<>>))
    BY <2>2, Finishes
  <2>4. Published(r)'
    <3>1. Sound(queue[1])
      BY <2>1, Queues
    <3>2. Published(r)
      BY <2>1, <2>2, <3>1 DEF Sound
    <3>. QED
      BY <2>3, <3>2 DEF Progress, Good, Keeps
  <2>5. Hears(queue[1], "ok")
    BY <2>1, <2>2, <2>4 DEF Hears, WillBePublished, Published, Status
  <2>. QED
    BY <2>1, <2>3, <2>5, Ends, Refuses DEF Answers
<1>2. CASE UnstartedTurn
  <2>1. /\ queue # <<>> /\ queue[1].kind = "unstarted" /\ queue[1].stages = <<"unstarted">>
        /\ Running = queue[1].r /\ queue[1].r \in Requests
    BY <1>2, Stages DEF UnstartedTurn
  <2>2. Progress /\ (Refuse \/ Proceed("ok", <<>>))
    BY <1>2, <2>1, Finishes DEF UnstartedTurn
  <2>3. Hears(queue[1], "ok")
    BY <2>1 DEF Hears
  <2>. QED
    BY <2>1, <2>2, <2>3, Ends, Refuses DEF Answers
<1>. QED
  BY <1>1, <1>2

-----------------------------------------------------------------------------
(* Recovery, one write at a time.                                           *)
LEMMA Commits ==
    ASSUME IInv, NEW r \in Requests, CommitAdoption(r)
    PROVE  Clean /\ (Stay \/ Refuse)
<1>1. /\ adoption[r] = "prepared"
      /\ Stay \/ Refuse
      /\ UNCHANGED <<receipt, facts, freeze, request, candidate, completion,
                     authority, runtime>>
      /\ \/ \E v \in {"completed", "aborted"} : adoption' = [adoption EXCEPT ![r] = v]
         \/ UNCHANGED adoption
  BY DEF CommitAdoption
<1>2. Ordered(r) /\ Files
  BY DEF IInv, Files
<1>3. Reviewed(r) /\ candidate[r] # "none" /\ candidate[r] # "promoted"
  BY <1>1, <1>2 DEF Ordered
<1>4. CASE UNCHANGED adoption
  BY <1>1, <1>4, Unchanged DEF disk
<1>5. CASE \E v \in {"completed", "aborted"} : adoption' = [adoption EXCEPT ![r] = v]
  BY <1>1, <1>2, <1>3, <1>5, Adoptions
<1>. QED
  BY <1>1, <1>4, <1>5

LEMMA Follows ==
    ASSUME IInv, NEW r \in Requests, FollowAdoption(r)
    PROVE  Clean /\ Stay
<1>1. /\ adoption[r] = "completed" /\ Sealed(r) /\ Stay
      /\ UNCHANGED <<receipt, freeze, completion, authority, adoption>>
  BY DEF FollowAdoption
<1>2. Ordered(r) /\ Files
  BY DEF IInv, Files
<1>3. Reviewed(r)
  BY <1>1, <1>2 DEF Ordered
<1>4. CASE candidate[r] # "promoted"
  <2>1. /\ candidate' = [candidate EXCEPT ![r] = "promoted"]
        /\ UNCHANGED <<facts, request, runtime>>
    BY <1>4 DEF FollowAdoption
  <2>. QED
    BY <1>1, <1>2, <2>1, Candidates
<1>5. CASE candidate[r] = "promoted" /\ Status(r) # "promoted"
  <2>1. WriteRequest(r, "promoted") /\ UNCHANGED <<candidate, runtime>>
    BY <1>5 DEF FollowAdoption
  <2>2. Status(r) \in {"candidate-ready", "rejected"}
    BY <1>3, <1>5 DEF Reviewed
  <2>3. "promoted" \in {"candidate-ready"} \cup Terminal
    BY DEF Terminal
  <2>. QED
    BY <1>1, <1>2, <1>5, <2>1, <2>2, <2>3, StatusMoves
<1>6. CASE candidate[r] = "promoted" /\ Status(r) = "promoted"
  <2>1. runtime' = Released /\ UNCHANGED <<facts, request, candidate>>
    BY <1>6 DEF FollowAdoption
  <2>2. \A q \in Requests : Active(q) => q = r
    BY <1>1 DEF Sealed, Active
  <2>. QED
    BY <1>1, <1>2, <1>6, <2>1, <2>2, Releases DEF Alive
<1>. QED
  BY <1>1, <1>4, <1>5, <1>6

LEMMA Restores ==
    ASSUME IInv, NEW r \in Requests, Restorable(r), RestoreDue(r), Restore(r),
           adoption[r] = "completed" => ~Sealed(r)
    PROVE  Clean /\ Stay
<1>1. Ordered(r) /\ Files /\ Stay
  BY DEF IInv, Files, Restore
<1>2. CASE Status(r) = "processing" /\ candidate[r] # "none"
  <2>1. /\ WriteRequest(r, "candidate-ready")
        /\ UNCHANGED <<receipt, freeze, candidate, completion, authority,
                       adoption, runtime>>
    BY <1>2 DEF Restore, EndRequest
  <2>2. candidate[r] = "pending-review"
    BY <1>2 DEF Restorable
  <2>. QED
    BY <1>1, <1>2, <2>1, <2>2, StatusMoves DEF Terminal
<1>3. CASE Status(r) = "processing" /\ candidate[r] = "none"
  <2>1. /\ runtime' = [request |-> r, sealed |-> FALSE]
        /\ UNCHANGED <<receipt, facts, freeze, request, candidate, completion,
                       authority, adoption>>
    BY <1>3 DEF Restore
  <2>2. runtime.request \in {None, r}
    BY DEF Restorable
  <2>. QED
    BY <1>1, <1>3, <2>1, <2>2, Anchors
<1>4. CASE Status(r) # "processing"
  <2>1. /\ runtime' = Released
        /\ UNCHANGED <<receipt, facts, freeze, request, candidate, completion,
                       authority, adoption>>
    BY <1>4 DEF Restore
  <2>2. Status(r) \in Terminal /\ Active(r)
    BY <1>4 DEF RestoreDue
  <2>3. \A q \in Requests : Active(q) => q = r
    BY <2>2 DEF Active
  <2>4. ~Alive(r) /\ (candidate[r] = "promoted" => Status(r) = "promoted")
    BY <1>1, <2>2 DEF Alive, Terminal, Ordered
  <2>. QED
    BY <1>1, <2>1, <2>3, <2>4, Releases
<1>. QED
  BY <1>2, <1>3, <1>4

LEMMA RecoversFreeze ==
    ASSUME IInv, NEW r \in Requests, r \in Freezing, RecoverFreeze(r),
           adoption[r] = "completed" => ~Sealed(r)
    PROVE  Clean /\ (Stay \/ Refuse)
<1>1. Ordered(r) /\ Files
  BY DEF IInv, Files
<1>2. freeze[r] \in [staging : {"none", "partial", "whole"}, marker : BOOLEAN]
      /\ freeze[r] = [staging |-> freeze[r].staging, marker |-> freeze[r].marker]
  BY DEF IInv, Typed
<1>3. ~NotYet(r)
  BY DEF Freezing, NotYet
<1>4. ASSUME NEW b \in [staging : {"none", "partial", "whole"}, marker : BOOLEAN],
             freeze' = [freeze EXCEPT ![r] = b],
             Alive(r) => Active(r) \/ b.marker, Settled(r) => ~b.marker,
             UNCHANGED <<receipt, facts, candidate, completion,
                         authority, adoption, runtime, request>>
      PROVE  Clean
  <2>1. Good /\ (\A q \in Requests \ {r} : Untouched(q)) /\ Untouched(r)
    BY <1>1, <1>3, <1>4, Bundles
  <2>. QED
    BY <2>1 DEF Clean
<1>5. CASE ~freeze[r].marker
  <2>. DEFINE b == [freeze[r] EXCEPT !.staging = "none"]
  <2>1. /\ freeze' = [freeze EXCEPT ![r] = b] /\ Stay
        /\ UNCHANGED <<receipt, facts, candidate, completion,
                       authority, adoption, runtime, request>>
    BY <1>5 DEF RecoverFreeze
  <2>2. b \in [staging : {"none", "partial", "whole"}, marker : BOOLEAN] /\ ~b.marker
    BY <1>2, <1>5
  <2>3. Alive(r) => Active(r)
    BY <1>1, <1>5 DEF Ordered
  <2>. HIDE DEF b
  <2>. QED
    BY <1>4, <2>1, <2>2, <2>3
<1>6. CASE freeze[r].marker /\ freeze[r].staging = "whole" /\ ~Published(r)
  <2>1. /\ freeze' = [freeze EXCEPT ![r] = [freeze[r] EXCEPT !.staging = "none"]]
        /\ request' = [request EXCEPT ![r].status = "processing"]
        /\ Stay
        /\ UNCHANGED <<receipt, facts, candidate, completion,
                       authority, adoption, runtime>>
    BY <1>6 DEF RecoverFreeze
  <2>2. freeze' = [freeze EXCEPT ![r].staging = "none"]
    BY <2>1
  <2>3. Status(r) = "none"
    BY <1>6 DEF Published
  <2>. QED
    BY <1>1, <1>6, <2>1, <2>2, <2>3, Publishes
<1>7. CASE /\ freeze[r].marker
           /\ ~(freeze[r].staging = "whole" /\ ~Published(r))
           /\ freeze[r].staging # "none" \/ ~Published(r) \/ ~Restorable(r)
  <2>1. Refuse /\ UNCHANGED disk
    BY <1>7 DEF RecoverFreeze
  <2>. QED
    BY <2>1, Unchanged
<1>8. CASE /\ freeze[r].marker
           /\ ~(freeze[r].staging = "whole" /\ ~Published(r))
           /\ ~(freeze[r].staging # "none" \/ ~Published(r) \/ ~Restorable(r))
           /\ RestoreDue(r)
  <2>1. Restore(r)
    BY <1>8 DEF RecoverFreeze
  <2>. QED
    BY <1>8, <2>1, Restores
<1>9. CASE /\ freeze[r].marker
           /\ ~(freeze[r].staging = "whole" /\ ~Published(r))
           /\ ~(freeze[r].staging # "none" \/ ~Published(r) \/ ~Restorable(r))
           /\ ~RestoreDue(r)
  <2>. DEFINE b == [freeze[r] EXCEPT !.marker = FALSE]
  <2>1. /\ freeze' = [freeze EXCEPT ![r] = b] /\ Stay
        /\ UNCHANGED <<receipt, facts, candidate, completion,
                       authority, adoption, runtime, request>>
    BY <1>9 DEF RecoverFreeze
  <2>2. b \in [staging : {"none", "partial", "whole"}, marker : BOOLEAN] /\ ~b.marker
    BY <1>2
  <2>3. Alive(r) => Active(r)
    <3>1. Status(r) = "processing" => runtime = [request |-> r, sealed |-> FALSE]
      BY <1>9 DEF RestoreDue
    <3>2. Status(r) = "processing" => runtime.request = r
      BY <3>1
    <3>3. Status(r) = "candidate-ready" => Active(r)
      BY <1>9 DEF Restorable, Sealed
    <3>. QED
      BY <3>2, <3>3 DEF Alive, Active
  <2>. HIDE DEF b
  <2>. QED
    BY <1>4, <2>1, <2>2, <2>3
<1>. QED
  BY <1>5, <1>6, <1>7, <1>8, <1>9

LEMMA RecoversHistory ==
    ASSUME IInv, NEW r \in Requests, HistoryDue(r), RecoverHistory(r)
    PROVE  Clean /\ (Stay \/ Refuse)
<1>1. CASE Refuse /\ UNCHANGED disk
  BY <1>1, Unchanged
<1>2. CASE /\ FinishReceipt(r, "request-created")
           /\ facts' = [facts EXCEPT ![r] = @ \cup Told(r)]
           /\ Stay
           /\ UNCHANGED <<freeze, request, candidate, completion, authority,
                          adoption, runtime>>
  <2>. DEFINE v == IF receipt[r] = "accepted" THEN "request-created" ELSE receipt[r]
  <2>1. receipt[r] # "none"
    <3>1. ~NotYet(r)
      BY DEF HistoryDue, Published, NotYet
    <3>. QED
      BY <3>1 DEF IInv, Queued
  <2>2. v \in {"accepted", "request-created", "not-started"}
    BY <2>1 DEF IInv, Typed
  <2>3. receipt' = [receipt EXCEPT ![r] = v]
    BY <1>2 DEF FinishReceipt
  <2>. HIDE DEF v
  <2>4. Told(r) \subseteq {"stop-requested", "candidate-ready"} \cup Terminal
    BY DEF IInv, Typed, Told, Terminal
  <2>5. facts' \in [Requests -> SUBSET ({"stop-requested", "candidate-ready"} \cup Terminal)]
    BY <1>2, <2>4 DEF IInv, Typed
  <2>. QED
    BY <1>2, <2>2, <2>3, <2>5, Receipts DEF IInv, Files
<1>. QED
  BY <1>1, <1>2 DEF RecoverHistory

(* A recovery that has come to its end says what the runtime holds.         *)
RecoveryEnds == Adopting = {} /\ Freezing = {} /\ ~RuntimeDue /\ Unsettled = {}

LEMMA EndOfRecovery ==
    ASSUME IInv, RecoveryEnds
    PROVE  /\ \A r \in Requests :
                  /\ freeze[r].staging = "none" /\ ~freeze[r].marker
                  /\ Active(r) => ~RestoreDue(r) /\ Restorable(r)
           /\ runtime.request # None =>
                  /\ runtime.request \in Requests /\ Published(runtime.request)
                  /\ runtime.sealed => Reviewed(runtime.request)
<1>1. \A r \in Requests : freeze[r].staging = "none" /\ ~freeze[r].marker
  BY DEF RecoveryEnds, Freezing
<1>2. \A r \in Requests : Active(r) => ~RestoreDue(r) /\ Restorable(r)
  BY RequestAssumption DEF RecoveryEnds, RuntimeDue, Active
<1>3. ASSUME runtime.request # None
      PROVE  /\ runtime.request \in Requests /\ Published(runtime.request)
             /\ runtime.sealed => Reviewed(runtime.request)
  <2>1. runtime.request \in Requests
    BY <1>3 DEF IInv, Typed, Idle
  <2>2. PICK r \in Requests : r = runtime.request
    BY <2>1
  <2>3. Active(r) /\ Ordered(r) /\ ~RestoreDue(r) /\ Restorable(r)
    BY <1>2, <2>2 DEF Active, IInv
  <2>4. Published(r)
    BY <2>3 DEF Ordered, Published
  <2>5. runtime.sealed => Status(r) # "processing"
    <3>1. Status(r) = "processing" => runtime = [request |-> r, sealed |-> FALSE]
      BY <2>3 DEF RestoreDue
    <3>. QED
      BY <3>1
  <2>6. Status(r) \notin Terminal /\ Status(r) \in Statuses
    BY <2>3 DEF RestoreDue, IInv, Typed, Status
  <2>. QED
    BY <2>2, <2>4, <2>5, <2>6 DEF Reviewed, Published, Statuses
<1>. QED
  BY <1>1, <1>2, <1>3

LEMMA RecoverTurns ==
    ASSUME IInv, RecoverTurn
    PROVE  Preserved
<1>1. /\ queue # <<>> /\ queue[1] \in Calls /\ Head(queue) = queue[1] /\ ~Mid
      /\ Recover /\ queue[1].answer \in Answers
      /\ \/ queue[1].kind = "start" /\ queue[1].stages = <<"recover", "restart">>
         \/ queue[1].kind = "status" /\ queue[1].stages = <<"recover", "status">>
         \/ queue[1].kind = "cancel" /\ queue[1].stages = <<"recover", "stop", "cancel">>
         \/ queue[1].kind = "cancel" /\ queue[1].stages = <<"recover", "cancel">>
         \/ queue[1].kind \in {"read", "status", "promote"} /\ queue[1].stages = <<"recover">>
  <2>1. queue # <<>> /\ queue[1] \in Calls /\ Head(queue) = queue[1] /\ ~Mid
    BY Stages, Middle DEF RecoverTurn
  <2>2. queue[1].answer \in Answers
    BY <2>1 DEF Calls
  <2>. QED
    BY <2>1, <2>2, Stages DEF RecoverTurn
<1>2. CASE \E r \in Adopting : CommitAdoption(r) \/ FollowAdoption(r)
  <2>1. PICK r \in Requests : CommitAdoption(r) \/ FollowAdoption(r)
    BY <1>2 DEF Adopting
  <2>. QED
    BY <1>1, <2>1, Commits, Follows, Steps
<1>3. CASE Adopting = {} /\ \E r \in Freezing : RecoverFreeze(r)
  <2>1. PICK r \in Requests : r \in Freezing /\ RecoverFreeze(r)
    BY <1>3 DEF Freezing
  <2>2. adoption[r] = "completed" => ~Sealed(r)
    BY <1>3 DEF Adopting
  <2>. QED
    BY <1>1, <2>1, <2>2, RecoversFreeze, Steps
<1>4. CASE /\ Adopting = {} /\ RuntimeDue
           /\ IF Restorable(runtime.request) THEN Restore(runtime.request)
              ELSE Refuse /\ UNCHANGED disk
  <2>1. runtime.request \in Requests
    BY <1>4 DEF RuntimeDue, IInv, Typed, Idle
  <2>2. PICK r \in Requests : r = runtime.request
    BY <2>1
  <2>3. adoption[r] = "completed" => ~Sealed(r)
    BY <1>4 DEF Adopting
  <2>4. CASE Restorable(r)
    <3>1. RestoreDue(r) /\ Restore(r)
      BY <1>4, <2>2, <2>4 DEF RuntimeDue
    <3>. QED
      BY <1>1, <2>3, <2>4, <3>1, Restores, Steps
  <2>5. CASE ~Restorable(r)
    <3>1. Refuse /\ UNCHANGED disk
      BY <1>4, <2>2, <2>5
    <3>. QED
      BY <1>1, <3>1, Unchanged, Steps
  <2>. QED
    BY <2>4, <2>5
<1>5. CASE \E r \in Unsettled : RecoverHistory(r)
  <2>1. PICK r \in Requests : HistoryDue(r) /\ RecoverHistory(r)
    BY <1>5 DEF Unsettled
  <2>. QED
    BY <1>1, <2>1, RecoversHistory, Steps
<1>6. CASE RecoveryEnds /\ Proceed(queue[1].answer, <<>>) /\ UNCHANGED disk
  <2>1. Clean /\ Progress
    BY <1>6, Unchanged
  <2>2. UNCHANGED <<freeze, request>>
    BY <1>6 DEF disk
  <2>3. Sound(queue[1])
    BY <1>1, Queues
  <2>4. PICK answer \in Answers : answer = queue[1].answer
    BY <1>1
  <2>5. PICK r : r = queue[1].r
    OBVIOUS
  <2>6. answer = "candidate-ready" => queue[1].kind = "status" /\ Reviewed(r)'
    BY <2>2, <2>3, <2>4, <2>5 DEF Sound, Reviewed, Status
  <2>7. CASE queue[1].kind = "start" /\ queue[1].stages = <<"recover", "restart">>
    <3>1. Tail(<<"recover", "restart">>) \o <<>> = <<"restart">>
      OBVIOUS
    <3>. QED
      BY <1>1, <1>6, <2>1, <2>4, <2>5, <2>6, <2>7, <3>1, GoesOn
  <2>8. CASE queue[1].kind = "status" /\ queue[1].stages = <<"recover", "status">>
    <3>1. Tail(<<"recover", "status">>) \o <<>> = <<"status">>
      OBVIOUS
    <3>2. Settled(r)'
      <4>1. r \in Requests
        <5>1. queue[1].r \in Requests \cup {None}
          BY <1>1 DEF Calls
        <5>. QED
          BY <2>3, <2>5, <2>8, <5>1 DEF Sound
      <4>2. Published(r) /\ ~freeze[r].marker
        BY <1>6, <2>3, <2>5, <2>8, <4>1, EndOfRecovery DEF Sound
      <4>. QED
        BY <2>2, <4>2 DEF Settled, Published, Status
    <3>. QED
      BY <1>1, <1>6, <2>1, <2>4, <2>5, <2>6, <2>8, <3>1, <3>2, GoesOn
  <2>9. CASE queue[1].kind = "cancel" /\ queue[1].stages = <<"recover", "stop", "cancel">>
    <3>1. Tail(<<"recover", "stop", "cancel">>) \o <<>> = <<"stop", "cancel">>
      OBVIOUS
    <3>. QED
      BY <1>1, <1>6, <2>1, <2>4, <2>5, <2>6, <2>9, <3>1, GoesOn
  <2>10. CASE queue[1].kind = "cancel" /\ queue[1].stages = <<"recover", "cancel">>
    <3>1. Tail(<<"recover", "cancel">>) \o <<>> = <<"cancel">>
      OBVIOUS
    <3>. QED
      BY <1>1, <1>6, <2>1, <2>4, <2>5, <2>6, <2>10, <3>1, GoesOn
  <2>11. CASE queue[1].kind \in {"read", "status", "promote"} /\ queue[1].stages = <<"recover">>
    <3>1. runtime.request # None => /\ WillBePublished(runtime.request)
                                    /\ runtime.sealed => WillBeReviewed(runtime.request)
      <4>1. runtime.request # None => /\ Published(runtime.request)
                                      /\ runtime.sealed => Reviewed(runtime.request)
        BY <1>6, EndOfRecovery
      <4>. QED
        BY <2>2, <4>1 DEF WillBePublished, WillBeReviewed, Published, Reviewed, Status
    <3>2. Hears(queue[1], answer)
      BY <2>2, <2>3, <2>4, <2>11, <3>1 DEF Hears, Sound, WillBeReviewed, Reviewed, Status
    <3>. QED
      BY <1>1, <1>6, <2>1, <2>4, <2>11, <3>2, Ends
  <2>. QED
    BY <1>1, <2>7, <2>8, <2>9, <2>10, <2>11
<1>. QED
  BY <1>1, <1>2, <1>3, <1>4, <1>5, <1>6 DEF Recover, RecoveryEnds

LEMMA RestartTurns ==
    ASSUME IInv, RestartTurn
    PROVE  Preserved
<1>1. /\ queue # <<>> /\ queue[1].kind = "start" /\ queue[1].stages = <<"restart">>
      /\ ~Mid /\ Restart
  BY Stages, Middle DEF RestartTurn
<1>2. CASE Proceed("ok", <<>>) /\ UNCHANGED disk
  <2>1. Hears(queue[1], "ok")
    <3>1. Sound(queue[1])
      BY <1>1, Queues
    <3>. QED
      BY <1>1, <3>1 DEF Hears, Sound
  <2>. QED
    BY <1>1, <1>2, <2>1, Unchanged, Ends DEF Answers
<1>3. CASE /\ \E r \in Interrupted : FinishReceipt(r, "not-started")
           /\ Stay
           /\ UNCHANGED <<facts, freeze, request, candidate, completion, authority,
                          adoption, runtime>>
  <2>1. PICK r \in Requests : receipt[r] = "accepted" /\ FinishReceipt(r, "not-started")
    BY <1>3 DEF Interrupted
  <2>2. receipt' = [receipt EXCEPT ![r] = "not-started"]
    BY <2>1 DEF FinishReceipt
  <2>3. Clean
    BY <1>3, <2>2, Receipts DEF IInv, Files, Typed
  <2>. QED
    BY <1>1, <1>3, <2>3, Steps
<1>. QED
  BY <1>1, <1>2, <1>3 DEF Restart

-----------------------------------------------------------------------------
(* The turns of a poll and of a decision.                                   *)
LEMMA StatusTurns ==
    ASSUME IInv, StatusTurn
    PROVE  Preserved
<1>1. /\ queue # <<>> /\ queue[1].kind = "status" /\ queue[1].stages = <<"status">>
      /\ Running = queue[1].r /\ queue[1].r \in Requests
      /\ Busy("status", <<"status">>)
      /\ Mid => Polls(queue[1].r)
  BY Stages, Middle DEF StatusTurn, Busy
<1>2. PICK r \in Requests : r = queue[1].r
  BY <1>1
<1>3. PollStatus(r) /\ (Mid => Polls(r)) /\ Files /\ Ordered(r)
  BY <1>1, <1>2 DEF StatusTurn, IInv, Files
<1>4. Published(r) /\ (Alive(r) => Active(r))
  <2>1. Sound(queue[1])
    BY <1>1, Queues
  <2>2. Settled(r)
    BY <1>1, <1>2, <2>1 DEF Sound
  <2>. QED
    BY <1>3, <2>2 DEF Settled, Ordered
<1>5. Status(r) \in Statuses
  BY DEF IInv, Typed, Status
<1>6. ASSUME NEW label \in {"failed", "candidate", "sealed"},
             Goto(label), Clean, Polls(r)'
      PROVE  Preserved
  <2>1. UNCHANGED <<queue, client>> /\ at' = label /\ Mid'
    BY <1>6 DEF Goto, Mid
  <2>2. Standing'
    BY <1>2, <1>6, <2>1 DEF Standing, Labels
  <2>. QED
    BY <1>6, <2>1, <2>2, Rests DEF Progress, Clean
<1>7. ASSUME NEW answer \in Answers, answer # "candidate-ready", Clean,
             Proceed(answer, <<>>)
      PROVE  Preserved
  <2>1. Hears(queue[1], answer)
    BY <1>1, <1>7 DEF Hears
  <2>. QED
    BY <1>1, <1>7, <2>1, Ends DEF Progress, Clean
<1>8. ASSUME Clean, Proceed("candidate-ready", <<"recover">>), Reviewed(r)'
      PROVE  Preserved
  <2>1. Tail(<<"status">>) \o <<"recover">> = <<"recover">>
    OBVIOUS
  <2>. QED
    BY <1>1, <1>2, <1>8, <2>1, GoesOn DEF Progress, Clean, Answers
<1>9. CASE Refuse /\ UNCHANGED disk
  BY <1>1, <1>9, Unchanged, Refuses
<1>10. CASE /\ at = "start" /\ Status(r) # "processing" /\ UNCHANGED disk
            /\ Proceed(Status(r), IF Status(r) = "candidate-ready"
                                  THEN <<"recover">> ELSE <<>>)
  <2>1. Clean /\ UNCHANGED request
    BY <1>10, Unchanged DEF disk
  <2>2. PICK status \in Statuses : status = Status(r)
    BY <1>5
  <2>3. CASE status = "candidate-ready"
    <3>1. Reviewed(r)'
      BY <2>1, <2>2, <2>3 DEF Reviewed, Status
    <3>. QED
      BY <1>8, <1>10, <2>1, <2>2, <2>3, <3>1
  <2>4. CASE status # "candidate-ready"
    <3>1. status \in Answers
      BY <1>4, <2>2, <2>4, <1>10 DEF Statuses, Answers, Published
    <3>. QED
      BY <1>7, <1>10, <2>1, <2>2, <2>4, <3>1
  <2>. QED
    BY <2>3, <2>4
<1>11. CASE Proceed("processing", <<>>) /\ UNCHANGED disk
  BY <1>7, <1>11, Unchanged DEF Answers
<1>12. CASE at # "start" \/ Status(r) = "processing"
  <2>1. Active(r) /\ (at = "start" => Status(r) = "processing")
    BY <1>3, <1>4, <1>12 DEF Polls, Mid, Alive
  <2>2. CASE Fail(r)
    <3>1. CASE at = "start" /\ EndRequest(r, "error") /\ Goto("failed")
      <4>1. Clean /\ Status(r)' = "error" /\ UNCHANGED runtime
        BY <1>3, <2>1, <3>1, StatusMoves DEF EndRequest, Terminal
      <4>2. Polls(r)'
        BY <1>1, <2>1, <3>1, <4>1 DEF Polls, Busy, Goto, Active
      <4>. QED
        BY <1>6, <3>1, <4>1, <4>2
    <3>2. CASE at = "failed" /\ Release("error")
      <4>1. Status(r) = "error"
        BY <1>3, <3>2 DEF Polls, Mid
      <4>2. \A q \in Requests : Active(q) => q = r
        BY <2>1 DEF Active
      <4>3. ~Alive(r) /\ candidate[r] # "promoted"
        <5>1. adoption[r] = "none"
          BY <1>3, <4>1 DEF Ordered, Reviewed
        <5>. QED
          BY <1>3, <4>1, <5>1 DEF Ordered, Alive
      <4>4. Clean
        BY <1>3, <3>2, <4>2, <4>3, Releases DEF Release
      <4>. QED
        BY <1>7, <3>2, <4>4 DEF Release, Answers, Terminal
    <3>. QED
      BY <1>9, <2>2, <3>1, <3>2 DEF Fail
  <2>3. CASE MayComplete(r) /\ CreateCandidate(r)
    <3>1. CASE /\ at = "start" /\ candidate[r] = "none"
               /\ candidate' = [candidate EXCEPT ![r] = "pending-review"]
               /\ Goto("candidate")
               /\ UNCHANGED <<receipt, facts, freeze, request, completion, authority,
                              adoption, runtime>>
      <4>1. Clean
        BY <1>3, <2>1, <2>3, <3>1, Candidates DEF MayComplete
      <4>2. candidate'[r] = "pending-review"
        BY <3>1 DEF IInv, Typed
      <4>3. Polls(r)'
        BY <1>1, <2>1, <3>1, <4>2 DEF Polls, Busy, Goto, Active, Status
      <4>. QED
        BY <1>6, <3>1, <4>1, <4>3
    <3>2. CASE /\ at = "candidate" \/ (at = "start" /\ candidate[r] # "none" /\ Sealed(r))
               /\ runtime' = [request |-> r, sealed |-> TRUE]
               /\ Goto("sealed")
               /\ UNCHANGED <<receipt, facts, freeze, request, candidate, completion,
                              authority, adoption>>
      <4>1. Status(r) = "processing" /\ candidate[r] = "pending-review"
        BY <1>3, <2>1, <3>2 DEF Polls, Mid, Ordered
      <4>2. runtime.request \in {None, r}
        BY <2>1 DEF Active
      <4>3. Clean /\ Active(r)' /\ runtime'.sealed
        BY <1>3, <3>2, <4>1, <4>2, Anchors
      <4>4. Polls(r)'
        BY <1>1, <3>2, <4>1, <4>3 DEF Polls, Busy, Goto, Status
      <4>. QED
        BY <1>6, <3>2, <4>3, <4>4
    <3>. QED
      BY <2>3, <3>1, <3>2 DEF CreateCandidate
  <2>4. CASE /\ at = "sealed" /\ WriteRequest(r, "candidate-ready")
             /\ Proceed("candidate-ready", <<"recover">>)
             /\ UNCHANGED <<receipt, freeze, candidate, completion, authority,
                            adoption, runtime>>
    <3>1. Status(r) = "processing" /\ candidate[r] = "pending-review"
      BY <1>3, <2>4 DEF Polls, Mid
    <3>2. Clean /\ Status(r)' = "candidate-ready"
      BY <1>3, <2>4, <3>1, StatusMoves DEF Terminal
    <3>. QED
      BY <1>8, <2>4, <3>2 DEF Reviewed
  <2>. QED
    BY <1>3, <1>9, <1>10, <1>11, <1>12, <2>2, <2>3, <2>4 DEF PollStatus, Complete
<1>. QED
  BY <1>3, <1>9, <1>10, <1>11, <1>12 DEF PollStatus

LEMMA StopTurns ==
    ASSUME IInv, StopTurn
    PROVE  Preserved
<1>1. /\ queue # <<>> /\ queue[1].kind = "cancel" /\ queue[1].stages = <<"stop", "cancel">>
      /\ Running = queue[1].r /\ queue[1].r \in Requests
  BY Stages DEF StopTurn
<1>2. PICK r \in Requests : r = queue[1].r /\ Stop(r)
  BY <1>1 DEF StopTurn
<1>3. /\ UNCHANGED <<receipt, freeze, request, candidate, completion, authority,
                     adoption, runtime>>
      /\ Proceed("ok", <<>>) \/ Respond("unknown")
      /\ facts' \in [Requests -> SUBSET ({"stop-requested", "candidate-ready"} \cup Terminal)]
  BY <1>2 DEF Stop, IInv, Typed
<1>4. Typed'
  BY <1>3 DEF IInv, Typed
<1>5. Clean
  BY <1>3, <1>4, Aside DEF IInv, Files
<1>6. /\ Tail(queue[1].stages) \o <<>> = <<"cancel">>
      /\ "ok" \in Answers
  <2>1. Tail(<<"stop", "cancel">>) \o <<>> = <<"cancel">>
    OBVIOUS
  <2>. QED
    BY <1>1, <2>1 DEF Answers
<1>7. Progress
  BY <1>5 DEF Progress, Clean
<1>8. CASE Proceed("ok", <<>>)
  BY <1>1, <1>2, <1>6, <1>7, <1>8, GoesOn
<1>9. CASE Respond("unknown")
  BY <1>1, <1>7, <1>9, Refuses
<1>. QED
  BY <1>3, <1>8, <1>9

LEMMA CancelTurns ==
    ASSUME IInv, CancelTurn
    PROVE  Preserved
<1>1. /\ queue # <<>> /\ queue[1].kind = "cancel" /\ queue[1].stages = <<"cancel">>
      /\ Running = queue[1].r /\ queue[1].r \in Requests
      /\ Busy("cancel", <<"cancel">>)
      /\ Mid => Cancels(queue[1].r)
  BY Stages, Middle DEF CancelTurn, Busy
<1>2. PICK r \in Requests : r = queue[1].r
  BY <1>1
<1>3. PICK discard : Cancel(r, discard)
  BY <1>1, <1>2 DEF CancelTurn
<1>4. (Mid => Cancels(r)) /\ Files /\ Ordered(r)
  BY <1>1, <1>2 DEF IInv, Files
<1>5. ASSUME NEW label \in {"cancelled", "rejected", "released"},
             Goto(label), Clean, Cancels(r)'
      PROVE  Preserved
  <2>1. UNCHANGED <<queue, client>> /\ at' = label /\ Mid'
    BY <1>5 DEF Goto, Mid
  <2>2. Standing'
    BY <1>2, <1>5, <2>1 DEF Standing, Labels
  <2>. QED
    BY <1>5, <2>1, <2>2, Rests DEF Progress, Clean
<1>6. ASSUME NEW answer \in {"inactive", "cancelled", "result-ready"}, Clean,
             Proceed(answer, <<>>)
      PROVE  Preserved
  <2>1. Hears(queue[1], answer) /\ answer \in Answers
    BY <1>1 DEF Hears, Answers, Terminal
  <2>. QED
    BY <1>1, <1>6, <2>1, Ends DEF Progress, Clean
<1>7. CASE Refuse /\ UNCHANGED disk
  BY <1>1, <1>7, Unchanged, Refuses
<1>8. CASE \E answer \in {"inactive", "result-ready"} :
               Proceed(answer, <<>>) /\ UNCHANGED disk
  BY <1>6, <1>8, Unchanged
<1>9. CASE CancelRunning(r)
  <2>1. CASE /\ at = "start" /\ Status(r) \in {"processing", "cancelled"} /\ Active(r)
             /\ authority' = authority \cup {r}
             /\ Stay
             /\ UNCHANGED <<receipt, facts, freeze, request, candidate,
                            completion, adoption, runtime>>
    <3>1. Typed'
      BY <2>1 DEF IInv, Typed
    <3>2. Clean
      BY <1>4, <2>1, <3>1, Aside
    <3>. QED
      BY <2>1, <3>2, Stays DEF Mid
  <2>2. CASE /\ at = "start" /\ Status(r) \in {"processing", "cancelled"} /\ Active(r)
             /\ EndRequest(r, "cancelled") /\ Goto("cancelled")
    <3>1. Clean /\ Status(r)' = "cancelled" /\ UNCHANGED runtime
      BY <1>4, <2>2, StatusMoves DEF EndRequest, Terminal
    <3>2. Cancels(r)'
      BY <1>1, <2>2, <3>1 DEF Cancels, Busy, Goto, Active
    <3>. QED
      BY <1>5, <2>2, <3>1, <3>2
  <2>3. CASE at = "cancelled" /\ Release("cancelled")
    <3>1. Status(r) = "cancelled" /\ Active(r)
      BY <1>4, <2>3 DEF Cancels, Mid
    <3>2. \A q \in Requests : Active(q) => q = r
      BY <3>1 DEF Active
    <3>3. ~Alive(r) /\ candidate[r] # "promoted"
      <4>1. adoption[r] = "none"
        BY <1>4, <3>1 DEF Ordered, Reviewed
      <4>. QED
        BY <1>4, <3>1, <4>1 DEF Ordered, Alive
    <3>4. Clean
      BY <1>4, <2>3, <3>2, <3>3, Releases DEF Release
    <3>. QED
      BY <1>6, <2>3, <3>4 DEF Release
  <2>. QED
    BY <1>7, <1>8, <1>9, <2>1, <2>2, <2>3 DEF CancelRunning
<1>10. CASE Discard(r, discard)
  <2>1. CASE /\ at = "start" /\ Status(r) = "candidate-ready"
             /\ Readable(r) /\ candidate[r] # "promoted"
             /\ EndRequest(r, "rejected") /\ Goto("rejected")
    <3>1. candidate[r] = "pending-review" /\ Active(r)
      BY <1>4, <2>1 DEF Ordered, Readable, Sealed
    <3>2. Clean /\ Status(r)' = "rejected" /\ UNCHANGED <<runtime, candidate>>
      BY <1>4, <2>1, StatusMoves DEF EndRequest, Terminal
    <3>3. Cancels(r)'
      BY <1>1, <2>1, <3>1, <3>2 DEF Cancels, Busy, Goto, Active
    <3>. QED
      BY <1>5, <2>1, <3>2, <3>3
  <2>2. CASE /\ at = "rejected"
             /\ runtime' = Released
             /\ Goto("released")
             /\ UNCHANGED <<receipt, facts, freeze, request, candidate, completion,
                            authority, adoption>>
    <3>1. Status(r) = "rejected" /\ Active(r) /\ candidate[r] = "pending-review"
      BY <1>4, <2>2 DEF Cancels, Mid
    <3>2. \A q \in Requests : Active(q) => q = r
      BY <3>1 DEF Active
    <3>3. Clean
      BY <1>4, <2>2, <3>1, <3>2, Releases DEF Alive
    <3>4. Cancels(r)'
      BY <1>1, <2>2, <3>1 DEF Cancels, Busy, Goto, Status
    <3>. QED
      BY <1>5, <2>2, <3>3, <3>4
  <2>3. CASE /\ at = "released"
             /\ candidate' = [candidate EXCEPT ![r] = "rejected"]
             /\ Proceed("cancelled", <<>>)
             /\ UNCHANGED <<receipt, facts, freeze, request, completion, authority,
                            adoption, runtime>>
    <3>1. Status(r) = "rejected" /\ candidate[r] # "none"
      BY <1>4, <2>3 DEF Cancels, Mid
    <3>2. Clean
      BY <1>4, <2>3, <3>1, Candidates
    <3>. QED
      BY <1>6, <2>3, <3>2
  <2>. QED
    BY <1>7, <1>8, <1>10, <2>1, <2>2, <2>3 DEF Discard
<1>. QED
  BY <1>3, <1>8, <1>9, <1>10 DEF Cancel

LEMMA PromoteTurns ==
    ASSUME IInv, PromoteTurn
    PROVE  Preserved
<1>1. /\ queue # <<>> /\ queue[1].kind = "promote"
      /\ queue[1].stages = <<"promote", "recover">>
      /\ Running = queue[1].r /\ queue[1].r \in Requests /\ ~Mid
  BY Stages, Middle DEF PromoteTurn
<1>2. PICK r \in Requests : r = queue[1].r /\ Promote(r)
  BY <1>1 DEF PromoteTurn
<1>3. Files /\ Ordered(r) /\ Reviewed(r)
  <2>1. Sound(queue[1])
    BY <1>1, Queues
  <2>. QED
    BY <1>1, <1>2, <2>1 DEF Sound, IInv, Files
<1>4. CASE Refuse /\ UNCHANGED disk
  BY <1>1, <1>4, Unchanged, Refuses
<1>5. CASE /\ adoption[r] = "none" /\ Readable(r)
           /\ adoption' = [adoption EXCEPT ![r] = "prepared"]
           /\ Stay
           /\ UNCHANGED <<receipt, facts, freeze, request, candidate,
                          completion, authority, runtime>>
  <2>1. candidate[r] # "none" /\ candidate[r] # "promoted"
    <3>1. candidate[r] = "promoted" => adoption[r] = "completed"
      BY <1>3 DEF Ordered
    <3>2. candidate[r] # "promoted"
      BY <1>5, <3>1
    <3>. QED
      BY <1>5, <3>2 DEF Readable
  <2>2. Clean
    BY <1>3, <1>5, <2>1, Adoptions
  <2>. QED
    BY <1>1, <1>5, <2>2, Steps
<1>6. CASE CommitAdoption(r)
  BY <1>1, <1>6, Commits, Steps
<1>7. CASE FollowAdoption(r)
  BY <1>1, <1>7, Follows, Steps
<1>8. CASE /\ IF adoption[r] = "completed" /\ candidate[r] = "promoted"
              THEN /\ Proceed("ok", <<>>)
                   /\ facts' \in {facts, [facts EXCEPT ![r] = @ \cup {"promoted"}]}
              ELSE Refuse /\ UNCHANGED facts
           /\ UNCHANGED <<receipt, freeze, request, candidate, completion,
                          authority, adoption, runtime>>
  <2>1. facts' \in [Requests -> SUBSET ({"stop-requested", "candidate-ready"} \cup Terminal)]
    BY <1>8 DEF IInv, Typed, Terminal
  <2>2. Typed'
    BY <1>8, <2>1 DEF IInv, Typed
  <2>3. Clean
    BY <1>3, <1>8, <2>2, Aside
  <2>4. Tail(<<"promote", "recover">>) \o <<>> = <<"recover">>
    OBVIOUS
  <2>5. Progress
    BY <2>3 DEF Progress, Clean
  <2>6. CASE Proceed("ok", <<>>)
    BY SMTT(30), <1>1, <1>2, <2>4, <2>5, <2>6, GoesOn DEF Answers
  <2>7. CASE Refuse
    BY <1>1, <2>5, <2>7, Refuses
  <2>. QED
    BY <1>8, <2>6, <2>7
<1>. QED
  BY <1>2, <1>4, <1>5, <1>6, <1>7, <1>8 DEF Promote

-----------------------------------------------------------------------------
(* What may happen between two writes.                                      *)
LEMMA Faults ==
    ASSUME IInv, Fault
    PROVE  Preserved
<1>1. queue # <<>> /\ UNCHANGED disk
  BY DEF Fault
<1>2. Clean /\ Progress
  BY <1>1, Unchanged
<1>3. CASE Respond("unknown")
  BY <1>1, <1>2, <1>3, Refuses
<1>4. CASE at \in {"staging", "staged", "marked"} /\ Goto("cleanup")
  <2>1. UNCHANGED <<queue, client>> /\ at' = "cleanup" /\ Mid' /\ Mid
    BY <1>4 DEF Goto, Mid
  <2>2. UNCHANGED <<freeze, request, runtime, candidate>>
    BY <1>1 DEF disk
  <2>3. PICK r : r = queue[1].r
    OBVIOUS
  <2>4. Freezes(r)
    BY <1>4, <2>1, <2>3 DEF IInv, Standing, Polls, Cancels
  <2>5. Freezes(r)'
    BY <1>4, <2>1, <2>2, <2>4 DEF Freezes, Busy, Status
  <2>6. Standing'
    BY <2>1, <2>3, <2>5 DEF Standing, Labels
  <2>. QED
    BY <1>2, <2>1, <2>6, Rests
<1>. QED
  BY <1>3, <1>4 DEF Fault

LEMMA Crashes ==
    ASSUME IInv, Crash
    PROVE  Preserved
<1>1. /\ UNCHANGED disk /\ queue' = <<Started>> /\ at' = "start"
      /\ client' = Opening
  BY DEF Crash
<1>2. Clean
  BY <1>1, Unchanged
<1>3. /\ Started \in Calls /\ Started.kind = "start" /\ Started.r = None
      /\ Started.stages = <<"recover", "restart">> /\ ~Started.awaited
      /\ Started.answer = "ok"
  BY DEF Started, Call, Calls, Kinds, Plans, Answers
<1>4. /\ queue' \in Seq(Calls) /\ Len(queue') = 1 /\ queue'[1] = Started
      /\ \A i \in 1..Len(queue') : i = 1
  BY <1>1, <1>3
<1>5. Sound(queue[1])'
  <2>1. PICK c \in Calls : c = queue'[1]
    BY <1>3, <1>4
  <2>2. /\ c.kind = "start" /\ c.r = None /\ c.stages = <<"recover", "restart">>
        /\ ~c.awaited /\ c.answer = "ok"
    BY <1>3, <1>4, <2>1
  <2>3. c.stages # <<"created">> /\ c.stages # <<"status">>
    BY <2>2
  <2>4. Sound(c)'
    BY <2>2, <2>3 DEF Sound, Shape
  <2>. QED
    BY <2>1, <2>4
<1>6. \A i \in 1..Len(queue') : Sound(queue[i])' /\ Fresh(i)'
  BY <1>3, <1>4, <1>5 DEF Fresh
<1>7. \A r \in Requests : receipt'[r] = "none" => NotYet(r)' /\ NoCreate(r)'
  <2>1. \A r \in Requests : NoCreate(r)'
    BY <1>3, <1>4 DEF NoCreate, Creates
  <2>2. \A r \in Requests : receipt'[r] = "none" => NotYet(r)'
    BY <1>2 DEF IInv, Queued, Clean, Good, Keeps, Untouched
  <2>. QED
    BY <2>1, <2>2
<1>8. Queued'
  BY <1>4, <1>6, <1>7 DEF Queued, OneCreate
<1>9. Informed(client)'
  BY <1>1 DEF Informed, Opening, Free, Clients, Phases, Unsent
<1>10. Awaiting'
  BY <1>3, <1>4 DEF Awaiting
<1>11. Standing'
  BY <1>1 DEF Standing, Mid, Labels
<1>. QED
  BY <1>2, <1>8, <1>9, <1>10, <1>11 DEF Preserved, IInv, Clean, Good, Files

LEMMA Agents ==
    ASSUME IInv, NEW r \in Requests, AgentFinishes(r)
    PROVE  Preserved
<1>1. /\ UNCHANGED <<receipt, facts, freeze, request, candidate, authority,
                     adoption, runtime>>
      /\ UNCHANGED <<queue, at, client>>
      /\ completion' \in {[completion EXCEPT ![r] = c] : c \in {"good", "bad"}}
  BY DEF AgentFinishes
<1>2. Typed'
  BY <1>1 DEF IInv, Typed
<1>3. Clean
  BY <1>1, <1>2, Aside DEF IInv, Files
<1>4. Standing'
  BY <1>1, StandingStays DEF IInv
<1>. QED
  BY <1>1, <1>3, <1>4, Rests DEF Progress, Clean, Mid

LEMMA Reloads ==
    ASSUME IInv, Reload
    PROVE  Preserved
<1>1. UNCHANGED <<disk, at>> /\ client' = Opening /\ queue' = Unheard(queue)
  BY DEF Reload
<1>2. Clean /\ Progress
  BY <1>1, Unchanged
<1>3. /\ queue' \in Seq(Calls) /\ Len(queue') = Len(queue) /\ Len(queue) \in Nat
      /\ \A i \in 1..Len(queue) :
             /\ queue'[i].kind = queue[i].kind /\ queue'[i].r = queue[i].r
             /\ queue'[i].stages = queue[i].stages
             /\ queue'[i].answer = queue[i].answer
             /\ ~queue'[i].awaited
  BY <1>1, Queues, Unheards
<1>. DEFINE f == [i \in 1..Len(queue) |-> i]
<1>4. Descends(f)
  BY <1>1, <1>2, <1>3 DEF Descends, Kept, Clean, Mid
<1>5. Queued'
  BY <1>2, <1>4, QueueKept
<1>6. Informed(client)'
  BY <1>1 DEF Informed, Opening, Free, Clients, Phases, Unsent
<1>7. Awaiting'
  BY <1>3, <1>4, AwaitingKept
<1>8. Standing'
  <2>1. queue # <<>> => queue' # <<>> /\ 1 \in 1..Len(queue)
    BY <1>3, Queues
  <2>. QED
    BY <1>1, <1>3, <2>1, StandingStays DEF IInv, disk
<1>. QED
  BY <1>2, <1>5, <1>6, <1>7, <1>8 DEF Preserved, IInv, Clean, Good, Files

LEMMA GivesUp ==
    ASSUME IInv, GiveUp
    PROVE  Preserved
<1>1. PICK n \in DOMAIN queue :
          /\ queue[n].awaited
          /\ client' = Heard(queue[n], "unknown")
          /\ queue' = [queue EXCEPT ![n].awaited = FALSE]
  BY DEF GiveUp
<1>2. UNCHANGED <<disk, at>>
  BY DEF GiveUp
<1>3. Clean /\ Progress
  BY <1>2, Unchanged
<1>4. n \in 1..Len(queue) /\ DOMAIN queue = 1..Len(queue) /\ Len(queue) \in Nat
  BY Queues
<1>5. /\ queue' \in Seq(Calls) /\ Len(queue') = Len(queue)
      /\ \A i \in 1..Len(queue) :
             /\ queue'[i].kind = queue[i].kind /\ queue'[i].r = queue[i].r
             /\ queue'[i].stages = queue[i].stages
             /\ queue'[i].answer = queue[i].answer
             /\ queue'[i].awaited => queue[i].awaited /\ i # n
  <2>. DEFINE c == [queue[n] EXCEPT !.awaited = FALSE]
  <2>1. queue[n] \in Calls
    BY <1>4, Queues
  <2>2. /\ c \in Calls /\ c.kind = queue[n].kind /\ c.r = queue[n].r
        /\ c.stages = queue[n].stages /\ c.answer = queue[n].answer /\ ~c.awaited
    BY <2>1 DEF Calls
  <2>3. queue' = [queue EXCEPT ![n] = c]
    BY <1>1
  <2>. HIDE DEF c
  <2>4. /\ queue' \in Seq(Calls) /\ Len(queue') = Len(queue)
        /\ queue'[n] = c
        /\ \A i \in 1..Len(queue) : i # n => queue'[i] = queue[i]
    BY <1>4, <2>2, <2>3, Queues
  <2>. QED
    BY <2>2, <2>4
<1>. DEFINE f == [i \in 1..Len(queue) |-> i]
<1>6. Descends(f)
  BY <1>2, <1>3, <1>4, <1>5 DEF Descends, Kept, Clean, Mid
<1>7. Queued' /\ CreatesStay
  BY <1>3, <1>6, QueueKept
<1>8. Informed(client)'
  <2>1. Hears(queue[n], "unknown") /\ "unknown" \in Answers
    BY HearsNothing DEF Answers
  <2>. QED
    BY <1>1, <1>3, <1>4, <1>7, <2>1, Listening
<1>9. Awaiting'
  <2>1. CASE client.phase # "running"
    <3>1. \A i \in 1..Len(queue') : ~queue'[i].awaited
      BY <1>1, <1>4, <1>5, <2>1 DEF IInv, Awaiting
    <3>. QED
      BY <1>6, <3>1, AwaitingKept
  <2>2. CASE client.phase = "running"
    <3>1. queue[n].kind \in {"status", "cancel", "promote"}
      <4>1. Expected(queue[n], client.phase) /\ queue[n].kind \in Kinds
        BY <1>1, <1>4, Queues DEF IInv, Awaiting, Calls
      <4>. QED
        BY <2>2, <4>1 DEF Expected, Kinds
    <3>2. client' = HeardByRun(queue[n], "unknown")
      BY <1>1, <3>1 DEF Heard
    <3>3. "unknown" \notin Terminal \cup {"inactive"} /\ "unknown" # "ok"
      BY DEF Terminal
    <3>4. client \in Clients
      BY DEF IInv, Informed
    <3>5. client'.phase = client.phase /\ client'.run = client.run
      BY <3>2, <3>3, <3>4 DEF HeardByRun, Clients
    <3>. QED
      BY <1>6, <3>5, AwaitingKept
  <2>. QED
    BY <2>1, <2>2
<1>10. Standing'
  <2>1. queue # <<>> => queue' # <<>> /\ 1 \in 1..Len(queue)
    BY <1>4, <1>5, Queues
  <2>. QED
    BY <1>2, <1>5, <2>1, StandingStays DEF IInv, disk
<1>. QED
  BY <1>3, <1>7, <1>8, <1>9, <1>10 DEF Preserved, IInv, Clean, Good, Files

-----------------------------------------------------------------------------
(* What the window sends.                                                   *)

(* A call of submit, or a read of the project.                              *)
LEMMA SendsInTurn ==
    ASSUME IInv, NEW from \in {"opening", "repeat", "recorded", "uncertain",
                               "doubtful", "ending", "unsettled"},
           NEW to \in Phases, NEW call \in Calls, Step(from, call, to),
           \/ /\ call.kind = "read" /\ call.r = None /\ call.stages = <<"recover">>
              /\ to \in {"loading", "checking", "rechecking"}
              /\ to # "loading" => from # "opening"
           \/ /\ call.kind = "record" /\ call.r = client.run
              /\ call.stages = <<"record">>
              /\ to = "rerecording" /\ from = "repeat"
           \/ /\ call.kind = "create" /\ call.r = client.run
              /\ call.stages = <<"receipt", "prepare", "created">>
              /\ to = "creating" /\ from = "recorded"
           \/ /\ call.kind = "unstarted" /\ call.r = client.run
              /\ call.stages = <<"unstarted">>
              /\ to \in {"settling", "resettling"} /\ from # "opening",
           call.answer = "ok"
    PROVE  Preserved
<1>1. /\ client.phase = from /\ queue' = Append(queue, call)
      /\ client' = [client EXCEPT !.phase = to] /\ UNCHANGED <<disk, at>>
  BY DEF Step, Send
<1>2. client \in Clients /\ Informed(client) /\ ~client.ready
  BY <1>1 DEF IInv, Informed
<1>3. PICK w : w = [client EXCEPT !.phase = to]
  OBVIOUS
<1>4. w \in Clients /\ w.phase = to /\ w.run = client.run /\ ~w.ready
  BY <1>2, <1>3 DEF Clients
<1>5. from # "opening" => client.run \in Requests
  BY <1>1, <1>2 DEF Informed
<1>6. from \in {"repeat", "recorded"} => NotYet(client.run) /\ NoCreate(client.run)
  BY <1>1, <1>2 DEF Informed, Unsent
<1>7. from = "recorded" => receipt[client.run] # "none"
  BY <1>1, <1>2 DEF Informed
<1>8. \A i \in 1..Len(queue) : ~queue[i].awaited
  BY <1>1, Quiet
<1>9. Informed(w)
  BY <1>4, <1>5, <1>6 DEF Informed, Unsent
<1>10. Sound(call)
  <2>1. Shape(call)
    BY DEF Shape
  <2>2. call.stages # <<"created">> /\ call.stages # <<"status">>
    OBVIOUS
  <2>3. call.kind # "read" => call.r # None
    BY <1>5, RequestAssumption
  <2>. QED
    BY <2>1, <2>2, <2>3 DEF Sound
<1>11. call.kind = "create" =>
           NotYet(call.r) /\ NoCreate(call.r) /\ receipt[call.r] # "none"
  BY <1>6, <1>7
<1>12. /\ w.phase \in Unsent => call.kind # "create"
       /\ Expected(call, w.phase)
       /\ call.kind # "read" => call.r = w.run
  BY <1>4 DEF Unsent, Expected
<1>. QED
  BY <1>1, <1>3, <1>8, <1>9, <1>10, <1>11, <1>12, Sends

LEMMA Writing ==
    /\ Read \in Calls /\ Read.kind = "read" /\ Read.r = None
    /\ Read.stages = <<"recover">> /\ Read.answer = "ok"
    /\ \A r \in Requests :
           /\ RecordOf(r) \in Calls /\ RecordOf(r).kind = "record"
           /\ RecordOf(r).r = r /\ RecordOf(r).stages = <<"record">>
           /\ RecordOf(r).answer = "ok"
           /\ UnstartedOf(r) \in Calls /\ UnstartedOf(r).kind = "unstarted"
           /\ UnstartedOf(r).r = r /\ UnstartedOf(r).stages = <<"unstarted">>
           /\ UnstartedOf(r).answer = "ok"
<1>1. /\ Read \in Calls /\ Read.kind = "read" /\ Read.r = None
      /\ Read.stages = <<"recover">> /\ Read.answer = "ok"
  BY DEF Read, Call, Calls, Kinds, Plans, Answers
<1>2. ASSUME NEW r \in Requests
      PROVE  /\ RecordOf(r) \in Calls /\ RecordOf(r).kind = "record"
             /\ RecordOf(r).r = r /\ RecordOf(r).stages = <<"record">>
             /\ RecordOf(r).answer = "ok"
  BY DEF RecordOf, Call, Calls, Kinds, Plans, Answers
<1>3. ASSUME NEW r \in Requests
      PROVE  /\ UnstartedOf(r) \in Calls /\ UnstartedOf(r).kind = "unstarted"
             /\ UnstartedOf(r).r = r /\ UnstartedOf(r).stages = <<"unstarted">>
             /\ UnstartedOf(r).answer = "ok"
  BY DEF UnstartedOf, Call, Calls, Kinds, Plans, Answers
<1>. QED
  BY <1>1, <1>2, <1>3

LEMMA Asks ==
    ASSUME IInv, Open \/ Repeat \/ Create \/ DoNotCreate \/ Check \/ CheckAgain
                 \/ Settle \/ SettleAgain
    PROVE  Preserved
<1>1. {"loading", "rerecording", "creating", "settling", "checking",
       "rechecking", "resettling"} \subseteq Phases
  BY DEF Phases
<1>2. client.phase \notin {"free", "opening", "loading"} => client.run \in Requests
  BY DEF IInv, Informed
<1>3. CASE Open \/ Check \/ CheckAgain
  BY <1>1, <1>3, Writing, SendsInTurn DEF Open, Check, CheckAgain
<1>4. CASE Repeat
  <2>1. client.run \in Requests
    BY <1>2, <1>4 DEF Repeat, Step
  <2>. QED
    BY <1>1, <1>4, <2>1, Writing, SendsInTurn DEF Repeat
<1>5. CASE DoNotCreate \/ Settle \/ SettleAgain
  <2>1. client.run \in Requests
    BY <1>2, <1>5 DEF DoNotCreate, Settle, SettleAgain, Step
  <2>. QED
    BY <1>1, <1>5, <2>1, Writing, SendsInTurn DEF DoNotCreate, Settle, SettleAgain
<1>6. CASE Create
  <2>1. client.run \in Requests
    BY <1>2, <1>6 DEF Create, Step
  <2>2. PICK call : call = Call("create", client.run, <<"receipt", "prepare", "created">>)
    OBVIOUS
  <2>3. /\ call \in Calls /\ call.kind = "create" /\ call.r = client.run
        /\ call.stages = <<"receipt", "prepare", "created">> /\ call.answer = "ok"
    BY <2>1, <2>2 DEF Call, Calls, Kinds, Plans, Answers
  <2>. QED
    BY <1>1, <1>6, <2>2, <2>3, SendsInTurn DEF Create
<1>. QED
  BY <1>3, <1>4, <1>5, <1>6

LEMMA Submits ==
    ASSUME IInv, NEW r \in Requests, Submit(r)
    PROVE  Preserved
<1>1. /\ client.phase = "free" /\ receipt[r] = "none"
      /\ queue' = Append(queue, RecordOf(r))
      /\ client' = [Free EXCEPT !.phase = "recording", !.run = r]
      /\ UNCHANGED <<disk, at>>
  BY DEF Submit, Send
<1>2. PICK w : w = [Free EXCEPT !.phase = "recording", !.run = r]
  OBVIOUS
<1>3. w \in Clients /\ w.phase = "recording" /\ w.run = r /\ ~w.ready
  BY <1>2 DEF Free, Clients, Phases
<1>4. NotYet(r) /\ NoCreate(r)
  BY <1>1 DEF IInv, Queued
<1>5. Informed(w)
  BY <1>3, <1>4 DEF Informed, Unsent
<1>6. PICK call \in Calls : call = RecordOf(r)
  BY Writing
<1>7. call.kind = "record" /\ call.r = r /\ call.stages = <<"record">>
      /\ call.answer = "ok"
  BY <1>6, Writing
<1>8. Sound(call)
  <2>1. Shape(call)
    BY <1>7 DEF Shape
  <2>2. call.stages # <<"created">> /\ call.stages # <<"status">>
    BY <1>7
  <2>. QED
    BY <1>7, <2>1, <2>2, RequestAssumption DEF Sound
<1>9. Expected(call, w.phase) /\ call.kind # "create" /\ call.r = w.run
  BY <1>3, <1>7 DEF Expected
<1>10. \A i \in 1..Len(queue) : ~queue[i].awaited
  BY <1>1, Quiet
<1>. QED
  BY <1>1, <1>2, <1>5, <1>6, <1>8, <1>9, <1>10, Sends

(* A call about the Request that runs.                                      *)
LEMMA AsksRun ==
    ASSUME IInv, NEW call \in Calls, Ask(call), call.r = client.run,
           call.answer = "ok",
           \/ call.kind = "status" /\ call.stages = <<"recover", "status">>
           \/ /\ call.kind = "cancel"
              /\ call.stages \in {<<"recover", "cancel">>,
                                  <<"recover", "stop", "cancel">>}
           \/ /\ call.kind = "promote" /\ call.stages = <<"promote", "recover">>
              /\ client.ready
    PROVE  Preserved
<1>1. /\ client.phase = "running" /\ queue' = Append(queue, call)
      /\ client' = [client EXCEPT !.waits = @ \cup {call.kind}]
      /\ UNCHANGED <<disk, at>>
  BY DEF Ask, Send
<1>2. /\ client \in Clients /\ client.run \in Requests /\ Published(client.run)
      /\ client.ready => Reviewed(client.run)
      /\ Informed(client)
  BY <1>1 DEF IInv, Informed
<1>3. PICK w : w = [client EXCEPT !.waits = @ \cup {call.kind}]
  OBVIOUS
<1>4. /\ w \in Clients /\ w.phase = "running" /\ w.run = client.run
      /\ w.ready = client.ready
  <2>1. client.waits \cup {call.kind} \in SUBSET Kinds
    BY <1>2 DEF Clients, Calls
  <2>. QED
    BY <1>1, <1>2, <1>3, <2>1 DEF Clients
<1>5. Informed(w)
  BY <1>2, <1>4 DEF Informed, Unsent
<1>6. Sound(call)
  <2>1. Shape(call)
    BY DEF Shape
  <2>2. call.stages # <<"created">> /\ call.stages # <<"status">>
    OBVIOUS
  <2>. QED
    BY <1>2, <2>1, <2>2, RequestAssumption DEF Sound
<1>7. Expected(call, w.phase) /\ call.kind # "create"
  BY <1>4 DEF Expected
<1>. QED
  BY <1>1, <1>3, <1>4, <1>5, <1>6, <1>7, Sends

LEMMA AsksAll ==
    ASSUME IInv, Poll \/ End \/ Adopt
    PROVE  Preserved
<1>1. client.phase = "running"
  BY DEF Poll, End, Adopt, Ask
<1>2. client.run \in Requests /\ client.ready \in BOOLEAN
  BY <1>1 DEF IInv, Informed, Clients
<1>3. CASE Poll
  <2>1. PICK call : call = Call("status", client.run, <<"recover", "status">>)
    OBVIOUS
  <2>2. /\ call \in Calls /\ call.kind = "status" /\ call.r = client.run
        /\ call.stages = <<"recover", "status">> /\ call.answer = "ok"
    BY <1>2, <2>1 DEF Call, Calls, Kinds, Plans, Answers
  <2>. QED
    BY <1>3, <2>1, <2>2, AsksRun DEF Poll
<1>4. CASE End
  <2>1. PICK stages \in {<<"recover", "cancel">>, <<"recover", "stop", "cancel">>} :
            Ask([Call("cancel", client.run, stages) EXCEPT !.discard = client.ready])
    BY <1>4 DEF End
  <2>2. PICK call : call = [Call("cancel", client.run, stages)
                            EXCEPT !.discard = client.ready]
    OBVIOUS
  <2>3. /\ call \in Calls /\ call.kind = "cancel" /\ call.r = client.run
        /\ call.stages = stages /\ call.answer = "ok"
    BY <1>2, <2>2 DEF Call, Calls, Kinds, Plans, Answers
  <2>. QED
    BY <2>1, <2>2, <2>3, AsksRun
<1>5. CASE Adopt
  <2>1. PICK call : call = Call("promote", client.run, <<"promote", "recover">>)
    OBVIOUS
  <2>2. /\ call \in Calls /\ call.kind = "promote" /\ call.r = client.run
        /\ call.stages = <<"promote", "recover">> /\ call.answer = "ok"
    BY <1>2, <2>1 DEF Call, Calls, Kinds, Plans, Answers
  <2>. QED
    BY <1>5, <2>1, <2>2, AsksRun DEF Adopt
<1>. QED
  BY <1>3, <1>4, <1>5

-----------------------------------------------------------------------------
(* Every step.                                                              *)
LEMMA EveryStep ==
    ASSUME IInv, [Next]_vars
    PROVE  Preserved
<1>1. CASE RecordTurn \/ ReceiptTurn \/ PrepareTurn \/ CreatedTurn \/ UnstartedTurn
           \/ CleanUpTurn
  BY <1>1, RecordTurns, ReceiptTurns, PrepareTurns, FinishTurns, CleanUpTurns
<1>2. CASE RecoverTurn \/ RestartTurn
  BY <1>2, RecoverTurns, RestartTurns
<1>3. CASE StatusTurn \/ StopTurn \/ CancelTurn \/ PromoteTurn
  BY <1>3, StatusTurns, StopTurns, CancelTurns, PromoteTurns
<1>4. CASE Fault \/ Crash \/ GiveUp \/ Reload
  BY <1>4, Faults, Crashes, GivesUp, Reloads
<1>5. CASE \E r \in Requests : AgentFinishes(r) \/ Submit(r)
  BY <1>5, Agents, Submits
<1>6. CASE Open \/ Repeat \/ Create \/ DoNotCreate \/ Check \/ CheckAgain
           \/ Settle \/ SettleAgain
  BY <1>6, Asks
<1>7. CASE Poll \/ End \/ Adopt
  BY <1>7, AsksAll
<1>8. CASE UNCHANGED vars
  <2>1. UNCHANGED disk /\ UNCHANGED <<queue, at, client>>
    BY <1>8 DEF vars
  <2>2. Clean
    BY <2>1, Unchanged
  <2>3. Standing'
    BY <2>1, StandingStays DEF IInv, disk
  <2>. QED
    BY <2>1, <2>2, <2>3, Rests DEF Progress, Clean, Mid
<1>. QED
  BY <1>1, <1>2, <1>3, <1>4, <1>5, <1>6, <1>7, <1>8 DEF Next

THEOREM Invariance == Spec => []IInv
<1>1. Init => IInv
  BY Begins
<1>2. IInv /\ [Next]_vars => IInv'
  BY EveryStep DEF Preserved
<1>. QED
  BY <1>1, <1>2, PTL DEF Spec

(* Every variable has its type, whatever fails, stops or is given up.       *)
THEOREM TypeCorrect == Spec => []TypeOK
<1>1. IInv => TypeOK
  <2>. SUFFICES ASSUME IInv PROVE TypeOK
    OBVIOUS
  <2>1. client.run \in Requests \cup {None}
    BY DEF IInv, Informed, Clients
  <2>2. \A i \in DOMAIN queue : queue[i].stages # <<>>
    <3>1. SUFFICES ASSUME NEW i \in DOMAIN queue PROVE queue[i].stages # <<>>
      OBVIOUS
    <3>2. queue[i] \in Calls
      BY Queues
    <3>3. queue[i].stages \in Plans
      BY <3>2 DEF Calls
    <3>. QED
      BY <3>3 DEF Plans
  <2>. QED
    BY <2>1, <2>2 DEF IInv, Typed, TypeOK, Statuses
<1>. QED
  BY <1>1, Invariance, PTL

(* No live Request is lost from sight: the runtime names it, or it carries  *)
(* the marker by which recovery finds it (#prepareRequest,                  *)
(* #recoverRequestFreezeForId).                                             *)
THEOREM LiveRequestsAreOwned == Spec => []LiveIsOwned
<1>1. IInv => LiveIsOwned
  BY DEF IInv, Ordered, Alive, LiveIsOwned, Live
<1>. QED
  BY <1>1, Invariance, PTL

(* A recovery that comes to its end leaves the files of every Request       *)
(* telling one story, wherever the turns before it were cut off             *)
(* (#recoverProject).                                                       *)
THEOREM RecoveryIsComplete == Spec => []RecoveredIsWhole
<1>1. ASSUME IInv, RecoveryEnds, NEW r \in Requests
      PROVE  WholeRequest(r)
  <2>1. Ordered(r) /\ Status(r) \in Statuses
    BY <1>1 DEF IInv, Typed, Status
  <2>2. /\ freeze[r].staging = "none" /\ ~freeze[r].marker
        /\ Active(r) => ~RestoreDue(r) /\ Restorable(r)
    BY <1>1, EndOfRecovery
  <2>3. freeze[r] = [staging |-> "none", marker |-> FALSE]
    <3>1. freeze[r] \in [staging : {"none", "partial", "whole"}, marker : BOOLEAN]
      BY <1>1 DEF IInv, Typed
    <3>. QED
      BY <2>2, <3>1
  <2>4. Alive(r) => Active(r) /\ ~RestoreDue(r) /\ Restorable(r)
    BY <2>1, <2>2 DEF Ordered
  <2>5. adoption[r] = "completed" => ~Sealed(r)
    BY <1>1 DEF RecoveryEnds, Adopting
  <2>6. Status(r) = "processing" => Active(r) /\ ~Sealed(r) /\ candidate[r] = "none"
    <3>1. SUFFICES ASSUME Status(r) = "processing"
                   PROVE  Active(r) /\ ~Sealed(r) /\ candidate[r] = "none"
      OBVIOUS
    <3>2. Active(r) /\ candidate[r] = "none" /\ runtime = [request |-> r, sealed |-> FALSE]
      BY <2>4, <3>1 DEF Alive, RestoreDue
    <3>3. ~runtime.sealed
      BY <3>2
    <3>. QED
      BY <3>2, <3>3 DEF Sealed
  <2>7. Status(r) = "candidate-ready" => Sealed(r) /\ candidate[r] = "pending-review"
    BY <2>4 DEF Alive, Restorable
  <2>8. Status(r) \in Terminal => ~Active(r)
    BY <2>2 DEF RestoreDue
  <2>9. Status(r) = "promoted" <=> candidate[r] = "promoted"
    BY <2>1, <2>5 DEF Ordered
  <2>10. adoption[r] = "completed" => Status(r) \in {"promoted", "rejected"}
    BY <2>1, <2>5, <2>7 DEF Ordered, Reviewed
  <2>11. ~HistoryDue(r)
    BY <1>1 DEF RecoveryEnds, Unsettled
  <2>12. Told(r) \subseteq facts[r]
    <3>1. CASE Published(r)
      BY <2>11, <3>1 DEF HistoryDue
    <3>2. CASE ~Published(r)
      BY <2>1, <3>2 DEF Published, Ordered, Told
    <3>. QED
      BY <3>1, <3>2
  <2>13. receipt[r] = "not-started" => ~Published(r)
    BY <2>11 DEF HistoryDue
  <2>. QED
    BY <2>3, <2>6, <2>7, <2>8, <2>9, <2>10, <2>12, <2>13 DEF WholeRequest
<1>2. IInv => RecoveredIsWhole
  BY <1>1 DEF RecoveredIsWhole, RecoveryEnds
<1>. QED
  BY <1>2, Invariance, PTL

(* What has ended stays as it is, and after the wish to stop no result      *)
(* becomes a Candidate any more (#completeRequest, #cancelRequest).         *)
THEOREM LateResultsAreRefused == Spec => LateResultsStayOut
<1>1. IInv /\ [Next]_vars =>
          [\A r \in Requests :
              /\ Status(r) \in {"cancelled", "error", "promoted"} => UNCHANGED request[r]
              /\ "stop-requested" \in facts[r] /\ candidate[r] = "none"
                    => candidate'[r] = "none"]_vars
  BY EveryStep DEF Preserved, Late
<1>. QED
  BY <1>1, Invariance, PTL DEF Spec, LateResultsStayOut
=============================================================================
