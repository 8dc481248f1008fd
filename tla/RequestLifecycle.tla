-------------------------- MODULE RequestLifecycle --------------------------
(***************************************************************************)
(* RequestLifecycle: the Requests of one project, from the submission to   *)
(* the decision.                                                           *)
(*                                                                         *)
(* The window records a submission, asks for a Request, polls it, ends it, *)
(* discards its result or adopts it.  Each of these calls passes through   *)
(* the repository's serial writer in one or more turns, and other calls    *)
(* run between two turns of a call.  A turn writes one file at a time: the *)
(* receipt with its facts, the frozen Request and its recovery marker,     *)
(* request.json, candidate.json, the cancellation, the adoption and the    *)
(* runtime record, the only one the Agent cannot write.  Recovery, the     *)
(* first turn of most calls, goes on from the files.                       *)
(*                                                                         *)
(* A turn may fail at any write, the bridge may stop at any write, and the *)
(* window may stop waiting for a call, which goes on without it.  The      *)
(* Agent may finish at any time, whatever became of its Request.           *)
(*                                                                         *)
(* Left out: the Agent's process (AgentExecution), the steps in which an   *)
(* adoption writes the document (CurrentVersion), the document itself,     *)
(* whose change may refuse a turn at any time, Requests without a          *)
(* submission, results without a change, progress facts, the conversation. *)
(***************************************************************************)
EXTENDS Naturals, Sequences

CONSTANTS
    Requests,     \* the submissions and their Requests
    None,         \* no Request
    MaxFaults,    \* bound: turns that fail at a write
    MaxCrashes,   \* bound: stops of the bridge
    MaxLeaves     \* bound: calls given up and reloads of the window

ASSUME RequestAssumption ==
    /\ None \notin Requests
    /\ {MaxFaults, MaxCrashes, MaxLeaves} \subseteq Nat

VARIABLES
    receipt,     \* the submission's record
    facts,       \* the facts appended to that record
    freeze,      \* the bundle being frozen, and its marker
    request,     \* request.json: its status and its outbox of facts
    candidate,   \* candidate.json
    completion,  \* completion.json, written by the Agent
    authority,   \* the requests whose cancellation is on record
    adoption,    \* the current-version transaction of an adoption
    runtime,     \* the active Request, and whether its Candidate is sealed
    queue,       \* the calls at the serial writer, the first one running
    at,          \* where the running turn stands
    client,      \* the window
    count        \* what has happened, for the bounds

record == <<receipt, facts>>
disk == <<receipt, facts, freeze, request, candidate, completion, authority,
          adoption, runtime>>
vars == <<disk, queue, at, client, count>>

Terminal == {"cancelled", "rejected", "error", "promoted"}
Idle == [request |-> None, sealed |-> FALSE]
Free == [phase |-> "free", run |-> None, ready |-> FALSE, unsure |-> FALSE,
         waits |-> {}]
Opening == [Free EXCEPT !.phase = "opening"]

Status(r) == request[r].status
Published(r) == Status(r) # "none"
Active(r) == runtime.request = r
Sealed(r) == Active(r) /\ runtime.sealed

Call(kind, r, stages) ==
    [kind |-> kind, r |-> r, stages |-> stages, discard |-> FALSE,
     answer |-> "ok", awaited |-> TRUE]
Started == [Call("start", None, <<"recover", "restart">>)
            EXCEPT !.awaited = FALSE]

Init ==
    /\ receipt = [r \in Requests |-> "none"]
    /\ facts = [r \in Requests |-> {}]
    /\ freeze = [r \in Requests |-> [staging |-> "none", marker |-> FALSE]]
    /\ request = [r \in Requests |-> [status |-> "none", events |-> {}]]
    /\ candidate = [r \in Requests |-> "none"]
    /\ completion = [r \in Requests |-> "none"]
    /\ authority = {}
    /\ adoption = [r \in Requests |-> "none"]
    /\ runtime = Idle
    /\ queue = <<>>
    /\ at = "start"
    /\ client = Free
    /\ count = [faults |-> 0, crashes |-> 0, leaves |-> 0]

-----------------------------------------------------------------------------
(* The window hears an answer.                                              *)

(* What submit does with the answers of its calls.  A record is sent twice  *)
(* when its fate is unknown, a Request never: the project is read instead.  *)
HeardBySubmit(call, answer) ==
    LET to(phase) == [client EXCEPT !.phase = phase] IN
    CASE call.kind = "record" ->
             to(IF answer = "ok" THEN "recorded"
                ELSE IF answer = "unknown" /\ client.phase = "recording"
                THEN "repeat" ELSE "ending")
      [] call.kind = "create" ->
             to(IF answer = "ok" THEN "running"
                ELSE IF answer = "unknown" THEN "uncertain" ELSE "ending")
      [] call.kind = "unstarted" ->
             IF answer = "ok" \/ client.phase = "resettling" THEN Free
             ELSE to("unsettled")

(* A read tells whether the runtime names a Request.                        *)
HeardByRead(answer) ==
    LET running == [Free EXCEPT !.phase = "running", !.run = runtime.request,
                                !.ready = runtime.sealed] IN
    IF answer # "ok"
    THEN [client EXCEPT !.phase = IF @ = "loading" THEN "opening" ELSE "doubtful"]
    ELSE IF runtime.request # None THEN running
    ELSE IF client.phase = "checking" THEN [client EXCEPT !.phase = "ending"]
    ELSE Free

(* The answers about a Request that runs.                                   *)
HeardByRun(call, answer) ==
    LET c == [client EXCEPT !.waits = @ \ {call.kind}] IN
    IF \/ call.kind = "promote" /\ answer = "ok"
       \/ call.kind # "promote" /\ answer \in Terminal \cup {"inactive"}
    THEN Free
    ELSE [c EXCEPT !.ready = @ \/ answer = "candidate-ready",
                   !.unsure = IF call.kind = "promote"
                              THEN answer = "unknown" ELSE @]

Heard(call, answer) ==
    IF ~call.awaited THEN client
    ELSE IF call.kind = "read" THEN HeardByRead(answer)
    ELSE IF call.kind \in {"record", "create", "unstarted"}
    THEN HeardBySubmit(call, answer)
    ELSE HeardByRun(call, answer)

Unheard(calls) == [i \in DOMAIN calls |-> [calls[i] EXCEPT !.awaited = FALSE]]

(* The running call is answered; a window that is done with its Request     *)
(* waits for nothing else.                                                  *)
Respond(answer) ==
    /\ client' = Heard(Head(queue), answer)
    /\ queue' = IF client' = Free THEN Unheard(Tail(queue)) ELSE Tail(queue)
    /\ at' = "start"

Refuse == Respond("refused")

(* The turn is done.  The next turn of the call waits behind the calls that *)
(* came in meanwhile; the start of the bridge is a single turn.             *)
Proceed(answer, more) ==
    LET call == Head(queue)
        next == [call EXCEPT !.stages = Tail(@) \o more, !.answer = answer] IN
    IF next.stages = <<>> THEN Respond(answer)
    ELSE /\ queue' = IF call.kind = "start" THEN <<next>> \o Tail(queue)
                     ELSE Append(Tail(queue), next)
         /\ at' = "start"
         /\ UNCHANGED client

Stay == UNCHANGED <<queue, at, client>>
Goto(label) == at' = label /\ UNCHANGED <<queue, client>>

-----------------------------------------------------------------------------
(* Writes that several turns make.                                          *)

(* #writeRequestWithHistory: the outbox is part of request.json; appending  *)
(* its facts to the receipt may fail at any of them, which is ignored.      *)
Outbox(r, status) ==
    request[r].events \cup ({status} \ {"promoted", "processing"})

Appended(events) ==
    {told \in SUBSET events :
        told # {} /\ "candidate-ready" \in events => "candidate-ready" \in told}

WriteRequest(r, status) ==
    LET events == Outbox(r, status) IN
    /\ request' = [request EXCEPT ![r] = [status |-> status, events |-> events]]
    /\ \E told \in Appended(events) :
           facts' = [facts EXCEPT ![r] = @ \cup told]

(* Mutant: the active Candidate is forgotten.                               *)
MutantReleased == [runtime EXCEPT !.request = None]
Released == Idle

(* #readCandidateForLoaded: a Candidate that waits for review is only       *)
(* readable while the runtime seals it.                                     *)
Readable(r) == /\ candidate[r] # "none"
               /\ candidate[r] = "pending-review" => Sealed(r)

(* finishSubmissionReceipt.                                                 *)
FinishReceipt(r, status) ==
    receipt' = [receipt EXCEPT ![r] = IF @ = "accepted" THEN status ELSE @]
EndedBefore(r, status) == receipt[r] \notin {"accepted", "request-created", status}

-----------------------------------------------------------------------------
(* The turns of a submission.                                               *)

(* recordSubmission; the document may have changed.                         *)
Record(r) ==
    \/ Refuse /\ UNCHANGED disk
    \/ /\ receipt' = [receipt EXCEPT ![r] = IF @ = "none" THEN "accepted" ELSE @]
       /\ IF receipt[r] \in {"none", "accepted"} THEN Proceed("ok", <<>>) ELSE Refuse
       /\ UNCHANGED <<facts, freeze, request, candidate, completion, authority,
                      adoption, runtime>>

(* submissionReceipt, read before the Request is frozen.                    *)
ReadReceipt(r) ==
    /\ IF receipt[r] \in {"accepted", "request-created"}
       THEN Proceed("ok", <<>>) ELSE Refuse
    /\ UNCHANGED disk

(* prepareRequest: the input is copied into a staging directory, the marker *)
(* written, the directory renamed, the runtime anchored.                    *)
MutantMayPrepare(r) == receipt[r] \in {"accepted", "request-created"}
MayPrepare(r) == /\ runtime.request \in {None, r}
                 /\ receipt[r] \in {"accepted", "request-created"}

Prepare(r) ==
    LET write(bundle) ==
            /\ freeze' = [freeze EXCEPT ![r] = bundle]
            /\ UNCHANGED <<receipt, facts, request, candidate, completion,
                           authority, adoption, runtime>>
        staged(whole) == [staging |-> whole, marker |-> FALSE] IN
    \/ /\ at = "start"
       /\ \/ Refuse /\ UNCHANGED disk
          \/ MayPrepare(r) /\ Goto("staging") /\ write(staged("partial"))
    \/ /\ at = "staging"
       /\ \/ Refuse /\ write(staged("none"))
          \/ Goto("staged") /\ write(staged("whole"))
    \/ at = "staged" /\ Goto("marked") /\ write([freeze[r] EXCEPT !.marker = TRUE])
    \/ /\ at = "marked"
       /\ freeze' = [freeze EXCEPT ![r].staging = "none"]
       /\ request' = [request EXCEPT ![r].status = "processing"]
       /\ Goto("published")
       /\ UNCHANGED <<receipt, facts, candidate, completion, authority,
                      adoption, runtime>>
    \/ /\ at = "published"
       /\ runtime' = [request |-> r, sealed |-> FALSE]
       /\ Goto("anchored")
       /\ UNCHANGED <<receipt, facts, freeze, request, candidate, completion,
                      authority, adoption>>
    \/ /\ at = "anchored"
       /\ \E marker \in {FALSE, TRUE} :
              write([freeze[r] EXCEPT !.marker = marker])
       /\ Proceed("ok", <<>>)

(* #cleanupRequestFreezeForId, after a failure before the publication: the  *)
(* staging directory is removed, then the marker.                           *)
CleanUp(r) ==
    /\ UNCHANGED <<receipt, facts, request, candidate, completion, authority,
                   adoption, runtime>>
    /\ \/ /\ at = "cleanup"
          /\ freeze' = [freeze EXCEPT ![r].staging =
                            IF @ = "whole" THEN "partial" ELSE "none"]
          /\ IF freeze[r].staging = "whole" THEN Goto("cleanup")
             ELSE IF freeze[r].marker THEN Goto("unmark") ELSE Respond("unknown")
       \/ /\ at = "unmark"
          /\ freeze' = [freeze EXCEPT ![r].marker = FALSE]
          /\ Respond("unknown")

(* finishSubmission, with request-created or not-started.                   *)
Finish(r, status) ==
    /\ FinishReceipt(r, status)
    /\ IF EndedBefore(r, status) THEN Refuse ELSE Proceed("ok", <<>>)
    /\ UNCHANGED <<facts, freeze, request, candidate, completion, authority,
                   adoption, runtime>>

-----------------------------------------------------------------------------
(* The turns of a decision and of a poll.                                   *)

(* #resumeCurrentPromotion: the transaction is committed, then Candidate,   *)
(* Request and runtime follow, as long as the runtime still owns them.      *)
CommitAdoption(r) ==
    /\ adoption[r] = "prepared"
    /\ \/ /\ Readable(r)
          /\ \/ /\ adoption' = [adoption EXCEPT ![r] = "completed"]
                /\ IF Sealed(r) \/ candidate[r] = "promoted" THEN Stay ELSE Refuse
             \/ adoption' = [adoption EXCEPT ![r] = "aborted"] /\ Refuse
       \/ ~Readable(r) /\ Refuse /\ UNCHANGED adoption
    /\ UNCHANGED <<receipt, facts, freeze, request, candidate, completion,
                   authority, runtime>>

FollowAdoption(r) ==
    /\ adoption[r] = "completed" /\ Sealed(r)
    /\ Stay
    /\ IF candidate[r] # "promoted"
       THEN /\ candidate' = [candidate EXCEPT ![r] = "promoted"]
            /\ UNCHANGED <<facts, request, runtime>>
       ELSE IF Status(r) # "promoted"
       THEN WriteRequest(r, "promoted") /\ UNCHANGED <<candidate, runtime>>
       ELSE runtime' = Released /\ UNCHANGED <<facts, request, candidate>>
    /\ UNCHANGED <<receipt, freeze, completion, authority, adoption>>

(* #promoteCurrentCandidate: without a transaction one is prepared from the *)
(* Candidate and the document, which may have changed.                      *)
Promote(r) ==
    \/ /\ adoption[r] = "none"
       /\ \/ Refuse /\ UNCHANGED disk
          \/ /\ Readable(r)
             /\ adoption' = [adoption EXCEPT ![r] = "prepared"]
             /\ Stay
             /\ UNCHANGED <<receipt, facts, freeze, request, candidate,
                            completion, authority, runtime>>
    \/ CommitAdoption(r)
    \/ FollowAdoption(r)
    \/ /\ \/ adoption[r] = "aborted"
          \/ adoption[r] = "completed" /\ ~Sealed(r)
       /\ IF adoption[r] = "completed" /\ candidate[r] = "promoted"
          THEN /\ Proceed("ok", <<>>)
               /\ facts' \in {facts, [facts EXCEPT ![r] = @ \cup {"promoted"}]}
          ELSE Refuse /\ UNCHANGED facts
       /\ UNCHANGED <<receipt, freeze, request, candidate, completion,
                      authority, adoption, runtime>>

(* The runtime gives a Request up, once its end is written.                 *)
Release(answer) ==
    /\ runtime' = Released
    /\ Proceed(answer, <<>>)
    /\ UNCHANGED <<receipt, facts, freeze, request, candidate, completion,
                   authority, adoption>>

EndRequest(r, status) ==
    /\ WriteRequest(r, status)
    /\ UNCHANGED <<receipt, freeze, candidate, completion, authority, adoption,
                   runtime>>

(* #recordRequestValidationError: a result that cannot be used ends the     *)
(* Request; after the wish to stop, one that is at least whole is refused.  *)
Fail(r) ==
    \/ /\ at = "start" /\ "stop-requested" \in facts[r]
       /\ Refuse
       /\ UNCHANGED disk
    \/ at = "start" /\ EndRequest(r, "error") /\ Goto("failed")
    \/ at = "failed" /\ Release("error")

(* #completeRequest refuses a result that comes after the wish to stop.     *)
MutantMayComplete(r) == completion[r] = "good"
MayComplete(r) == completion[r] = "good" /\ "stop-requested" \notin facts[r]

(* #createCandidate: the result becomes a Candidate, which the runtime      *)
(* seals.                                                                   *)
CreateCandidate(r) ==
    \/ /\ at = "start" /\ candidate[r] = "none"
       /\ candidate' = [candidate EXCEPT ![r] = "pending-review"]
       /\ Goto("candidate")
       /\ UNCHANGED <<receipt, facts, freeze, request, completion, authority,
                      adoption, runtime>>
    \/ /\ at = "candidate" \/ (at = "start" /\ candidate[r] # "none" /\ Sealed(r))
       /\ runtime' = [request |-> r, sealed |-> TRUE]
       /\ Goto("sealed")
       /\ UNCHANGED <<receipt, facts, freeze, request, candidate, completion,
                      authority, adoption>>

(* #completeRequest: only then is the Request ready.                        *)
Complete(r) ==
    \/ /\ at = "start"
       /\ ~MayComplete(r) \/ (candidate[r] # "none" /\ ~Sealed(r))
       /\ Refuse
       /\ UNCHANGED disk
    \/ MayComplete(r) /\ CreateCandidate(r)
    \/ /\ at = "sealed"
       /\ WriteRequest(r, "candidate-ready")
       /\ Proceed("candidate-ready", <<"recover">>)
       /\ UNCHANGED <<receipt, freeze, candidate, completion, authority,
                      adoption, runtime>>

(* #requestStatus.                                                          *)
PollStatus(r) ==
    LET status == Status(r) IN
    \/ /\ at = "start" /\ status # "processing"
       /\ IF \/ status = "none"
             \/ status \in {"candidate-ready", "promoted"} /\ ~Readable(r)
          THEN Refuse
          ELSE Proceed(status, IF status = "candidate-ready"
                               THEN <<"recover">> ELSE <<>>)
       /\ UNCHANGED disk
    \/ /\ at = "start" /\ status = "processing" /\ completion[r] = "none"
       /\ Proceed("processing", <<>>)
       /\ UNCHANGED disk
    \/ /\ at # "start" \/ status = "processing"
       /\ \/ completion[r] = "bad" /\ Fail(r)
          \/ completion[r] = "good" /\ Complete(r)

(* The coordinator records that the Agent is to stop, and stops it, or      *)
(* cannot confirm that it did.                                              *)
Stop(r) ==
    /\ IF Published(r)
       THEN facts' = [facts EXCEPT ![r] = @ \cup {"stop-requested"}]
       ELSE UNCHANGED facts
    /\ Proceed("ok", <<>>) \/ Respond("unknown")
    /\ UNCHANGED <<receipt, freeze, request, candidate, completion, authority,
                   adoption, runtime>>

(* #cancelRequest of a Request that runs: the cancellation is put on record *)
(* where the Agent cannot write, then the Request ends.                     *)
CancelRunning(r) ==
    \/ /\ at = "start" /\ Status(r) \in {"none", "processing", "cancelled"}
       /\ ~Active(r)
       /\ IF Status(r) = "cancelled" /\ r \in authority
          THEN Proceed("inactive", <<>>) ELSE Refuse
       /\ UNCHANGED disk
    \/ /\ at = "start" /\ Status(r) \in {"processing", "cancelled"} /\ Active(r)
       /\ IF r \notin authority
          THEN /\ authority' = authority \cup {r}
               /\ Stay
               /\ UNCHANGED <<receipt, facts, freeze, request, candidate,
                              completion, adoption, runtime>>
          ELSE EndRequest(r, "cancelled") /\ Goto("cancelled")
    \/ at = "cancelled" /\ Release("cancelled")

(* #cancelRequest of a Request that is ready: the result is kept, or        *)
(* #rejectCandidate ends the Request, then the runtime, then the Candidate. *)
Discard(r, discard) ==
    \/ /\ at = "start" /\ Status(r) = "candidate-ready"
       /\ \/ /\ ~discard /\ Proceed("result-ready", <<>>) /\ UNCHANGED disk
          \/ /\ discard /\ (~Readable(r) \/ candidate[r] = "promoted")
             /\ Refuse /\ UNCHANGED disk
          \/ /\ discard /\ Readable(r) /\ candidate[r] # "promoted"
             /\ EndRequest(r, "rejected") /\ Goto("rejected")
    \/ /\ at = "rejected"
       /\ runtime' = Released
       /\ Goto("released")
       /\ UNCHANGED <<receipt, facts, freeze, request, candidate, completion,
                      authority, adoption>>
    \/ /\ at = "released"
       /\ candidate' = [candidate EXCEPT ![r] = "rejected"]
       /\ Proceed("cancelled", <<>>)
       /\ UNCHANGED <<receipt, facts, freeze, request, completion, authority,
                      adoption, runtime>>

Cancel(r, discard) ==
    \/ CancelRunning(r)
    \/ Discard(r, discard)
    \/ /\ at = "start" /\ Status(r) \in {"rejected", "promoted", "error"}
       /\ Proceed("inactive", <<>>)
       /\ UNCHANGED disk

-----------------------------------------------------------------------------
(* Recovery: #recoverProject.  What is left to do shows in the files, so    *)
(* that a recovery goes on where another one was cut off.                   *)

(* #restoreRequestRuntime.                                                  *)
Restorable(r) ==
    /\ runtime.request \in {None, r}
    /\ Status(r) = "processing" /\ candidate[r] # "none"
          => candidate[r] = "pending-review" /\ Sealed(r)
    /\ Status(r) = "candidate-ready" => candidate[r] = "pending-review" /\ Sealed(r)

RestoreDue(r) ==
    \/ Status(r) = "processing"
          /\ (candidate[r] # "none" \/ runtime # [request |-> r, sealed |-> FALSE])
    \/ Status(r) \in Terminal /\ Active(r)

Restore(r) ==
    /\ Stay
    /\ IF Status(r) = "processing" /\ candidate[r] # "none"
       THEN EndRequest(r, "candidate-ready")
       ELSE /\ runtime' = IF Status(r) = "processing"
                          THEN [request |-> r, sealed |-> FALSE] ELSE Released
            /\ UNCHANGED <<receipt, facts, freeze, request, candidate,
                           completion, authority, adoption>>

(* The adoptions that recovery resumes.                                     *)
MutantAdopting == {r \in Requests : adoption[r] = "prepared"}
Adopting ==
    {r \in Requests : adoption[r] = "prepared"
                         \/ (adoption[r] = "completed" /\ Sealed(r))}

(* #recoverRequestFreezeForId: a bundle without its marker is discarded, a  *)
(* whole one published, and a published one anchored.                       *)
Freezing == {r \in Requests : freeze[r].staging # "none" \/ freeze[r].marker}

RecoverFreeze(r) ==
    LET f == freeze[r]
        bundle(b) == /\ freeze' = [freeze EXCEPT ![r] = b]
                     /\ Stay
                     /\ UNCHANGED <<receipt, facts, candidate, completion,
                                    authority, adoption, runtime>> IN
    IF ~f.marker
    THEN bundle([f EXCEPT !.staging = "none"]) /\ UNCHANGED request
    ELSE IF f.staging = "whole" /\ ~Published(r)
    THEN /\ bundle([f EXCEPT !.staging = "none"])
         /\ request' = [request EXCEPT ![r].status = "processing"]
    ELSE IF f.staging # "none" \/ ~Published(r) \/ ~Restorable(r)
    THEN Refuse /\ UNCHANGED disk
    ELSE IF RestoreDue(r) THEN Restore(r)
    ELSE bundle([f EXCEPT !.marker = FALSE]) /\ UNCHANGED request

(* #recoverSubmissionHistory: the receipt learns of its Request and of what *)
(* became of it.                                                            *)
Told(r) == request[r].events
               \cup IF Status(r) = "promoted" /\ adoption[r] = "completed"
                    THEN {"promoted"} ELSE {}
HistoryDue(r) ==
    /\ Published(r)
    /\ receipt[r] # "request-created" \/ ~(Told(r) \subseteq facts[r])

RecoverHistory(r) ==
    IF EndedBefore(r, "request-created") THEN Refuse /\ UNCHANGED disk
    ELSE /\ FinishReceipt(r, "request-created")
         /\ facts' = [facts EXCEPT ![r] = @ \cup Told(r)]
         /\ Stay
         /\ UNCHANGED <<freeze, request, candidate, completion, authority,
                        adoption, runtime>>

RuntimeDue ==
    /\ runtime.request # None
    /\ RestoreDue(runtime.request) \/ ~Restorable(runtime.request)
Unsettled == {r \in Requests : HistoryDue(r)}

Recover ==
    IF Adopting # {}
    THEN \E r \in Adopting : CommitAdoption(r) \/ FollowAdoption(r)
    ELSE IF Freezing # {} THEN \E r \in Freezing : RecoverFreeze(r)
    ELSE IF RuntimeDue
    THEN IF Restorable(runtime.request) THEN Restore(runtime.request)
         ELSE Refuse /\ UNCHANGED disk
    ELSE IF Unsettled # {} THEN \E r \in Unsettled : RecoverHistory(r)
    ELSE Proceed(Head(queue).answer, <<>>) /\ UNCHANGED disk

(* The start of the bridge also ends the submissions that have no Request.  *)
Interrupted == {r \in Requests : receipt[r] = "accepted" /\ ~Published(r)}

Restart ==
    IF Interrupted = {} THEN Proceed("ok", <<>>) /\ UNCHANGED disk
    ELSE /\ \E r \in Interrupted : FinishReceipt(r, "not-started")
         /\ Stay
         /\ UNCHANGED <<facts, freeze, request, candidate, completion, authority,
                        adoption, runtime>>

-----------------------------------------------------------------------------
(* The serial writer.                                                       *)
Running == Head(queue).r
Turn(stage) == /\ queue # <<>>
               /\ Head(Head(queue).stages) = stage
               /\ at \notin {"cleanup", "unmark"}
               /\ UNCHANGED count

RecordTurn == Turn("record") /\ Record(Running)
ReceiptTurn == Turn("receipt") /\ ReadReceipt(Running)
PrepareTurn == Turn("prepare") /\ Prepare(Running)
CreatedTurn == Turn("created") /\ Finish(Running, "request-created")
UnstartedTurn == Turn("unstarted") /\ Finish(Running, "not-started")
RecoverTurn == Turn("recover") /\ Recover
RestartTurn == Turn("restart") /\ Restart
StatusTurn == Turn("status") /\ PollStatus(Running)
StopTurn == Turn("stop") /\ Stop(Running)
CancelTurn == Turn("cancel") /\ Cancel(Running, Head(queue).discard)
PromoteTurn == Turn("promote") /\ Promote(Running)
CleanUpTurn == /\ at \in {"cleanup", "unmark"}
               /\ CleanUp(Running)
               /\ UNCHANGED count

(* A write fails, and the turn with it.                                     *)
Fault ==
    /\ queue # <<>> /\ count.faults < MaxFaults
    /\ count' = [count EXCEPT !.faults = @ + 1]
    /\ IF at \in {"staging", "staged", "marked"} THEN Goto("cleanup")
       ELSE Respond("unknown")
    /\ UNCHANGED disk

(* The bridge stops with all its calls, and is started with the window.     *)
Crash ==
    /\ count.crashes < MaxCrashes
    /\ count' = [count EXCEPT !.crashes = @ + 1]
    /\ queue' = <<Started>> /\ at' = "start" /\ client' = Opening
    /\ UNCHANGED disk

(* The Agent finishes, with a result that can be used or not.               *)
AgentFinishes(r) ==
    /\ Published(r) /\ completion[r] = "none"
    /\ completion' \in {[completion EXCEPT ![r] = c] : c \in {"good", "bad"}}
    /\ UNCHANGED <<receipt, facts, freeze, request, candidate, authority,
                   adoption, runtime, queue, at, client, count>>

-----------------------------------------------------------------------------
(* The window.                                                              *)
Send(call, waiting) ==
    /\ queue' = Append(queue, call)
    /\ client' = waiting
    /\ UNCHANGED <<disk, at, count>>

(* One step of submit: from a phase, a call is sent and its answer awaited. *)
Step(from, call, to) ==
    client.phase = from /\ Send(call, [client EXCEPT !.phase = to])

Read == Call("read", None, <<"recover">>)
RecordOf(r) == Call("record", r, <<"record">>)
UnstartedOf(r) == Call("unstarted", r, <<"unstarted">>)

Open == Step("opening", Read, "loading")

Submit(r) ==
    /\ client.phase = "free" /\ receipt[r] = "none"
    /\ \A i \in DOMAIN queue : queue[i].r # r
    /\ Send(RecordOf(r), [Free EXCEPT !.phase = "recording", !.run = r])

Repeat == Step("repeat", RecordOf(client.run), "rerecording")

Create == Step("recorded", Call("create", client.run,
                                <<"receipt", "prepare", "created">>), "creating")

(* The ticket is refused, or the document is not the same any more.         *)
DoNotCreate == Step("recorded", UnstartedOf(client.run), "settling")

Check == Step("uncertain", Read, "checking")
CheckAgain == Step("doubtful", Read, "rechecking")
Settle == Step("ending", UnstartedOf(client.run), "settling")
SettleAgain == Step("unsettled", UnstartedOf(client.run), "resettling")

(* A call about the Request that runs.                                      *)
Ask(call) ==
    /\ client.phase = "running" /\ call.kind \notin client.waits
    /\ Send(call, [client EXCEPT !.waits = @ \cup {call.kind}])

Adopts == "promote" \in client.waits \/ client.unsure

Poll == ~Adopts /\ Ask(Call("status", client.run, <<"recover", "status">>))

(* A result is discarded, a run is stopped; a managed run has an Agent.     *)
End ==
    /\ ~Adopts
    /\ \E stages \in {<<"recover", "cancel">>, <<"recover", "stop", "cancel">>} :
           Ask([Call("cancel", client.run, stages)
                EXCEPT !.discard = client.ready])

(* The result is adopted, or the adoption whose fate is unknown repeated.   *)
Adopt == client.ready /\ Ask(Call("promote", client.run, <<"promote", "recover">>))

(* The window stops waiting for a call, which goes on.                      *)
GiveUp ==
    /\ count.leaves < MaxLeaves
    /\ \E i \in DOMAIN queue :
           /\ queue[i].awaited
           /\ client' = Heard(queue[i], "unknown")
           /\ queue' = [queue EXCEPT ![i].awaited = FALSE]
    /\ count' = [count EXCEPT !.leaves = @ + 1]
    /\ UNCHANGED <<disk, at>>

Reload ==
    /\ count.leaves < MaxLeaves /\ client.phase # "opening"
    /\ client' = Opening /\ queue' = Unheard(queue)
    /\ count' = [count EXCEPT !.leaves = @ + 1]
    /\ UNCHANGED <<disk, at>>

Next ==
    \/ RecordTurn \/ ReceiptTurn \/ PrepareTurn \/ CreatedTurn \/ UnstartedTurn
    \/ RecoverTurn \/ RestartTurn \/ StatusTurn \/ StopTurn \/ CancelTurn
    \/ PromoteTurn \/ CleanUpTurn \/ Fault \/ Crash
    \/ \E r \in Requests : AgentFinishes(r) \/ Submit(r)
    \/ Open \/ Repeat \/ Create \/ DoNotCreate \/ Check \/ CheckAgain
    \/ Settle \/ SettleAgain \/ Poll \/ End \/ Adopt \/ GiveUp \/ Reload

Spec == Init /\ [][Next]_vars

-----------------------------------------------------------------------------
(* The state is well typed; the runtime never seals a Candidate without     *)
(* naming its Request (#writeRuntime always gets both).                     *)
TypeOK ==
    /\ receipt \in [Requests -> {"none", "accepted", "request-created", "not-started"}]
    /\ facts \in [Requests -> SUBSET ({"stop-requested", "candidate-ready"} \cup Terminal)]
    /\ freeze \in [Requests -> [staging : {"none", "partial", "whole"}, marker : BOOLEAN]]
    /\ request \in [Requests -> [status : {"none", "processing", "candidate-ready"} \cup Terminal,
                                 events : SUBSET ({"candidate-ready"} \cup Terminal)]]
    /\ candidate \in [Requests -> {"none", "pending-review", "promoted", "rejected"}]
    /\ completion \in [Requests -> {"none", "good", "bad"}]
    /\ authority \subseteq Requests
    /\ adoption \in [Requests -> {"none", "prepared", "completed", "aborted"}]
    /\ runtime \in {Idle} \cup [request : Requests, sealed : BOOLEAN]
    /\ client.run \in Requests \cup {None}
    /\ \A i \in DOMAIN queue : queue[i].stages # <<>>

(* A Request is live while it runs or waits for its decision.               *)
Live == {r \in Requests : Status(r) \in {"processing", "candidate-ready"}}

(* No live Request is lost from sight: it is the one the runtime names, or  *)
(* still carries the marker by which recovery finds it, whatever was given  *)
(* up, repeated, cut off or recovered (#prepareRequest asks the runtime,    *)
(* and nothing else, whether another Request is active).                    *)
LiveIsOwned == \A r \in Live : Active(r) \/ freeze[r].marker

(* The files of one Request tell the same story: what is decided is known   *)
(* to the runtime, the Candidate, the receipt and the adoption alike.       *)
WholeRequest(r) ==
    /\ freeze[r] = [staging |-> "none", marker |-> FALSE]
    /\ Status(r) = "processing" => Active(r) /\ ~Sealed(r) /\ candidate[r] = "none"
    /\ Status(r) = "candidate-ready" => Sealed(r) /\ candidate[r] = "pending-review"
    /\ Status(r) \in Terminal => ~Active(r)
    /\ Status(r) = "promoted" <=> candidate[r] = "promoted"
    /\ adoption[r] = "completed" => Status(r) \in {"promoted", "rejected"}
    /\ Told(r) \subseteq facts[r]
    /\ receipt[r] = "not-started" => ~Published(r)

(* A recovery that comes to its end leaves every Request whole, wherever    *)
(* the turns before it were cut off: recovery only looks at transactions    *)
(* that are open, at bundles, at the one active Request and at receipts, and*)
(* that has to be enough for the others (#recoverProject).                  *)
RecoveredIsWhole ==
    (/\ queue # <<>> /\ Head(Head(queue).stages) = "recover" /\ at = "start"
     /\ Adopting = {} /\ Freezing = {} /\ ~RuntimeDue /\ Unsettled = {})
        => \A r \in Requests : WholeRequest(r)

(* What has ended stays as it is: a cancelled, failed or adopted Request    *)
(* never changes, and once the user's wish to stop is on record no result   *)
(* of the Agent becomes a Candidate any more (#completeRequest).            *)
LateResultsStayOut ==
    [][\A r \in Requests :
          /\ Status(r) \in {"cancelled", "error", "promoted"} => UNCHANGED request[r]
          /\ "stop-requested" \in facts[r] /\ candidate[r] = "none"
                => candidate'[r] = "none"]_vars

(* Not so: a result that was discarded is never published as a Version.     *)
DiscardedIsNotAdopted ==
    \A r \in Requests : Status(r) = "rejected" => adoption[r] # "completed"

(* Not so: a submission reported as not started has no Request.             *)
NotStartedHasNoRequest ==
    \A r \in Requests : receipt[r] = "not-started" => ~Published(r)
=============================================================================
