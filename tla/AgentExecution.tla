--------------------------- MODULE AgentExecution ---------------------------
(***************************************************************************)
(* AgentExecution: one Request that a managed Agent carries out.           *)
(*                                                                         *)
(* The client spends a preflight ticket and submits; the bridge checks the *)
(* Request and the task, takes a lease (a file beside the project), checks *)
(* the ticket again, records that the run started, and starts the Agent's  *)
(* process.  A run that failed cleanly may be submitted again.  The user   *)
(* may end the Request: the Agent is stopped first and the Request is then *)
(* cancelled on disk.  Closing the bridge waits for the starts and stops   *)
(* the Agent.  A crash of the bridge leaves the lease, and maybe the       *)
(* process, behind.                                                        *)
(*                                                                         *)
(* A client that waits too long gives up, and its request goes on.         *)
(* Requests are delivered in any order.                                    *)
(*                                                                         *)
(* Left out: other Requests, the conversation's projection of a run, the   *)
(* provider's protocol, the installation of Agents, credentials, the       *)
(* expiry of a ticket, a task handed to an Agent outside of the program.   *)
(***************************************************************************)
EXTENDS Integers, FiniteSets

CONSTANTS
    MaxRuns,      \* bound: processes started
    MaxStarts,    \* bound: submissions by the client
    MaxStops,     \* bound: cancellations by the client
    MaxFaults,    \* bound: failed system calls
    MaxLaunches   \* bound: launches of the bridge after the first

ASSUME AgentAssumption ==
    {MaxRuns, MaxStarts, MaxStops, MaxFaults, MaxLaunches} \subseteq Nat

VARIABLES
    client,   \* the run's workflow: start, tracked, the stop it waits for
    stops,    \* the cancellations, by number
    bridge,   \* the coordinator: accepting, fenced, closing
    start,    \* the submission that is being performed
    runs,     \* the sessions of the coordinator, by number
    current,  \* the session of this Request, 0 when there is none
    alive,    \* the Agent's processes
    file,     \* the lease file
    request,  \* the Request on disk
    asked,    \* the record that the user asked to stop
    output,   \* the files the Agent writes
    handed,   \* history: a retry took over the lease of a closing run
    sealed,   \* history: the cancellation that ended the Request
    count     \* what has happened, for the bounds

vars == <<client, stops, bridge, start, runs, current, alive, file, request,
          asked, output, handed, sealed, count>>
disk == <<file, request, asked, output>>
past == <<handed, sealed>>

Run == 1..MaxRuns
Stop == 1..MaxStops

NoStart == [pc |-> "none", cancelled |-> FALSE, prior |-> 0, heard |-> {}]
NoStop == [pc |-> "none", run |-> 0]
Live == {"starting", "cancelling"}
Answered == {"done", "ready", "failed"}

NoSession ==
    [pc |-> "none", state |-> "none", how |-> "none", lease |-> FALSE,
     keep |-> FALSE, retry |-> FALSE, aborted |-> FALSE, verified |-> FALSE,
     lost |-> FALSE, heard |-> {}]

Init ==
    /\ client = [start |-> "none", tracked |-> TRUE, stop |-> 0]
    /\ stops = [i \in Stop |-> NoStop]
    /\ bridge = [accepting |-> TRUE, fenced |-> FALSE, closing |-> "no"]
    /\ start = NoStart
    /\ runs = [r \in Run |-> NoSession]
    /\ current = 0
    /\ alive = {}
    /\ file = "none"
    /\ request = "processing"
    /\ asked = FALSE
    /\ output = "none"
    /\ handed = FALSE
    /\ sealed = 0
    /\ count = [runs |-> 0, starts |-> 0, faults |-> 0, launches |-> 0]

Up == bridge.closing # "gone"
Fault == count.faults < MaxFaults /\ count' = [count EXCEPT !.faults = @ + 1]
Known == {r \in Run : runs[r].pc # "none"}

-----------------------------------------------------------------------------
(* The client: RunWorkflow.                                                 *)

(* startAgent reserves the start and spends a ticket.                       *)
StartAgent ==
    /\ client.start = "none" /\ client.tracked
    /\ count.starts < MaxStarts
    /\ client' = [client EXCEPT !.start = "ticket"]
    /\ count' = [count EXCEPT !.starts = @ + 1]
    /\ UNCHANGED <<stops, bridge, start, runs, current, alive, disk, past>>

(* After the ticket: nothing is sent for a Request that is being ended.     *)
SendStart ==
    /\ client.start = "ticket"
    /\ client' = [client EXCEPT !.start =
                     IF client.tracked /\ client.stop = 0 THEN "sent"
                     ELSE "none"]
    /\ UNCHANGED <<stops, bridge, start, runs, current, alive, disk, past,
                   count>>

Cancel(i) ==
    /\ client.stop = 0 /\ client.tracked
    /\ stops[i].pc = "none"
    /\ \A j \in Stop : j < i => stops[j].pc # "none"
    /\ client' = [client EXCEPT !.stop = i]
    /\ stops' = [stops EXCEPT ![i].pc = "sent"]
    /\ UNCHANGED <<bridge, start, runs, current, alive, disk, past, count>>

(* A cancellation that succeeded removes the run; one that failed, or timed *)
(* out, leaves it to be cancelled or started again.                         *)
CancelReturns ==
    /\ client.stop # 0
    /\ client' = [client EXCEPT !.stop = 0,
                     !.tracked = @ /\ stops[client.stop].pc # "done"]
    /\ UNCHANGED <<stops, bridge, start, runs, current, alive, disk, past,
                   count>>

-----------------------------------------------------------------------------
(* The lease store.                                                         *)

(* releaseAgentLease removes the file of this owner; anything else is no    *)
(* release.                                                                 *)
DropLease(ok) ==
    IF ok THEN file = "mine" /\ file' = "none" /\ UNCHANGED count
          ELSE UNCHANGED file /\ IF file = "mine" THEN Fault
                                 ELSE UNCHANGED count

-----------------------------------------------------------------------------
(* submit: one submission of a Request at a time.                           *)
Goto(pc) == start' = [start EXCEPT !.pc = pc]
Refuse == start' = NoStart
At(pc) == Up /\ start.pc = pc
Calm == UNCHANGED <<client, stops, request, asked, output, sealed>>

(* A submission that cannot say whether the lease is gone is never let go:  *)
(* later ones, cancellations and the closing of the bridge meet it.         *)
MutantGiveUp(released) == Refuse /\ UNCHANGED bridge
GiveUp(released) ==
    IF released THEN Refuse /\ UNCHANGED bridge
    ELSE Goto("stuck") /\ bridge' = [bridge EXCEPT !.fenced = TRUE]

(* A submission joins the one in progress; a live or completed session      *)
(* answers it; a session that may not be retried refuses it.  The client    *)
(* may give up at any time from here on, and start again.                   *)
Submittable == current = 0 \/ runs[current].retry

Submit ==
    /\ Up /\ client.start = "sent"
    /\ client' = [client EXCEPT !.start = "none"]
    /\ IF start.pc = "none" /\ bridge.accepting /\ Submittable
       THEN start' = [pc |-> "task", cancelled |-> FALSE, prior |-> current,
                      heard |-> {i \in Stop : stops[i].pc
                                              \notin {"none", "sent"}}]
       ELSE UNCHANGED start
    /\ UNCHANGED <<stops, bridge, runs, current, alive, disk, past, count>>

TaskRead ==
    /\ At("task")
    /\ IF bridge.accepting /\ request = "processing" THEN Goto("policy")
       ELSE Refuse
    /\ Calm /\ UNCHANGED <<bridge, runs, current, alive, file, handed, count>>

(* loadExecutionPolicy refuses a task that has output; then the lease of    *)
(* the session found at the beginning is taken over if it still has one.    *)
MutantNoResidue == TRUE
NoResidue == output = "none"

PolicyLoaded ==
    LET reuse == start.prior \in Known /\ runs[start.prior].lease IN
    /\ At("policy")
    /\ IF bridge.accepting /\ NoResidue
       THEN Goto(IF reuse THEN "verify" ELSE "lease") /\ handed' = (handed \/ reuse)
       ELSE Refuse /\ UNCHANGED handed
    /\ Calm /\ UNCHANGED <<bridge, runs, current, alive, file, count>>

(* acquireAgentLease creates the file exclusively; a failed write leaves it *)
(* without an owner.                                                        *)
MutantFree == file # "mine"
Free == file = "none"

LeaseTaken ==
    /\ At("lease")
    /\ \/ /\ Free
          /\ file' = "mine" /\ Goto("verify") /\ UNCHANGED count
       \/ /\ ~Free
          /\ Refuse /\ UNCHANGED <<file, count>>
       \/ /\ Free /\ Fault
          /\ file' = "torn" /\ Refuse
    /\ Calm /\ UNCHANGED <<bridge, runs, current, alive, handed>>

(* verifyTicket, and the check that the bridge still takes starts.          *)
Verified ==
    /\ At("verify")
    /\ \/ /\ bridge.accepting
          /\ Goto("fact") /\ UNCHANGED <<bridge, file, count>>
       \/ /\ ~bridge.accepting
          /\ Refuse
          /\ \E ok \in BOOLEAN :
                /\ DropLease(ok)
                /\ bridge' = [bridge EXCEPT !.fenced = @ \/ ~ok]
    /\ Calm /\ UNCHANGED <<runs, current, alive, handed>>

VerifyFails ==
    /\ At("verify")
    /\ IF start.prior \in Known /\ runs[start.prior].lease
       THEN Refuse /\ UNCHANGED <<bridge, file, count>>
       ELSE \E ok \in BOOLEAN : DropLease(ok) /\ GiveUp(ok)
    /\ Calm /\ UNCHANGED <<runs, current, alive, handed>>

(* The fact that the run started is on disk: the Agent is started, unless   *)
(* the Request was to be ended meanwhile.                                   *)
Withdrawn == start.cancelled

Spawn ==
    LET r == count.runs + 1 IN
    /\ At("fact") /\ ~Withdrawn
    /\ r \in Run
    /\ runs' = [runs EXCEPT ![r] =
                  [NoSession EXCEPT !.pc = "running", !.state = "starting",
                                    !.lease = TRUE, !.heard = start.heard]]
    /\ current' = r
    /\ alive' = alive \union {r}
    /\ Refuse
    /\ count' = [count EXCEPT !.runs = r]
    /\ Calm /\ UNCHANGED <<bridge, file, handed>>

Withdraw ==
    /\ At("fact") /\ Withdrawn
    /\ \E ok \in BOOLEAN : DropLease(ok) /\ GiveUp(ok)
    /\ Calm /\ UNCHANGED <<runs, current, alive, handed>>

FactFails ==
    /\ At("fact")
    /\ \E ok \in BOOLEAN : DropLease(ok) /\ GiveUp(ok)
    /\ Calm /\ UNCHANGED <<runs, current, alive, handed>>

-----------------------------------------------------------------------------
(* The Agent and its session.                                               *)
In(r, pc) == Up /\ runs[r].pc = pc
Aside == UNCHANGED <<client, stops, start, request, asked, past>>

(* The document, then the completion record.  The host refuses both once    *)
(* the run was stopped; the Agent's own access to the disk ends with it.    *)
Write(r) ==
    /\ r \in alive
    /\ output = "none" /\ output' = "html"
    /\ UNCHANGED <<client, stops, bridge, start, runs, current, alive, file,
                   request, asked, past, count>>

Finalize(r) ==
    /\ r \in alive
    /\ output = "html" /\ output' = "complete"
    /\ UNCHANGED <<client, stops, bridge, start, runs, current, alive, file,
                   request, asked, past, count>>

(* assertTurnCompleted: the host read both files again.                     *)
TurnCompleted(r) ==
    /\ In(r, "running") /\ ~runs[r].aborted
    /\ output = "complete" /\ ~runs[r].verified
    /\ runs' = [runs EXCEPT ![r].verified = TRUE]
    /\ Aside /\ UNCHANGED <<bridge, current, alive, file, output, count>>

(* The process ends and the provider's run with it; "unclean": nobody knows *)
(* whether the process ended.                                               *)
Exit(r, how) ==
    /\ In(r, "running")
    /\ how = "ok" => runs[r].verified
    /\ how = "unclean" => count.faults < MaxFaults
    /\ count' = [count EXCEPT !.faults = @ + IF how = "unclean" THEN 1 ELSE 0]
    /\ runs' = [runs EXCEPT ![r].pc = "ended", ![r].how = how]
    /\ \/ alive' = alive \ {r}
       \/ how = "unclean" /\ UNCHANGED alive
    /\ Aside /\ UNCHANGED <<bridge, current, file, output>>

(* A fact of the run could not be recorded: the run is stopped.             *)
HistoryFails(r) ==
    /\ Up /\ runs[r].pc \in {"running", "ended", "settled"}
    /\ ~runs[r].lost
    /\ Fault
    /\ runs' = [runs EXCEPT ![r].lost = TRUE, ![r].aborted = TRUE]
    /\ Aside /\ UNCHANGED <<bridge, current, alive, file, output>>

(* How the run ended.  A verified result outlives a failing teardown; a run *)
(* may be tried again only if the process is gone and left nothing.         *)
MutantRetryable(r) == ~runs[r].aborted /\ output = "none"
Retryable(r) == ~runs[r].aborted /\ output = "none" /\ runs[r].how = "failed"

Settle(r) ==
    /\ In(r, "ended")
    /\ runs' = [runs EXCEPT ![r] =
          [@ EXCEPT !.pc = "settled",
                    !.state = IF runs[r].aborted THEN "cancelled"
                              ELSE IF runs[r].verified THEN "completed"
                              ELSE "failed",
                    !.retry = Retryable(r),
                    !.keep = runs[r].how = "unclean"]]
    /\ Aside /\ UNCHANGED <<bridge, current, alive, file, output, count>>

(* The last facts are recorded, then the lease is released; a lease that    *)
(* cannot be released is kept, and there is no other run.                   *)
MutantMayRelease(r) == runs[r].lease
MayRelease(r) == runs[r].lease /\ ~runs[r].keep

MutantRetryAfter(r) == runs[r].retry
RetryAfter(r) == runs[r].retry /\ ~runs[r].lost

Release(r) ==
    LET run == [runs[r] EXCEPT !.pc = "done",
                   !.state = IF runs[r].lost THEN "interrupted" ELSE @,
                   !.retry = RetryAfter(r)] IN
    /\ In(r, "settled")
    /\ \/ /\ ~MayRelease(r)
          /\ runs' = [runs EXCEPT ![r] = run]
          /\ UNCHANGED <<file, count>>
       \/ /\ MayRelease(r)
          /\ \E ok \in BOOLEAN :
                /\ DropLease(ok)
                /\ runs' = [runs EXCEPT ![r] =
                      [run EXCEPT !.lease = ~ok, !.keep = ~ok,
                                  !.retry = @ /\ ok]]
    /\ Aside /\ UNCHANGED <<bridge, current, alive, output>>

(* #prune forgets a session that ended long ago, unless it keeps its lease. *)
Prune ==
    /\ Up /\ current # 0
    /\ runs[current].pc = "done" /\ ~runs[current].keep
    /\ current' = 0
    /\ Aside /\ UNCHANGED <<bridge, runs, alive, file, output, count>>

(* completeRequest takes in a finished result of a Request that still waits *)
(* and that the user has not asked to stop.                                 *)
Ingest ==
    /\ Up /\ request = "processing" /\ output = "complete" /\ ~asked
    /\ request' = "ready"
    /\ UNCHANGED <<client, stops, bridge, start, runs, current, alive, file,
                   asked, output, past, count>>

-----------------------------------------------------------------------------
(* cancelDurableExecution.                                                  *)
Stopping(i, pc) == Up /\ stops[i].pc = pc
StopTo(i, pc) == stops' = [stops EXCEPT ![i].pc = pc]
Quietly == UNCHANGED <<client, bridge, current, alive, file, output, handed,
                       count>>

(* The session that is there now: one that runs is stopped, any other must  *)
(* have released its lease.                                                 *)
MutantMaySeal == TRUE
MaySeal == current = 0 \/ ~(runs[current].keep \/ runs[current].lease)

LookUp(i) ==
    IF current # 0 /\ runs[current].state \in Live
    THEN /\ runs' = [runs EXCEPT ![current].state = "cancelling"]
         /\ stops' = [stops EXCEPT ![i] = [pc |-> "fact", run |-> current]]
    ELSE /\ StopTo(i, IF MaySeal THEN "durable" ELSE "failed")
         /\ UNCHANGED runs

(* A submission in progress is told, and waited for.                        *)
MutantStarting == FALSE
Starting == start.pc # "none"

ReceiveStop(i) ==
    /\ Stopping(i, "sent")
    /\ IF Starting
       THEN /\ start' = [start EXCEPT !.cancelled = TRUE]
            /\ StopTo(i, "start") /\ UNCHANGED runs
       ELSE LookUp(i) /\ UNCHANGED start
    /\ Quietly /\ UNCHANGED <<request, asked, sealed>>

StartSettled(i) ==
    /\ Stopping(i, "start")
    /\ \/ start.pc = "none" /\ LookUp(i)
       \/ start.pc = "stuck" /\ StopTo(i, "failed") /\ UNCHANGED runs
    /\ Quietly /\ UNCHANGED <<start, request, asked, sealed>>

(* "stop-requested" is recorded, then the run is aborted.                   *)
Abort(i) ==
    /\ Stopping(i, "fact")
    /\ runs' = [runs EXCEPT ![stops[i].run].aborted = TRUE]
    /\ StopTo(i, "race")
    /\ asked' = TRUE
    /\ Quietly /\ UNCHANGED <<start, request, sealed>>

(* The run ended: the Request is ended only if the lease is gone.           *)
RunStopped(i) ==
    LET run == runs[stops[i].run] IN
    /\ Stopping(i, "race")
    /\ run.pc = "done"
    /\ StopTo(i, IF run.keep \/ run.lease \/ ~MaySeal THEN "failed"
                 ELSE "durable")
    /\ Quietly /\ UNCHANGED <<start, runs, request, asked, sealed>>

(* Twelve seconds each for the submission and for the run.                  *)
StopTimesOut(i) ==
    /\ Up /\ stops[i].pc \in {"start", "race"}
    /\ StopTo(i, "failed")
    /\ Quietly /\ UNCHANGED <<start, runs, request, asked, sealed>>

(* cancelRequest: a Request that has its result keeps it.                   *)
Durable(i) ==
    /\ Stopping(i, "durable")
    /\ StopTo(i, IF request = "ready" THEN "ready" ELSE "done")
    /\ request' = IF request = "processing" THEN "cancelled" ELSE request
    /\ sealed' = IF request = "processing" THEN i ELSE sealed
    /\ Quietly /\ UNCHANGED <<start, runs, asked>>

-----------------------------------------------------------------------------
(* shutdown, and the end of the bridge.                                     *)
Closing(from, to) ==
    /\ bridge.closing = from
    /\ bridge' = [bridge EXCEPT !.accepting = FALSE, !.closing = to]
Elsewhere == UNCHANGED <<client, stops, start, current, alive, disk, past>>

Shutdown ==
    /\ Closing("no", "starts")
    /\ Elsewhere /\ UNCHANGED <<runs, count>>

(* No submission is in progress: what runs is aborted.                      *)
StartsSettled ==
    /\ Closing("starts", "runs")
    /\ start.pc \in {"none", "stuck"}
    /\ runs' = [r \in Run |->
          IF r = current /\ runs[r].state \in Live
          THEN [runs[r] EXCEPT !.aborted = TRUE] ELSE runs[r]]
    /\ Elsewhere /\ UNCHANGED count

(* The bridge exits only if nothing it started is left, as far as it knows. *)
MutantConfirmed == ~bridge.fenced
Confirmed == ~bridge.fenced /\ MaySeal

RunsSettled ==
    /\ Closing("runs", IF Confirmed THEN "gone" ELSE "no")
    /\ current # 0 => runs[current].pc = "done"
    /\ Elsewhere /\ UNCHANGED <<runs, count>>

ShutdownTimesOut ==
    /\ \E from \in {"starts", "runs"} : Closing(from, "no")
    /\ Elsewhere /\ UNCHANGED <<runs, count>>

(* A new bridge: what the old one knew is gone, and the requests it had     *)
(* taken are lost.  After a crash the processes may go on.                  *)
Relaunch ==
    /\ count.launches < MaxLaunches
    /\ count' = [count EXCEPT !.launches = @ + 1]
    /\ bridge' = [accepting |-> TRUE, fenced |-> FALSE, closing |-> "no"]
    /\ start' = NoStart
    /\ runs' = [r \in Run |-> NoSession]
    /\ current' = 0
    /\ stops' = [i \in Stop |->
          IF stops[i].pc \in Answered \union {"none", "sent"} THEN stops[i]
          ELSE [stops[i] EXCEPT !.pc = "failed"]]
    /\ file' = IF file = "mine" THEN "old" ELSE file
    /\ UNCHANGED <<client, alive, request, asked, output, past>>

Crash == Up /\ Relaunch
Reopen == ~Up /\ Relaunch

(* A process nobody watches any more ends.                                  *)
ProcessEnds(r) ==
    /\ r \in alive /\ runs[r].pc # "running"
    /\ alive' = alive \ {r}
    /\ UNCHANGED <<client, stops, bridge, start, runs, current, disk, past,
                   count>>

-----------------------------------------------------------------------------
Next ==
    \/ StartAgent \/ SendStart \/ CancelReturns
    \/ Submit \/ TaskRead \/ PolicyLoaded \/ LeaseTaken
    \/ Verified \/ VerifyFails \/ Spawn \/ Withdraw \/ FactFails
    \/ Prune \/ Ingest
    \/ Shutdown \/ StartsSettled \/ RunsSettled \/ ShutdownTimesOut
    \/ Crash \/ Reopen
    \/ \E r \in Run : \/ Write(r) \/ Finalize(r) \/ TurnCompleted(r)
                      \/ HistoryFails(r) \/ Settle(r) \/ Release(r)
                      \/ ProcessEnds(r)
                      \/ \E how \in {"ok", "failed", "unclean"} : Exit(r, how)
    \/ \E i \in Stop : \/ Cancel(i) \/ ReceiveStop(i) \/ StartSettled(i)
                       \/ Abort(i) \/ RunStopped(i) \/ StopTimesOut(i)
                       \/ Durable(i)

Spec == Init /\ [][Next]_vars

-----------------------------------------------------------------------------
(* Type invariant: the value every variable may hold; only a run that       *)
(* failed may be tried again, and only a lease that is held can be kept.    *)
TypeOK ==
    /\ client \in [start : {"none", "ticket", "sent"},
                   tracked : BOOLEAN, stop : 0..MaxStops]
    /\ stops \in [Stop -> [pc : {"none", "sent", "start", "fact", "race",
                                 "durable"} \union Answered,
                           run : 0..MaxRuns]]
    /\ bridge \in [accepting : BOOLEAN, fenced : BOOLEAN,
                   closing : {"no", "starts", "runs", "gone"}]
    /\ start \in [pc : {"none", "task", "policy", "lease", "verify", "fact",
                        "stuck"},
                  cancelled : BOOLEAN, prior : 0..MaxRuns,
                  heard : SUBSET Stop]
    /\ runs \in [Run -> [pc : {"none", "running", "ended", "settled", "done"},
                         state : {"none", "completed", "cancelled", "failed",
                                  "interrupted"} \union Live,
                         how : {"none", "ok", "failed", "unclean"},
                         lease : BOOLEAN, keep : BOOLEAN, retry : BOOLEAN,
                         aborted : BOOLEAN, verified : BOOLEAN,
                         lost : BOOLEAN, heard : SUBSET Stop]]
    /\ \A r \in Run : runs[r].retry => runs[r].state = "failed"
    /\ \A r \in Run : runs[r].keep => runs[r].lease
    /\ current \in 0..MaxRuns
    /\ alive \subseteq Run
    /\ file \in {"none", "mine", "torn", "old"}
    /\ request \in {"processing", "ready", "cancelled"}
    /\ asked \in BOOLEAN
    /\ output \in {"none", "html", "complete"}
    /\ handed \in BOOLEAN
    /\ sealed \in 0..MaxStops
    /\ count \in [runs : 0..MaxRuns, starts : 0..MaxStarts,
                  faults : 0..MaxFaults, launches : 0..MaxLaunches]

(* An Agent is started only when no process of an earlier start can be left *)
(* and nothing was written for the Request: retries, restarts of the bridge *)
(* and lost cleanups included (docs/DEVELOPMENT.md:102).  A retry that took *)
(* over the lease of a run that was still closing is the exception.         *)
StartsClean ==
    [][\A r \in alive' \ alive : (alive = {} /\ output = "none") \/ handed]_vars

(* A lease on disk that this bridge owns is held by a submission, by a      *)
(* session, or the bridge knows that it lost track of it and will not exit. *)
LeaseAccountedFor ==
    file = "mine" =>
        \/ start.pc \in {"verify", "fact"}
        \/ \E r \in Known : runs[r].lease
        \/ bridge.fenced

(* A bridge that exited in the orderly way left no process it started and   *)
(* no lease it owned.                                                       *)
ExitMeansStopped ==
    bridge.closing = "gone" => alive \intersect Known = {} /\ file # "mine"

(* When the Request has been cancelled on disk, no submission that reached  *)
(* the bridge before the cancellation still has, or gets, an Agent.         *)
StopCoversEarlierStarts ==
    request = "cancelled" =>
        \A r \in alive \intersect Known : sealed \in runs[r].heard

(* What docs/DEVELOPMENT.md:102 says of retries, as a state: never two      *)
(* Agents of one Request.                                                   *)
OneAgent == Cardinality(alive) <= 1

(* What docs/INTERACTION_FLOW.md:993 says: the cancellation is written when *)
(* the Agent is known to have stopped.                                      *)
CancelledMeansStopped ==
    request = "cancelled" => alive \intersect Known = {}
=============================================================================
