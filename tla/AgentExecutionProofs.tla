------------------------ MODULE AgentExecutionProofs ------------------------
(***************************************************************************)
(* Proofs about AgentExecution, for any number of submissions, runs,       *)
(* cancellations, faults and launches.                                     *)
(*                                                                         *)
(* The invariant has a part for each of the actors.  Sessions: a session   *)
(* whose process may still be there is the current one, or keeps its       *)
(* lease.  Submission: what was found at the beginning of a submission is  *)
(* still what the coordinator has.  Held: who holds the lease file.        *)
(* Stopped: what a cancellation has waited for.  Alone: as long as no      *)
(* retry took over a lease, nothing is there when a process starts.        *)
(***************************************************************************)
EXTENDS AgentExecution, TLAPS

Client == [start : {"none", "ticket", "sent"}, tracked : BOOLEAN,
           stop : 0..MaxStops]
StopRecord == [pc : {"none", "sent", "start", "fact", "race", "durable"}
                    \union Answered,
               run : 0..MaxRuns]
Bridge == [accepting : BOOLEAN, fenced : BOOLEAN,
           closing : {"no", "starts", "runs", "gone"}]
Submission == [pc : {"none", "task", "policy", "lease", "verify", "fact",
                     "stuck"},
               cancelled : BOOLEAN, prior : 0..MaxRuns, heard : SUBSET Stop]
Session == [pc : {"none", "running", "ended", "settled", "done"},
            state : {"none", "completed", "cancelled", "failed",
                     "interrupted"} \union Live,
            how : {"none", "ok", "failed", "unclean"},
            lease : BOOLEAN, keep : BOOLEAN, retry : BOOLEAN,
            aborted : BOOLEAN, verified : BOOLEAN, lost : BOOLEAN,
            heard : SUBSET Stop]
Count == [runs : 0..MaxRuns, starts : 0..MaxStarts, faults : 0..MaxFaults,
          launches : 0..MaxLaunches]

Typed ==
    /\ client \in Client /\ stops \in [Stop -> StopRecord]
    /\ bridge \in Bridge /\ start \in Submission
    /\ runs \in [Run -> Session] /\ current \in 0..MaxRuns
    /\ alive \subseteq Run
    /\ file \in {"none", "mine", "torn", "old"}
    /\ request \in {"processing", "ready", "cancelled"}
    /\ asked \in BOOLEAN /\ output \in {"none", "html", "complete"}
    /\ handed \in BOOLEAN /\ sealed \in 0..MaxStops
    /\ count \in Count

Over == {"settled", "done"}
Open == {"running", "ended"}

(* What a session says of itself.                                           *)
Coherent(s) ==
    /\ s.pc = "none" => s = NoSession
    /\ s.state \in Live <=> s.pc \in Open
    /\ s.pc \in Open \union {"settled"} => s.lease
    /\ s.pc \in Open => ~s.keep /\ ~s.retry
    /\ s.pc \in Over /\ s.how = "unclean" => s.keep
    /\ s.pc = "done" /\ s.lease => s.keep
    /\ s.keep => s.lease
    /\ s.retry => s.how = "failed" /\ s.state = "failed"

Sessions ==
    /\ \A r \in Run : Coherent(runs[r])
    /\ \A r \in Run : runs[r].verified => output = "complete"
    /\ current # 0 => runs[current].pc # "none"
    /\ \A r \in alive \intersect Known :
           runs[r].pc = "running" \/ runs[r].how = "unclean"
    /\ \A r \in Known : r # current =>
           runs[r].pc \in Over /\ runs[r].how # "unclean"

Underway == start.pc \notin {"none", "stuck"}

Submitting ==
    /\ Underway => current \in {0, start.prior}
    /\ Underway /\ start.prior # 0 =>
           LET prior == runs[start.prior] IN
           /\ prior.pc \in Over /\ prior.how # "unclean"
           /\ current = 0 => ~prior.lease
    /\ bridge.closing # "no" => ~bridge.accepting
    /\ bridge.closing \in {"runs", "gone"} => ~Underway

Held ==
    file = "mine" =>
        \/ start.pc \in {"verify", "fact"}
        \/ current # 0 /\ runs[current].lease
        \/ bridge.fenced

Stopped ==
    /\ \A i \in Stop :
           LET pc == stops[i].pc IN
           /\ pc \in {"fact", "race", "durable", "done"} /\ Underway =>
                  i \in start.heard
           /\ pc \in {"fact", "race"} =>
                  \A r \in alive \intersect Known :
                      r = stops[i].run \/ i \in runs[r].heard
           /\ pc \in {"fact", "race"} => stops[i].run \in Known
           /\ pc \in {"durable", "done"} =>
                  \A r \in alive \intersect Known : i \in runs[r].heard
    /\ request = "cancelled" => sealed \in Stop /\ stops[sealed].pc = "done"

Alone ==
    ~handed =>
        /\ alive # {} => file # "none"
        /\ file = "mine" => alive \subseteq Known
        /\ start.pc \in {"lease", "verify", "fact"} =>
               \A r \in Run : ~runs[r].lease
        /\ start.pc = "lease" => output = "none" \/ file # "none"
        /\ start.pc \in {"verify", "fact"} =>
               file = "mine" /\ alive = {} /\ output = "none"
        /\ \A r \in Run : r # current => ~runs[r].lease

IInv ==
    /\ Typed
    /\ Sessions
    /\ Submitting
    /\ Held
    /\ Stopped
    /\ ExitMeansStopped
    /\ Alone

-----------------------------------------------------------------------------
LEMMA TypedCoherently == Typed /\ Sessions => TypeOK
BY DEF Typed, Sessions, Coherent, TypeOK, Client, StopRecord, Bridge,
   Submission, Session, Count

LEMMA Numbers ==
  /\ MaxRuns \in Nat /\ MaxStarts \in Nat /\ MaxStops \in Nat
  /\ MaxFaults \in Nat /\ MaxLaunches \in Nat
  /\ 0 \notin Run /\ 0 \notin Stop
BY AgentAssumption DEF Run, Stop

LEMMA NoSessionIs == NoSession \in Session /\ Coherent(NoSession)
BY DEF NoSession, Session, Coherent, Live, Open, Over

LEMMA InitInv == Init => IInv
<1> SUFFICES ASSUME Init PROVE IInv
    OBVIOUS
<1>1. Typed
  <2>1. client \in Client /\ stops \in [Stop -> StopRecord]
    BY Numbers DEF Init, Client, StopRecord, NoStop
  <2>2. bridge \in Bridge /\ start \in Submission
    BY Numbers DEF Init, Bridge, Submission, NoStart
  <2>3. runs \in [Run -> Session] /\ count \in Count
    BY Numbers, NoSessionIs DEF Init, Count
  <2>4. /\ current \in 0..MaxRuns /\ sealed \in 0..MaxStops
    BY Numbers DEF Init
  <2>6. handed \in BOOLEAN /\ asked \in BOOLEAN
    BY Zenon DEF Init
  <2>5. alive \subseteq Run
    BY DEF Init
  <2> QED
    BY <2>1, <2>2, <2>3, <2>4, <2>5, <2>6 DEF Typed, Init
<1>2. Sessions
  BY Numbers, NoSessionIs DEF Init, Sessions, Known, NoSession
<1>3. Submitting /\ Held /\ Stopped /\ ExitMeansStopped /\ Alone
  BY DEF Init, Submitting, Underway, Held, Stopped, ExitMeansStopped, Alone,
     NoStart, NoStop, NoSession
<1> QED
  BY <1>1, <1>2, <1>3 DEF IInv

-----------------------------------------------------------------------------
(***************************************************************************)
(* What a part of the invariant depends on.                                *)
(***************************************************************************)
LEMMA SessionsSame ==
  ASSUME Sessions, UNCHANGED <<runs, current>>, alive' \subseteq alive,
         output' = output \/ output # "complete"
  PROVE  Sessions'
BY DEF Sessions, Known

LEMMA SubmittingSame ==
  ASSUME Submitting, UNCHANGED <<runs, current, start, bridge>>
  PROVE  Submitting'
BY DEF Submitting, Underway

LEMMA HeldSame ==
  ASSUME Held, UNCHANGED <<runs, current, start, file>>,
         bridge.fenced => bridge'.fenced
  PROVE  Held'
BY DEF Held

LEMMA StoppedSame ==
  ASSUME Stopped, UNCHANGED <<runs, start, stops, sealed>>,
         alive' \subseteq alive,
         request' = "cancelled" => request = "cancelled"
  PROVE  Stopped'
BY DEF Stopped, Underway, Known

LEMMA ExitUp ==
  ASSUME Up, bridge'.closing = bridge.closing
  PROVE  ExitMeansStopped'
BY DEF Up, ExitMeansStopped

LEMMA ExitSame ==
  ASSUME ExitMeansStopped, UNCHANGED <<bridge, runs, file>>,
         alive' \subseteq alive
  PROVE  ExitMeansStopped'
BY DEF ExitMeansStopped, Known

LEMMA AloneSame ==
  ASSUME Alone, UNCHANGED <<runs, current, start, file, handed>>,
         alive' \subseteq alive, alive = {} => output' = output
  PROVE  Alone'
BY DEF Alone, Known

(* Steps that leave the sessions, the submission and the lease alone.       *)
LEMMA Apart ==
  ASSUME IInv, Typed', UNCHANGED <<runs, current, start, bridge, file, handed>>,
         alive' \subseteq alive,
         output' = output \/ (alive # {} /\ output # "complete"),
         Stopped'
  PROVE  IInv'
<1>1. Sessions'
  BY SessionsSame DEF IInv
<1>2. Submitting' /\ Held'
  BY SubmittingSame, HeldSame DEF IInv
<1>3. ExitMeansStopped' /\ Alone'
  BY ExitSame, AloneSame DEF IInv
<1> QED
  BY <1>1, <1>2, <1>3 DEF IInv

-----------------------------------------------------------------------------
(* The client; a cancellation is sent.                                      *)
LEMMA ClientStep ==
  ASSUME IInv, StartAgent \/ SendStart \/ CancelReturns
  PROVE  IInv'
<1>1. Typed'
  <2>1. client' \in Client
    <3>1. client \in Client
      BY DEF IInv, Typed
    <3>2. CASE StartAgent \/ SendStart
      BY <3>1, <3>2 DEF Client, StartAgent, SendStart
    <3>3. CASE CancelReturns
      <4> DEFINE t == client.tracked /\ stops[client.stop].pc # "done"
      <4>1. client' = [client EXCEPT !.stop = 0, !.tracked = t]
        BY <3>3 DEF CancelReturns
      <4>2. t \in BOOLEAN
        OBVIOUS
      <4>3. 0 \in 0..MaxStops
        BY Numbers
      <4> HIDE DEF t
      <4>4. client' = [start |-> client.start, tracked |-> t, stop |-> 0]
        BY <3>1, <4>1 DEF Client
      <4> QED
        BY <3>1, <4>2, <4>3, <4>4 DEF Client
    <3> QED
      BY <3>2, <3>3
  <2>2. count' \in Count
    BY Numbers DEF IInv, Typed, Count, StartAgent, SendStart, CancelReturns
  <2> QED
    BY <2>1, <2>2 DEF IInv, Typed, StartAgent, SendStart, CancelReturns,
       disk, past
<1>2. UNCHANGED <<stops, bridge, start, runs, current, alive, disk, past>>
  BY DEF StartAgent, SendStart, CancelReturns
<1>3. Stopped'
  BY <1>2, StoppedSame DEF IInv, disk, past
<1> QED
  BY <1>1, <1>2, <1>3, Apart DEF disk, past

LEMMA CancelStep ==
  ASSUME IInv, NEW i \in Stop, Cancel(i)
  PROVE  IInv'
<1>1. Typed'
  <2>1. client' \in Client
    <3>1. client \in Client /\ i \in 0..MaxStops
      BY Numbers DEF IInv, Typed, Stop
    <3>2. client' = [client EXCEPT !.stop = i]
      BY DEF Cancel
    <3> QED
      BY <3>1, <3>2 DEF Client
  <2>2. stops' \in [Stop -> StopRecord]
    BY DEF IInv, Typed, StopRecord, Cancel
  <2> QED
    BY <2>1, <2>2 DEF IInv, Typed, Cancel, disk, past
<1>2. Stopped'
  <2>1. /\ stops'[i].pc = "sent" /\ stops[i].pc = "none"
        /\ \A j \in Stop : j # i => stops'[j] = stops[j]
    BY DEF IInv, Typed, StopRecord, Cancel
  <2>2. UNCHANGED <<runs, start, alive, request, sealed>>
    BY DEF Cancel, disk, past
  <2> QED
    BY <2>1, <2>2 DEF IInv, Stopped, Underway, Known
<1> QED
  BY <1>1, <1>2, Apart DEF Cancel, disk, past

-----------------------------------------------------------------------------
(* The submission.                                                          *)
LEMMA GotoIs ==
  ASSUME start \in Submission, NEW pc \in {"none", "task", "policy", "lease",
                                       "verify", "fact", "stuck"}, Goto(pc)
  PROVE  /\ start' \in Submission /\ start'.pc = pc
         /\ start'.prior = start.prior /\ start'.heard = start.heard
BY DEF Goto, Submission

LEMMA NoStartIs == NoStart \in Submission /\ NoStart.pc = "none"
BY Numbers DEF NoStart, Submission

(* A submission that goes on, or ends, relies on less.                      *)
LEMMA SubmissionMoves ==
  ASSUME IInv, UNCHANGED <<runs, current>>,
         bridge'.closing = bridge.closing, bridge'.accepting = bridge.accepting,
         \/ start'.pc \in {"none", "stuck"}
         \/ Underway /\ start'.prior = start.prior
  PROVE  Submitting'
BY DEF IInv, Submitting, Underway

LEMMA StoppedMoves ==
  ASSUME IInv, UNCHANGED <<runs, alive, stops, sealed, request>>,
         \/ start'.pc \in {"none", "stuck"}
         \/ Underway /\ start'.heard = start.heard
  PROVE  Stopped'
BY DEF IInv, Stopped, Underway, Known

LEMMA SubmitStep ==
  ASSUME IInv, Submit
  PROVE  IInv'
<1>1. client' \in Client
  BY DEF IInv, Typed, Client, Submit
<1>2. CASE UNCHANGED start
  <2>1. Typed'
    BY <1>1, <1>2 DEF IInv, Typed, Submit, disk, past
  <2>2. Stopped'
    BY <1>2, StoppedSame DEF IInv, Submit, disk, past
  <2> QED
    BY <1>2, <2>1, <2>2, Apart DEF Submit, disk, past
<1>3. CASE /\ start.pc = "none" /\ bridge.accepting /\ Submittable
           /\ start' = [pc |-> "task", cancelled |-> FALSE, prior |-> current,
                        heard |-> {i \in Stop : stops[i].pc
                                                \notin {"none", "sent"}}]
  <2>0. UNCHANGED <<stops, bridge, runs, current, alive, disk, past, count>>
    BY DEF Submit
  <2>1. start' \in Submission /\ start'.pc = "task" /\ start'.prior = current
    BY <1>3 DEF IInv, Typed, Submission
  <2>2. Typed'
    BY <1>1, <2>0, <2>1 DEF IInv, Typed, disk, past
  <2>3. Sessions'
    BY <2>0, SessionsSame DEF IInv, disk
  <2>4. Submitting'
    <3>1. current # 0 => /\ runs[current].retry /\ current \in Run
                         /\ Coherent(runs[current])
                         /\ runs[current] \in Session
      BY <1>3 DEF Submittable, IInv, Sessions, Typed, Run
    <3>2. current # 0 => /\ runs[current].pc \in Over
                         /\ runs[current].how = "failed"
      BY <3>1 DEF Coherent, NoSession, Session, Over, Open
    <3> QED
      BY <1>3, <2>0, <2>1, <3>2 DEF Submitting, Underway, IInv
  <2>5. Held'
    BY <1>3, <2>0, <2>1 DEF IInv, Held, disk
  <2>6. Stopped'
    <3>1. \A i \in Stop : stops[i].pc \in {"fact", "race", "durable", "done"}
                          => i \in start'.heard
      BY <1>3
    <3> QED
      BY <2>0, <3>1 DEF IInv, Stopped, Known, disk, past
  <2>7. ExitMeansStopped'
    BY <2>0, ExitUp DEF Submit
  <2>8. Alone'
    BY <2>0, <2>1 DEF IInv, Alone, Known, disk, past
  <2> QED
    BY <2>2, <2>3, <2>4, <2>5, <2>6, <2>7, <2>8 DEF IInv
<1> QED
  BY <1>2, <1>3 DEF Submit

LEMMA TaskReadStep ==
  ASSUME IInv, TaskRead
  PROVE  IInv'
<1>0. /\ UNCHANGED <<bridge, runs, current, alive, file, handed, count>>
      /\ Calm /\ start \in Submission /\ start.pc = "task" /\ Up
  BY DEF TaskRead, At, IInv, Typed
<1>1. /\ start' \in Submission /\ start'.pc \in {"policy", "none"}
      /\ start'.pc = "none" \/ (start'.prior = start.prior
                                /\ start'.heard = start.heard)
  BY <1>0, GotoIs, NoStartIs DEF TaskRead, Refuse
<1>2. Typed'
  BY <1>0, <1>1 DEF IInv, Typed, Calm
<1>3. Sessions' /\ Submitting' /\ Stopped'
  BY <1>0, <1>1, SessionsSame, SubmissionMoves, StoppedMoves
     DEF IInv, Calm, Underway
<1>4. Held' /\ Alone'
  BY <1>0, <1>1 DEF IInv, Held, Alone, Known, Calm
<1> QED
  BY <1>0, <1>2, <1>3, <1>4, ExitUp DEF IInv

LEMMA PolicyLoadedStep ==
  ASSUME IInv, PolicyLoaded
  PROVE  IInv'
<1> DEFINE reuse == start.prior \in Known /\ runs[start.prior].lease
<1>0. /\ UNCHANGED <<bridge, runs, current, alive, file, count>>
      /\ Calm /\ start \in Submission /\ start.pc = "policy" /\ Up
  BY DEF PolicyLoaded, At, IInv, Typed
<1>1. \/ start' = NoStart /\ UNCHANGED handed
      \/ /\ output = "none" /\ handed' = (handed \/ reuse)
         /\ Goto(IF reuse THEN "verify" ELSE "lease")
  BY DEF PolicyLoaded, NoResidue, Refuse
<1>2. /\ start' \in Submission /\ start'.pc \in {"verify", "lease", "none"}
      /\ start'.pc = "none" \/ (start'.prior = start.prior
                                /\ start'.heard = start.heard)
      /\ handed' \in BOOLEAN
  BY <1>0, <1>1, GotoIs, NoStartIs DEF IInv, Typed
<1>3. Typed'
  BY <1>0, <1>2 DEF IInv, Typed, Calm
<1>4. Sessions' /\ Submitting' /\ Stopped'
  BY <1>0, <1>2, SessionsSame, SubmissionMoves, StoppedMoves
     DEF IInv, Calm, Underway
<1>5. Held'
  BY <1>0, <1>2 DEF IInv, Held
<1>6. Alone'
  <2>1. CASE start' = NoStart /\ UNCHANGED handed
    BY <1>0, <2>1, NoStartIs DEF IInv, Alone, Known, Calm
  <2>2. CASE handed'
    BY <2>2 DEF Alone
  <2>3. CASE ~handed /\ ~reuse /\ Goto("lease") /\ output = "none"
    <3>1. start'.pc = "lease"
      BY <1>0, <2>3, GotoIs
    <3>2. \A r \in Run : ~runs[r].lease
      <4> SUFFICES ASSUME NEW r \in Run, runs[r].lease PROVE FALSE
          OBVIOUS
      <4>1. r = current
        BY <2>3 DEF IInv, Alone
      <4>2. runs[r].pc # "none"
        BY DEF IInv, Sessions, Coherent, NoSession
      <4>3. r = start.prior
        BY <1>0, <4>1, Numbers DEF IInv, Submitting, Underway
      <4> QED
        BY <2>3, <4>2, <4>3 DEF Known
    <3> QED
      BY <1>0, <2>3, <3>1, <3>2 DEF IInv, Alone, Known, Calm
  <2> QED
    BY <1>1, <2>1, <2>2, <2>3 DEF IInv, Typed
<1> QED
  BY <1>0, <1>3, <1>4, <1>5, <1>6, ExitUp DEF IInv

LEMMA FaultIs ==
  ASSUME Typed, Fault
  PROVE  count' \in Count
BY Numbers DEF Typed, Count, Fault

LEMMA LeaseTakenStep ==
  ASSUME IInv, LeaseTaken
  PROVE  IInv'
<1>0. /\ UNCHANGED <<bridge, runs, current, alive, handed>>
      /\ Calm /\ start \in Submission /\ start.pc = "lease" /\ Up
  BY DEF LeaseTaken, At, IInv, Typed
<1>1. \/ file = "none" /\ file' = "mine" /\ Goto("verify")
      \/ /\ start' = NoStart
         /\ file' = file \/ (file = "none" /\ file' = "torn")
  BY DEF LeaseTaken, Free, Refuse
<1>2. /\ start' \in Submission /\ start'.pc \in {"verify", "none"}
      /\ start'.pc = "none" \/ (start'.prior = start.prior
                                /\ start'.heard = start.heard)
      /\ start'.pc = "verify" => file = "none" /\ file' = "mine"
      /\ start'.pc # "verify" => file' = file \/ file' = "torn"
      /\ file = "mine" => file' = "mine"
  BY <1>0, <1>1, GotoIs, NoStartIs
<1>3. Typed'
  <2>1. count' \in Count
    BY FaultIs DEF LeaseTaken, IInv, Typed
  <2>2. file' \in {"none", "mine", "torn", "old"}
    BY <1>1 DEF IInv, Typed
  <2> QED
    BY <1>0, <1>2, <2>1, <2>2 DEF IInv, Typed, Calm
<1>4. Sessions' /\ Submitting' /\ Stopped'
  BY <1>0, <1>2, SessionsSame, SubmissionMoves, StoppedMoves
     DEF IInv, Calm, Underway
<1>5. Held'
  BY <1>0, <1>1, <1>2 DEF IInv, Held
<1>6. Alone'
  <2>1. CASE start'.pc = "none"
    BY <1>0, <1>2, <2>1 DEF IInv, Alone, Known, Calm
  <2>2. CASE start'.pc = "verify"
    BY <1>0, <1>2, <2>2 DEF IInv, Alone, Known, Calm
  <2> QED
    BY <1>2, <2>1, <2>2
<1> QED
  BY <1>0, <1>3, <1>4, <1>5, <1>6, ExitUp DEF IInv

(* The submission ends and the lease is dropped, or known to be lost.       *)
LEMMA DropStep ==
  ASSUME IInv, NEW ok \in BOOLEAN, DropLease(ok), Calm, Up, Underway,
         UNCHANGED <<runs, current, alive, handed>>,
         start' \in Submission, start'.pc \in {"none", "stuck"},
         bridge' = [bridge EXCEPT !.fenced = @ \/ ~ok],
         start.pc \in {"verify", "fact"}
  PROVE  IInv'
<1>1. /\ bridge' \in Bridge /\ bridge'.closing = bridge.closing
      /\ bridge'.accepting = bridge.accepting
      /\ bridge.fenced => bridge'.fenced
      /\ ~ok => bridge'.fenced
  <2> DEFINE f == bridge.fenced \/ ~ok
  <2>1. bridge' = [bridge EXCEPT !.fenced = f] /\ bridge \in Bridge
    BY DEF IInv, Typed
  <2>2. f \in BOOLEAN /\ (bridge.fenced => f) /\ (~ok => f)
    OBVIOUS
  <2> HIDE DEF f
  <2>3. bridge' = [accepting |-> bridge.accepting, fenced |-> f,
                   closing |-> bridge.closing]
    BY <2>1 DEF Bridge
  <2> QED
    BY <2>1, <2>2, <2>3 DEF Bridge
<1>2. /\ file' = file \/ file' = "none"
      /\ ok => file = "mine" /\ file' = "none"
      /\ ~ok => file' = file
  BY DEF DropLease
<1>3. Typed'
  <2>1. count' \in Count
    BY FaultIs DEF DropLease, IInv, Typed
  <2>2. file' \in {"none", "mine", "torn", "old"}
    BY <1>2 DEF IInv, Typed
  <2> QED
    BY <1>1, <2>1, <2>2 DEF IInv, Typed, Calm
<1>4. Sessions' /\ Submitting' /\ Stopped'
  BY <1>1, SessionsSame, SubmissionMoves, StoppedMoves DEF IInv, Calm
<1>5. Held'
  BY <1>1, <1>2 DEF Held
<1>6. Alone'
  BY <1>2 DEF IInv, Alone, Known, Calm
<1> QED
  BY <1>1, <1>3, <1>4, <1>5, <1>6, ExitUp DEF IInv

LEMMA GiveUpIs ==
  ASSUME IInv, NEW ok \in BOOLEAN, GiveUp(ok)
  PROVE  /\ start' \in Submission /\ start'.pc \in {"none", "stuck"}
         /\ bridge' = [bridge EXCEPT !.fenced = @ \/ ~ok]
<1>0. start \in Submission /\ bridge \in Bridge
  BY DEF IInv, Typed
<1>1. CASE ok
  BY <1>0, <1>1, NoStartIs DEF GiveUp, Refuse, Bridge
<1>2. CASE ~ok
  BY <1>0, <1>2, GotoIs DEF GiveUp, Bridge
<1> QED
  BY <1>1, <1>2

LEMMA VerifiedStep ==
  ASSUME IInv, Verified
  PROVE  IInv'
<1>0. /\ UNCHANGED <<runs, current, alive, handed>>
      /\ Calm /\ start \in Submission /\ start.pc = "verify" /\ Up
  BY DEF Verified, At, IInv, Typed
<1>1. CASE Goto("fact") /\ UNCHANGED <<bridge, file, count>>
  <2>1. /\ start' \in Submission /\ start'.pc = "fact"
        /\ start'.prior = start.prior /\ start'.heard = start.heard
    BY <1>0, <1>1, GotoIs
  <2>2. Typed'
    BY <1>0, <1>1, <2>1 DEF IInv, Typed, Calm
  <2>3. Sessions' /\ Submitting' /\ Stopped'
    BY <1>0, <1>1, <2>1, SessionsSame, SubmissionMoves, StoppedMoves
       DEF IInv, Calm, Underway
  <2>4. Held' /\ Alone'
    BY <1>0, <1>1, <2>1 DEF IInv, Held, Alone, Known, Calm
  <2> QED
    BY <1>0, <1>1, <2>2, <2>3, <2>4, ExitUp DEF IInv
<1>2. ASSUME NEW ok \in BOOLEAN, DropLease(ok), Refuse,
             bridge' = [bridge EXCEPT !.fenced = @ \/ ~ok]
      PROVE  IInv'
  BY <1>0, <1>2, DropStep, NoStartIs DEF Refuse, Underway
<1> QED
  BY <1>1, <1>2 DEF Verified

LEMMA GivingUpStep ==
  ASSUME IInv, VerifyFails \/ Withdraw \/ FactFails
  PROVE  IInv'
<1>0. /\ UNCHANGED <<runs, current, alive, handed>>
      /\ Calm /\ start \in Submission /\ start.pc \in {"verify", "fact"} /\ Up
  BY DEF VerifyFails, Withdraw, FactFails, At, IInv, Typed
<1>1. ASSUME NEW ok \in BOOLEAN, DropLease(ok), GiveUp(ok)
      PROVE  IInv'
  BY <1>0, <1>1, GiveUpIs, DropStep DEF Underway
<1>2. CASE /\ start.prior \in Known /\ runs[start.prior].lease /\ Refuse
           /\ UNCHANGED <<bridge, file, count>>
  <2>1. start' = NoStart /\ start' \in Submission /\ start'.pc = "none"
    BY <1>2, NoStartIs DEF Refuse
  <2>2. Typed'
    BY <1>0, <1>2, <2>1 DEF IInv, Typed, Calm
  <2>3. Sessions' /\ Submitting' /\ Stopped'
    BY <1>0, <1>2, <2>1, SessionsSame, SubmissionMoves, StoppedMoves
       DEF IInv, Calm
  <2>4. start.prior # 0 /\ current = start.prior
    BY <1>0, <1>2, Numbers DEF IInv, Submitting, Underway, Known
  <2>5. Held'
    BY <1>0, <1>2, <2>4 DEF Held
  <2>6. Alone'
    BY <1>0, <1>2, <2>1 DEF IInv, Alone, Known, Calm
  <2> QED
    BY <1>0, <1>2, <2>2, <2>3, <2>5, <2>6, ExitUp DEF IInv
<1> QED
  BY <1>1, <1>2 DEF VerifyFails, Withdraw, FactFails

-----------------------------------------------------------------------------
(* A process starts.                                                        *)
NewSession == [NoSession EXCEPT !.pc = "running", !.state = "starting",
                                !.lease = TRUE, !.heard = start.heard]

LEMMA NewSessionIs ==
  ASSUME Typed
  PROVE  /\ NewSession \in Session /\ Coherent(NewSession)
         /\ NewSession.pc = "running" /\ NewSession.lease
         /\ NewSession.heard = start.heard /\ ~NewSession.verified
<1>1. start.heard \subseteq Stop
  BY DEF Typed, Submission
<1>2. /\ NoSession \in Session /\ ~NoSession.keep /\ ~NoSession.retry
      /\ ~NoSession.verified
  BY NoSessionIs DEF NoSession
<1>3. NewSession \in Session
  BY <1>1, <1>2 DEF Session, NewSession, Live
<1>4. /\ NewSession.pc = "running" /\ NewSession.state = "starting"
      /\ NewSession.lease /\ NewSession.heard = start.heard
      /\ ~NewSession.keep /\ ~NewSession.retry /\ ~NewSession.verified
  BY <1>2 DEF Session, NewSession
<1> HIDE DEF NewSession
<1> QED
  BY <1>3, <1>4 DEF Coherent, Live, Open, Over

LEMMA SpawnStep ==
  ASSUME IInv, Spawn
  PROVE  IInv'
<1> DEFINE r == count.runs + 1
<1>0. /\ r \in Run /\ start.pc = "fact" /\ Up /\ Calm
      /\ UNCHANGED <<bridge, file, handed>> /\ start \in Submission
  BY DEF Spawn, At, IInv, Typed
<1>1. /\ runs' = [runs EXCEPT ![r] = NewSession] /\ current' = r
      /\ alive' = alive \union {r} /\ start' = NoStart
      /\ count' = [count EXCEPT !.runs = r]
  BY DEF Spawn, NewSession, Refuse
<1> HIDE DEF r
<1>2. /\ runs' \in [Run -> Session] /\ runs'[r] = NewSession
      /\ \A q \in Run : q # r => runs'[q] = runs[q]
      /\ r # 0
  BY <1>0, <1>1, NewSessionIs, Numbers DEF IInv, Typed
<1>n. /\ NewSession.pc = "running" /\ NewSession.lease /\ Coherent(NewSession)
      /\ NewSession.heard = start.heard /\ ~NewSession.verified
  BY NewSessionIs DEF IInv
<1>3. Typed'
  <2>1. count' \in Count
    BY <1>0, <1>1 DEF IInv, Typed, Count, Run
  <2>2. current' \in 0..MaxRuns /\ alive' \subseteq Run
    BY <1>0, <1>1 DEF IInv, Typed, Run
  <2> QED
    BY <1>0, <1>1, <1>2, <2>1, <2>2, NoStartIs DEF IInv, Typed, Calm
(* The session that was current, if there is one, is over.                  *)
<1>4. ASSUME NEW q \in Run, q # r, runs[q].pc # "none"
      PROVE  runs[q].pc \in Over /\ runs[q].how # "unclean"
  <2>1. CASE q = current
    BY <1>0, <2>1, Numbers DEF IInv, Submitting, Underway
  <2>2. CASE q # current
    BY <1>4, <2>2 DEF IInv, Sessions, Known
  <2> QED
    BY <2>1, <2>2
<1>5. Sessions'
  <2>1. ASSUME NEW q \in Run
        PROVE  Coherent(runs'[q]) /\ (runs'[q].verified => output' = "complete")
    BY <1>0, <1>2, <1>n, <2>1 DEF IInv, Sessions, Calm
  <2>2. current' # 0 => runs'[current'].pc # "none"
    BY <1>1, <1>2, <1>n
  <2>3. ASSUME NEW q \in Run, q # r, runs'[q].pc # "none"
        PROVE  runs'[q].pc \in Over /\ runs'[q].how # "unclean"
    BY <1>2, <1>4, <2>3
  <2>4. ASSUME NEW q \in alive', q \in Run, runs'[q].pc # "none"
        PROVE  runs'[q].pc = "running" \/ runs'[q].how = "unclean"
    <3>1. CASE q = r
      BY <1>2, <1>n, <3>1
    <3>2. CASE q # r
      BY <1>1, <1>2, <2>4, <3>2 DEF IInv, Sessions, Known
    <3> QED
      BY <3>1, <3>2
  <2>5. Known' = {q \in Run : runs'[q].pc # "none"}
    BY DEF Known
  <2> QED
    BY <1>1, <2>1, <2>2, <2>3, <2>4, <2>5 DEF Sessions
<1>6. Submitting'
  BY <1>0, <1>1, NoStartIs DEF IInv, Submitting, Underway
<1>7. Held'
  BY <1>1, <1>2, <1>n DEF Held
<1>8. Stopped'
  <2>1. ASSUME NEW q \in alive', q \in Run, runs'[q].pc # "none"
        PROVE  q = r /\ runs'[q].heard = start.heard
    <3>1. CASE q # r
      <4>1. q \in alive \intersect Known
        BY <1>1, <1>2, <2>1, <3>1 DEF Known
      <4> QED
        BY <1>2, <1>4, <2>1, <3>1, <4>1 DEF IInv, Sessions, Over
    <3>2. CASE q = r
      BY <1>2, <1>n, <3>2
    <3> QED
      BY <3>1, <3>2
  <2>2. Known' = {q \in Run : runs'[q].pc # "none"}
    BY DEF Known
  <2>3. \A i \in Stop : stops[i].pc \in {"fact", "race", "durable", "done"}
                        => i \in start.heard
    BY <1>0 DEF IInv, Stopped, Underway
  <2>4. UNCHANGED <<stops, request, sealed>>
    BY <1>0 DEF Calm
  <2>5. Known \subseteq Known' /\ Known' \subseteq Run
    BY <1>2, <1>n, <2>2 DEF Known
  <2>6. ~Underway'
    BY <1>1, NoStartIs DEF Underway
  <2>7. \A q \in alive' \intersect Known' :
            q = r /\ runs'[q].heard = start.heard
    BY <2>1, <2>2
  <2> QED
    BY <2>3, <2>4, <2>5, <2>6, <2>7 DEF IInv, Stopped
<1>9. Alone'
  <2> SUFFICES ASSUME ~handed PROVE Alone'
    BY <1>0 DEF Alone
  <2>1. /\ file = "mine" /\ alive = {}
        /\ \A q \in Run : ~runs[q].lease
    BY <1>0 DEF IInv, Alone
  <2>2. r \in Known' /\ alive' = {r}
    BY <1>0, <1>1, <1>2, <1>n, <2>1 DEF Known
  <2>3. \A q \in Run : q # current' => ~runs'[q].lease
    BY <1>1, <1>2, <2>1
  <2> QED
    BY <1>0, <1>1, <2>1, <2>2, <2>3, NoStartIs DEF Alone
<1> QED
  BY <1>0, <1>3, <1>5, <1>6, <1>7, <1>8, <1>9, ExitUp DEF IInv

-----------------------------------------------------------------------------
(* What the Agent writes, and what is taken in.                             *)
LEMMA WriteStep ==
  ASSUME IInv, NEW r \in Run, Write(r) \/ Finalize(r)
  PROVE  IInv'
<1>1. /\ UNCHANGED <<client, stops, bridge, start, runs, current, alive, file,
                     request, asked, past, count>>
      /\ alive # {} /\ output # "complete" /\ output' \in {"html", "complete"}
  BY DEF Write, Finalize
<1>2. Typed'
  BY <1>1 DEF IInv, Typed, past
<1>3. Stopped'
  BY <1>1, StoppedSame DEF IInv, past
<1> QED
  BY <1>1, <1>2, <1>3, Apart DEF past

LEMMA IngestStep ==
  ASSUME IInv, Ingest
  PROVE  IInv'
<1>1. /\ UNCHANGED <<client, stops, bridge, start, runs, current, alive, file,
                     asked, output, past, count>>
      /\ request' = "ready"
  BY DEF Ingest
<1>2. Typed'
  BY <1>1 DEF IInv, Typed, past
<1>3. Stopped'
  BY <1>1, StoppedSame DEF IInv, past
<1> QED
  BY <1>1, <1>2, <1>3, Apart DEF past

LEMMA ProcessEndsStep ==
  ASSUME IInv, NEW r \in Run, ProcessEnds(r)
  PROVE  IInv'
<1>1. /\ UNCHANGED <<client, stops, bridge, start, runs, current, disk, past,
                     count>>
      /\ alive' \subseteq alive
  BY DEF ProcessEnds
<1>2. Typed'
  BY <1>1 DEF IInv, Typed, past, disk
<1>3. Stopped'
  BY <1>1, StoppedSame DEF IInv, past, disk
<1> QED
  BY <1>1, <1>2, <1>3, Apart DEF past, disk

-----------------------------------------------------------------------------
(* Steps of a session that keep what others rely on.                        *)
Alike(s, t) == /\ t \in Session /\ Coherent(t)
               /\ t.pc = s.pc /\ t.how = s.how /\ t.lease = s.lease
               /\ t.heard = s.heard
               /\ t.verified => s.verified \/ output = "complete"

Resembling == \A r \in Run : Alike(runs[r], runs'[r])

LEMMA MinorStep ==
  ASSUME IInv, runs' \in [Run -> Session], Resembling,
         UNCHANGED <<current, alive, start, file, handed, output>>,
         bridge'.fenced = bridge.fenced
  PROVE  /\ Sessions' /\ Held' /\ Alone'
         /\ UNCHANGED bridge => Submitting'
<1>1. \A r \in Run : Coherent(runs'[r])
  BY DEF Resembling, Alike
<1>2. \A r \in Run : /\ runs'[r].pc = runs[r].pc /\ runs'[r].how = runs[r].how
                     /\ runs'[r].lease = runs[r].lease
  BY DEF Resembling, Alike
<1>3. \A r \in Run : runs'[r].verified => output' = "complete"
  BY DEF Resembling, Alike, IInv, Sessions
<1>4. Known' = Known /\ Known \subseteq Run
  BY <1>2 DEF Known
<1>5. current \in {0} \cup Run
  BY DEF IInv, Typed, Run
<1>6. Sessions'
  <2>1. current' # 0 => runs'[current'].pc # "none"
    BY <1>2, <1>5 DEF IInv, Sessions
  <2>2. \A r \in alive' \intersect Known' :
            runs'[r].pc = "running" \/ runs'[r].how = "unclean"
    BY <1>2, <1>4 DEF IInv, Sessions
  <2>3. \A r \in Known' : r # current' =>
            runs'[r].pc \in Over /\ runs'[r].how # "unclean"
    BY <1>2, <1>4 DEF IInv, Sessions
  <2> QED
    BY <1>1, <1>3, <2>1, <2>2, <2>3 DEF Sessions
<1>7. Held'
  BY <1>2, <1>5 DEF IInv, Held
<1>8. Alone'
  BY <1>2, <1>4 DEF IInv, Alone
<1>9. UNCHANGED bridge => Submitting'
  <2>1. start.prior \in {0} \cup Run
    BY DEF IInv, Typed, Submission, Run
  <2> QED
    BY <1>2, <2>1 DEF IInv, Submitting, Underway
<1> QED
  BY <1>6, <1>7, <1>8, <1>9

LEMMA StoppedAlike ==
  ASSUME IInv, runs' \in [Run -> Session], Resembling,
         UNCHANGED <<alive, start, stops, sealed, request>>
  PROVE  Stopped'
<1>1. \A r \in Run : runs'[r].pc = runs[r].pc /\ runs'[r].heard = runs[r].heard
  BY DEF Resembling, Alike
<1>2. Known' = Known /\ Known \subseteq Run
  BY <1>1 DEF Known
<1> QED
  BY <1>1, <1>2 DEF IInv, Stopped, Underway

(* One session changes. *)
LEMMA OneSession ==
  ASSUME IInv, NEW r \in Run, NEW s \in Session, runs' = [runs EXCEPT ![r] = s]
  PROVE  /\ runs' \in [Run -> Session] /\ runs'[r] = s
         /\ \A q \in Run : q # r => runs'[q] = runs[q]
         /\ Alike(runs[r], s) => Resembling
<1>1. \A q \in Run : runs[q] \in Session /\ Coherent(runs[q])
  BY DEF IInv, Typed, Sessions
<1>2. /\ runs' \in [Run -> Session] /\ runs'[r] = s
      /\ \A q \in Run : q # r => runs'[q] = runs[q]
  BY DEF IInv, Typed
<1> QED
  BY <1>1, <1>2 DEF Resembling, Alike

LEMMA TurnCompletedStep ==
  ASSUME IInv, NEW r \in Run, TurnCompleted(r) \/ HistoryFails(r)
  PROVE  IInv'
<1>0. /\ Aside /\ UNCHANGED <<bridge, current, alive, file, output>> /\ Up
      /\ runs[r] \in Session /\ Coherent(runs[r]) /\ runs[r].pc # "none"
  BY DEF TurnCompleted, HistoryFails, In, IInv, Typed, Sessions
<1>1. PICK s \in Session : runs' = [runs EXCEPT ![r] = s] /\ Alike(runs[r], s)
  <2>1. CASE TurnCompleted(r)
    <3> DEFINE s == [runs[r] EXCEPT !.verified = TRUE]
    <3>1. runs' = [runs EXCEPT ![r] = s]
      BY <2>1 DEF TurnCompleted
    <3>2. s \in Session /\ Alike(runs[r], s)
      BY <1>0, <2>1
         DEF TurnCompleted, Session, Alike, Coherent, NoSession, Open, Over
    <3> QED
      BY <3>1, <3>2
  <2>2. CASE HistoryFails(r)
    <3> DEFINE s == [runs[r] EXCEPT !.lost = TRUE, !.aborted = TRUE]
    <3>1. runs' = [runs EXCEPT ![r] = s]
      BY <2>2 DEF HistoryFails, IInv, Typed
    <3>2. s \in Session /\ Alike(runs[r], s)
      BY <1>0, <2>2 DEF Session, Alike, Coherent, NoSession, Open, Over
    <3> QED
      BY <3>1, <3>2
  <2> QED
    BY <2>1, <2>2
<1>2. runs' \in [Run -> Session] /\ Resembling
  BY <1>1, OneSession
<1>3. Typed'
  <2>1. count' \in Count
    BY FaultIs DEF TurnCompleted, HistoryFails, IInv, Typed
  <2> QED
    BY <1>0, <1>2, <2>1 DEF IInv, Typed, Aside, past
<1>4. Sessions' /\ Held' /\ Alone' /\ Submitting'
  BY <1>0, <1>2, MinorStep DEF Aside, past
<1>5. Stopped'
  BY <1>0, <1>2, StoppedAlike DEF Aside, past
<1> QED
  BY <1>0, <1>3, <1>4, <1>5, ExitUp DEF IInv

(* A session that moves on, its process being gone or known to be unclean.  *)
LEMMA SessionMoves ==
  ASSUME IInv, NEW r \in Run, NEW s \in Session,
         runs' = [runs EXCEPT ![r] = s], Coherent(s), Up,
         runs[r].pc # "none", s.pc \in Over \union {"ended"},
         s.verified => output = "complete",
         s.heard = runs[r].heard, s.lease => runs[r].lease,
         r = current \/ (s.pc \in Over /\ s.how # "unclean"),
         s.how = runs[r].how \/ runs[r].pc = "running",
         runs[r].pc \in Over => s.pc \in Over,
         r \notin alive' \/ s.how = "unclean",
         alive' \subseteq alive,
         UNCHANGED <<client, stops, bridge, start, current, request, asked,
                     output, past>>
  PROVE  Sessions' /\ Submitting' /\ Stopped' /\ ExitMeansStopped'
<1>1. /\ runs'[r] = s /\ runs' \in [Run -> Session]
      /\ \A q \in Run : q # r => runs'[q] = runs[q]
  BY OneSession
<1>2. Known' = Known /\ Known \subseteq Run
  BY <1>1 DEF Known, Over
<1>3. Sessions'
  <2>1. \A q \in Run : Coherent(runs'[q])
    BY <1>1 DEF IInv, Sessions
  <2>2. \A q \in Run : runs'[q].verified => output' = "complete"
    BY <1>1 DEF IInv, Sessions
  <2>3. current' # 0 => runs'[current'].pc # "none"
    <3>1. current # 0 => current \in Known
      BY DEF IInv, Typed, Sessions, Known, Run
    <3> QED
      BY <1>2, <3>1 DEF Known
  <2>4. \A q \in alive' \intersect Known' :
            runs'[q].pc = "running" \/ runs'[q].how = "unclean"
    BY <1>1, <1>2 DEF IInv, Sessions
  <2>5. \A q \in Known' : q # current' =>
            runs'[q].pc \in Over /\ runs'[q].how # "unclean"
    BY <1>1, <1>2 DEF IInv, Sessions
  <2> QED
    BY <2>1, <2>2, <2>3, <2>4, <2>5 DEF Sessions
<1>4. Submitting'
  <2>1. start.prior \in {0} \cup Run
    BY DEF IInv, Typed, Submission, Run
  <2>2. Underway /\ start.prior = r => s.how # "unclean" /\ s.pc \in Over
    BY Numbers DEF IInv, Submitting, Over
  <2> QED
    BY <1>1, <2>1, <2>2 DEF IInv, Submitting, Underway
<1>5. Stopped'
  <2>1. \A q \in Run : runs'[q].heard = runs[q].heard
    BY <1>1
  <2> QED
    BY <1>2, <2>1 DEF IInv, Stopped, Underway, past
<1> QED
  BY <1>3, <1>4, <1>5, ExitUp

LEMMA AloneLess ==
  ASSUME IInv, runs' \in [Run -> Session],
         \A r \in Run : runs'[r].lease => runs[r].lease,
         Known' = Known,
         alive' \subseteq alive,
         UNCHANGED <<current, start, output, handed>>,
         \/ file' = file
         \/ /\ file' = "none" /\ ~handed => alive = {}
            /\ file' = "none" /\ \E r \in Run : runs[r].lease
  PROVE  Alone'
BY DEF IInv, Alone

LEMMA ExitStep ==
  ASSUME IInv, NEW r \in Run, NEW how \in {"ok", "failed", "unclean"},
         Exit(r, how)
  PROVE  IInv'
<1> DEFINE s == [runs[r] EXCEPT !.pc = "ended", !.how = how]
<1>0. /\ Aside /\ UNCHANGED <<bridge, current, file, output>> /\ Up
      /\ runs[r] \in Session /\ Coherent(runs[r]) /\ runs[r].pc = "running"
      /\ alive' \subseteq alive /\ (r \notin alive' \/ how = "unclean")
  BY DEF Exit, In, IInv, Typed, Sessions
<1>1. runs' = [runs EXCEPT ![r] = s]
  BY DEF Exit, IInv, Typed
<1>2. /\ s \in Session /\ Coherent(s) /\ s.pc = "ended" /\ s.how = how
      /\ s.heard = runs[r].heard /\ s.lease = runs[r].lease
      /\ s.verified = runs[r].verified
  BY <1>0 DEF Session, Coherent, NoSession, Open, Over
<1> HIDE DEF s
<1>3. r = current
  BY <1>0 DEF IInv, Sessions, Known, Over
<1>4. Sessions' /\ Submitting' /\ Stopped' /\ ExitMeansStopped'
  BY <1>0, <1>1, <1>2, <1>3, SessionMoves
     DEF Aside, IInv, Sessions, Over
<1>5. /\ runs' \in [Run -> Session]
      /\ \A q \in Run : runs'[q].lease = runs[q].lease
      /\ Known' = Known
  BY <1>0, <1>1, <1>2, OneSession DEF Known
<1>6. Alone'
  BY <1>0, <1>5, AloneLess DEF Aside, past
<1>7. Held'
  <2>1. current' # 0 => (runs'[current'].lease <=> runs[current].lease)
    BY <1>0, <1>3, <1>5
  <2> QED
    BY <1>0, <2>1 DEF IInv, Held, Aside
<1>8. Typed'
  <2>1. count' \in Count
    <3>1. count.faults \in 0..MaxFaults /\ count \in Count
      BY DEF IInv, Typed, Count
    <3>2. CASE how = "unclean"
      <4>1. count' = [count EXCEPT !.faults = @ + 1] /\ count.faults < MaxFaults
        BY <3>2 DEF Exit
      <4> QED
        BY <3>1, <4>1, Numbers DEF Count
    <3>3. CASE how # "unclean"
      <4>1. count' = [count EXCEPT !.faults = @ + 0]
        BY <3>3 DEF Exit
      <4> QED
        BY <3>1, <4>1, Numbers DEF Count
    <3> QED
      BY <3>2, <3>3
  <2>2. alive' \subseteq Run
    BY <1>0 DEF IInv, Typed
  <2> QED
    BY <1>0, <1>5, <2>1, <2>2 DEF IInv, Typed, Aside, past
<1> QED
  BY <1>4, <1>6, <1>7, <1>8 DEF IInv

LEMMA SettleStep ==
  ASSUME IInv, NEW r \in Run, Settle(r)
  PROVE  IInv'
<1> DEFINE st == IF runs[r].aborted THEN "cancelled"
                 ELSE IF runs[r].verified THEN "completed" ELSE "failed"
           rt == Retryable(r)
           kp == runs[r].how = "unclean"
           s == [runs[r] EXCEPT !.pc = "settled", !.state = st, !.retry = rt,
                                !.keep = kp]
<1>0. /\ Aside /\ Up
      /\ UNCHANGED <<bridge, current, alive, file, output, count>>
      /\ runs[r] \in Session /\ Coherent(runs[r]) /\ runs[r].pc = "ended"
  BY DEF Settle, In, IInv, Typed, Sessions
<1>1. runs' = [runs EXCEPT ![r] = s]
  BY DEF Settle, IInv, Typed
<1>2. rt \in BOOLEAN /\ kp \in BOOLEAN /\ st \in {"cancelled", "completed", "failed"}
      /\ (rt => runs[r].how = "failed" /\ st = "failed")
      /\ (kp <=> runs[r].how = "unclean")
  <2>1. runs[r].verified => output = "complete"
    BY DEF IInv, Sessions
  <2> QED
    BY <2>1 DEF Retryable
<1> HIDE DEF st, rt, kp
<1>3. /\ s \in Session /\ s.pc = "settled" /\ s.how = runs[r].how
      /\ s.state = st /\ s.retry = rt /\ s.keep = kp
      /\ s.heard = runs[r].heard /\ s.lease = runs[r].lease
      /\ s.verified = runs[r].verified
  BY <1>0, <1>2 DEF Session, Live
<1> HIDE DEF s
<1>4. Coherent(s)
  BY <1>0, <1>2, <1>3 DEF Coherent, Open, Over, Live
<1>5. r = current
  BY <1>0 DEF IInv, Sessions, Known, Over
<1>6. r \in alive => runs[r].how = "unclean"
  BY <1>0 DEF IInv, Sessions, Known
<1>7. Sessions' /\ Submitting' /\ Stopped' /\ ExitMeansStopped'
  BY <1>0, <1>1, <1>3, <1>4, <1>5, <1>6, SessionMoves
     DEF Aside, IInv, Sessions, Over
<1>8. /\ runs' \in [Run -> Session]
      /\ \A q \in Run : runs'[q].lease = runs[q].lease
      /\ Known' = Known
  BY <1>0, <1>1, <1>3, OneSession DEF Known
<1>9. Alone'
  BY <1>0, <1>8, AloneLess DEF Aside, past
<1>10. Held'
  <2>1. current' # 0 => (runs'[current'].lease <=> runs[current].lease)
    BY <1>0, <1>5, <1>8
  <2> QED
    BY <1>0, <2>1 DEF IInv, Held, Aside
<1>11. Typed'
  BY <1>0, <1>8 DEF IInv, Typed, Aside, past
<1> QED
  BY <1>7, <1>9, <1>10, <1>11 DEF IInv

LEMMA ReleaseStep ==
  ASSUME IInv, NEW r \in Run, Release(r)
  PROVE  IInv'
<1> DEFINE st == IF runs[r].lost THEN "interrupted" ELSE runs[r].state
           rt == RetryAfter(r)
           kept == [runs[r] EXCEPT !.pc = "done", !.state = st, !.retry = rt]
           s(ok) == [kept EXCEPT !.lease = ~ok, !.keep = ~ok,
                                 !.retry = rt /\ ok]
<1>0. /\ Aside /\ Up /\ UNCHANGED <<bridge, current, alive, output>>
      /\ runs[r] \in Session /\ Coherent(runs[r]) /\ runs[r].pc = "settled"
  BY DEF Release, In, IInv, Typed, Sessions
<1>1. /\ rt \in BOOLEAN /\ (rt => runs[r].retry /\ st = runs[r].state)
      /\ st \in {"interrupted", runs[r].state}
      /\ runs[r].lease
  BY <1>0 DEF RetryAfter, Coherent
<1>2. r \in alive => runs[r].how = "unclean"
  BY <1>0 DEF IInv, Sessions, Known
<1>3. r = current \/ runs[r].how # "unclean"
  BY <1>0 DEF IInv, Sessions, Known
<1>4. \/ ~MayRelease(r) /\ runs' = [runs EXCEPT ![r] = kept]
         /\ UNCHANGED <<file, count>>
      \/ MayRelease(r) /\ \E ok \in BOOLEAN :
            DropLease(ok) /\ runs' = [runs EXCEPT ![r] = s(ok)]
  <2>1. runs[r].state = runs[r].state
    OBVIOUS
  <2>2. kept = [runs[r] EXCEPT !.pc = "done",
                   !.state = IF runs[r].lost THEN "interrupted" ELSE @,
                   !.retry = RetryAfter(r)]
    BY <1>0 DEF Session
  <2>3. kept.retry = rt
    BY <1>0 DEF Session
  <2> HIDE DEF st, rt
  <2>4. \A ok \in BOOLEAN :
          s(ok) = [kept EXCEPT !.lease = ~ok, !.keep = ~ok,
                               !.retry = @ /\ ok]
    BY <2>3
  <2> HIDE DEF kept, s
  <2> QED
    BY <2>2, <2>4 DEF Release
<1> HIDE DEF st, rt
<1>5. /\ kept \in Session /\ kept.pc = "done" /\ kept.how = runs[r].how
      /\ kept.state = st /\ kept.retry = rt /\ kept.keep = runs[r].keep
      /\ kept.heard = runs[r].heard /\ kept.lease = runs[r].lease
      /\ kept.verified = runs[r].verified
  BY <1>0, <1>1 DEF Session
<1> HIDE DEF kept
<1>6. ASSUME NEW ok \in BOOLEAN
      PROVE  /\ s(ok) \in Session /\ s(ok).pc = "done"
             /\ s(ok).how = runs[r].how /\ s(ok).state = st
             /\ s(ok).retry = (rt /\ ok) /\ s(ok).keep = ~ok
             /\ s(ok).heard = runs[r].heard /\ s(ok).lease = ~ok
             /\ s(ok).verified = runs[r].verified
  <2> DEFINE no == ~ok  ro == rt /\ ok
  <2>1. no \in BOOLEAN /\ ro \in BOOLEAN
    OBVIOUS
  <2>2. s(ok) = [kept EXCEPT !.lease = no, !.keep = no, !.retry = ro]
    OBVIOUS
  <2> HIDE DEF no, ro, s
  <2>3. /\ s(ok) \in Session /\ s(ok).pc = "done"
        /\ s(ok).how = runs[r].how /\ s(ok).state = st
        /\ s(ok).retry = ro /\ s(ok).keep = no
        /\ s(ok).heard = runs[r].heard /\ s(ok).lease = no
        /\ s(ok).verified = runs[r].verified
    BY <1>5, <2>1, <2>2 DEF Session
  <2> QED
    BY <2>3 DEF no, ro
<1> HIDE DEF s
<1>7. CASE ~MayRelease(r) /\ runs' = [runs EXCEPT ![r] = kept]
           /\ UNCHANGED <<file, count>>
  <2>1. runs[r].keep
    BY <1>1, <1>7 DEF MayRelease
  <2>2. Coherent(kept)
    BY <1>0, <1>1, <1>5, <2>1 DEF Coherent, Open, Over, Live
  <2>3. Sessions' /\ Submitting' /\ Stopped' /\ ExitMeansStopped'
    BY <1>0, <1>2, <1>3, <1>5, <1>7, <2>2, SessionMoves
       DEF Aside, IInv, Sessions, Over
  <2>4. /\ runs' \in [Run -> Session]
        /\ \A q \in Run : runs'[q].lease = runs[q].lease
        /\ Known' = Known
    BY <1>0, <1>5, <1>7, OneSession DEF Known
  <2>5. Alone'
    BY <1>0, <1>7, <2>4, AloneLess DEF Aside, past
  <2>6. Held'
    <3>1. current # 0 => current \in Run
      BY DEF IInv, Typed, Run
    <3> QED
      BY <1>0, <1>7, <2>4, <3>1 DEF IInv, Held, Aside
  <2>7. Typed'
    BY <1>0, <1>7, <2>4 DEF IInv, Typed, Aside, past
  <2> QED
    BY <2>3, <2>5, <2>6, <2>7 DEF IInv
<1>8. ASSUME NEW ok \in BOOLEAN, MayRelease(r), DropLease(ok),
             runs' = [runs EXCEPT ![r] = s(ok)]
      PROVE  IInv'
  <2>1. ~runs[r].keep /\ runs[r].how # "unclean"
    BY <1>0, <1>8 DEF MayRelease, Coherent, Over
  <2>2. Coherent(s(ok))
    BY <1>0, <1>1, <1>6, <2>1 DEF Coherent, Open, Over, Live
  <2>3. Sessions' /\ Submitting' /\ Stopped' /\ ExitMeansStopped'
    BY <1>0, <1>1, <1>2, <1>6, <1>8, <2>1, <2>2, SessionMoves
       DEF Aside, IInv, Sessions, Over
  <2>4. /\ runs' \in [Run -> Session] /\ runs'[r] = s(ok)
        /\ \A q \in Run : q # r => runs'[q] = runs[q]
    BY <1>6, <1>8, OneSession
  <2>5. Known' = Known
    BY <1>0, <1>6, <2>4 DEF Known
  <2>6. \/ ok /\ file = "mine" /\ file' = "none"
        \/ ~ok /\ file' = file
    BY <1>8 DEF DropLease
  <2>7. ~handed /\ ok => alive = {}
    <3> SUFFICES ASSUME ~handed, ok, NEW q \in alive PROVE FALSE
        OBVIOUS
    <3>1. q \in Known /\ r = current /\ q \in Run
      BY <1>1, <2>6 DEF IInv, Alone, Typed
    <3>2. runs[q].pc = "running" \/ runs[q].how = "unclean"
      BY <3>1 DEF IInv, Sessions
    <3>3. q = r
      BY <3>1, <3>2 DEF IInv, Sessions, Over
    <3> QED
      BY <1>2, <2>1, <3>3
  <2>8. Alone'
    <3>1. \A q \in Run : runs'[q].lease => runs[q].lease
      BY <1>1, <2>4
    <3>2. UNCHANGED <<current, start, output, handed>> /\ alive' \subseteq alive
      BY <1>0 DEF Aside, past
    <3> QED
      BY <1>1, <2>4, <2>5, <2>6, <2>7, <3>1, <3>2, AloneLess
  <2>9. Held'
    <3>1. current # 0 => current \in Run
      BY DEF IInv, Typed, Run
    <3> QED
      BY <1>0, <1>6, <2>4, <2>6, <3>1 DEF IInv, Held, Aside
  <2>10. Typed'
    <3>1. count' \in Count
      BY <1>8, FaultIs DEF DropLease, IInv, Typed
    <3>2. file' \in {"none", "mine", "torn", "old"}
      BY <2>6 DEF IInv, Typed
    <3> QED
      BY <1>0, <2>4, <3>1, <3>2 DEF IInv, Typed, Aside, past
  <2> QED
    BY <2>3, <2>8, <2>9, <2>10 DEF IInv
<1> QED
  BY <1>4, <1>7, <1>8

LEMMA PruneStep ==
  ASSUME IInv, Prune
  PROVE  IInv'
<1>0. /\ Aside /\ UNCHANGED <<bridge, runs, alive, file, output, count>> /\ Up
      /\ current \in Run /\ current' = 0
      /\ runs[current].pc = "done" /\ ~runs[current].keep
  BY DEF Prune, IInv, Typed, Run
<1>1. runs[current].how # "unclean" /\ ~runs[current].lease
  BY <1>0 DEF IInv, Sessions, Coherent, Over
<1>2. Typed'
  BY <1>0, Numbers DEF IInv, Typed, Aside, past
<1>3. Known' = Known
  BY <1>0 DEF Known
<1>4. Sessions'
  BY <1>0, <1>1, <1>3 DEF IInv, Sessions, Over
<1>5. Submitting'
  BY <1>0, <1>1, Numbers DEF IInv, Submitting, Underway, Aside
<1>6. Held'
  BY <1>0, <1>1 DEF IInv, Held, Aside
<1>7. Stopped'
  BY <1>0, StoppedSame DEF IInv, Aside, past
<1>8. Alone'
  BY <1>0, <1>1, <1>3 DEF IInv, Alone, Aside, past
<1> QED
  BY <1>0, <1>2, <1>4, <1>5, <1>6, <1>7, <1>8, ExitUp DEF IInv

-----------------------------------------------------------------------------
(* The cancellations.                                                       *)

(* No process of the bridge is left.                                        *)
LEMMA NoneLeft ==
  ASSUME IInv, MaySeal, current # 0 => runs[current].state \notin Live
  PROVE  alive \intersect Known = {}
<1> SUFFICES ASSUME NEW r \in alive, r \in Known PROVE FALSE
    OBVIOUS
<1>1. r \in Run /\ (runs[r].pc = "running" \/ runs[r].how = "unclean")
      /\ runs[r].pc # "none"
  BY DEF IInv, Sessions, Known
<1>2. r = current /\ current # 0
  BY <1>1, Numbers DEF IInv, Sessions, Over
<1>3. Coherent(runs[r]) /\ runs[r] \in Session
  BY <1>1 DEF IInv, Sessions, Typed
<1> QED
  BY <1>1, <1>2, <1>3 DEF MaySeal, Coherent, Open, Over, Session

Late == {"fact", "race", "durable", "done"}

(* A cancellation that ends, or that still waits, promises nothing.         *)
LEMMA StopMoves ==
  ASSUME IInv, NEW i \in Stop, NEW x \in StopRecord,
         stops' = [stops EXCEPT ![i] = x],
         x.pc \in Late /\ Underway => i \in start.heard,
         x.pc \in {"fact", "race"} => x.run \in Known /\
             \A r \in alive \intersect Known : r = x.run \/ i \in runs[r].heard,
         x.pc \in {"durable", "done"} =>
             \A r \in alive \intersect Known : i \in runs[r].heard,
         stops[i].pc # "done",
         \A r \in Run : runs'[r].pc = runs[r].pc
                        /\ runs'[r].heard = runs[r].heard,
         start'.heard = start.heard, start'.pc = start.pc,
         UNCHANGED <<alive, sealed, request>>
  PROVE  Stopped'
<1>1. stops'[i] = x /\ \A j \in Stop : j # i => stops'[j] = stops[j]
  BY DEF IInv, Typed
<1>2. Known' = Known /\ Known \subseteq Run
  BY DEF Known
<1>3. \A j \in Stop : j # i =>
        LET pc == stops'[j].pc IN
        /\ pc \in Late /\ Underway' => j \in start'.heard
        /\ pc \in {"fact", "race"} =>
               \A r \in alive' \intersect Known' :
                   r = stops'[j].run \/ j \in runs'[r].heard
        /\ pc \in {"fact", "race"} => stops'[j].run \in Known'
        /\ pc \in {"durable", "done"} =>
               \A r \in alive' \intersect Known' : j \in runs'[r].heard
  BY <1>1, <1>2 DEF IInv, Stopped, Underway, Late
<1>4. request' = "cancelled" => sealed' \in Stop /\ stops'[sealed'].pc = "done"
  BY <1>1 DEF IInv, Stopped
<1> QED
  BY <1>1, <1>2, <1>3, <1>4 DEF Stopped, Underway, Late

LEMMA StopRecordIs ==
  ASSUME Typed, NEW i \in Stop,
         NEW pc \in {"sent", "start", "fact", "race", "durable", "done",
                     "ready", "failed"}
  PROVE  /\ [stops[i] EXCEPT !.pc = pc] \in StopRecord
         /\ [stops[i] EXCEPT !.pc = pc].pc = pc
         /\ [stops[i] EXCEPT !.pc = pc].run = stops[i].run
         /\ StopTo(i, pc) =>
                stops' = [stops EXCEPT ![i] = [stops[i] EXCEPT !.pc = pc]]
BY DEF Typed, StopRecord, Answered, StopTo

(* The session found by a cancellation: what LookUp does.                   *)
LEMMA LookUpStep ==
  ASSUME IInv, NEW i \in Stop, LookUp(i), Quietly, ~Underway, Up,
         stops[i].pc # "done",
         UNCHANGED <<start, request, asked, sealed>>
  PROVE  IInv'
<1>1. CASE /\ current # 0 /\ runs[current].state \in Live
           /\ runs' = [runs EXCEPT ![current].state = "cancelling"]
           /\ stops' = [stops EXCEPT ![i] = [pc |-> "fact", run |-> current]]
  <2> DEFINE s == [runs[current] EXCEPT !.state = "cancelling"]
             x == [pc |-> "fact", run |-> current]
  <2>1. current \in Run /\ runs[current] \in Session /\ Coherent(runs[current])
    BY <1>1 DEF IInv, Typed, Sessions, Run
  <2>2. runs' = [runs EXCEPT ![current] = s]
    BY <1>1 DEF IInv, Typed
  <2>3. s \in Session /\ Alike(runs[current], s)
    <3>1. runs[current].pc \in Open
      BY <1>1, <2>1 DEF Coherent
    <3>2. /\ s \in Session /\ s.pc = runs[current].pc
          /\ s.state = "cancelling" /\ s.how = runs[current].how
          /\ s.lease = runs[current].lease /\ s.keep = runs[current].keep
          /\ s.retry = runs[current].retry /\ s.heard = runs[current].heard
          /\ s.verified = runs[current].verified
      BY <2>1 DEF Session, Live
    <3> HIDE DEF s
    <3> QED
      BY <2>1, <3>1, <3>2 DEF Alike, Coherent, Open, Over, Live
  <2> HIDE DEF s
  <2>4. runs' \in [Run -> Session] /\ Resembling
    BY <2>1, <2>2, <2>3, OneSession
  <2>5. x \in StopRecord /\ x.pc = "fact" /\ x.run = current
    BY DEF IInv, Typed, StopRecord
  <2> HIDE DEF x
  <2>6. \A r \in alive \intersect Known : r = current
    BY DEF IInv, Sessions, Over
  <2>7. Stopped'
    <3>1. \A r \in Run : runs'[r].pc = runs[r].pc
                         /\ runs'[r].heard = runs[r].heard
      BY <2>4 DEF Resembling, Alike
    <3>2. stops' = [stops EXCEPT ![i] = x]
      BY <1>1 DEF x
    <3>3. current \in Known
      BY <1>1, <2>1 DEF IInv, Sessions, Known
    <3> QED
      BY <2>5, <2>6, <3>1, <3>2, <3>3, StopMoves DEF Quietly
  <2>8. Typed'
    <3>1. stops' \in [Stop -> StopRecord]
      BY <1>1, <2>5 DEF x, IInv, Typed
    <3> QED
      BY <2>4, <3>1 DEF IInv, Typed, Quietly
  <2>9. Sessions' /\ Held' /\ Alone' /\ Submitting'
    BY <2>4, MinorStep DEF Quietly
  <2> QED
    BY <2>7, <2>8, <2>9, ExitUp DEF IInv, Quietly
<1>2. CASE /\ ~(current # 0 /\ runs[current].state \in Live)
           /\ StopTo(i, IF MaySeal THEN "durable" ELSE "failed")
           /\ UNCHANGED runs
  <2> DEFINE pc == IF MaySeal THEN "durable" ELSE "failed"
             x == [stops[i] EXCEPT !.pc = pc]
  <2>2. pc = "durable" => alive \intersect Known = {}
    BY <1>2, NoneLeft
  <2>3. pc \in {"durable", "failed"}
    OBVIOUS
  <2>0. StopTo(i, pc)
    BY <1>2
  <2> HIDE DEF pc
  <2>4. pc \in {"sent", "start", "fact", "race", "durable", "done", "ready",
                "failed"}
    BY <2>3
  <2>1. /\ x \in StopRecord /\ x.pc = pc
        /\ stops' = [stops EXCEPT ![i] = x]
    BY <2>0, <2>4, StopRecordIs DEF IInv
  <2> HIDE DEF x
  <2>5. Stopped'
    BY <1>2, <2>1, <2>2, <2>3, StopMoves DEF Quietly, Late
  <2>6. Typed'
    BY <1>2, <2>1 DEF IInv, Typed, Quietly
  <2> QED
    BY <1>2, <2>5, <2>6, Apart DEF Quietly
<1> QED
  BY <1>1, <1>2 DEF LookUp

LEMMA ReceiveStopStep ==
  ASSUME IInv, NEW i \in Stop, ReceiveStop(i) \/ StartSettled(i)
  PROVE  IInv'
<1>0. /\ Quietly /\ UNCHANGED <<request, asked, sealed>> /\ Up
      /\ stops[i].pc \in {"sent", "start"}
  BY DEF ReceiveStop, StartSettled, Stopping
<1>1. CASE LookUp(i) /\ UNCHANGED start /\ start.pc = "none"
  BY <1>0, <1>1, LookUpStep DEF Underway
<1>2. CASE /\ start' = [start EXCEPT !.cancelled = TRUE]
           /\ StopTo(i, "start") /\ UNCHANGED runs
  <2> DEFINE x == [stops[i] EXCEPT !.pc = "start"]
  <2>1. /\ x \in StopRecord /\ x.pc = "start"
        /\ stops' = [stops EXCEPT ![i] = x]
    BY <1>2, StopRecordIs DEF IInv
  <2> HIDE DEF x
  <2>2. /\ start' \in Submission /\ start'.pc = start.pc
        /\ start'.prior = start.prior /\ start'.heard = start.heard
    BY <1>2 DEF IInv, Typed, Submission
  <2>3. Stopped'
    BY <1>0, <1>2, <2>1, <2>2, StopMoves DEF Quietly, Late
  <2>4. Typed'
    BY <1>0, <1>2, <2>1, <2>2 DEF IInv, Typed, Quietly
  <2>5. Sessions'
    BY <1>0, <1>2, SessionsSame DEF IInv, Quietly
  <2>6. Submitting' /\ Held' /\ Alone'
    BY <1>0, <1>2, <2>2
       DEF IInv, Submitting, Underway, Held, Alone, Known, Quietly
  <2> QED
    BY <1>0, <2>3, <2>4, <2>5, <2>6, ExitUp DEF IInv, Quietly
<1>3. CASE StopTo(i, "failed") /\ UNCHANGED <<runs, start>>
  <2> DEFINE x == [stops[i] EXCEPT !.pc = "failed"]
  <2>1. /\ x \in StopRecord /\ x.pc = "failed"
        /\ stops' = [stops EXCEPT ![i] = x]
    BY <1>3, StopRecordIs DEF IInv
  <2> HIDE DEF x
  <2>2. Stopped'
    BY <1>0, <1>3, <2>1, StopMoves DEF Quietly, Late
  <2>3. Typed'
    BY <1>0, <1>3, <2>1 DEF IInv, Typed, Quietly
  <2> QED
    BY <1>0, <1>3, <2>2, <2>3, Apart DEF Quietly
<1> QED
  BY <1>1, <1>2, <1>3 DEF ReceiveStop, StartSettled, Starting

LEMMA AbortStep ==
  ASSUME IInv, NEW i \in Stop, Abort(i)
  PROVE  IInv'
<1> DEFINE r == stops[i].run
           s == [runs[r] EXCEPT !.aborted = TRUE]
           x == [stops[i] EXCEPT !.pc = "race"]
<1>0. /\ Quietly /\ UNCHANGED <<start, request, sealed>> /\ Up
      /\ stops[i].pc = "fact" /\ asked' = TRUE
  BY DEF Abort, Stopping
<1>1. r \in Run /\ runs[r] \in Session /\ Coherent(runs[r])
  BY <1>0 DEF IInv, Typed, Sessions, Stopped, Known
<1>2. runs' = [runs EXCEPT ![r] = s]
  BY DEF Abort, IInv, Typed
<1>3. s \in Session /\ Alike(runs[r], s)
  <2>1. /\ s \in Session /\ s.pc = runs[r].pc
        /\ s.state = runs[r].state /\ s.how = runs[r].how
        /\ s.lease = runs[r].lease /\ s.keep = runs[r].keep
        /\ s.retry = runs[r].retry /\ s.heard = runs[r].heard
        /\ s.verified = runs[r].verified
    BY <1>1 DEF Session
  <2>2. s.pc # "none"
    BY <1>0, <2>1 DEF IInv, Stopped, Known
  <2> HIDE DEF s
  <2> QED
    BY <1>1, <2>1, <2>2 DEF Alike, Coherent
<1>4. runs' \in [Run -> Session] /\ Resembling
  BY <1>1, <1>2, <1>3, OneSession
<1>5. /\ x \in StopRecord /\ x.pc = "race" /\ x.run = r
      /\ stops' = [stops EXCEPT ![i] = x]
  BY StopRecordIs DEF IInv, Abort
<1> HIDE DEF x, s
<1>6. Stopped'
  <2>1. \A q \in Run : runs'[q].pc = runs[q].pc /\ runs'[q].heard = runs[q].heard
    BY <1>4 DEF Resembling, Alike
  <2>2. /\ Underway => i \in start.heard
        /\ r \in Known
        /\ \A q \in alive \intersect Known : q = r \/ i \in runs[q].heard
    BY <1>0 DEF IInv, Stopped
  <2> QED
    BY <1>0, <1>5, <2>1, <2>2, StopMoves DEF Quietly
<1>7. Typed'
  BY <1>0, <1>4, <1>5 DEF IInv, Typed, Quietly
<1>8. Sessions' /\ Held' /\ Alone' /\ Submitting'
  BY <1>0, <1>4, MinorStep DEF Quietly
<1> QED
  BY <1>0, <1>6, <1>7, <1>8, ExitUp DEF IInv, Quietly

(* Steps of a cancellation that touch nothing else.                         *)
LEMMA OnlyStop ==
  ASSUME IInv, NEW i \in Stop,
         NEW pc \in {"durable", "done", "ready", "failed"},
         StopTo(i, pc), Quietly, UNCHANGED <<start, runs, request, asked, sealed>>,
         stops[i].pc # "done",
         pc = "durable" => /\ Underway => i \in start.heard
                           /\ \A r \in alive \intersect Known :
                                  i \in runs[r].heard,
         pc # "done"
  PROVE  IInv'
<1> DEFINE x == [stops[i] EXCEPT !.pc = pc]
<1>0. pc \in {"sent", "start", "fact", "race", "durable", "done", "ready",
             "failed"}
  OBVIOUS
<1>1. x \in StopRecord /\ x.pc = pc /\ stops' = [stops EXCEPT ![i] = x]
  BY <1>0, StopRecordIs DEF IInv
<1> HIDE DEF x
<1>2. Stopped'
  BY <1>1, StopMoves DEF Quietly, Late
<1>3. Typed'
  BY <1>1 DEF IInv, Typed, Quietly
<1> QED
  BY <1>2, <1>3, Apart DEF Quietly

LEMMA RunStoppedStep ==
  ASSUME IInv, NEW i \in Stop, RunStopped(i)
  PROVE  IInv'
<1> DEFINE r == stops[i].run
<1>0. /\ Quietly /\ UNCHANGED <<start, runs, request, asked, sealed>>
      /\ stops[i].pc = "race" /\ runs[r].pc = "done"
  BY DEF RunStopped, Stopping
<1>1. CASE StopTo(i, "failed")
  BY <1>0, <1>1, OnlyStop
<1>2. CASE StopTo(i, "durable") /\ ~runs[r].keep
  <2>1. r \in Known /\ Coherent(runs[r])
    BY <1>0 DEF IInv, Stopped, Sessions, Known
  <2>2. r \notin alive
    BY <1>0, <1>2, <2>1 DEF IInv, Sessions, Coherent, Over
  <2> QED
    BY <1>0, <1>2, <2>2, OnlyStop DEF IInv, Stopped
<1> QED
  BY <1>1, <1>2 DEF RunStopped

LEMMA StopTimesOutStep ==
  ASSUME IInv, NEW i \in Stop, StopTimesOut(i)
  PROVE  IInv'
<1>1. /\ Quietly /\ UNCHANGED <<start, runs, request, asked, sealed>>
      /\ stops[i].pc \in {"start", "race"} /\ StopTo(i, "failed")
  BY DEF StopTimesOut
<1> QED
  BY <1>1, OnlyStop

(* The Request is cancelled, and its cancellation is sealed.                *)
LEMMA DurableStep ==
  ASSUME IInv, NEW i \in Stop, Durable(i)
  PROVE  IInv'
<1>0. /\ Quietly /\ UNCHANGED <<start, runs, asked>>
      /\ stops[i].pc = "durable"
  BY DEF Durable, Stopping
<1>1. /\ Underway => i \in start.heard
      /\ \A r \in alive \intersect Known : i \in runs[r].heard
  BY <1>0 DEF IInv, Stopped
<1>2. CASE request # "processing"
  <2>1. UNCHANGED <<request, sealed>> /\ (StopTo(i, "done") \/ StopTo(i, "ready"))
    BY <1>2 DEF Durable
  <2>2. CASE StopTo(i, "ready")
    BY <1>0, <2>1, <2>2, OnlyStop
  <2>3. CASE StopTo(i, "done")
    <3> DEFINE x == [stops[i] EXCEPT !.pc = "done"]
    <3>1. /\ x \in StopRecord /\ x.pc = "done"
          /\ stops' = [stops EXCEPT ![i] = x]
      BY <2>3, StopRecordIs DEF IInv
    <3> HIDE DEF x
    <3>2. Stopped'
      BY <1>0, <1>1, <2>1, <3>1, StopMoves DEF Quietly
    <3>3. Typed'
      BY <1>0, <2>1, <3>1 DEF IInv, Typed, Quietly
    <3> QED
      BY <1>0, <3>2, <3>3, Apart DEF Quietly
  <2> QED
    BY <2>1, <2>2, <2>3
<1>3. CASE request = "processing"
  <2> DEFINE x == [stops[i] EXCEPT !.pc = "done"]
  <2>1. /\ request' = "cancelled" /\ sealed' = i /\ StopTo(i, "done")
    BY <1>3 DEF Durable
  <2>2. /\ x \in StopRecord /\ x.pc = "done"
        /\ stops' = [stops EXCEPT ![i] = x]
    BY <2>1, StopRecordIs DEF IInv
  <2> HIDE DEF x
  <2>3. /\ stops'[i].pc = "done"
        /\ \A j \in Stop : j # i => stops'[j] = stops[j]
    BY <2>2 DEF IInv, Typed
  <2>4. Known' = Known
    BY <1>0 DEF Known
  <2>5. Stopped'
    BY <1>0, <1>1, <2>1, <2>3, <2>4 DEF IInv, Stopped, Underway, Quietly
  <2>6. Typed'
    <3>1. sealed' \in 0..MaxStops
      BY <2>1, Numbers DEF Stop
    <3> QED
      BY <1>0, <2>1, <2>2, <3>1 DEF IInv, Typed, Quietly
  <2> QED
    BY <1>0, <2>5, <2>6, Apart DEF Quietly
<1> QED
  BY <1>2, <1>3

-----------------------------------------------------------------------------
(* The end of the bridge.                                                   *)
LEMMA ClosingIs ==
  ASSUME Typed, NEW from, NEW to \in {"no", "starts", "runs", "gone"},
         Closing(from, to)
  PROVE  /\ bridge' \in Bridge /\ bridge.closing = from
         /\ bridge'.closing = to /\ ~bridge'.accepting
         /\ bridge'.fenced = bridge.fenced
BY DEF Typed, Bridge, Closing

(* The bridge goes on closing, or gives it up.                              *)
LEMMA StillThere ==
  ASSUME IInv, NEW from, NEW to \in {"no", "starts"}, Closing(from, to),
         Elsewhere, UNCHANGED <<runs, count>>
  PROVE  IInv'
<1>1. /\ bridge' \in Bridge /\ bridge'.closing = to /\ ~bridge'.accepting
      /\ bridge'.fenced = bridge.fenced
  BY ClosingIs DEF IInv
<1>2. Typed'
  BY <1>1 DEF IInv, Typed, Elsewhere, disk, past
<1>3. Sessions' /\ Held' /\ Stopped' /\ Alone'
  BY <1>1, SessionsSame, HeldSame, StoppedSame, AloneSame
     DEF IInv, Elsewhere, disk, past
<1>4. Submitting'
  BY <1>1 DEF IInv, Submitting, Underway, Elsewhere
<1>5. ExitMeansStopped'
  BY <1>1 DEF ExitMeansStopped
<1> QED
  BY <1>2, <1>3, <1>4, <1>5 DEF IInv

LEMMA StartsSettledStep ==
  ASSUME IInv, StartsSettled
  PROVE  IInv'
<1>1. /\ bridge' \in Bridge /\ bridge'.closing = "runs" /\ ~bridge'.accepting
      /\ bridge'.fenced = bridge.fenced
  BY ClosingIs DEF IInv, StartsSettled
<1>2. Elsewhere /\ UNCHANGED count /\ ~Underway
  BY DEF StartsSettled, Underway
<1>3. runs' \in [Run -> Session] /\ Resembling
  <2> DEFINE s(r) == IF r = current /\ runs[r].state \in Live
                     THEN [runs[r] EXCEPT !.aborted = TRUE] ELSE runs[r]
  <2>1. runs' = [r \in Run |-> s(r)]
    BY DEF StartsSettled
  <2>2. ASSUME NEW r \in Run
        PROVE  s(r) \in Session /\ Alike(runs[r], s(r))
    <3>1. runs[r] \in Session /\ Coherent(runs[r])
      BY DEF IInv, Typed, Sessions
    <3>2. Alike(runs[r], runs[r])
      BY <3>1 DEF Alike
    <3>3. CASE r = current /\ runs[r].state \in Live
      <4>1. s(r) = [runs[r] EXCEPT !.aborted = TRUE] /\ runs[r].pc # "none"
        BY <3>1, <3>3 DEF Coherent, Open
      <4> HIDE DEF s
      <4>2. /\ s(r) \in Session /\ s(r).pc = runs[r].pc
            /\ s(r).state = runs[r].state /\ s(r).how = runs[r].how
            /\ s(r).lease = runs[r].lease /\ s(r).keep = runs[r].keep
            /\ s(r).retry = runs[r].retry /\ s(r).heard = runs[r].heard
            /\ s(r).verified = runs[r].verified
        BY <3>1, <4>1 DEF Session
      <4> QED
        BY <3>1, <4>1, <4>2 DEF Alike, Coherent
    <3> QED
      BY <3>1, <3>2, <3>3
  <2> HIDE DEF s
  <2> QED
    BY <2>1, <2>2 DEF Resembling
<1>4. Typed'
  BY <1>1, <1>2, <1>3 DEF IInv, Typed, Elsewhere, disk, past
<1>5. Sessions' /\ Held' /\ Alone'
  BY <1>1, <1>2, <1>3, MinorStep DEF Elsewhere, disk, past
<1>6. Stopped'
  BY <1>2, <1>3, StoppedAlike DEF Elsewhere, disk, past
<1>7. Submitting'
  BY <1>1, <1>2 DEF Submitting, Underway, Elsewhere
<1>8. ExitMeansStopped'
  BY <1>1 DEF ExitMeansStopped
<1> QED
  BY <1>4, <1>5, <1>6, <1>7, <1>8 DEF IInv

LEMMA RunsSettledStep ==
  ASSUME IInv, RunsSettled
  PROVE  IInv'
<1>1. CASE ~Confirmed
  BY <1>1, StillThere DEF RunsSettled
<1>2. CASE Confirmed
  <2>1. /\ bridge' \in Bridge /\ bridge'.closing = "gone" /\ ~bridge'.accepting
        /\ bridge'.fenced = bridge.fenced /\ bridge.closing = "runs"
    BY <1>2, ClosingIs DEF IInv, RunsSettled
  <2>2. Elsewhere /\ UNCHANGED <<runs, count>> /\ ~bridge.fenced /\ MaySeal
        /\ (current # 0 => runs[current].pc = "done")
    BY <1>2 DEF RunsSettled, Confirmed
  <2>3. Typed'
    BY <2>1, <2>2 DEF IInv, Typed, Elsewhere, disk, past
  <2>4. Sessions' /\ Held' /\ Stopped' /\ Alone'
    BY <2>1, <2>2, SessionsSame, HeldSame, StoppedSame, AloneSame
       DEF IInv, Elsewhere, disk, past
  <2>5. Submitting'
    BY <2>1, <2>2 DEF IInv, Submitting, Underway, Elsewhere
  <2>6. alive \intersect Known = {}
    <3>1. current # 0 => current \in Run
      BY DEF IInv, Typed, Run
    <3>2. current # 0 => runs[current].state \notin Live
      BY <2>2, <3>1 DEF IInv, Sessions, Coherent, Open
    <3> QED
      BY <2>2, <3>2, NoneLeft
  <2>7. file # "mine"
    BY <2>1, <2>2 DEF IInv, Held, Submitting, Underway, MaySeal
  <2>8. ExitMeansStopped'
    BY <2>2, <2>6, <2>7 DEF ExitMeansStopped, Known, Elsewhere, disk
  <2> QED
    BY <2>3, <2>4, <2>5, <2>8 DEF IInv
<1> QED
  BY <1>1, <1>2

LEMMA RelaunchStep ==
  ASSUME IInv, Relaunch
  PROVE  IInv'
<1>1. /\ bridge' = [accepting |-> TRUE, fenced |-> FALSE, closing |-> "no"]
      /\ start' = NoStart /\ runs' = [r \in Run |-> NoSession] /\ current' = 0
      /\ UNCHANGED <<client, alive, request, asked, output, past>>
      /\ file' # "mine" /\ (file = "none" <=> file' = "none")
      /\ file' \in {file, "old"}
  BY DEF Relaunch
<1>2. stops' \in [Stop -> StopRecord] /\ \A i \in Stop :
          /\ stops'[i].pc \notin {"fact", "race", "durable"}
          /\ stops'[i].pc = "done" <=> stops[i].pc = "done"
  <2> DEFINE s(i) == IF stops[i].pc \in Answered \union {"none", "sent"}
                     THEN stops[i] ELSE [stops[i] EXCEPT !.pc = "failed"]
  <2>1. stops' = [i \in Stop |-> s(i)]
    BY DEF Relaunch
  <2>2. ASSUME NEW i \in Stop
        PROVE  /\ s(i) \in StopRecord
               /\ s(i).pc \notin {"fact", "race", "durable"}
               /\ s(i).pc = "done" <=> stops[i].pc = "done"
    <3>1. stops[i] \in StopRecord
      BY DEF IInv, Typed
    <3> QED
      BY <3>1 DEF StopRecord, Answered
  <2> HIDE DEF s
  <2> QED
    BY <2>1, <2>2
<1>3. Typed'
  <2>1. count' \in Count
    BY Numbers DEF IInv, Typed, Count, Relaunch
  <2>2. bridge' \in Bridge
    BY <1>1 DEF Bridge
  <2>3. runs' \in [Run -> Session] /\ current' \in 0..MaxRuns
    BY <1>1, NoSessionIs, Numbers
  <2>4. file' \in {"none", "mine", "torn", "old"}
    BY <1>1 DEF IInv, Typed
  <2> QED
    BY <1>1, <1>2, <2>1, <2>2, <2>3, <2>4, NoStartIs DEF IInv, Typed, past
<1>4. \A r \in Run : /\ runs'[r] = NoSession /\ Coherent(runs'[r])
                     /\ ~runs'[r].lease /\ ~runs'[r].verified
  BY <1>1, NoSessionIs DEF NoSession
<1>5. Known' = {}
  BY <1>4 DEF Known, NoSession
<1>6. Sessions'
  BY <1>1, <1>4, <1>5 DEF Sessions
<1>7. Submitting' /\ Held' /\ ExitMeansStopped'
  BY <1>1, NoStartIs DEF Submitting, Underway, Held, ExitMeansStopped
<1>8. Stopped'
  BY <1>1, <1>2, <1>5, NoStartIs DEF IInv, Stopped, Underway, past
<1>9. Alone'
  BY <1>1, <1>4, NoStartIs DEF IInv, Alone, past
<1> QED
  BY <1>3, <1>6, <1>7, <1>8, <1>9 DEF IInv

-----------------------------------------------------------------------------
LEMMA StepInv == IInv /\ [Next]_vars => IInv'
<1> SUFFICES ASSUME IInv, [Next]_vars PROVE IInv'
    OBVIOUS
<1>1. CASE UNCHANGED vars
  <2>1. Typed' /\ Stopped'
    BY <1>1, StoppedSame DEF IInv, Typed, vars, disk, past
  <2> QED
    BY <1>1, <2>1, Apart DEF vars, disk, past
<1>2. CASE StartAgent \/ SendStart \/ CancelReturns
           \/ \E i \in Stop : Cancel(i)
  BY <1>2, ClientStep, CancelStep
<1>3. CASE Submit \/ TaskRead \/ PolicyLoaded \/ LeaseTaken
           \/ Verified \/ VerifyFails \/ Spawn \/ Withdraw \/ FactFails
  BY <1>3, SubmitStep, TaskReadStep, PolicyLoadedStep, LeaseTakenStep,
     VerifiedStep, GivingUpStep, SpawnStep
<1>4. CASE Prune \/ Ingest
           \/ \E r \in Run : Write(r) \/ Finalize(r) \/ TurnCompleted(r)
                             \/ HistoryFails(r) \/ Settle(r) \/ Release(r)
                             \/ ProcessEnds(r)
  BY <1>4, PruneStep, IngestStep, WriteStep, TurnCompletedStep, SettleStep,
     ReleaseStep, ProcessEndsStep
<1>5. ASSUME NEW r \in Run, NEW how \in {"ok", "failed", "unclean"},
             Exit(r, how)
      PROVE  IInv'
  BY <1>5, ExitStep
<1>6. CASE \E i \in Stop : ReceiveStop(i) \/ StartSettled(i) \/ Abort(i)
                           \/ RunStopped(i) \/ StopTimesOut(i) \/ Durable(i)
  BY <1>6, ReceiveStopStep, AbortStep, RunStoppedStep, StopTimesOutStep,
     DurableStep
<1>7. CASE Shutdown \/ ShutdownTimesOut
  BY <1>7, StillThere DEF Shutdown, ShutdownTimesOut
<1>8. CASE StartsSettled \/ RunsSettled \/ Crash \/ Reopen
  BY <1>8, StartsSettledStep, RunsSettledStep, RelaunchStep DEF Crash, Reopen
<1> QED
  BY <1>1, <1>2, <1>3, <1>4, <1>5, <1>6, <1>7, <1>8 DEF Next

(* Every reachable state satisfies the invariant, whatever submissions,      *)
(* stops, faults, crashes and relaunches interleave.                         *)
THEOREM Invariance == Spec => []IInv
  BY InitInv, StepInv, PTL DEF Spec

(* Every variable has its type; only a run that failed may be tried again,  *)
(* and only a lease that is held can be kept.                               *)
THEOREM TypeCorrect == Spec => []TypeOK
<1>1. IInv => TypeOK
  BY TypedCoherently DEF IInv
<1> QED
  BY <1>1, Invariance, PTL

(* A lease file of this bridge is held by a submission or by a session, or  *)
(* the bridge knows that it lost track of it (submit, releaseAgentLease).   *)
THEOREM LeasesAreAccountedFor == Spec => []LeaseAccountedFor
<1>1. IInv => LeaseAccountedFor
  <2> SUFFICES ASSUME IInv PROVE LeaseAccountedFor
      OBVIOUS
  <2>1. current # 0 => current \in Known
    BY DEF IInv, Typed, Sessions, Known, Run
  <2> QED
    BY <2>1 DEF IInv, Held, LeaseAccountedFor
<1> QED
  BY <1>1, Invariance, PTL

(* A bridge that exited in the orderly way (shutdown) left no process that  *)
(* it started and no lease that it owned.                                   *)
THEOREM ExitLeavesNothing == Spec => []ExitMeansStopped
<1>1. IInv => ExitMeansStopped
  BY DEF IInv
<1> QED
  BY <1>1, Invariance, PTL

(* When the Request is cancelled on disk, no submission that reached the    *)
(* bridge before the cancellation still has, or gets, an Agent              *)
(* (cancelDurableExecution waits for the submission and for the run).       *)
THEOREM StopReachesEarlierStarts == Spec => []StopCoversEarlierStarts
<1>1. IInv => StopCoversEarlierStarts
  BY DEF IInv, Stopped, StopCoversEarlierStarts
<1> QED
  BY <1>1, Invariance, PTL

(* Only Spawn starts a process.                                             *)
LEMMA OnlySpawn ==
  ASSUME [Next]_vars, NEW r \in alive' \ alive
  PROVE  Spawn
BY DEF Next, vars, disk, past, StartAgent, SendStart, CancelReturns, Submit,
   TaskRead, PolicyLoaded, LeaseTaken, Verified, VerifyFails, Withdraw,
   FactFails, Prune, Ingest, Shutdown, StartsSettled, RunsSettled,
   ShutdownTimesOut, Crash, Reopen, Relaunch, Elsewhere, Write, Finalize,
   TurnCompleted, HistoryFails, Settle, Release, ProcessEnds, Exit, Cancel,
   ReceiveStop, StartSettled, Abort, RunStopped, StopTimesOut, Durable,
   Quietly

(* An Agent is started only when no process of an earlier start can be left *)
(* and nothing was written for the Request: retries, restarts of the bridge *)
(* and lost cleanups included, unless a retry took over the lease of a run  *)
(* that was still closing (submit, loadExecutionPolicy, acquireAgentLease). *)
THEOREM StartsFindNothing == Spec => StartsClean
<1>1. IInv /\ [Next]_vars =>
        [\A r \in alive' \ alive :
            (alive = {} /\ output = "none") \/ handed]_vars
  <2> SUFFICES ASSUME IInv, [Next]_vars, NEW r \in alive' \ alive, ~handed
               PROVE  alive = {} /\ output = "none"
      OBVIOUS
  <2>1. start.pc = "fact"
    BY OnlySpawn DEF Spawn, At
  <2> QED
    BY <2>1 DEF IInv, Alone
<1> QED
  BY <1>1, Invariance, PTL DEF StartsClean, Spec
=============================================================================
