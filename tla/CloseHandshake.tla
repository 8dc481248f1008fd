---------------------------- MODULE CloseHandshake ----------------------------
(***************************************************************************)
(* CloseHandshake: how the main process and the renderer agree that the    *)
(* window may close, while files are being opened from outside.            *)
(*                                                                         *)
(* The main process runs one exit at a time: it asks the renderer, waits   *)
(* for its answer or a timeout, retries once, then lets its own writes and *)
(* the bridge finish and exits.  The renderer freezes navigation and the   *)
(* canvas, saves what is not saved and answers; every wait of prepareClose *)
(* is a step, and the preparation of an attempt the main process has given *)
(* up may still be running when the next attempt begins.  The two talk     *)
(* through ordered channels.  Files opened from Finder go through a FIFO   *)
(* mailbox whose head alone is delivered, and through a record on disk     *)
(* once the exit is decided.                                               *)
(*                                                                         *)
(* Left out: a window without a loaded renderer, hydration, history waits, *)
(* open confirmations, intents (quit, relaunch, update differ only in the  *)
(* last call), and the watcher.                                            *)
(***************************************************************************)
EXTENDS Naturals, Sequences, SequencesExt

CONSTANTS
    Request,     \* files opened from outside
    NoRequest,
    MaxCloses,   \* bound: close attempts, each with an identity of its own
    MaxEdits     \* bound: edits of the document

ASSUME CloseAssumption ==
    /\ NoRequest \notin Request
    /\ MaxCloses \in Nat \ {0}
    /\ MaxEdits \in Nat

VARIABLES
    exit,        \* coordinateApplicationExit: its place, attempt and retries
    bridge,      \* the bridge process
    mailbox,     \* externalFileOpenMailbox: requests not yet acknowledged
    delivered,   \* the head the delivery coordinator has sent
    handoff,     \* the exit handoff record on disk
    toRenderer,  \* messages to the renderer, in order
    toMain,      \* and from it
    closeFreeze, \* the navigation's closeFreeze: an attempt or 0
    close,       \* the project workflow's close phase and its attempt
    preparing,   \* closeLifecycle.preparingRequestId
    frozen,      \* closeLifecycle.frozenRequestId
    aborted,     \* closeLifecycle.abortedRequestIds
    prep,        \* where prepareClose of each attempt is suspended
    cutoff,      \* the revision it froze, if it imposed the freeze
    locked,      \* the canvas accepts no edit
    edits,       \* revisions of the document: made and on disk
    note,        \* the conversation draft has unsaved text
    tabSwitch,   \* another navigation transaction is active
    opening,     \* the external request in the renderer and where it is
    acking,      \* the request whose acknowledgement is in flight
    published,   \* history: every request in the order it was published
    opened,      \* history: requests acknowledged, in order
    outlived     \* history: two preparations were alive at once

main == <<exit, bridge, mailbox, delivered, handoff>>
closing == <<closeFreeze, close, preparing, frozen, aborted, prep, cutoff>>
work == <<locked, edits, note>>
navigation == <<tabSwitch, opening, acking>>
history == <<published, opened, outlived>>
vars == <<main, toRenderer, toMain, closing, work, navigation, history>>

Attempt == 1..MaxCloses
NotFrozen == MaxEdits + 1
NotOpening == [pc |-> "none", id |-> NoRequest]
Idle == [phase |-> "idle", id |-> 0]
Quitting == {"flushing", "stopping", "leaving"}
Suspended == {"navigation", "opens", "draining", "reconciling"}
Message(type, id) == [type |-> type, id |-> id]
MessageToRenderer == [type : {"prepare", "abort"}, id : Attempt]
                     \cup [type : {"open", "acknowledged"}, id : Request]
MessageToMain == [type : {"ready", "blocked", "retry"}, id : Attempt]
                 \cup [type : {"acknowledge"}, id : Request]

TypeOK ==
    /\ exit \in [pc : {"none", "asking", "pausing", "gone"} \cup Quitting,
                 id : 0..MaxCloses, retries : 0..1]
    /\ bridge \in {"up", "stopping", "down"}
    /\ mailbox \in Seq(Request)
    /\ delivered \in Request \cup {NoRequest}
    /\ handoff \in Seq(Request)
    /\ toRenderer \in Seq(MessageToRenderer)
    /\ toMain \in Seq(MessageToMain)
    /\ closeFreeze \in 0..MaxCloses
    /\ close \in [phase : {"idle", "preparing", "ready"}, id : 0..MaxCloses]
    /\ preparing \in 0..MaxCloses
    /\ frozen \in 0..MaxCloses
    /\ aborted \subseteq Attempt
    /\ prep \in [Attempt -> Suspended \cup {"none", "done"}]
    /\ cutoff \in [Attempt -> 0..NotFrozen]
    /\ locked \in BOOLEAN
    /\ edits \in [made : 0..MaxEdits, saved : 0..MaxEdits]
    /\ note \in BOOLEAN
    /\ tabSwitch \in BOOLEAN
    /\ opening \in [pc : {"none", "queued", "opening"},
                    id : Request \cup {NoRequest}]
    /\ acking \in Request \cup {NoRequest}
    /\ published \in Seq(Request)
    /\ opened \in Seq(Request)
    /\ outlived \in BOOLEAN

Init ==
    /\ exit = [pc |-> "none", id |-> 0, retries |-> 0]
    /\ bridge = "up"
    /\ mailbox = <<>>
    /\ delivered = NoRequest
    /\ handoff = <<>>
    /\ toRenderer = <<>>
    /\ toMain = <<>>
    /\ closeFreeze = 0
    /\ close = Idle
    /\ preparing = 0
    /\ frozen = 0
    /\ aborted = {}
    /\ prep = [a \in Attempt |-> "none"]
    /\ cutoff = [a \in Attempt |-> NotFrozen]
    /\ locked = FALSE
    /\ edits = [made |-> 0, saved |-> 0]
    /\ note = FALSE
    /\ tabSwitch = FALSE
    /\ opening = NotOpening
    /\ acking = NoRequest
    /\ published = <<>>
    /\ opened = <<>>
    /\ outlived = FALSE

-----------------------------------------------------------------------------
(* The main process.                                                        *)

(* deliverExternalMailboxHead: the head goes out once.  Deliver replaces    *)
(* the mailbox and sends msgs first, then the head if it has not been sent. *)
ShouldDeliver(mb, dl) == mb # <<>> /\ Head(mb) # dl

Deliver(mb, dl, msgs) ==
    /\ mailbox' = mb
    /\ delivered' = IF ShouldDeliver(mb, dl) THEN Head(mb) ELSE dl
    /\ toRenderer' = toRenderer \o msgs \o
                     (IF ShouldDeliver(mb, dl)
                      THEN <<Message("open", Head(mb))>> ELSE <<>>)

(* finishCloseAbort: the abort of the exact attempt, then the head.  When   *)
(* the exit was already decided, the requests deferred to the next launch   *)
(* come back into the mailbox first.                                        *)
MutantFinishAbort == Deliver(mailbox, delivered, <<>>) /\ UNCHANGED handoff
FinishAbort ==
    /\ Deliver(mailbox \o handoff, delivered, <<Message("abort", exit.id)>>)
    /\ handoff' = <<>>

Ended == exit' = [exit EXCEPT !.pc = "none", !.retries = 0]

(* requestRendererClose, first from coordinateApplicationExit and again     *)
(* 400 ms after an answer or a timeout that allows the one retry.           *)
Ask(retries) ==
    /\ exit' = [pc |-> "asking", id |-> exit.id + 1, retries |-> retries]
    /\ toRenderer' = Append(toRenderer, Message("prepare", exit.id + 1))
    /\ UNCHANGED <<bridge, mailbox, delivered, handoff, toMain, closing, work,
                   navigation, history>>

RequestClose ==
    /\ exit.pc = "none"
    /\ exit.id + 1 < MaxCloses
    /\ Ask(0)

Retry ==
    /\ exit.pc = "pausing"
    /\ Ask(exit.retries)

(* A blocked attempt: abort it, and retry once if the block says so.        *)
MutantMayRetry(retry) == retry
MayRetry(retry) == retry /\ exit.retries < 1

Blocked(retry) ==
    /\ FinishAbort
    /\ exit' = IF MayRetry(retry)
               THEN [exit EXCEPT !.pc = "pausing", !.retries = @ + 1]
               ELSE [exit EXCEPT !.pc = "none", !.retries = 0]

(* RENDERER_CLOSE_TIMEOUT.                                                  *)
Timeout ==
    /\ exit.pc = "asking"
    /\ Blocked(TRUE)
    /\ UNCHANGED <<bridge, toMain, closing, work, navigation, history>>

(* reportCloseResult: an answer to any other attempt is refused.            *)
Answers(m) == exit.pc = "asking" /\ m.id = exit.id

ReceiveResult ==
    LET m == Head(toMain) IN
    /\ toMain # <<>>
    /\ m.type # "acknowledge"
    /\ exit.pc # "gone"
    /\ toMain' = Tail(toMain)
    /\ \/ /\ ~Answers(m)
          /\ UNCHANGED <<main, toRenderer>>
       \/ /\ Answers(m)
          /\ m.type = "ready"
          /\ exit' = [exit EXCEPT !.pc = "flushing"]
          /\ UNCHANGED <<bridge, mailbox, delivered, handoff, toRenderer>>
       \/ /\ Answers(m)
          /\ m.type # "ready"
          /\ Blocked(m.type = "retry")
          /\ UNCHANGED bridge
    /\ UNCHANGED <<closing, work, navigation, history>>

(* publishExternalFileOpen: once the exit is decided the request goes to    *)
(* disk; while the renderer is being asked it cancels the attempt, and the  *)
(* head follows the abort.                                                  *)
Publish(e) ==
    /\ exit.pc # "gone"
    /\ ~Contains(published, e)
    /\ published' = Append(published, e)
    /\ \/ /\ exit.pc \in Quitting
          /\ handoff' = Append(handoff, e)
          /\ UNCHANGED <<exit, mailbox, delivered, toRenderer>>
       \/ /\ exit.pc = "asking"
          /\ Deliver(Append(mailbox, e), delivered,
                     <<Message("abort", exit.id)>>)
          /\ Ended
          /\ UNCHANGED handoff
       \/ /\ exit.pc \in {"none", "pausing"}
          /\ Deliver(Append(mailbox, e), delivered, <<>>)
          /\ UNCHANGED <<exit, handoff>>
    /\ UNCHANGED <<bridge, toMain, closing, work, navigation, opened,
                   outlived>>

(* acknowledgeExternalFileOpen: the head is consumed (a request that was    *)
(* already consumed is acknowledged again), the next one sent, and the call *)
(* returns.                                                                 *)
ReceiveAcknowledge ==
    LET e == Head(toMain).id IN
    /\ toMain # <<>>
    /\ Head(toMain).type = "acknowledge"
    /\ exit.pc # "gone"
    /\ toMain' = Tail(toMain)
    /\ LET rest == IF mailbox # <<>> /\ Head(mailbox) = e THEN Tail(mailbox)
                   ELSE mailbox
           last == IF delivered = e THEN NoRequest ELSE delivered IN
       /\ mailbox' = rest
       /\ delivered' = IF ShouldDeliver(rest, last) THEN Head(rest) ELSE last
       /\ toRenderer' = toRenderer \o
              (IF ShouldDeliver(rest, last)
               THEN <<Message("open", Head(rest))>> ELSE <<>>)
              \o <<Message("acknowledged", e)>>
    /\ opened' = Append(opened, e)
    /\ UNCHANGED <<exit, bridge, handoff, closing, work, navigation, published,
                   outlived>>

(* The decided exit: the write queues, the bridge, the final exit.          *)
Step(from, to) == exit.pc = from /\ exit' = [exit EXCEPT !.pc = to]
Offstage == <<mailbox, delivered, handoff, toRenderer, toMain, closing, work,
              navigation, history>>

Flushed ==
    /\ Step("flushing", "stopping")
    /\ bridge' = IF bridge = "up" THEN "stopping" ELSE bridge
    /\ UNCHANGED Offstage

BridgeStopped ==
    /\ Step("stopping", "leaving")
    /\ bridge' = "down"
    /\ UNCHANGED Offstage

(* The bridge did not confirm in time: the window stays.  The bridge was    *)
(* told to stop and may do so later.                                        *)
BridgeStopFails ==
    /\ exit.pc = "stopping"
    /\ bridge = "stopping"
    /\ Ended
    /\ FinishAbort
    /\ UNCHANGED <<bridge, toMain, closing, work, navigation, history>>

BridgeStopsLate ==
    /\ bridge = "stopping"
    /\ exit.pc \notin Quitting
    /\ bridge' = "down"
    /\ UNCHANGED <<exit, Offstage>>

FinalExit ==
    /\ Step("leaving", "gone")
    /\ UNCHANGED <<bridge, Offstage>>

(* restoreFinalExit: the bridge is started again, which may fail as well.   *)
FinalExitFails ==
    /\ exit.pc = "leaving"
    /\ bridge' \in {"up", "down"}
    /\ Ended
    /\ FinishAbort
    /\ UNCHANGED <<toMain, closing, work, navigation, history>>

(* The next launch: what was deferred is all there is.                      *)
Relaunch ==
    /\ exit.pc = "gone"
    /\ exit' = [exit EXCEPT !.pc = "none", !.retries = 0]
    /\ bridge' = "up"
    /\ mailbox' = handoff
    /\ handoff' = <<>>
    /\ delivered' = IF handoff = <<>> THEN NoRequest ELSE Head(handoff)
    /\ toRenderer' = IF handoff = <<>> THEN <<>>
                     ELSE <<Message("open", Head(handoff))>>
    /\ toMain' = <<>>
    /\ closeFreeze' = 0 /\ close' = Idle /\ preparing' = 0 /\ frozen' = 0
    /\ aborted' = {}
    /\ prep' = [a \in Attempt |-> IF prep[a] = "none" THEN "none" ELSE "done"]
    /\ cutoff' = [a \in Attempt |-> NotFrozen]
    /\ locked' = FALSE
    /\ edits' = [edits EXCEPT !.made = edits.saved]
    /\ note' = FALSE
    /\ tabSwitch' = FALSE /\ opening' = NotOpening /\ acking' = NoRequest
    /\ UNCHANGED history

-----------------------------------------------------------------------------
(* The renderer.                                                            *)
Alive == exit.pc # "gone"
NextIs(type) == Alive /\ toRenderer # <<>> /\ Head(toRenderer).type = type
NavigationIdle == ~tabSwitch /\ opening.pc # "opening"
OpenInFlight == opening.pc = "opening" \/ acking # NoRequest
Reply(type, a) == toMain' = Append(toMain, Message(type, a))

(* The user and autosave.  A conversation draft is refused from the moment  *)
(* the close is prepared until it is given up.                              *)
Edit ==
    /\ Alive
    /\ ~locked
    /\ edits.made < MaxEdits
    /\ edits' = [edits EXCEPT !.made = @ + 1]
    /\ UNCHANGED <<main, toRenderer, toMain, closing, locked, note, navigation,
                   history>>

MutantWriteNote ==
    /\ Alive
    /\ ~note
    /\ note' = TRUE
    /\ UNCHANGED <<main, toRenderer, toMain, closing, locked, edits, navigation,
                   history>>
WriteNote ==
    /\ Alive
    /\ close.phase = "idle"
    /\ ~note
    /\ note' = TRUE
    /\ UNCHANGED <<main, toRenderer, toMain, closing, locked, edits, navigation,
                   history>>

Save ==
    /\ Alive
    /\ bridge # "down"
    /\ \/ edits.saved < edits.made /\ edits' = [edits EXCEPT !.saved = edits.made]
          /\ UNCHANGED note
       \/ note /\ note' = FALSE /\ UNCHANGED edits
    /\ UNCHANGED <<main, toRenderer, toMain, closing, locked, navigation,
                   history>>

SwitchTab ==
    /\ Alive
    /\ \/ NavigationIdle /\ closeFreeze = 0 /\ tabSwitch' = TRUE
       \/ tabSwitch /\ tabSwitch' = FALSE
    /\ UNCHANGED <<main, toRenderer, toMain, closing, work, opening, acking,
                   history>>

(* acceptExternalProject: admitted when navigation is idle and not frozen,  *)
(* queued behind the active transaction, and otherwise rejected.  A queued  *)
(* one meets the freeze when its turn comes.                                *)
Admitted(e) == IF closeFreeze = 0 /\ close.phase # "ready"
               THEN [pc |-> "opening", id |-> e] ELSE NotOpening

ReceiveOpen ==
    LET e == Head(toRenderer).id IN
    /\ NextIs("open")
    /\ toRenderer' = Tail(toRenderer)
    /\ opening' = IF NavigationIdle THEN Admitted(e)
                  ELSE [pc |-> "queued", id |-> e]
    /\ UNCHANGED <<main, toMain, closing, work, tabSwitch, acking, history>>

AdmitQueued ==
    /\ Alive
    /\ opening.pc = "queued"
    /\ NavigationIdle
    /\ opening' = Admitted(opening.id)
    /\ UNCHANGED <<main, toRenderer, toMain, closing, work, tabSwitch, acking,
                   history>>

(* The open ends, well or not, and acknowledges its request.                *)
FinishOpening ==
    /\ Alive
    /\ opening.pc = "opening"
    /\ acking = NoRequest
    /\ opening' = NotOpening
    /\ acking' = opening.id
    /\ Reply("acknowledge", opening.id)
    /\ UNCHANGED <<main, toRenderer, closing, work, tabSwitch, history>>

ReceiveAcknowledged ==
    /\ NextIs("acknowledged")
    /\ toRenderer' = Tail(toRenderer)
    /\ acking' = NoRequest
    /\ UNCHANGED <<main, toMain, closing, work, tabSwitch, opening, history>>

(* ProjectWorkflow.prepareClose up to its first wait.  Overlap records that *)
(* another preparation is still alive.                                      *)
Overlap(a) == \E b \in Attempt \ {a} : prep[b] \in Suspended

Freeze(a) ==
    /\ locked' = TRUE
    /\ frozen' = a
    /\ cutoff' = [cutoff EXCEPT ![a] = edits.made]
    /\ prep' = [prep EXCEPT ![a] = "draining"]

StartProject(a) ==
    /\ preparing' = a
    /\ close' = [phase |-> "preparing", id |-> a]
    /\ IF OpenInFlight
       THEN /\ prep' = [prep EXCEPT ![a] = "opens"]
            /\ UNCHANGED <<locked, frozen, cutoff>>
       ELSE Freeze(a)

(* The end of a preparation that does not become ready: the finally block   *)
(* of prepareClose, then abortPreparation in the controller.                *)
GiveUp(a, type) ==
    /\ prep' = [prep EXCEPT ![a] = "done"]
    /\ preparing' = IF preparing = a THEN 0 ELSE preparing
    /\ IF cutoff[a] = NotFrozen
       THEN UNCHANGED <<locked, frozen>>
       ELSE /\ locked' = FALSE
            /\ frozen' = IF frozen = a THEN 0 ELSE frozen
    /\ aborted' = aborted \ {a}
    /\ close' = Idle
    /\ closeFreeze' = IF closeFreeze = a THEN 0 ELSE closeFreeze
    /\ Reply(type, a)
    /\ UNCHANGED cutoff

(* WorkspaceController.prepareClose: freeze navigation, wait for it to be   *)
(* idle, then the project.                                                  *)
ReceivePrepare ==
    LET a == Head(toRenderer).id IN
    /\ NextIs("prepare")
    /\ toRenderer' = Tail(toRenderer)
    /\ IF closeFreeze # 0
       THEN /\ Reply("retry", a)
            /\ prep' = [prep EXCEPT ![a] = "done"]
            /\ UNCHANGED <<closeFreeze, close, preparing, frozen, cutoff,
                           locked, outlived>>
       ELSE /\ closeFreeze' = a
            /\ outlived' = (outlived \/ Overlap(a))
            /\ UNCHANGED toMain
            /\ IF NavigationIdle
               THEN StartProject(a)
               ELSE /\ prep' = [prep EXCEPT ![a] = "navigation"]
                    /\ UNCHANGED <<close, preparing, frozen, cutoff, locked>>
    /\ UNCHANGED <<main, aborted, edits, note, navigation, published, opened>>

NavigationSettles(a) ==
    /\ Alive
    /\ prep[a] = "navigation"
    /\ NavigationIdle
    /\ StartProject(a)
    /\ UNCHANGED <<main, toRenderer, toMain, closeFreeze, aborted, edits, note,
                   navigation, history>>

NavigationTimesOut(a) ==
    /\ Alive
    /\ prep[a] = "navigation"
    /\ ~NavigationIdle
    /\ prep' = [prep EXCEPT ![a] = "done"]
    /\ closeFreeze' = IF closeFreeze = a THEN 0 ELSE closeFreeze
    /\ Reply("retry", a)
    /\ UNCHANGED <<main, toRenderer, close, preparing, frozen, aborted, cutoff,
                   work, navigation, history>>

OpensSettle(a) ==
    /\ Alive
    /\ prep[a] = "opens"
    /\ ~OpenInFlight
    /\ Freeze(a)
    /\ UNCHANGED <<main, toRenderer, toMain, closeFreeze, close, preparing,
                   aborted, edits, note, navigation, history>>

(* The drain: done when the document and the drafts are on disk; it may     *)
(* fail, or run out of time, at any obligation.                             *)
Drained(a) ==
    /\ Alive
    /\ prep[a] = "draining"
    /\ edits.saved = edits.made
    /\ ~note
    /\ prep' = [prep EXCEPT ![a] = "reconciling"]
    /\ UNCHANGED <<main, toRenderer, toMain, closeFreeze, close, preparing,
                   frozen, aborted, cutoff, work, navigation, history>>

DrainFails(a) ==
    /\ Alive
    /\ prep[a] \in {"opens", "draining"}
    /\ \E type \in {"blocked", "retry"} : GiveUp(a, type)
    /\ UNCHANGED <<main, toRenderer, edits, note, navigation, history>>

(* After reconcileBoundary: ready, unless the document changed since it was *)
(* frozen, the attempt was aborted or something is being opened.  Ready     *)
(* counts only if navigation is still frozen for this attempt.              *)
MayBeReady(a) ==
    /\ edits.made = cutoff[a]
    /\ a \notin aborted
    /\ ~OpenInFlight

(* AbortClose of the project workflow for an attempt not being prepared:    *)
(* the freeze goes if it is this attempt's own and the document is safe.    *)
Recovers(a) == frozen = a /\ edits.saved = edits.made

(* prepareClose returned ready, but navigation was released meanwhile:      *)
(* project.abortClose and abortPreparation.                                 *)
TakeBack(a) ==
    /\ Reply("retry", a)
    /\ close' = Idle
    /\ IF Recovers(a)
       THEN locked' = FALSE /\ frozen' = 0
       ELSE UNCHANGED <<locked, frozen>>
    /\ aborted' = aborted \ {a}
    /\ UNCHANGED closeFreeze

Reconciled(a) ==
    /\ Alive
    /\ prep[a] = "reconciling"
    /\ IF ~MayBeReady(a)
       THEN \E type \in {"blocked", "retry"} : GiveUp(a, type)
       ELSE /\ prep' = [prep EXCEPT ![a] = "done"]
            /\ preparing' = IF preparing = a THEN 0 ELSE preparing
            /\ IF closeFreeze = a
               THEN /\ close' = [phase |-> "ready", id |-> a]
                    /\ aborted' = aborted \ {a}
                    /\ Reply("ready", a)
                    /\ UNCHANGED <<closeFreeze, frozen, locked>>
               ELSE TakeBack(a)
            /\ UNCHANGED cutoff
    /\ UNCHANGED <<main, toRenderer, edits, note, navigation, history>>

(* abortClose of the controller: navigation first, then the project, which  *)
(* leaves an attempt still being prepared to end by itself.                 *)
MutantReceiveAbort ==
    LET a == Head(toRenderer).id IN
    /\ NextIs("abort")
    /\ toRenderer' = Tail(toRenderer)
    /\ closeFreeze' = IF closeFreeze = a THEN 0 ELSE closeFreeze
    /\ aborted' = aborted \cup {a}
    /\ UNCHANGED <<main, toMain, preparing, prep, cutoff, edits, note,
                   navigation, history, close, frozen, locked>>
ReceiveAbort ==
    LET a == Head(toRenderer).id IN
    /\ NextIs("abort")
    /\ toRenderer' = Tail(toRenderer)
    /\ closeFreeze' = IF closeFreeze = a THEN 0 ELSE closeFreeze
    /\ IF preparing = a
       THEN /\ aborted' = aborted \cup {a}
            /\ UNCHANGED <<close, frozen, locked>>
       ELSE /\ IF Recovers(a)
               THEN frozen' = 0 /\ locked' = FALSE
               ELSE UNCHANGED <<frozen, locked>>
            /\ close' = IF Recovers(a) \/ close = [phase |-> "ready", id |-> a]
                        THEN Idle ELSE close
            /\ aborted' = IF frozen = a /\ ~Recovers(a) THEN aborted \cup {a}
                          ELSE aborted \ {a}
    /\ UNCHANGED <<main, toMain, preparing, prep, cutoff, edits, note,
                   navigation, history>>

-----------------------------------------------------------------------------
MainStep ==
    \/ RequestClose \/ Retry \/ Timeout \/ ReceiveResult
    \/ ReceiveAcknowledge
    \/ Flushed \/ BridgeStopped \/ BridgeStopFails \/ BridgeStopsLate
    \/ FinalExit \/ FinalExitFails \/ Relaunch

PrepareStep(a) ==
    \/ NavigationSettles(a) \/ NavigationTimesOut(a)
    \/ OpensSettle(a) \/ Drained(a) \/ DrainFails(a) \/ Reconciled(a)

RendererStep ==
    \/ Edit \/ WriteNote \/ Save \/ SwitchTab
    \/ ReceiveOpen \/ AdmitQueued \/ FinishOpening \/ ReceiveAcknowledged
    \/ ReceivePrepare \/ ReceiveAbort
    \/ \E a \in Attempt : PrepareStep(a)

Next == MainStep \/ RendererStep \/ \E e \in Request : Publish(e)

(* Messages are delivered, promises resume and timers fire; nothing obliges *)
(* the user, Finder, or a failure.                                          *)
Fairness ==
    /\ WF_vars(Timeout) /\ WF_vars(ReceiveResult) /\ WF_vars(ReceiveAcknowledge)
    /\ WF_vars(Retry) /\ WF_vars(Flushed) /\ WF_vars(FinalExit)
    /\ WF_vars(BridgeStopped \/ BridgeStopFails)
    /\ WF_vars(ReceivePrepare) /\ WF_vars(ReceiveAbort)
    /\ WF_vars(ReceiveOpen) /\ WF_vars(ReceiveAcknowledged)
    /\ WF_vars(AdmitQueued) /\ WF_vars(FinishOpening)
    /\ WF_vars(tabSwitch /\ SwitchTab)
    /\ WF_vars(Save)
    /\ \A a \in Attempt : WF_vars(PrepareStep(a))

Spec == Init /\ [][Next]_vars
FairSpec == Spec /\ Fairness

-----------------------------------------------------------------------------
(* Properties.                                                              *)
Preparing == {a \in Attempt : prep[a] \in Suspended}
Carries(type) == \E i \in DOMAIN toRenderer : toRenderer[i].type = type

(* Unless a preparation outlived its attempt, the application never exits   *)
(* with an edit or a draft that is not on disk: the freezes that precede    *)
(* the answer hold until the process is gone.                               *)
ExitLosesNothing ==
    exit.pc = "gone" /\ ~outlived => edits.saved = edits.made /\ ~note

(* From the moment the main process accepts "ready" until it gives the      *)
(* exit up, the renderer's navigation is frozen for that very attempt,      *)
(* whatever late answers and late preparations of others do.                *)
DecidedMeansFrozen ==
    exit.pc \in Quitting => closeFreeze = exit.id

(* Once no attempt is under way and its messages have arrived, nothing of   *)
(* the attempts remains: navigation and canvas are free, the close is idle. *)
QuietMeansUsable ==
    /\ exit.pc \in {"none", "pausing"}
    /\ ~Carries("abort") /\ ~Carries("prepare")
    /\ Preparing = {}
    => /\ closeFreeze = 0
       /\ close.phase = "idle"
       /\ ~locked

(* Files open in the order in which they were published and none twice,     *)
(* over aborted closes, deferrals and launches.                             *)
OpenedInOrder ==
    \A i, j \in DOMAIN opened : i < j =>
        \E k, l \in DOMAIN published :
            /\ k < l
            /\ published[k] = opened[i]
            /\ published[l] = opened[j]

(* The delivery of a file never crosses a close: when an open request is on *)
(* its way, every abort that was sent before it was published precedes it,  *)
(* so the renderer has no prepare without its abort behind it.              *)
OpenFollowsAbort ==
    \A i \in DOMAIN toRenderer :
        toRenderer[i].type = "prepare" /\ toRenderer[i].id # exit.id =>
            \E j \in DOMAIN toRenderer :
                j > i /\ toRenderer[j] = Message("abort", toRenderer[i].id)

(* Every close that is asked for ends: the process is gone, or the window   *)
(* is open and its canvas can be edited again, whatever timed out, failed   *)
(* or was retried on the way.                                               *)
CloseEnds ==
    exit.pc = "asking" ~> (exit.pc = "gone" \/ (exit.pc = "none" /\ ~locked))

(* "abort only releases its own freeze": while the exit is decided the      *)
(* canvas stays frozen.                                                     *)
DecidedMeansLocked == exit.pc \in Quitting => locked

(* The main process sends the head and waits for its receipt: a request it  *)
(* has sent is on its way, in the renderer, or being acknowledged.          *)
SentIsHeld ==
    delivered # NoRequest /\ exit.pc # "gone" =>
        \/ \E i \in DOMAIN toRenderer : toRenderer[i] = Message("open", delivered)
        \/ opening.id = delivered
        \/ acking = delivered

(* Only the latest path is handed to the next launch.                       *)
OnlyLatestHandedOff == Len(handoff) <= 1
=============================================================================
