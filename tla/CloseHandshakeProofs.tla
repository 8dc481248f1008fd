------------------------ MODULE CloseHandshakeProofs ------------------------
(***************************************************************************)
(* Proofs about CloseHandshake, for any number of attempts, edits and      *)
(* files opened from outside, with two preparations alive or with one.     *)
(*                                                                         *)
(* The invariant has four groups.  Typed: types, and identities that leave *)
(* room for the retry.  Channels: what is on its way, or frozen, belongs   *)
(* to the attempt the exit stands on, or its abort follows.  Renderer: a   *)
(* close, a freeze and a lock have an owner that will still let them go.   *)
(* Decision: what "ready" promises until the exit is given up.             *)
(***************************************************************************)
EXTENDS CloseHandshake, SequenceTheorems, TLAPS

-----------------------------------------------------------------------------
(* The inductive invariant.                                                 *)

(* Where the preparation of an attempt is suspended. *)
Begun(a) == prep[a] \in {"opens", "draining", "reconciling"}
Alone == ~outlived

(* The exit stands on an attempt, which nobody has told the renderer to     *)
(* give up; or the message that tells it is on its way.                     *)
Underway(a) == exit.id = a /\ exit.pc \notin {"none", "pausing"}
Sent(m) == \E i \in DOMAIN toRenderer : toRenderer[i] = m
Owned(a) == Underway(a) \/ Sent(Message("abort", a))

(* The identities leave room for the one retry. *)
RetriesFit ==
    /\ exit.pc = "pausing" => exit.retries = 1 /\ exit.id < MaxCloses
    /\ exit.pc = "asking" /\ exit.retries = 0 => exit.id < MaxCloses
    /\ exit.pc = "asking" => exit.id \in Attempt
    /\ exit.pc \in Quitting \cup {"gone"} => exit.id \in Attempt

OpenNamesRequest == opening.pc # "none" => opening.id \in Request

(* What is on its way, or was begun, belongs to an attempt that was made. *)
PastPreps == \A a \in Attempt : prep[a] # "none" => a <= exit.id

ToRendererOrder ==
    \A i \in DOMAIN toRenderer :
        /\ toRenderer[i].type = "abort" =>
               toRenderer[i].id <= exit.id /\ ~Underway(toRenderer[i].id)
        /\ toRenderer[i].type = "prepare" =>
               /\ toRenderer[i].id <= exit.id
               /\ prep[toRenderer[i].id] = "none"
               /\ \/ Underway(toRenderer[i].id)
                  \/ \E j \in DOMAIN toRenderer :
                         j > i /\ toRenderer[j] = Message("abort", toRenderer[i].id)
               /\ \A j \in DOMAIN toRenderer :
                      j # i /\ toRenderer[j].type = "prepare"
                      => toRenderer[j].id # toRenderer[i].id

AnswersAreOver ==
    \A i \in DOMAIN toMain : toMain[i].type # "acknowledge"
                             => prep[toMain[i].id] = "done"

(* What the renderer holds, and for whom. *)
FreezeIsOwned ==
    closeFreeze # 0 => Owned(closeFreeze) /\ prep[closeFreeze] # "none"

PreparingIsBegun == preparing # 0 => Begun(preparing)

CloseHasOwner ==
    /\ close.phase # "idle" => close.id \in Attempt
    /\ close.phase = "preparing" => Begun(close.id)
    /\ close.phase = "ready" => closeFreeze = close.id /\ prep[close.id] = "done"

LockHasOwner ==
    /\ frozen # 0 => prep[frozen] \in {"draining", "reconciling", "done"}
    /\ locked => frozen # 0
    /\ locked /\ prep[frozen] = "done"
       => closeFreeze = frozen /\ edits.saved = edits.made

CutoffsArePast ==
    /\ edits.saved <= edits.made
    /\ \A a \in Attempt :
           /\ prep[a] \in {"none", "navigation", "opens"} => cutoff[a] = NotFrozen
           /\ prep[a] \in {"draining", "reconciling"} => cutoff[a] <= edits.made
           /\ prep[a] = "reconciling" => cutoff[a] <= edits.saved

(* A ready answer that the exit has accepted, or will. *)
ReadyToAccept ==
    /\ exit.pc = "asking"
    /\ \E i \in DOMAIN toMain : toMain[i] = Message("ready", exit.id)
Decided == exit.pc \in Quitting \cup {"gone"}

DecidedIsFrozen ==
    Decided \/ ReadyToAccept => closeFreeze = exit.id /\ prep[exit.id] = "done"

(* Without a preparation that outlived its attempt. *)
OneAtATime ==
    Alone =>
        \A a \in Attempt : prep[a] \in Suspended =>
            /\ \A b \in Attempt : prep[b] \in Suspended => b = a
            /\ closeFreeze \in {0, a}

FrozenIsLocked == Alone /\ frozen # 0 => locked

BegunIsPreparing ==
    Alone => \A a \in Attempt :
        /\ Begun(a) => close = [phase |-> "preparing", id |-> a] /\ preparing = a
        /\ prep[a] \in {"draining", "reconciling"} =>
               locked /\ frozen = a /\ cutoff[a] = edits.made
        /\ prep[a] = "reconciling" => edits.saved = edits.made /\ ~note

DecidedIsSafe ==
    Alone /\ (Decided \/ ReadyToAccept) =>
        /\ close = [phase |-> "ready", id |-> exit.id]
        /\ locked /\ frozen = exit.id
        /\ edits.saved = edits.made /\ ~note

Typed == TypeOK /\ RetriesFit /\ OpenNamesRequest
Channels == PastPreps /\ ToRendererOrder /\ AnswersAreOver /\ FreezeIsOwned
Renderer == /\ PreparingIsBegun /\ CloseHasOwner /\ LockHasOwner
            /\ CutoffsArePast /\ OneAtATime /\ FrozenIsLocked
            /\ BegunIsPreparing
Decision == DecidedIsFrozen /\ DecidedIsSafe

IInv == Typed /\ Channels /\ Renderer /\ Decision

-----------------------------------------------------------------------------
(* Numbers and messages.                                                    *)
LEMMA Numbers ==
    /\ MaxCloses \in Nat \ {0} /\ MaxEdits \in Nat
    /\ Attempt \subseteq Nat \ {0} /\ 0 \notin Attempt
    /\ NotFrozen \in Nat /\ NotFrozen > MaxEdits
    /\ NoRequest \notin Request
    /\ 0 \in 0..1 /\ 1 \in 0..1 /\ 0 \in 0..MaxCloses
    /\ Attempt \subseteq 0..MaxCloses
BY CloseAssumption DEF Attempt, NotFrozen

LEMMA MessageIs ==
    ASSUME NEW t, NEW x
    PROVE  Message(t, x).type = t /\ Message(t, x).id = x
BY DEF Message

LEMMA Messages ==
    /\ \A a \in Attempt : /\ Message("prepare", a) \in MessageToRenderer
                          /\ Message("abort", a) \in MessageToRenderer
                          /\ Message("ready", a) \in MessageToMain
                          /\ Message("blocked", a) \in MessageToMain
                          /\ Message("retry", a) \in MessageToMain
    /\ \A e \in Request : /\ Message("open", e) \in MessageToRenderer
                          /\ Message("acknowledged", e) \in MessageToRenderer
                          /\ Message("acknowledge", e) \in MessageToMain
BY DEF Message, MessageToRenderer, MessageToMain

LEMMA HeadToRenderer ==
    ASSUME toRenderer \in Seq(MessageToRenderer), toRenderer # <<>>
    PROVE  /\ Head(toRenderer) = toRenderer[1] /\ 1 \in DOMAIN toRenderer
           /\ Head(toRenderer) \in MessageToRenderer
           /\ Tail(toRenderer) \in Seq(MessageToRenderer)
           /\ Head(toRenderer).type \in {"prepare", "abort"}
              => Head(toRenderer).id \in Attempt
           /\ Head(toRenderer).type \in {"open", "acknowledged"}
              => Head(toRenderer).id \in Request
<1>1. /\ Head(toRenderer) \in MessageToRenderer
      /\ Tail(toRenderer) \in Seq(MessageToRenderer)
    BY HeadTailProperties
<1>2. Head(toRenderer) = toRenderer[1] /\ 1 \in DOMAIN toRenderer
    BY LenProperties, EmptySeq
<1> QED
    BY <1>1, <1>2 DEF MessageToRenderer

LEMMA HeadToMain ==
    ASSUME toMain \in Seq(MessageToMain), toMain # <<>>
    PROVE  /\ Head(toMain) = toMain[1] /\ 1 \in DOMAIN toMain
           /\ Head(toMain) \in MessageToMain
           /\ Tail(toMain) \in Seq(MessageToMain)
           /\ Head(toMain).type # "acknowledge" =>
                  /\ Head(toMain).id \in Attempt
                  /\ Head(toMain).type \in {"ready", "blocked", "retry"}
           /\ Head(toMain).type = "acknowledge" => Head(toMain).id \in Request
<1>1. Head(toMain) \in MessageToMain /\ Tail(toMain) \in Seq(MessageToMain)
    BY HeadTailProperties
<1>2. Head(toMain) = toMain[1] /\ 1 \in DOMAIN toMain
    BY LenProperties, EmptySeq
<1> QED
    BY <1>1, <1>2 DEF MessageToMain

LEMMA RendererCarries ==
    ASSUME toRenderer \in Seq(MessageToRenderer), NEW i \in DOMAIN toRenderer
    PROVE  /\ toRenderer[i] \in MessageToRenderer
           /\ toRenderer[i].type \in {"prepare", "abort"}
              => toRenderer[i].id \in Attempt
           /\ toRenderer[i] = Message(toRenderer[i].type, toRenderer[i].id)
<1>1. toRenderer[i] \in MessageToRenderer
    BY ElementOfSeq, LenProperties
<1> QED
    BY <1>1 DEF MessageToRenderer, Message

LEMMA MainCarries ==
    ASSUME toMain \in Seq(MessageToMain), NEW i \in DOMAIN toMain
    PROVE  /\ toMain[i] \in MessageToMain
           /\ toMain[i].type # "acknowledge" => toMain[i].id \in Attempt
           /\ toMain[i] = Message(toMain[i].type, toMain[i].id)
<1>1. toMain[i] \in MessageToMain
    BY ElementOfSeq, LenProperties
<1> QED
    BY <1>1 DEF MessageToMain, Message

-----------------------------------------------------------------------------
(* Types.                                                                   *)
LEMMA InitInv == Init => IInv
<1> SUFFICES ASSUME Init PROVE IInv
    OBVIOUS
<1>1. /\ 0 \in 0..MaxCloses /\ 0 \in 0..MaxEdits /\ NotFrozen \in 0..NotFrozen
      /\ 0 \in 0..1
    BY Numbers
<1>2. TypeOK
  <2>1. /\ exit \in [pc : {"none", "asking", "pausing", "gone"} \cup Quitting,
                     id : 0..MaxCloses, retries : 0..1]
        /\ bridge \in {"up", "stopping", "down"}
        /\ close \in [phase : {"idle", "preparing", "ready"}, id : 0..MaxCloses]
        /\ edits \in [made : 0..MaxEdits, saved : 0..MaxEdits]
    BY <1>1 DEF Init, Idle
  <2>2. /\ mailbox \in Seq(Request) /\ handoff \in Seq(Request)
        /\ toRenderer \in Seq(MessageToRenderer)
        /\ toMain \in Seq(MessageToMain)
        /\ published \in Seq(Request) /\ opened \in Seq(Request)
    BY EmptySeq DEF Init
  <2>3. /\ prep \in [Attempt -> Suspended \cup {"none", "done"}]
        /\ cutoff \in [Attempt -> 0..NotFrozen]
    BY <1>1 DEF Init
  <2>4. opening \in [pc : {"none", "queued", "opening"},
                     id : Request \cup {NoRequest}]
    BY DEF Init, NotOpening
  <2> QED
    BY <1>1, <2>1, <2>2, <2>3, <2>4 DEF Init, TypeOK
<1>3. RetriesFit /\ OpenNamesRequest /\ PastPreps
    BY DEF Init, RetriesFit, OpenNamesRequest, PastPreps, Quitting, NotOpening
<1>4. ToRendererOrder /\ AnswersAreOver
  <2>1. DOMAIN toRenderer = {} /\ DOMAIN toMain = {}
    BY DEF Init
  <2> QED
    BY <2>1 DEF ToRendererOrder, AnswersAreOver
<1>5. FreezeIsOwned /\ PreparingIsBegun /\ CloseHasOwner /\ LockHasOwner
    BY DEF Init, FreezeIsOwned, PreparingIsBegun, CloseHasOwner, LockHasOwner,
           Idle
<1>6. CutoffsArePast
    BY DEF Init, CutoffsArePast
<1>7. DecidedIsFrozen /\ DecidedIsSafe
    BY DEF Init, DecidedIsFrozen, DecidedIsSafe, Decided, ReadyToAccept, Quitting
<1>8. OneAtATime /\ FrozenIsLocked /\ BegunIsPreparing
    BY DEF Init, OneAtATime, FrozenIsLocked, BegunIsPreparing, Begun, Suspended
<1> QED
    BY <1>2, <1>3, <1>4, <1>5, <1>6, <1>7, <1>8
    DEF IInv, Typed, Channels, Renderer, Decision

(* The step of a sequence. *)
LEMMA Appends ==
    ASSUME NEW S, NEW s \in Seq(S), NEW e \in S
    PROVE  Append(s, e) \in Seq(S)
BY AppendProperties

LEMMA ShouldDeliverType ==
    ASSUME NEW mb \in Seq(Request), NEW dl, ShouldDeliver(mb, dl)
    PROVE  Head(mb) \in Request
BY HeadTailProperties DEF ShouldDeliver

LEMMA DeliverType ==
    ASSUME NEW mb \in Seq(Request), NEW dl \in Request \cup {NoRequest},
           toRenderer \in Seq(MessageToRenderer),
           NEW msgs \in Seq(MessageToRenderer),
           Deliver(mb, dl, msgs)
    PROVE  /\ mailbox' \in Seq(Request)
           /\ delivered' \in Request \cup {NoRequest}
           /\ toRenderer' \in Seq(MessageToRenderer)
<1>1. mailbox' \in Seq(Request) /\ delivered' \in Request \cup {NoRequest}
    BY ShouldDeliverType DEF Deliver
<1>2. CASE ShouldDeliver(mb, dl)
  <2>1. <<Message("open", Head(mb))>> \in Seq(MessageToRenderer)
    BY <1>2, ShouldDeliverType, Messages
  <2>2. toRenderer' = toRenderer \o msgs \o <<Message("open", Head(mb))>>
    BY <1>2 DEF Deliver
  <2> QED
    BY <1>1, <2>1, <2>2, ConcatProperties
<1>3. CASE ~ShouldDeliver(mb, dl)
  <2>1. toRenderer' = toRenderer \o msgs \o <<>>
    BY <1>3 DEF Deliver
  <2>2. <<>> \in Seq(MessageToRenderer)
    BY EmptySeq
  <2> QED
    BY <1>1, <2>1, <2>2, ConcatProperties
<1> QED
    BY <1>2, <1>3

LEMMA FinishAbortType ==
    ASSUME TypeOK, exit.id \in Attempt, FinishAbort
    PROVE  /\ mailbox' \in Seq(Request) /\ handoff' \in Seq(Request)
           /\ delivered' \in Request \cup {NoRequest}
           /\ toRenderer' \in Seq(MessageToRenderer)
<1>1. mailbox \o handoff \in Seq(Request)
    BY ConcatProperties DEF TypeOK
<1>2. <<Message("abort", exit.id)>> \in Seq(MessageToRenderer)
    BY Messages
<1>3. handoff' \in Seq(Request)
    BY EmptySeq DEF FinishAbort
<1> QED
    BY <1>1, <1>2, <1>3, DeliverType DEF FinishAbort, TypeOK

Exits == [pc : {"none", "asking", "pausing", "gone"} \cup Quitting,
          id : 0..MaxCloses, retries : 0..1]
LEMMA ExitIs == TypeOK => exit \in Exits /\ exit.id \in Nat
BY Numbers DEF TypeOK, Exits

LEMMA AskTyped ==
    ASSUME Typed, NEW retries \in 0..1, Ask(retries),
           exit.id + 1 \in Attempt,
           retries = 0 => exit.id + 1 < MaxCloses
    PROVE  Typed'
<1>1. exit' \in Exits
    BY Numbers DEF Ask, Exits, Attempt
<1>2. toRenderer' \in Seq(MessageToRenderer)
    BY Messages, Appends DEF Ask, Typed, TypeOK
<1>3. TypeOK'
    BY <1>1, <1>2 DEF Typed, TypeOK, Ask, Exits, closing, work, navigation,
       history
<1>4. RetriesFit'
    BY DEF Ask, RetriesFit, Quitting
<1>5. OpenNamesRequest'
    BY DEF Typed, OpenNamesRequest, Ask, navigation
<1> QED
    BY <1>3, <1>4, <1>5 DEF Typed

LEMMA BlockedExit ==
    ASSUME Typed, NEW retry \in BOOLEAN, exit.pc = "asking", Blocked(retry)
    PROVE  exit' \in Exits /\ RetriesFit' /\ exit.id \in Attempt
           /\ FinishAbort /\ exit'.id = exit.id
           /\ exit'.pc \in {"none", "pausing"}
<1>1. exit \in Exits /\ exit.id \in Attempt
    BY ExitIs DEF Typed, RetriesFit
<1>2. CASE MayRetry(retry)
  <2>1. exit' = [exit EXCEPT !.pc = "pausing", !.retries = @ + 1]
    BY <1>2 DEF Blocked
  <2>2. exit.retries = 0
    BY <1>1, <1>2 DEF MayRetry, Exits
  <2>3. exit.id < MaxCloses
    BY <2>2 DEF Typed, RetriesFit
  <2>4. /\ exit' \in Exits /\ exit'.id = exit.id /\ exit'.pc = "pausing"
        /\ exit'.retries = 1
    <3>1. exit.retries + 1 = 1
      BY <2>2
    <3> QED
      BY <1>1, <2>1, <3>1, Numbers DEF Exits
  <2> QED
    BY <1>1, <2>3, <2>4 DEF RetriesFit, Quitting, Blocked
<1>3. CASE ~MayRetry(retry)
  <2>1. exit' = [exit EXCEPT !.pc = "none", !.retries = 0]
    BY <1>3 DEF Blocked
  <2>2. exit' \in Exits /\ exit'.id = exit.id /\ exit'.pc = "none"
    BY <1>1, <2>1, Numbers DEF Exits
  <2> QED
    BY <1>1, <2>2 DEF RetriesFit, Quitting, Blocked
<1> QED
    BY <1>2, <1>3

LEMMA EndedExit ==
    ASSUME Typed, Ended
    PROVE  /\ exit' \in Exits /\ RetriesFit' /\ exit'.id = exit.id
           /\ exit'.pc = "none"
<1>1. exit' \in Exits /\ exit'.id = exit.id /\ exit'.pc = "none"
    BY ExitIs, Numbers DEF Typed, Ended, Exits
<1> QED
    BY <1>1 DEF RetriesFit, Quitting

LEMMA MainTyped ==
    ASSUME Typed, MainStep
    PROVE  Typed'
<1> USE DEF Typed
<1>1. CASE RequestClose
  <2>1. exit.id + 1 \in Attempt
    BY <1>1, ExitIs, Numbers DEF RequestClose, Attempt, Exits
  <2> QED
    BY <1>1, <2>1, AskTyped DEF RequestClose
<1>2. CASE Retry
  <2>1. exit.id + 1 \in Attempt /\ exit.retries = 1
    BY <1>2, ExitIs, Numbers DEF Retry, Attempt, Exits, RetriesFit
  <2> QED
    BY <1>2, <2>1, AskTyped DEF Retry
<1>3. CASE Timeout
  <2>1. exit' \in Exits /\ RetriesFit' /\ exit.id \in Attempt /\ FinishAbort
    BY <1>3, BlockedExit DEF Timeout
  <2> QED
    BY SMTT(30), <1>3, <2>1, FinishAbortType DEF Timeout, TypeOK, OpenNamesRequest, Exits,
       closing, work, navigation, history
<1>4. CASE ReceiveResult
  <2> DEFINE m == Head(toMain)
  <2>0. /\ m.id \in Attempt /\ m.type \in {"ready", "blocked", "retry"}
        /\ Tail(toMain) \in Seq(MessageToMain)
    BY <1>4, HeadToMain DEF ReceiveResult, TypeOK
  <2>1. CASE ~Answers(m) /\ UNCHANGED <<main, toRenderer>>
    BY <1>4, <2>0, <2>1 DEF ReceiveResult, TypeOK, OpenNamesRequest, RetriesFit,
       main, closing, work, navigation, history
  <2>2. CASE /\ Answers(m)
             /\ exit' = [exit EXCEPT !.pc = "flushing"]
             /\ UNCHANGED <<bridge, mailbox, delivered, handoff, toRenderer>>
    <3>1. exit' \in Exits /\ exit'.id = exit.id /\ exit'.pc = "flushing"
      BY <2>2, ExitIs DEF Exits, Quitting
    <3>2. RetriesFit'
      BY <2>0, <2>2, <3>1 DEF RetriesFit, Answers, Quitting
    <3> QED
      BY <1>4, <2>0, <2>2, <3>1, <3>2 DEF ReceiveResult, TypeOK, Exits,
         OpenNamesRequest, closing, work, navigation, history
  <2>3. CASE Answers(m) /\ Blocked(m.type = "retry") /\ UNCHANGED bridge
    <3>1. exit' \in Exits /\ RetriesFit' /\ exit.id \in Attempt /\ FinishAbort
      BY <2>3, BlockedExit DEF Answers
    <3>2. /\ mailbox' \in Seq(Request) /\ handoff' \in Seq(Request)
          /\ delivered' \in Request \cup {NoRequest}
          /\ toRenderer' \in Seq(MessageToRenderer)
      BY <3>1, FinishAbortType
    <3>3. TypeOK'
      BY SMTT(30), <1>4, <2>0, <2>3, <3>1, <3>2 DEF ReceiveResult, TypeOK, Exits,
         closing, work, navigation, history
    <3>4. OpenNamesRequest'
      BY <1>4 DEF ReceiveResult, OpenNamesRequest, navigation
    <3> QED
      BY <3>1, <3>3, <3>4
  <2> QED
    BY <1>4, <2>1, <2>2, <2>3 DEF ReceiveResult
<1>5. CASE ReceiveAcknowledge
  <2> DEFINE e == Head(toMain).id
             rest == IF mailbox # <<>> /\ Head(mailbox) = e THEN Tail(mailbox)
                     ELSE mailbox
             last == IF delivered = e THEN NoRequest ELSE delivered
  <2>0. e \in Request /\ Tail(toMain) \in Seq(MessageToMain)
    BY <1>5, HeadToMain DEF ReceiveAcknowledge, TypeOK
  <2>1. rest \in Seq(Request)
    BY HeadTailProperties DEF TypeOK
  <2>2. last \in Request \cup {NoRequest}
    BY DEF TypeOK
  <2>3. /\ mailbox' = rest
        /\ delivered' = IF ShouldDeliver(rest, last) THEN Head(rest) ELSE last
        /\ toRenderer' = toRenderer \o
              (IF ShouldDeliver(rest, last)
               THEN <<Message("open", Head(rest))>> ELSE <<>>)
              \o <<Message("acknowledged", e)>>
        /\ toMain' = Tail(toMain) /\ opened' = Append(opened, e)
        /\ UNCHANGED <<exit, bridge, handoff, closing, work, navigation,
                       published, outlived>>
    BY <1>5 DEF ReceiveAcknowledge
  <2>4. opened' \in Seq(Request)
    BY <2>0, <2>3, Appends DEF TypeOK
  <2>5. <<Message("acknowledged", e)>> \in Seq(MessageToRenderer)
    BY <2>0, Messages
  <2> HIDE DEF e, rest, last
  <2>6. delivered' \in Request \cup {NoRequest}
    BY <2>1, <2>2, <2>3, ShouldDeliverType
  <2>7. toRenderer' \in Seq(MessageToRenderer)
    <3> DEFINE first == IF ShouldDeliver(rest, last)
                        THEN <<Message("open", Head(rest))>> ELSE <<>>
    <3>2. first \in Seq(MessageToRenderer)
      <4>1. CASE ShouldDeliver(rest, last)
        BY <2>1, <4>1, ShouldDeliverType, Messages
      <4>2. CASE ~ShouldDeliver(rest, last)
        BY <4>2, EmptySeq
      <4> QED
        BY <4>1, <4>2
    <3>3. toRenderer' = toRenderer \o first \o <<Message("acknowledged", e)>>
      BY <2>3
    <3> HIDE DEF first
    <3>4. toRenderer \o first \in Seq(MessageToRenderer)
      BY <3>2, ConcatProperties DEF TypeOK
    <3> QED
      BY <2>5, <3>3, <3>4, ConcatProperties
  <2>8. mailbox' \in Seq(Request) /\ toMain' \in Seq(MessageToMain)
    BY <2>0, <2>1, <2>3
  <2>9. UNCHANGED <<exit, bridge, handoff, closing, work, navigation,
                    published, outlived>>
    BY <2>3
  <2>10. TypeOK'
    BY <2>4, <2>6, <2>7, <2>8, <2>9 DEF TypeOK, closing, work, navigation
  <2>11. RetriesFit' /\ OpenNamesRequest'
    BY <2>9 DEF RetriesFit, OpenNamesRequest, navigation
  <2> QED
    BY <2>10, <2>11
<1>6. CASE Flushed \/ BridgeStopped \/ FinalExit
  <2>1. PICK pc \in Quitting \cup {"gone"} : exit' = [exit EXCEPT !.pc = pc]
    BY <1>6 DEF Flushed, BridgeStopped, FinalExit, Step, Quitting
  <2>2. exit' \in Exits /\ exit'.id = exit.id /\ exit'.pc = pc
    BY <2>1, ExitIs DEF Exits
  <2>3. exit.pc \in Quitting
    BY <1>6 DEF Flushed, BridgeStopped, FinalExit, Step, Quitting
  <2>4. RetriesFit'
    BY <2>2, <2>3 DEF RetriesFit, Quitting
  <2>5. bridge' \in {"up", "stopping", "down"}
    BY <1>6 DEF Flushed, BridgeStopped, FinalExit, TypeOK
  <2>6. UNCHANGED Offstage
    BY <1>6 DEF Flushed, BridgeStopped, FinalExit
  <2>7. OpenNamesRequest'
    BY <2>6 DEF OpenNamesRequest, Offstage, navigation
  <2>8. TypeOK'
    BY <2>2, <2>5, <2>6 DEF TypeOK, Exits, Offstage, closing, work, navigation,
       history
  <2> QED
    BY <2>4, <2>7, <2>8
<1>7. CASE BridgeStopFails \/ FinalExitFails
  <2>1. exit' \in Exits /\ RetriesFit'
    BY <1>7, EndedExit DEF BridgeStopFails, FinalExitFails
  <2>2. exit.id \in Attempt
    BY <1>7 DEF BridgeStopFails, FinalExitFails, RetriesFit, Quitting
  <2>3. /\ mailbox' \in Seq(Request) /\ handoff' \in Seq(Request)
        /\ delivered' \in Request \cup {NoRequest}
        /\ toRenderer' \in Seq(MessageToRenderer)
    BY <1>7, <2>2, FinishAbortType DEF BridgeStopFails, FinalExitFails
  <2>4. bridge' \in {"up", "stopping", "down"}
    BY <1>7 DEF BridgeStopFails, FinalExitFails, TypeOK
  <2>5. UNCHANGED <<toMain, closing, work, navigation, history>>
    BY <1>7 DEF BridgeStopFails, FinalExitFails
  <2> QED
    BY <2>1, <2>3, <2>4, <2>5 DEF TypeOK, Exits, OpenNamesRequest,
       closing, work, navigation, history
<1>8. CASE BridgeStopsLate
    BY <1>8 DEF BridgeStopsLate, TypeOK, RetriesFit, OpenNamesRequest, Offstage,
       closing, work, navigation, history
<1>9. CASE Relaunch
  <2>1. exit' \in Exits /\ exit'.pc = "none"
    BY <1>9, ExitIs, Numbers DEF Relaunch, Exits
  <2>2. RetriesFit'
    BY <2>1 DEF RetriesFit, Quitting
  <2>3. /\ mailbox' \in Seq(Request) /\ handoff' \in Seq(Request)
        /\ toMain' \in Seq(MessageToMain)
    BY <1>9, EmptySeq DEF Relaunch, TypeOK
  <2>4. /\ delivered' \in Request \cup {NoRequest}
        /\ toRenderer' \in Seq(MessageToRenderer)
    <3>1. CASE handoff = <<>>
      BY <1>9, <3>1, EmptySeq DEF Relaunch
    <3>2. CASE handoff # <<>>
      <4>1. Head(handoff) \in Request
        BY <3>2, HeadTailProperties DEF TypeOK
      <4> QED
        BY <1>9, <3>2, <4>1, Messages DEF Relaunch
    <3> QED
      BY <3>1, <3>2
  <2>0. close' \in [phase : {"idle", "preparing", "ready"}, id : 0..MaxCloses]
    <3>1. close' = [phase |-> "idle", id |-> 0]
      BY <1>9 DEF Relaunch, Idle
    <3> QED
      BY <3>1, Numbers
  <2>5. /\ closeFreeze' \in 0..MaxCloses
        /\ preparing' \in 0..MaxCloses /\ frozen' \in 0..MaxCloses
        /\ aborted' \subseteq Attempt
        /\ locked' \in BOOLEAN /\ note' \in BOOLEAN
        /\ tabSwitch' \in BOOLEAN
    BY <1>9, Numbers DEF Relaunch
  <2>6. /\ prep' \in [Attempt -> Suspended \cup {"none", "done"}]
        /\ cutoff' \in [Attempt -> 0..NotFrozen]
    BY <1>9, Numbers DEF Relaunch
  <2>7. edits' \in [made : 0..MaxEdits, saved : 0..MaxEdits]
    BY <1>9 DEF Relaunch, TypeOK
  <2>8. /\ opening' = NotOpening /\ acking' = NoRequest /\ UNCHANGED history
        /\ bridge' = "up"
    BY <1>9 DEF Relaunch
  <2>9. OpenNamesRequest'
    BY <2>8 DEF OpenNamesRequest, NotOpening
  <2> QED
    BY <2>0, <2>1, <2>2, <2>3, <2>4, <2>5, <2>6, <2>7, <2>8, <2>9
    DEF TypeOK, Exits, NotOpening, history
<1> QED
    BY <1>1, <1>2, <1>3, <1>4, <1>5, <1>6, <1>7, <1>8, <1>9 DEF MainStep

LEMMA PublishTyped ==
    ASSUME Typed, NEW e \in Request, Publish(e)
    PROVE  Typed'
<1> USE DEF Typed
<1>1. published' \in Seq(Request) /\ Append(mailbox, e) \in Seq(Request)
      /\ Append(handoff, e) \in Seq(Request)
    BY Appends DEF Publish, TypeOK
<1>2. UNCHANGED <<bridge, toMain, closing, work, navigation, opened, outlived>>
    BY DEF Publish
<1>3. OpenNamesRequest'
    BY <1>2 DEF OpenNamesRequest, navigation
<1>4. CASE /\ handoff' = Append(handoff, e)
           /\ UNCHANGED <<exit, mailbox, delivered, toRenderer>>
  <2>1. RetriesFit'
    BY <1>4 DEF RetriesFit
  <2> QED
    BY <1>1, <1>2, <1>3, <1>4, <2>1 DEF TypeOK, closing, work, navigation
<1>5. CASE /\ exit.pc = "asking"
           /\ Deliver(Append(mailbox, e), delivered,
                     <<Message("abort", exit.id)>>)
           /\ Ended
           /\ UNCHANGED handoff
  <2>1. exit' \in Exits /\ RetriesFit'
    BY <1>5, EndedExit
  <2>2. <<Message("abort", exit.id)>> \in Seq(MessageToRenderer)
    BY <1>5, Messages DEF RetriesFit
  <2>3. /\ mailbox' \in Seq(Request) /\ delivered' \in Request \cup {NoRequest}
        /\ toRenderer' \in Seq(MessageToRenderer)
    BY <1>1, <1>5, <2>2, DeliverType DEF TypeOK
  <2> QED
    BY <1>1, <1>2, <1>3, <1>5, <2>1, <2>3 DEF TypeOK, Exits, closing, work,
       navigation
<1>6. CASE /\ Deliver(Append(mailbox, e), delivered, <<>>)
           /\ UNCHANGED <<exit, handoff>>
  <2>1. RetriesFit'
    BY <1>6 DEF RetriesFit
  <2>2. <<>> \in Seq(MessageToRenderer)
    BY EmptySeq
  <2>3. /\ mailbox' \in Seq(Request) /\ delivered' \in Request \cup {NoRequest}
        /\ toRenderer' \in Seq(MessageToRenderer)
    BY <1>1, <1>6, <2>2, DeliverType DEF TypeOK
  <2> QED
    BY <1>1, <1>2, <1>3, <1>6, <2>1, <2>3 DEF TypeOK, closing, work, navigation
<1> QED
    BY <1>4, <1>5, <1>6 DEF Publish

LEMMA FreezeType ==
    ASSUME TypeOK, NEW a \in Attempt, Freeze(a)
    PROVE  /\ locked' \in BOOLEAN /\ frozen' \in 0..MaxCloses
           /\ cutoff' \in [Attempt -> 0..NotFrozen]
           /\ prep' \in [Attempt -> Suspended \cup {"none", "done"}]
<1>1. edits.made \in 0..NotFrozen
    BY Numbers DEF TypeOK, NotFrozen
<1> QED
    BY <1>1, Numbers DEF Freeze, TypeOK, Suspended

LEMMA StartType ==
    ASSUME TypeOK, NEW a \in Attempt, StartProject(a)
    PROVE  /\ locked' \in BOOLEAN /\ frozen' \in 0..MaxCloses
           /\ cutoff' \in [Attempt -> 0..NotFrozen]
           /\ prep' \in [Attempt -> Suspended \cup {"none", "done"}]
           /\ preparing' \in 0..MaxCloses
           /\ close' \in [phase : {"idle", "preparing", "ready"},
                          id : 0..MaxCloses]
<1>1. /\ preparing' \in 0..MaxCloses
      /\ close' \in [phase : {"idle", "preparing", "ready"}, id : 0..MaxCloses]
    BY Numbers DEF StartProject
<1>2. CASE OpenInFlight
    BY <1>1, <1>2 DEF StartProject, TypeOK, Suspended
<1>3. CASE ~OpenInFlight
    BY <1>1, <1>3, FreezeType DEF StartProject
<1> QED
    BY <1>2, <1>3

LEMMA IdleType ==
    Idle \in [phase : {"idle", "preparing", "ready"}, id : 0..MaxCloses]
BY Numbers DEF Idle

LEMMA ReplyType ==
    ASSUME TypeOK, NEW type \in {"ready", "blocked", "retry"},
           NEW a \in Attempt, Reply(type, a)
    PROVE  toMain' \in Seq(MessageToMain)
<1>1. Message(type, a) \in MessageToMain
    BY Messages
<1> QED
    BY <1>1, Appends DEF Reply, TypeOK

LEMMA GiveUpType ==
    ASSUME TypeOK, NEW a \in Attempt, NEW type \in {"blocked", "retry"},
           GiveUp(a, type)
    PROVE  /\ locked' \in BOOLEAN /\ frozen' \in 0..MaxCloses
           /\ cutoff' \in [Attempt -> 0..NotFrozen]
           /\ prep' \in [Attempt -> Suspended \cup {"none", "done"}]
           /\ preparing' \in 0..MaxCloses
           /\ close' \in [phase : {"idle", "preparing", "ready"},
                          id : 0..MaxCloses]
           /\ closeFreeze' \in 0..MaxCloses
           /\ aborted' \subseteq Attempt
           /\ toMain' \in Seq(MessageToMain)
<1>1. toMain' \in Seq(MessageToMain)
    BY ReplyType DEF GiveUp
<1>2. close' \in [phase : {"idle", "preparing", "ready"}, id : 0..MaxCloses]
    BY IdleType DEF GiveUp
<1>3. locked' \in BOOLEAN /\ frozen' \in 0..MaxCloses
    BY Numbers DEF GiveUp, TypeOK
<1>4. /\ prep' \in [Attempt -> Suspended \cup {"none", "done"}]
      /\ cutoff' \in [Attempt -> 0..NotFrozen]
      /\ preparing' \in 0..MaxCloses /\ closeFreeze' \in 0..MaxCloses
      /\ aborted' \subseteq Attempt
    BY Numbers DEF GiveUp, TypeOK
<1> QED
    BY <1>1, <1>2, <1>3, <1>4

LEMMA RetriesUntouched ==
    ASSUME RetriesFit, UNCHANGED exit
    PROVE  RetriesFit'
BY DEF RetriesFit

LEMMA WorkTyped ==
    ASSUME Typed, Edit \/ WriteNote \/ Save \/ SwitchTab
    PROVE  Typed'
<1> USE DEF Typed
<1>0. /\ UNCHANGED <<main, toRenderer, toMain, closing, locked, history>>
      /\ UNCHANGED <<opening, acking>>
    BY DEF Edit, WriteNote, Save, SwitchTab, navigation, work
<1>1. edits' \in [made : 0..MaxEdits, saved : 0..MaxEdits]
  <2>1. CASE Edit
    <3>1. edits.made + 1 \in 0..MaxEdits
      BY SMTT(30), <2>1, Numbers DEF Edit, TypeOK
    <3> QED
      BY <2>1, <3>1 DEF Edit, TypeOK
  <2>2. CASE WriteNote \/ Save \/ SwitchTab
    BY <2>2 DEF WriteNote, Save, SwitchTab, TypeOK, work
  <2> QED
    BY <2>1, <2>2
<1>2. note' \in BOOLEAN /\ tabSwitch' \in BOOLEAN
    BY DEF Edit, WriteNote, Save, SwitchTab, TypeOK, work, navigation
<1>3. TypeOK'
    BY <1>0, <1>1, <1>2 DEF TypeOK, main, closing, history
<1> QED
    BY <1>0, <1>3 DEF RetriesFit, OpenNamesRequest, main

LEMMA OpeningTyped ==
    ASSUME Typed,
           ReceiveOpen \/ AdmitQueued \/ FinishOpening \/ ReceiveAcknowledged
    PROVE  Typed'
<1> USE DEF Typed
<1>0. UNCHANGED <<main, closing, work, tabSwitch, history>>
    BY DEF ReceiveOpen, AdmitQueued, FinishOpening, ReceiveAcknowledged
<1>1. toRenderer' \in Seq(MessageToRenderer)
    BY HeadToRenderer DEF ReceiveOpen, AdmitQueued, FinishOpening,
       ReceiveAcknowledged, TypeOK, NextIs
<1>2. /\ opening' \in [pc : {"none", "queued", "opening"},
                       id : Request \cup {NoRequest}]
      /\ OpenNamesRequest'
  <2>1. CASE ReceiveOpen
    <3>1. Head(toRenderer).id \in Request
      BY <2>1, HeadToRenderer DEF ReceiveOpen, NextIs, TypeOK
    <3> QED
      BY <2>1, <3>1 DEF ReceiveOpen, Admitted, NotOpening, OpenNamesRequest
  <2>2. CASE AdmitQueued
    <3>1. opening.id \in Request
      BY <2>2 DEF AdmitQueued, OpenNamesRequest
    <3> QED
      BY <2>2, <3>1 DEF AdmitQueued, Admitted, NotOpening, OpenNamesRequest
  <2>3. CASE FinishOpening
    BY <2>3 DEF FinishOpening, NotOpening, OpenNamesRequest
  <2>4. CASE ReceiveAcknowledged
    BY <2>4 DEF ReceiveAcknowledged, OpenNamesRequest, TypeOK
  <2> QED
    BY <2>1, <2>2, <2>3, <2>4
<1>3. toMain' \in Seq(MessageToMain) /\ acking' \in Request \cup {NoRequest}
  <2>1. CASE FinishOpening
    <3>1. opening.id \in Request
      BY <2>1 DEF FinishOpening, OpenNamesRequest
    <3>2. Message("acknowledge", opening.id) \in MessageToMain
      BY <3>1, Messages
    <3> QED
      BY <2>1, <3>1, <3>2, Appends DEF FinishOpening, Reply, TypeOK
  <2>2. CASE ReceiveOpen \/ AdmitQueued \/ ReceiveAcknowledged
    BY <2>2 DEF ReceiveOpen, AdmitQueued, ReceiveAcknowledged, TypeOK
  <2> QED
    BY <2>1, <2>2
<1>4. TypeOK'
    BY <1>0, <1>1, <1>2, <1>3 DEF TypeOK, main, closing, work, history
<1> QED
    BY <1>0, <1>2, <1>4, RetriesUntouched DEF main

LEMMA ReceivePrepareTyped ==
    ASSUME Typed, ReceivePrepare
    PROVE  Typed'
<1> USE DEF Typed
<1> DEFINE a == Head(toRenderer).id
<1>0. UNCHANGED <<main, aborted, edits, note, navigation, published, opened>>
    BY DEF ReceivePrepare
<1>1. a \in Attempt /\ toRenderer' \in Seq(MessageToRenderer)
    BY HeadToRenderer DEF ReceivePrepare, NextIs, TypeOK
<1>2. OpenNamesRequest' /\ RetriesFit'
    BY <1>0, RetriesUntouched DEF OpenNamesRequest, navigation, main
<1> HIDE DEF a
<1>3. CASE closeFreeze # 0
  <2>1. /\ Reply("retry", a)
        /\ prep' = [prep EXCEPT ![a] = "done"]
        /\ UNCHANGED <<closeFreeze, close, preparing, frozen, cutoff,
                       locked, outlived>>
    BY <1>3 DEF ReceivePrepare, a
  <2>2. toMain' \in Seq(MessageToMain)
    BY <1>1, <2>1, ReplyType
  <2>3. prep' \in [Attempt -> Suspended \cup {"none", "done"}]
    BY <2>1 DEF TypeOK
  <2> QED
    BY <1>0, <1>1, <1>2, <2>1, <2>2, <2>3 DEF TypeOK, main, navigation
<1>4. CASE closeFreeze = 0
  <2>1. /\ closeFreeze' = a
        /\ outlived' = (outlived \/ Overlap(a))
        /\ UNCHANGED toMain
        /\ IF NavigationIdle
           THEN StartProject(a)
           ELSE /\ prep' = [prep EXCEPT ![a] = "navigation"]
                /\ UNCHANGED <<close, preparing, frozen, cutoff, locked>>
    BY <1>4 DEF ReceivePrepare, a
  <2>2. closeFreeze' \in 0..MaxCloses
    BY <1>1, <2>1, Numbers
  <2>3. /\ locked' \in BOOLEAN /\ frozen' \in 0..MaxCloses
        /\ cutoff' \in [Attempt -> 0..NotFrozen]
        /\ prep' \in [Attempt -> Suspended \cup {"none", "done"}]
        /\ preparing' \in 0..MaxCloses
        /\ close' \in [phase : {"idle", "preparing", "ready"},
                       id : 0..MaxCloses]
    <3>1. CASE NavigationIdle
      BY <1>1, <2>1, <3>1, StartType
    <3>2. CASE ~NavigationIdle
      BY <1>1, <2>1, <3>2 DEF TypeOK, Suspended
    <3> QED
      BY <3>1, <3>2
  <2>4. outlived' \in BOOLEAN
    BY <2>1 DEF Overlap, TypeOK
  <2> QED
    BY SMTT(30), <1>0, <1>1, <1>2, <2>1, <2>2, <2>3, <2>4 DEF TypeOK, main, navigation
<1> QED
    BY <1>3, <1>4

LEMMA ReceiveAbortTyped ==
    ASSUME Typed, ReceiveAbort
    PROVE  Typed'
<1> USE DEF Typed
<1> DEFINE a == Head(toRenderer).id
<1>0. UNCHANGED <<main, toMain, preparing, prep, cutoff, edits, note,
                  navigation, history>>
    BY DEF ReceiveAbort
<1>1. a \in Attempt /\ toRenderer' \in Seq(MessageToRenderer)
    BY HeadToRenderer DEF ReceiveAbort, NextIs, TypeOK
<1>2. OpenNamesRequest' /\ RetriesFit'
    BY <1>0, RetriesUntouched DEF OpenNamesRequest, navigation, main
<1> HIDE DEF a
<1>3. closeFreeze' \in 0..MaxCloses
    BY Numbers DEF ReceiveAbort, TypeOK
<1>4. aborted' \subseteq Attempt
    BY <1>1 DEF ReceiveAbort, TypeOK, a
<1>5. close' \in [phase : {"idle", "preparing", "ready"}, id : 0..MaxCloses]
    BY IdleType DEF ReceiveAbort, TypeOK
<1>6. locked' \in BOOLEAN /\ frozen' \in 0..MaxCloses
    BY Numbers DEF ReceiveAbort, TypeOK
<1> QED
    BY SMTT(30), <1>0, <1>1, <1>2, <1>3, <1>4, <1>5, <1>6 DEF TypeOK, main, navigation,
       history

LEMMA PrepareTyped ==
    ASSUME Typed, NEW a \in Attempt, PrepareStep(a)
    PROVE  Typed'
<1> USE DEF Typed
<1>0. UNCHANGED <<main, toRenderer, edits, note, navigation, history>>
    BY DEF PrepareStep, NavigationSettles, NavigationTimesOut, OpensSettle,
       Drained, DrainFails, Reconciled, work
<1>1. OpenNamesRequest' /\ RetriesFit'
    BY <1>0, RetriesUntouched DEF OpenNamesRequest, navigation, main
<1>2. /\ locked' \in BOOLEAN /\ frozen' \in 0..MaxCloses
      /\ cutoff' \in [Attempt -> 0..NotFrozen]
      /\ prep' \in [Attempt -> Suspended \cup {"none", "done"}]
      /\ preparing' \in 0..MaxCloses
      /\ close' \in [phase : {"idle", "preparing", "ready"}, id : 0..MaxCloses]
      /\ closeFreeze' \in 0..MaxCloses
      /\ aborted' \subseteq Attempt
      /\ toMain' \in Seq(MessageToMain)
  <2>1. CASE NavigationSettles(a)
    BY <2>1, StartType DEF NavigationSettles, TypeOK
  <2>2. CASE NavigationTimesOut(a)
    <3>1. toMain' \in Seq(MessageToMain)
      BY <2>2, ReplyType DEF NavigationTimesOut
    <3> QED
      BY <2>2, <3>1, Numbers DEF NavigationTimesOut, TypeOK, work
  <2>3. CASE OpensSettle(a)
    BY <2>3, FreezeType DEF OpensSettle, TypeOK
  <2>4. CASE Drained(a)
    BY <2>4 DEF Drained, TypeOK, Suspended, work
  <2>5. CASE \E type \in {"blocked", "retry"} : GiveUp(a, type)
    BY <2>5, GiveUpType
  <2>6. CASE DrainFails(a)
    BY <2>5, <2>6 DEF DrainFails
  <2>7. CASE Reconciled(a)
    <3>1. CASE ~MayBeReady(a)
      BY <2>5, <2>7, <3>1 DEF Reconciled
    <3>2. CASE MayBeReady(a)
      <4>1. /\ prep' = [prep EXCEPT ![a] = "done"]
            /\ preparing' = IF preparing = a THEN 0 ELSE preparing
            /\ UNCHANGED cutoff
        BY <2>7, <3>2 DEF Reconciled
      <4>2. CASE closeFreeze = a
        <5>1. /\ close' = [phase |-> "ready", id |-> a]
              /\ aborted' = aborted \ {a}
              /\ Reply("ready", a)
              /\ UNCHANGED <<closeFreeze, frozen, locked>>
          BY <2>7, <3>2, <4>2 DEF Reconciled
        <5>2. toMain' \in Seq(MessageToMain)
          BY <5>1, ReplyType
        <5> QED
          BY <4>1, <5>1, <5>2, Numbers DEF TypeOK
      <4>3. CASE closeFreeze # a
        <5>1. TakeBack(a)
          BY <2>7, <3>2, <4>3 DEF Reconciled
        <5>2. toMain' \in Seq(MessageToMain)
          BY <5>1, ReplyType DEF TakeBack
        <5>3. /\ close' \in [phase : {"idle", "preparing", "ready"},
                             id : 0..MaxCloses]
              /\ closeFreeze' = closeFreeze /\ aborted' = aborted \ {a}
          BY <5>1, IdleType DEF TakeBack
        <5>4. locked' \in BOOLEAN /\ frozen' \in 0..MaxCloses
          BY <5>1, Numbers DEF TakeBack, TypeOK
        <5> QED
          BY <4>1, <5>2, <5>3, <5>4, Numbers DEF TypeOK
      <4> QED
        BY <4>2, <4>3
    <3> QED
      BY <3>1, <3>2
  <2> QED
    BY <2>1, <2>2, <2>3, <2>4, <2>6, <2>7 DEF PrepareStep
<1> QED
    BY SMTT(30), <1>0, <1>1, <1>2 DEF TypeOK, main, navigation, history

LEMMA StepTyped ==
    ASSUME Typed, [Next]_vars
    PROVE  Typed'
<1>1. CASE UNCHANGED vars
    BY <1>1 DEF Typed, TypeOK, RetriesFit, OpenNamesRequest, vars, main, closing,
       work, navigation, history
<1>2. CASE Next
    BY <1>2, MainTyped, PublishTyped, WorkTyped, OpeningTyped,
       ReceivePrepareTyped, ReceiveAbortTyped, PrepareTyped
    DEF Next, RendererStep
<1> QED
    BY <1>1, <1>2

-----------------------------------------------------------------------------
(* The channels.                                                            *)
Receipts == {m \in MessageToRenderer : m.type \in {"open", "acknowledged"}}

(* What is in the channel stays, and what follows it is in S. *)
Grown(S) ==
    /\ \A i \in DOMAIN toRenderer :
           i \in DOMAIN toRenderer' /\ toRenderer'[i] = toRenderer[i]
    /\ \A i \in DOMAIN toRenderer' : i \notin DOMAIN toRenderer =>
           toRenderer'[i] \in S /\ \A k \in DOMAIN toRenderer : k < i
Gained(m) ==
    \E i \in DOMAIN toRenderer' : i \notin DOMAIN toRenderer /\ toRenderer'[i] = m

LEMMA Extended ==
    ASSUME toRenderer \in Seq(MessageToRenderer),
           NEW more \in Seq(MessageToRenderer),
           toRenderer' = toRenderer \o more,
           NEW S, \A k \in DOMAIN more : more[k] \in S
    PROVE  /\ Grown(S)
           /\ \A k \in DOMAIN more : Gained(more[k])
<1>1. /\ toRenderer' \in Seq(MessageToRenderer)
      /\ Len(toRenderer') = Len(toRenderer) + Len(more)
      /\ \A i \in 1 .. Len(toRenderer) + Len(more) :
             toRenderer'[i] = IF i <= Len(toRenderer) THEN toRenderer[i]
                              ELSE more[i - Len(toRenderer)]
    BY ConcatProperties
<1>2. /\ DOMAIN toRenderer = 1 .. Len(toRenderer) /\ Len(toRenderer) \in Nat
      /\ DOMAIN more = 1 .. Len(more) /\ Len(more) \in Nat
      /\ DOMAIN toRenderer' = 1 .. Len(toRenderer) + Len(more)
    BY <1>1, LenProperties
<1>3. ASSUME NEW i \in DOMAIN toRenderer
      PROVE  i \in DOMAIN toRenderer' /\ toRenderer'[i] = toRenderer[i]
    BY <1>1, <1>2
<1>4. ASSUME NEW i \in DOMAIN toRenderer', i \notin DOMAIN toRenderer
      PROVE  toRenderer'[i] \in S /\ \A k \in DOMAIN toRenderer : k < i
  <2>1. i - Len(toRenderer) \in DOMAIN more
    BY <1>2, <1>4
  <2>2. toRenderer'[i] = more[i - Len(toRenderer)]
    BY <1>1, <1>2, <1>4
  <2> QED
    BY <1>2, <1>4, <2>1, <2>2
<1>5. ASSUME NEW k \in DOMAIN more
      PROVE  Gained(more[k])
  <2> DEFINE i == Len(toRenderer) + k
  <2>1. /\ i \in DOMAIN toRenderer' /\ i \notin DOMAIN toRenderer
        /\ i - Len(toRenderer) = k /\ ~(i <= Len(toRenderer))
    BY <1>2, <1>5
  <2>2. toRenderer'[i] = more[k]
    BY <1>1, <1>2, <2>1
  <2> HIDE DEF i
  <2> QED
    BY <2>1, <2>2 DEF Gained
<1> QED
    BY <1>3, <1>4, <1>5 DEF Grown

LEMMA PairIs ==
    ASSUME NEW S, NEW x \in S, NEW y \in S
    PROVE  <<x>> \o <<y>> = <<x, y>>
<1>1. /\ <<x>> \in Seq(S) /\ <<y>> \in Seq(S) /\ <<x, y>> \in Seq(S)
      /\ Len(<<x>>) = 1 /\ Len(<<y>>) = 1 /\ Len(<<x, y>>) = 2
    OBVIOUS
<1>2. /\ <<x>> \o <<y>> \in Seq(S) /\ Len(<<x>> \o <<y>>) = 2
      /\ \A i \in 1 .. 2 : (<<x>> \o <<y>>)[i] =
             IF i <= 1 THEN <<x>>[i] ELSE <<y>>[i - 1]
    BY <1>1, ConcatProperties
<1>3. (<<x>> \o <<y>>)[1] = x /\ (<<x>> \o <<y>>)[2] = y
  <2>1. /\ (<<x>> \o <<y>>)[1] = <<x>>[1]
        /\ (<<x>> \o <<y>>)[2] = <<y>>[1]
    BY <1>2
  <2> QED
    BY <2>1
<1>4. \A i \in 1 .. 2 : (<<x>> \o <<y>>)[i] = <<x, y>>[i]
  <2>1. <<x, y>>[1] = x /\ <<x, y>>[2] = y /\ \A i \in 1 .. 2 : i = 1 \/ i = 2
    OBVIOUS
  <2> QED
    BY <1>3, <2>1
<1> QED
    BY <1>1, <1>2, <1>4, SeqEqual

LEMMA DeliverGrows ==
    ASSUME toRenderer \in Seq(MessageToRenderer),
           NEW mb \in Seq(Request), NEW dl, NEW m \in MessageToRenderer,
           Deliver(mb, dl, <<m>>)
    PROVE  Grown(Receipts \cup {m}) /\ Gained(m)
<1>1. CASE ShouldDeliver(mb, dl)
  <2> DEFINE o == Message("open", Head(mb))
  <2>1. o \in Receipts
    BY <1>1, ShouldDeliverType, Messages DEF Receipts, Message
  <2>2. o \in MessageToRenderer
    BY <2>1 DEF Receipts
  <2>3. toRenderer' = (toRenderer \o <<m>>) \o <<o>>
    BY <1>1 DEF Deliver
  <2> HIDE DEF o
  <2>4. <<m>> \in Seq(MessageToRenderer) /\ <<o>> \in Seq(MessageToRenderer)
    BY <2>2
  <2>5. toRenderer' = toRenderer \o (<<m>> \o <<o>>)
    BY <2>3, <2>4, ConcatAssociative
  <2>6. <<m>> \o <<o>> = <<m, o>>
    BY <2>2, PairIs
  <2>7. <<m, o>> \in Seq(MessageToRenderer) /\ DOMAIN <<m, o>> = {1, 2}
    BY <2>2
  <2>8. toRenderer' = toRenderer \o <<m, o>>
    BY <2>5, <2>6
  <2>9. \A k \in DOMAIN <<m, o>> : <<m, o>>[k] \in Receipts \cup {m}
    BY <2>1, <2>7
  <2>10. /\ Grown(Receipts \cup {m})
         /\ \A k \in DOMAIN <<m, o>> : Gained(<<m, o>>[k])
    BY <2>7, <2>8, <2>9, Extended
  <2>11. 1 \in DOMAIN <<m, o>> /\ <<m, o>>[1] = m
    BY <2>7
  <2> QED
    BY <2>10, <2>11
<1>2. CASE ~ShouldDeliver(mb, dl)
  <2>1. toRenderer' = (toRenderer \o <<m>>) \o <<>>
    BY <1>2 DEF Deliver
  <2>2. <<m>> \in Seq(MessageToRenderer) /\ <<>> \in Seq(MessageToRenderer)
    OBVIOUS
  <2>3. toRenderer' = toRenderer \o <<m>>
    BY <2>1, <2>2, ConcatProperties, ConcatEmptySeq
  <2>4. DOMAIN <<m>> = {1} /\ <<m>>[1] = m
    OBVIOUS
  <2>5. \A k \in DOMAIN <<m>> : <<m>>[k] \in Receipts \cup {m}
    BY <2>4
  <2>6. /\ Grown(Receipts \cup {m})
        /\ \A k \in DOMAIN <<m>> : Gained(<<m>>[k])
    BY <2>2, <2>3, <2>5, Extended
  <2> QED
    BY <2>4, <2>6
<1> QED
    BY <1>1, <1>2

LEMMA DeliverOnlyGrows ==
    ASSUME toRenderer \in Seq(MessageToRenderer),
           NEW mb \in Seq(Request), NEW dl, Deliver(mb, dl, <<>>)
    PROVE  Grown(Receipts)
<1>1. <<>> \in Seq(MessageToRenderer) /\ DOMAIN <<>> = {}
    BY EmptySeq
<1>2. toRenderer \o <<>> = toRenderer
    BY ConcatEmptySeq
<1>3. CASE ShouldDeliver(mb, dl)
  <2> DEFINE o == Message("open", Head(mb))
  <2>1. o \in Receipts
    BY <1>3, ShouldDeliverType, Messages DEF Receipts, Message
  <2>2. toRenderer' = toRenderer \o <<o>>
    BY <1>2, <1>3 DEF Deliver
  <2> HIDE DEF o
  <2>3. <<o>> \in Seq(MessageToRenderer) /\ DOMAIN <<o>> = {1} /\ <<o>>[1] = o
    BY <2>1 DEF Receipts
  <2>4. \A k \in DOMAIN <<o>> : <<o>>[k] \in Receipts
    BY <2>1, <2>3
  <2> QED
    BY <2>2, <2>3, <2>4, Extended
<1>4. CASE ~ShouldDeliver(mb, dl)
  <2>1. toRenderer' = toRenderer \o <<>>
    BY <1>2, <1>4 DEF Deliver
  <2>2. \A k \in DOMAIN <<>> : <<>>[k] \in Receipts
    BY <1>1
  <2> QED
    BY <1>1, <2>1, <2>2, Extended
<1> QED
    BY <1>3, <1>4

LEMMA AcknowledgeGrows ==
    ASSUME TypeOK, ReceiveAcknowledge
    PROVE  Grown(Receipts)
<1> DEFINE e == Head(toMain).id
           rest == IF mailbox # <<>> /\ Head(mailbox) = e THEN Tail(mailbox)
                   ELSE mailbox
           last == IF delivered = e THEN NoRequest ELSE delivered
           m == Message("acknowledged", e)
<1>1. m \in Receipts /\ m \in MessageToRenderer
  <2>1. e \in Request
    BY HeadToMain DEF ReceiveAcknowledge, TypeOK
  <2> HIDE DEF e
  <2> QED
    BY <2>1, Messages DEF Receipts, Message
<1>2. rest \in Seq(Request)
    BY HeadTailProperties DEF TypeOK
<1>3. toRenderer' = toRenderer \o
          (IF ShouldDeliver(rest, last)
           THEN <<Message("open", Head(rest))>> ELSE <<>>) \o <<m>>
    BY DEF ReceiveAcknowledge
<1> HIDE DEF e, rest, last, m
<1>4. toRenderer \in Seq(MessageToRenderer)
    BY DEF TypeOK
<1>5. CASE ShouldDeliver(rest, last)
  <2> DEFINE o == Message("open", Head(rest))
  <2>1. o \in Receipts
    BY <1>2, <1>5, ShouldDeliverType, Messages DEF Receipts, Message
  <2>2. o \in MessageToRenderer
    BY <2>1 DEF Receipts
  <2>3. toRenderer' = (toRenderer \o <<o>>) \o <<m>>
    BY <1>3, <1>5
  <2> HIDE DEF o
  <2>4. <<m>> \in Seq(MessageToRenderer) /\ <<o>> \in Seq(MessageToRenderer)
    BY <1>1, <2>2
  <2>5. toRenderer' = toRenderer \o (<<o>> \o <<m>>)
    BY <1>4, <2>3, <2>4, ConcatAssociative
  <2>6. <<o>> \o <<m>> = <<o, m>>
    BY <1>1, <2>2, PairIs
  <2>7. <<o, m>> \in Seq(MessageToRenderer) /\ DOMAIN <<o, m>> = {1, 2}
    BY <1>1, <2>2
  <2>8. \A k \in DOMAIN <<o, m>> : <<o, m>>[k] \in Receipts
    BY <1>1, <2>1, <2>7
  <2> QED
    BY <1>4, <2>5, <2>6, <2>7, <2>8, Extended
<1>6. CASE ~ShouldDeliver(rest, last)
  <2>1. toRenderer \o <<>> = toRenderer
    BY <1>4, ConcatEmptySeq
  <2>2. toRenderer' = toRenderer \o <<m>>
    BY <1>3, <1>6, <2>1
  <2>3. <<m>> \in Seq(MessageToRenderer) /\ DOMAIN <<m>> = {1} /\ <<m>>[1] = m
    BY <1>1
  <2>4. \A k \in DOMAIN <<m>> : <<m>>[k] \in Receipts
    BY <1>1, <2>3
  <2> QED
    BY <1>4, <2>2, <2>3, <2>4, Extended
<1> QED
    BY <1>5, <1>6

LEMMA AskGrows ==
    ASSUME TypeOK, NEW retries, Ask(retries), exit.id + 1 \in Attempt
    PROVE  LET m == Message("prepare", exit.id + 1)
           IN  Grown({m}) /\ Gained(m)
<1> DEFINE m == Message("prepare", exit.id + 1)
<1>1. m \in MessageToRenderer
    BY Messages
<1>2. toRenderer' = Append(toRenderer, m)
    BY DEF Ask
<1> HIDE DEF m
<1>3. toRenderer \in Seq(MessageToRenderer)
    BY DEF TypeOK
<1>4. <<m>> \in Seq(MessageToRenderer) /\ DOMAIN <<m>> = {1} /\ <<m>>[1] = m
    BY <1>1
<1>5. toRenderer' = toRenderer \o <<m>>
  <2>1. Append(toRenderer, m) = toRenderer \o <<m>>
    BY <1>1, <1>3, AppendIsConcat
  <2> QED
    BY <1>2, <2>1
<1>6. \A k \in DOMAIN <<m>> : <<m>>[k] \in {m}
    BY <1>4
<1>7. Grown({m}) /\ \A k \in DOMAIN <<m>> : Gained(<<m>>[k])
    BY <1>3, <1>4, <1>5, <1>6, Extended
<1> QED
    BY <1>4, <1>7 DEF m

(* The head of a channel is taken, and the others move up. *)
LEMMA RendererTail ==
    ASSUME toRenderer \in Seq(MessageToRenderer), toRenderer # <<>>,
           toRenderer' = Tail(toRenderer)
    PROVE  /\ DOMAIN toRenderer \subseteq Nat /\ DOMAIN toRenderer' \subseteq Nat
           /\ \A i \in DOMAIN toRenderer' :
                  i + 1 \in DOMAIN toRenderer
                  /\ toRenderer'[i] = toRenderer[i + 1]
           /\ \A i \in DOMAIN toRenderer : i # 1 =>
                  i - 1 \in DOMAIN toRenderer'
                  /\ toRenderer'[i - 1] = toRenderer[i]
<1>1. /\ toRenderer' \in Seq(MessageToRenderer)
      /\ Len(toRenderer') = Len(toRenderer) - 1
      /\ \A i \in 1 .. Len(toRenderer') : toRenderer'[i] = toRenderer[i + 1]
    BY HeadTailProperties
<1>2. /\ Len(toRenderer) \in Nat /\ DOMAIN toRenderer = 1 .. Len(toRenderer)
      /\ Len(toRenderer') \in Nat /\ DOMAIN toRenderer' = 1 .. Len(toRenderer')
    BY <1>1, LenProperties
<1>3. ASSUME NEW i \in DOMAIN toRenderer, i # 1
      PROVE  /\ i - 1 \in DOMAIN toRenderer'
             /\ toRenderer'[i - 1] = toRenderer[i]
  <2>1. i - 1 \in 1 .. Len(toRenderer') /\ (i - 1) + 1 = i
    BY <1>1, <1>2, <1>3
  <2>2. toRenderer'[i - 1] = toRenderer[(i - 1) + 1]
    BY <1>1, <2>1
  <2> QED
    BY <1>2, <2>1, <2>2
<1> QED
    BY <1>1, <1>2, <1>3

LEMMA MainTail ==
    ASSUME toMain \in Seq(MessageToMain), toMain # <<>>,
           toMain' = Tail(toMain)
    PROVE  \A i \in DOMAIN toMain' :
               i + 1 \in DOMAIN toMain /\ toMain'[i] = toMain[i + 1]
<1>1. /\ toMain' \in Seq(MessageToMain)
      /\ Len(toMain') = Len(toMain) - 1
      /\ \A i \in 1 .. Len(toMain') : toMain'[i] = toMain[i + 1]
    BY HeadTailProperties
<1>2. /\ Len(toMain) \in Nat /\ DOMAIN toMain = 1 .. Len(toMain)
      /\ Len(toMain') \in Nat /\ DOMAIN toMain' = 1 .. Len(toMain')
    BY <1>1, LenProperties
<1> QED
    BY <1>1, <1>2

LEMMA MainAppend ==
    ASSUME toMain \in Seq(MessageToMain), NEW m \in MessageToMain,
           toMain' = Append(toMain, m)
    PROVE  \A i \in DOMAIN toMain' :
               \/ i \in DOMAIN toMain /\ toMain'[i] = toMain[i]
               \/ toMain'[i] = m
<1>1. /\ Append(toMain, m) \in Seq(MessageToMain)
      /\ Len(Append(toMain, m)) = Len(toMain) + 1
      /\ \A i \in 1 .. Len(toMain) : Append(toMain, m)[i] = toMain[i]
      /\ Append(toMain, m)[Len(toMain) + 1] = m
    BY AppendProperties
<1>2. /\ Len(toMain) \in Nat /\ DOMAIN toMain = 1 .. Len(toMain)
      /\ DOMAIN toMain' = 1 .. Len(toMain) + 1
    BY <1>1, LenProperties
<1> QED
    BY <1>1, <1>2

-----------------------------------------------------------------------------
(* The steps of the main process.                                           *)
LEMMA RendererUntouched ==
    ASSUME Renderer, UNCHANGED <<closing, work, outlived>>
    PROVE  Renderer'
BY DEF Renderer, PreparingIsBegun, CloseHasOwner, LockHasOwner, CutoffsArePast,
       OneAtATime, FrozenIsLocked, BegunIsPreparing, Begun, Alone, closing, work

(* Nothing was decided that was not decided before. *)
LEMMA DecisionStays ==
    ASSUME Decision, UNCHANGED <<closing, work, outlived>>,
           Decided' \/ ReadyToAccept' => Decided \/ ReadyToAccept,
           exit'.id = exit.id
    PROVE  Decision'
BY DEF Decision, DecidedIsFrozen, DecidedIsSafe, Alone, closing, work

LEMMA AnswersTail ==
    ASSUME TypeOK, AnswersAreOver, prep' = prep,
           toMain' = toMain \/ (toMain # <<>> /\ toMain' = Tail(toMain))
    PROVE  /\ AnswersAreOver'
           /\ /\ exit'.pc = "asking" => exit.pc = "asking"
              /\ exit'.id = exit.id
              /\ ReadyToAccept'
              => ReadyToAccept
<1>1. \A i \in DOMAIN toMain' :
          \E j \in DOMAIN toMain : toMain'[i] = toMain[j]
  <2>1. CASE toMain' = toMain
    BY <2>1
  <2>2. CASE toMain # <<>> /\ toMain' = Tail(toMain)
    BY <2>2, MainTail DEF TypeOK
  <2> QED
    BY <2>1, <2>2
<1>2. AnswersAreOver'
    BY <1>1 DEF AnswersAreOver
<1>3. ASSUME exit'.pc = "asking" => exit.pc = "asking", exit'.id = exit.id
      PROVE  ReadyToAccept' => ReadyToAccept
    BY <1>1, <1>3 DEF ReadyToAccept
<1> QED
    BY <1>2, <1>3

(* The channel grew by receipts, or not at all. *)
LEMMA ChannelGrown ==
    ASSUME IInv, prep' = prep, closeFreeze' = closeFreeze,
           exit'.id = exit.id,
           exit'.pc \in {"none", "pausing"} <=> exit.pc \in {"none", "pausing"},
           toRenderer' = toRenderer \/ Grown(Receipts)
    PROVE  PastPreps' /\ ToRendererOrder' /\ FreezeIsOwned'
<1>1. /\ PastPreps /\ ToRendererOrder /\ FreezeIsOwned /\ TypeOK
    BY DEF IInv, Channels, Typed
<1>2. \A a : Underway(a)' <=> Underway(a)
    BY DEF Underway
<1>3. PastPreps'
    BY <1>1 DEF PastPreps
<1>4. CASE toRenderer' = toRenderer
    BY <1>1, <1>2, <1>3, <1>4 DEF ToRendererOrder, FreezeIsOwned, Owned, Sent
<1>5. CASE Grown(Receipts)
  <2>1. \A i \in DOMAIN toRenderer :
            i \in DOMAIN toRenderer' /\ toRenderer'[i] = toRenderer[i]
    BY <1>5 DEF Grown
  <2>2. \A i \in DOMAIN toRenderer' : toRenderer'[i].type \in {"abort", "prepare"}
            => i \in DOMAIN toRenderer /\ toRenderer'[i] = toRenderer[i]
    BY <1>5 DEF Grown, Receipts
  <2>3. FreezeIsOwned'
    BY <1>1, <1>2, <2>1 DEF FreezeIsOwned, Owned, Sent
  <2>4. ToRendererOrder'
    <3> SUFFICES ASSUME NEW i \in DOMAIN toRenderer'
                 PROVE  /\ toRenderer'[i].type = "abort" =>
                             /\ toRenderer'[i].id <= exit'.id
                             /\ ~Underway(toRenderer[i].id)'
                        /\ toRenderer'[i].type = "prepare" =>
                             /\ toRenderer'[i].id <= exit'.id
                             /\ prep'[toRenderer'[i].id] = "none"
                             /\ \/ Underway(toRenderer[i].id)'
                                \/ \E j \in DOMAIN toRenderer' :
                                     /\ j > i
                                     /\ toRenderer'[j] =
                                          Message("abort", toRenderer'[i].id)
                             /\ \A j \in DOMAIN toRenderer' :
                                  j # i /\ toRenderer'[j].type = "prepare"
                                  => toRenderer'[j].id # toRenderer'[i].id
      BY DEF ToRendererOrder
    <3>1. CASE toRenderer'[i].type = "abort"
      <4>1. i \in DOMAIN toRenderer /\ toRenderer'[i] = toRenderer[i]
        BY <2>2, <3>1
      <4> QED
        BY <1>1, <1>2, <3>1, <4>1 DEF ToRendererOrder, Underway
    <3>2. CASE toRenderer'[i].type = "prepare"
      <4>1. i \in DOMAIN toRenderer /\ toRenderer'[i] = toRenderer[i]
        BY <2>2, <3>2
      <4>2. /\ toRenderer[i].id <= exit.id
            /\ prep[toRenderer[i].id] = "none"
            /\ \/ Underway(toRenderer[i].id)
               \/ \E j \in DOMAIN toRenderer :
                      /\ j > i
                      /\ toRenderer[j] = Message("abort", toRenderer[i].id)
            /\ \A j \in DOMAIN toRenderer :
                   j # i /\ toRenderer[j].type = "prepare"
                   => toRenderer[j].id # toRenderer[i].id
        BY <1>1, <3>2, <4>1 DEF ToRendererOrder
      <4> QED
        BY <1>2, <2>1, <2>2, <3>2, <4>1, <4>2 DEF Underway
    <3> QED
      BY <3>1, <3>2
  <2> QED
    BY <1>3, <2>3, <2>4
<1> QED
    BY <1>4, <1>5

(* The exit is given up, and the renderer will hear of it. *)
LEMMA ChannelGivenUp ==
    ASSUME IInv, prep' = prep, closeFreeze' = closeFreeze,
           exit'.id = exit.id, exit.id \in Attempt,
           exit.pc \notin {"none", "pausing"}, exit'.pc \in {"none", "pausing"},
           Grown(Receipts \cup {Message("abort", exit.id)}),
           Gained(Message("abort", exit.id))
    PROVE  PastPreps' /\ ToRendererOrder' /\ FreezeIsOwned'
<1> DEFINE m == Message("abort", exit.id)
<1>1. /\ PastPreps /\ ToRendererOrder /\ FreezeIsOwned /\ TypeOK
    BY DEF IInv, Channels, Typed
<1>2. /\ \A x : Underway(x) <=> x = exit.id
      /\ \A x : ~Underway(x)'
    BY DEF Underway
<1>3. PastPreps'
    BY <1>1 DEF PastPreps
<1>4. \A i \in DOMAIN toRenderer :
          i \in DOMAIN toRenderer' /\ toRenderer'[i] = toRenderer[i]
    BY DEF Grown
<1>5. PICK g \in DOMAIN toRenderer' :
          g \notin DOMAIN toRenderer /\ toRenderer'[g] = m
    BY DEF Gained
<1>6. \A i \in DOMAIN toRenderer : i < g
    BY <1>5 DEF Grown
<1>7. m.type = "abort" /\ m.id = exit.id
    BY MessageIs
<1>8. \A i \in DOMAIN toRenderer' :
          /\ toRenderer'[i].type = "prepare"
             => i \in DOMAIN toRenderer /\ toRenderer'[i] = toRenderer[i]
          /\ toRenderer'[i].type = "abort"
             => \/ i \in DOMAIN toRenderer /\ toRenderer'[i] = toRenderer[i]
                \/ toRenderer'[i].id = exit.id
    BY <1>7 DEF Grown, Receipts
<1> HIDE DEF m
<1>9. FreezeIsOwned'
  <2> SUFFICES ASSUME closeFreeze # 0
               PROVE  /\ Owned(closeFreeze)' /\ prep[closeFreeze] # "none"
    BY DEF FreezeIsOwned
  <2>1. Owned(closeFreeze) /\ prep[closeFreeze] # "none"
    BY <1>1 DEF FreezeIsOwned
  <2>2. \/ closeFreeze = exit.id
        \/ \E i \in DOMAIN toRenderer :
               toRenderer[i] = Message("abort", closeFreeze)
    BY <1>2, <2>1 DEF Owned, Sent
  <2>3. \E i \in DOMAIN toRenderer' :
            toRenderer'[i] = Message("abort", closeFreeze)
    BY <1>4, <1>5, <2>2 DEF m
  <2> QED
    BY <2>1, <2>3 DEF Owned, Sent
<1>10. ASSUME NEW i \in DOMAIN toRenderer', toRenderer'[i].type = "abort"
       PROVE  toRenderer'[i].id <= exit'.id
  <2>1. exit.id \in Nat
    BY Numbers
  <2> QED
    BY <1>1, <1>8, <1>10, <2>1 DEF ToRendererOrder
<1>11. ASSUME NEW i \in DOMAIN toRenderer', toRenderer'[i].type = "prepare"
       PROVE  /\ toRenderer'[i].id <= exit'.id
              /\ prep'[toRenderer'[i].id] = "none"
              /\ \E j \in DOMAIN toRenderer' :
                     /\ j > i
                     /\ toRenderer'[j] = Message("abort", toRenderer'[i].id)
              /\ \A j \in DOMAIN toRenderer' :
                     j # i /\ toRenderer'[j].type = "prepare"
                     => toRenderer'[j].id # toRenderer'[i].id
  <2>1. i \in DOMAIN toRenderer /\ toRenderer'[i] = toRenderer[i]
    BY <1>8, <1>11
  <2>2. /\ toRenderer[i].id <= exit.id
        /\ prep[toRenderer[i].id] = "none"
        /\ \/ Underway(toRenderer[i].id)
           \/ \E j \in DOMAIN toRenderer :
                  /\ j > i
                  /\ toRenderer[j] = Message("abort", toRenderer[i].id)
        /\ \A j \in DOMAIN toRenderer :
               j # i /\ toRenderer[j].type = "prepare"
               => toRenderer[j].id # toRenderer[i].id
    BY <1>1, <1>11, <2>1 DEF ToRendererOrder
  <2>3. \E j \in DOMAIN toRenderer' :
            j > i /\ toRenderer'[j] = Message("abort", toRenderer[i].id)
    <3>1. CASE Underway(toRenderer[i].id)
      <4>1. g > i
        <5>1. i < g
          BY <1>6, <2>1
        <5> QED
          BY <5>1
      <4>2. toRenderer'[g] = Message("abort", toRenderer[i].id)
        BY <1>2, <1>5, <3>1 DEF m
      <4> QED
        BY <1>5, <4>1, <4>2
    <3>2. CASE \E j \in DOMAIN toRenderer :
                   /\ j > i
                   /\ toRenderer[j] = Message("abort", toRenderer[i].id)
      BY <1>4, <3>2
    <3> QED
      BY <2>2, <3>1, <3>2
  <2> QED
    BY <1>8, <2>1, <2>2, <2>3
<1>12. ToRendererOrder'
  <2>1. \A i \in DOMAIN toRenderer' : ~Underway(toRenderer[i].id)'
    BY DEF Underway
  <2> QED
    BY <1>10, <1>11, <2>1 DEF ToRendererOrder
<1> QED
    BY <1>3, <1>9, <1>12

(* A new attempt. *)
LEMMA ChannelAsked ==
    ASSUME IInv, NEW retries, Ask(retries), exit.id + 1 \in Attempt,
           exit.pc \in {"none", "pausing"}
    PROVE  PastPreps' /\ ToRendererOrder' /\ FreezeIsOwned'
<1> DEFINE new == exit.id + 1
           m == Message("prepare", new)
<1>1. /\ PastPreps /\ ToRendererOrder /\ FreezeIsOwned /\ TypeOK
    BY DEF IInv, Channels, Typed
<1>2. /\ exit'.id = new /\ exit'.pc = "asking"
      /\ UNCHANGED <<closing, prep, closeFreeze>>
    BY DEF Ask, closing
<1>3. /\ exit.id \in Nat /\ new \in Nat /\ new > exit.id /\ new \in Attempt
      /\ \A x \in Attempt : x <= exit.id => x <= new /\ x # new
    BY <1>1, ExitIs, Numbers
<1>4. /\ \A x : Underway(x)' <=> x = new
      /\ \A x : ~Underway(x)
    BY <1>2 DEF Underway
<1>5. PastPreps'
    BY <1>1, <1>2, <1>3 DEF PastPreps
<1>6. Grown({m})
    BY <1>1, AskGrows
<1>7. \A i \in DOMAIN toRenderer :
          i \in DOMAIN toRenderer' /\ toRenderer'[i] = toRenderer[i]
    BY <1>6 DEF Grown
<1>8. m.type = "prepare" /\ m.id = new
    BY MessageIs
<1>9. \A i \in DOMAIN toRenderer' :
          \/ i \in DOMAIN toRenderer /\ toRenderer'[i] = toRenderer[i]
          \/ i \notin DOMAIN toRenderer /\ toRenderer'[i] = m
    BY <1>6, <1>7 DEF Grown
<1>10. toRenderer' = Append(toRenderer, m)
    BY DEF Ask
<1> HIDE DEF m
<1>11. \A i \in DOMAIN toRenderer :
           toRenderer[i].type \in {"abort", "prepare"} =>
               /\ toRenderer[i].id <= exit.id /\ toRenderer[i].id \in Attempt
               /\ toRenderer[i].id <= new /\ toRenderer[i].id # new
    BY <1>1, <1>3, RendererCarries DEF ToRendererOrder, TypeOK
<1>12. prep[new] = "none"
    BY <1>1, <1>3 DEF PastPreps
<1>13. FreezeIsOwned'
    BY <1>1, <1>2, <1>4, <1>7 DEF FreezeIsOwned, Owned, Sent
<1>14. \A i, j \in DOMAIN toRenderer' :
           i \notin DOMAIN toRenderer /\ j \notin DOMAIN toRenderer => i = j
  <2>1. /\ Len(toRenderer') = Len(toRenderer) + 1
        /\ toRenderer' \in Seq(MessageToRenderer)
    <3>1. m \in MessageToRenderer
      BY <1>3, Messages DEF m
    <3> QED
      BY <1>1, <1>10, <3>1, AppendProperties DEF TypeOK
  <2>2. /\ DOMAIN toRenderer' = 1 .. Len(toRenderer) + 1
        /\ DOMAIN toRenderer = 1 .. Len(toRenderer) /\ Len(toRenderer) \in Nat
    BY <1>1, <2>1, LenProperties DEF TypeOK
  <2> QED
    BY <2>2
<1> HIDE DEF new
<1>15. ToRendererOrder'
  <2> SUFFICES ASSUME NEW i \in DOMAIN toRenderer'
               PROVE  /\ toRenderer'[i].type = "abort" =>
                           /\ toRenderer'[i].id <= exit'.id
                           /\ ~Underway(toRenderer[i].id)'
                      /\ toRenderer'[i].type = "prepare" =>
                           /\ toRenderer'[i].id <= exit'.id
                           /\ prep'[toRenderer'[i].id] = "none"
                           /\ \/ Underway(toRenderer[i].id)'
                              \/ \E j \in DOMAIN toRenderer' :
                                   /\ j > i
                                   /\ toRenderer'[j] =
                                        Message("abort", toRenderer'[i].id)
                           /\ \A j \in DOMAIN toRenderer' :
                                j # i /\ toRenderer'[j].type = "prepare"
                                => toRenderer'[j].id # toRenderer'[i].id
    BY DEF ToRendererOrder
  <2>1. CASE i \in DOMAIN toRenderer /\ toRenderer'[i] = toRenderer[i]
    <3>1. CASE toRenderer[i].type = "abort"
      BY <1>2, <1>11, <2>1, <3>1 DEF Underway
    <3>2. CASE toRenderer[i].type = "prepare"
      <4>1. /\ toRenderer[i].id <= exit'.id /\ toRenderer[i].id # new
        BY <1>2, <1>11, <2>1, <3>2
      <4>2. /\ prep[toRenderer[i].id] = "none"
            /\ \E j \in DOMAIN toRenderer :
                   /\ j > i
                   /\ toRenderer[j] = Message("abort", toRenderer[i].id)
            /\ \A j \in DOMAIN toRenderer :
                   j # i /\ toRenderer[j].type = "prepare"
                   => toRenderer[j].id # toRenderer[i].id
        BY <1>1, <1>4, <2>1, <3>2 DEF ToRendererOrder
      <4>3. \E j \in DOMAIN toRenderer' :
                /\ j > i
                /\ toRenderer'[j] = Message("abort", toRenderer[i].id)
        BY <1>7, <4>2
      <4>4. \A j \in DOMAIN toRenderer' :
                j # i /\ toRenderer'[j].type = "prepare"
                => toRenderer'[j].id # toRenderer[i].id
        BY <1>8, <1>9, <4>1, <4>2
      <4> QED
        BY <1>2, <2>1, <3>2, <4>1, <4>2, <4>3, <4>4
    <3> QED
      BY <2>1, <3>1, <3>2
  <2>2. CASE i \notin DOMAIN toRenderer /\ toRenderer'[i] = m
    <3>1. toRenderer'[i].type = "prepare" /\ toRenderer'[i].id = new
      BY <1>8, <2>2
    <3>2. Underway(toRenderer[i].id)'
      BY <1>2, <3>1 DEF Underway
    <3>3. exit'.id \in Nat /\ new <= exit'.id
      BY <1>2, <1>3
    <3>4. ASSUME NEW j \in DOMAIN toRenderer', j # i,
                 toRenderer'[j].type = "prepare"
          PROVE  toRenderer'[j].id # new
      <4>1. j \in DOMAIN toRenderer /\ toRenderer'[j] = toRenderer[j]
        BY <1>9, <1>14, <2>2, <3>4
      <4> QED
        BY <1>11, <3>4, <4>1
    <3> QED
      BY <1>2, <1>12, <3>1, <3>2, <3>3, <3>4
  <2> QED
    BY <1>9, <2>1, <2>2
<1> QED
    BY <1>5, <1>13, <1>15

(* The renderer takes a message. *)
LEMMA ChannelTaken ==
    ASSUME IInv, exit' = exit, toRenderer # <<>>,
           toRenderer' = Tail(toRenderer),
           \A a \in Attempt : prep[a] = "none" =>
               prep'[a] = "none" \/ Head(toRenderer) = Message("prepare", a)
    PROVE  /\ ToRendererOrder'
           /\ \A a : Owned(a) /\ Head(toRenderer) # Message("abort", a)
                     => Owned(a)'
           /\ \A a : Head(toRenderer) = Message("prepare", a) => Owned(a)'
<1>1. ToRendererOrder /\ toRenderer \in Seq(MessageToRenderer)
    BY DEF IInv, Channels, Typed, TypeOK
<1>2. /\ DOMAIN toRenderer \subseteq Nat /\ DOMAIN toRenderer' \subseteq Nat
      /\ \A i \in DOMAIN toRenderer' :
             i + 1 \in DOMAIN toRenderer /\ toRenderer'[i] = toRenderer[i + 1]
      /\ \A i \in DOMAIN toRenderer : i # 1 =>
             i - 1 \in DOMAIN toRenderer' /\ toRenderer'[i - 1] = toRenderer[i]
    BY <1>1, RendererTail
<1>3. Head(toRenderer) = toRenderer[1] /\ 1 \in DOMAIN toRenderer
    BY <1>1, HeadToRenderer
<1>4. \A a : Underway(a)' <=> Underway(a)
    BY DEF Underway
<1>5. ASSUME NEW a, Owned(a), Head(toRenderer) # Message("abort", a)
      PROVE  Owned(a)'
  <2>1. CASE Underway(a)
    BY <1>4, <2>1 DEF Owned
  <2>2. CASE Sent(Message("abort", a))
    <3>1. PICK i \in DOMAIN toRenderer : toRenderer[i] = Message("abort", a)
      BY <2>2 DEF Sent
    <3>2. i - 1 \in DOMAIN toRenderer' /\ toRenderer'[i - 1] = toRenderer[i]
      BY <1>2, <1>3, <1>5, <3>1
    <3> QED
      BY <3>1, <3>2 DEF Owned, Sent
  <2> QED
    BY <1>5, <2>1, <2>2 DEF Owned
<1>6. ASSUME NEW a, Head(toRenderer) = Message("prepare", a)
      PROVE  Owned(a)'
  <2>1. toRenderer[1].type = "prepare" /\ toRenderer[1].id = a
    BY <1>3, <1>6, MessageIs
  <2>2. \/ Underway(a)
        \/ \E j \in DOMAIN toRenderer :
               j > 1 /\ toRenderer[j] = Message("abort", a)
    BY <1>1, <1>3, <2>1 DEF ToRendererOrder
  <2>3. CASE Underway(a)
    BY <1>4, <2>3 DEF Owned
  <2>4. CASE \E j \in DOMAIN toRenderer :
                 j > 1 /\ toRenderer[j] = Message("abort", a)
    <3>1. PICK j \in DOMAIN toRenderer :
                   j > 1 /\ toRenderer[j] = Message("abort", a)
      BY <2>4
    <3>2. j - 1 \in DOMAIN toRenderer' /\ toRenderer'[j - 1] = toRenderer[j]
      BY <1>2, <3>1
    <3> QED
      BY <3>1, <3>2 DEF Owned, Sent
  <2> QED
    BY <2>2, <2>3, <2>4
<1>7. ToRendererOrder'
  <2> SUFFICES ASSUME NEW i \in DOMAIN toRenderer'
               PROVE  /\ toRenderer'[i].type = "abort" =>
                           /\ toRenderer'[i].id <= exit'.id
                           /\ ~Underway(toRenderer[i].id)'
                      /\ toRenderer'[i].type = "prepare" =>
                           /\ toRenderer'[i].id <= exit'.id
                           /\ prep'[toRenderer'[i].id] = "none"
                           /\ \/ Underway(toRenderer[i].id)'
                              \/ \E j \in DOMAIN toRenderer' :
                                   /\ j > i
                                   /\ toRenderer'[j] =
                                        Message("abort", toRenderer'[i].id)
                           /\ \A j \in DOMAIN toRenderer' :
                                j # i /\ toRenderer'[j].type = "prepare"
                                => toRenderer'[j].id # toRenderer'[i].id
    BY DEF ToRendererOrder
  <2> DEFINE k == i + 1
  <2>1. /\ k \in DOMAIN toRenderer /\ toRenderer'[i] = toRenderer[k]
        /\ k # 1 /\ i \in Nat /\ k \in Nat
    BY <1>2
  <2>2. \A j \in DOMAIN toRenderer : j > k =>
            /\ j - 1 > i /\ j - 1 \in DOMAIN toRenderer'
            /\ toRenderer'[j - 1] = toRenderer[j]
    BY <1>2, <2>1
  <2>3. \A j \in DOMAIN toRenderer' : j # i =>
            \E l \in DOMAIN toRenderer : l # k /\ toRenderer'[j] = toRenderer[l]
    <3> SUFFICES ASSUME NEW j \in DOMAIN toRenderer', j # i
                 PROVE \E l \in DOMAIN toRenderer :
                           l # k /\ toRenderer'[j] = toRenderer[l]
      OBVIOUS
    <3>1. /\ j + 1 \in DOMAIN toRenderer /\ toRenderer'[j] = toRenderer[j + 1]
          /\ j + 1 # k
      BY <1>2
    <3> QED
      BY <3>1
  <2> HIDE DEF k
  <2>4. CASE toRenderer[k].type = "abort"
    BY <1>1, <2>1, <2>4 DEF ToRendererOrder, Underway
  <2>5. CASE toRenderer[k].type = "prepare"
    <3>1. /\ toRenderer[k].id <= exit.id
          /\ prep[toRenderer[k].id] = "none"
          /\ \/ Underway(toRenderer[k].id)
             \/ \E j \in DOMAIN toRenderer :
                    /\ j > k
                    /\ toRenderer[j] = Message("abort", toRenderer[k].id)
          /\ \A j \in DOMAIN toRenderer :
                 j # k /\ toRenderer[j].type = "prepare"
                 => toRenderer[j].id # toRenderer[k].id
      BY <1>1, <2>1, <2>5 DEF ToRendererOrder
    <3>2. prep'[toRenderer[k].id] = "none"
      <4>1. toRenderer[k].id \in Attempt
        BY <1>1, <2>1, <2>5, RendererCarries
      <4>2. Head(toRenderer) # Message("prepare", toRenderer[k].id)
        <5> SUFFICES ASSUME Head(toRenderer) = Message("prepare", toRenderer[k].id)
                     PROVE FALSE
          OBVIOUS
        <5>1. /\ toRenderer[1].type = "prepare"
              /\ toRenderer[1].id = toRenderer[k].id
          BY <1>3, MessageIs
        <5> QED
          BY <1>3, <2>1, <3>1, <5>1
      <4> QED
        BY <3>1, <4>1, <4>2
    <3>3. \/ Underway(toRenderer[i].id)'
          \/ \E j \in DOMAIN toRenderer' :
                 /\ j > i
                 /\ toRenderer'[j] = Message("abort", toRenderer[k].id)
      <4>1. CASE Underway(toRenderer[k].id)
        BY <2>1, <4>1 DEF Underway
      <4>2. CASE \E j \in DOMAIN toRenderer :
                     /\ j > k
                     /\ toRenderer[j] = Message("abort", toRenderer[k].id)
        BY <2>2, <4>2
      <4> QED
        BY <3>1, <4>1, <4>2
    <3>4. \A j \in DOMAIN toRenderer' :
              j # i /\ toRenderer'[j].type = "prepare"
              => toRenderer'[j].id # toRenderer[k].id
      BY <2>3, <3>1
    <3> QED
      BY <2>1, <2>5, <3>1, <3>2, <3>3, <3>4
  <2> QED
    BY <2>1, <2>4, <2>5
<1> QED
    BY <1>5, <1>6, <1>7

-----------------------------------------------------------------------------
LEMMA MainStepInv ==
    ASSUME IInv, MainStep
    PROVE  IInv'
<1>0. /\ Typed' /\ Typed /\ TypeOK /\ Channels /\ Renderer /\ Decision
      /\ AnswersAreOver
    BY MainTyped DEF IInv, Typed, Channels
<1>1. CASE RequestClose \/ Retry
  <2>1. PICK retries : Ask(retries)
    BY <1>1 DEF RequestClose, Retry
  <2>2. exit.id + 1 \in Attempt /\ exit.pc \in {"none", "pausing"}
    <3>1. CASE RequestClose
      BY <1>0, <3>1, ExitIs, Numbers DEF RequestClose, Attempt, Exits
    <3>2. CASE Retry
      BY <1>0, <3>2, ExitIs, Numbers DEF Retry, Attempt, Exits, Typed, RetriesFit
    <3> QED
      BY <1>1, <3>1, <3>2
  <2>3. PastPreps' /\ ToRendererOrder' /\ FreezeIsOwned'
    BY <2>1, <2>2, ChannelAsked
  <2>4. /\ exit'.pc = "asking" /\ exit'.id = exit.id + 1
        /\ UNCHANGED <<toMain, closing, work, outlived>>
    BY <2>1 DEF Ask, history
  <2>5. AnswersAreOver'
    BY <1>0, <2>4 DEF AnswersAreOver, closing
  <2>6. ~Decided' /\ ~ReadyToAccept'
    <3>1. ~Decided'
      BY <2>4 DEF Decided, Quitting
    <3>2. ASSUME ReadyToAccept'
          PROVE  FALSE
      <4>1. PICK i \in DOMAIN toMain : toMain[i] = Message("ready", exit.id + 1)
        BY <2>4, <3>2 DEF ReadyToAccept
      <4>2. toMain[i].type # "acknowledge" /\ toMain[i].id = exit.id + 1
        BY <4>1, MessageIs
      <4>3. prep[exit.id + 1] = "done"
        BY <1>0, <4>2 DEF AnswersAreOver
      <4>4. exit.id + 1 <= exit.id
        BY <1>0, <2>2, <4>3 DEF Channels, PastPreps
      <4> QED
        BY <1>0, <4>4, ExitIs
    <3> QED
      BY <3>1, <3>2
  <2>7. Decision'
    BY <2>6 DEF Decision, DecidedIsFrozen, DecidedIsSafe
  <2>8. Renderer'
    BY <1>0, <2>4, RendererUntouched
  <2> QED
    BY <1>0, <2>3, <2>5, <2>7, <2>8 DEF IInv, Channels
<1>2. CASE /\ UNCHANGED <<closing, work, outlived>>
           /\ exit'.id = exit.id
           /\ toMain' = toMain \/ (toMain # <<>> /\ toMain' = Tail(toMain))
           /\ exit'.pc = "asking" => exit.pc = "asking"
           /\ Decided' => Decided \/ ReadyToAccept
           /\ PastPreps' /\ ToRendererOrder' /\ FreezeIsOwned'
  <2>1. AnswersAreOver' /\ (ReadyToAccept' => ReadyToAccept)
    BY <1>0, <1>2, AnswersTail DEF closing
  <2>2. Decision'
    BY <1>0, <1>2, <2>1, DecisionStays
  <2>3. Renderer'
    BY <1>0, <1>2, RendererUntouched
  <2> QED
    BY <1>0, <1>2, <2>1, <2>2, <2>3 DEF IInv, Channels
<1>3. CASE Timeout \/ BridgeStopFails \/ FinalExitFails
           \/ (ReceiveResult /\ Answers(Head(toMain))
               /\ Head(toMain).type # "ready")
  <2>1. /\ exit.id \in Attempt /\ exit'.id = exit.id /\ FinishAbort
        /\ exit'.pc \in {"none", "pausing"} /\ exit.pc \notin {"none", "pausing"}
    <3>1. CASE Timeout
      BY <1>0, <3>1, BlockedExit DEF Timeout
    <3>2. CASE BridgeStopFails \/ FinalExitFails
      BY <1>0, <3>2, EndedExit DEF BridgeStopFails, FinalExitFails, Typed,
         RetriesFit, Quitting
    <3>3. CASE ReceiveResult /\ Answers(Head(toMain))
               /\ Head(toMain).type # "ready"
      BY <1>0, <3>3, BlockedExit DEF ReceiveResult, Answers
    <3> QED
      BY <1>3, <3>1, <3>2, <3>3
  <2>2. UNCHANGED <<closing, work, outlived>>
    BY <1>3 DEF Timeout, BridgeStopFails, FinalExitFails, ReceiveResult, history
  <2>3. toMain' = toMain \/ (toMain # <<>> /\ toMain' = Tail(toMain))
    BY <1>3 DEF Timeout, BridgeStopFails, FinalExitFails, ReceiveResult
  <2>4. /\ Grown(Receipts \cup {Message("abort", exit.id)})
        /\ Gained(Message("abort", exit.id))
    <3>1. mailbox \o handoff \in Seq(Request)
      BY <1>0, ConcatProperties DEF TypeOK
    <3>2. Message("abort", exit.id) \in MessageToRenderer
      BY <2>1, Messages
    <3> QED
      BY <1>0, <2>1, <3>1, <3>2, DeliverGrows DEF FinishAbort, TypeOK
  <2>5. PastPreps' /\ ToRendererOrder' /\ FreezeIsOwned'
    BY <2>1, <2>2, <2>4, ChannelGivenUp DEF closing
  <2>6. ~Decided' /\ exit'.pc # "asking"
    BY <2>1 DEF Decided, Quitting
  <2> QED
    BY <1>2, <2>1, <2>2, <2>3, <2>5, <2>6
<1>4. CASE ReceiveResult /\ ~(Answers(Head(toMain)) /\ Head(toMain).type # "ready")
  <2>1. /\ toMain # <<>> /\ toMain' = Tail(toMain)
        /\ UNCHANGED <<closing, work, navigation, history>>
        /\ toRenderer' = toRenderer
        /\ \/ exit' = exit
           \/ Answers(Head(toMain)) /\ Head(toMain).type = "ready"
              /\ exit' = [exit EXCEPT !.pc = "flushing"]
    BY <1>4 DEF ReceiveResult, main
  <2>2. CASE exit' = exit
    <3>1. PastPreps' /\ ToRendererOrder' /\ FreezeIsOwned'
      BY <2>1, <2>2, ChannelGrown DEF closing
    <3> QED
      BY <1>2, <2>1, <2>2, <3>1 DEF Decided, history
  <2>3. CASE Answers(Head(toMain)) /\ Head(toMain).type = "ready"
             /\ exit' = [exit EXCEPT !.pc = "flushing"]
    <3>1. exit'.id = exit.id /\ exit'.pc = "flushing" /\ exit.pc = "asking"
      BY <1>0, <2>3, ExitIs DEF Exits, Answers
    <3>2. PastPreps' /\ ToRendererOrder' /\ FreezeIsOwned'
      BY <2>1, <3>1, ChannelGrown DEF closing
    <3>3. ReadyToAccept
      <4>1. Head(toMain) = toMain[1] /\ 1 \in DOMAIN toMain
        BY <1>0, <2>1, HeadToMain DEF TypeOK
      <4>2. toMain[1] = Message("ready", exit.id)
        BY <1>0, <2>3, <4>1, MainCarries DEF TypeOK, Answers
      <4> QED
        BY <3>1, <4>1, <4>2 DEF ReadyToAccept
    <3> QED
      BY <1>2, <2>1, <3>1, <3>2, <3>3 DEF history
  <2> QED
    BY <2>1, <2>2, <2>3
<1>5. CASE ReceiveAcknowledge
  <2>1. /\ exit' = exit /\ toMain # <<>> /\ toMain' = Tail(toMain)
        /\ UNCHANGED <<closing, work, outlived>>
    BY <1>5 DEF ReceiveAcknowledge
  <2>2. Grown(Receipts)
    BY <1>0, <1>5, AcknowledgeGrows
  <2>3. PastPreps' /\ ToRendererOrder' /\ FreezeIsOwned'
    BY <2>1, <2>2, ChannelGrown DEF closing
  <2> QED
    BY <1>2, <2>1, <2>3 DEF Decided
<1>6. CASE Flushed \/ BridgeStopped \/ FinalExit \/ BridgeStopsLate
  <2>1. UNCHANGED <<toMain, toRenderer, closing, work, history>>
    BY <1>6 DEF Flushed, BridgeStopped, FinalExit, BridgeStopsLate, Offstage
  <2>2. /\ exit'.id = exit.id
        /\ \/ exit' = exit
           \/ exit.pc \in Quitting /\ exit'.pc \in Quitting \cup {"gone"}
    BY <1>0, <1>6, ExitIs DEF Flushed, BridgeStopped, FinalExit,
       BridgeStopsLate, Step, Exits, Quitting
  <2>3. PastPreps' /\ ToRendererOrder' /\ FreezeIsOwned'
    BY <2>1, <2>2, ChannelGrown DEF closing, Quitting
  <2> QED
    BY <1>2, <2>1, <2>2, <2>3 DEF Decided, Quitting, history
<1>7. CASE Relaunch
  <2>1. exit'.pc = "none" /\ exit'.id = exit.id
    BY <1>0, <1>7, ExitIs DEF Relaunch, Exits
  <2>2. /\ closeFreeze' = 0 /\ close' = Idle /\ preparing' = 0 /\ frozen' = 0
        /\ prep' = [a \in Attempt |-> IF prep[a] = "none" THEN "none" ELSE "done"]
        /\ cutoff' = [a \in Attempt |-> NotFrozen]
        /\ locked' = FALSE
        /\ edits' = [edits EXCEPT !.made = edits.saved]
        /\ toMain' = <<>>
    BY <1>7 DEF Relaunch
  <2>3. PastPreps'
    BY <1>0, <2>1, <2>2 DEF Channels, PastPreps
  <2>4. ToRendererOrder'
    <3>1. CASE handoff = <<>>
      <4>1. DOMAIN toRenderer' = {}
        BY <1>7, <3>1, EmptySeq DEF Relaunch
      <4> QED
        BY <4>1 DEF ToRendererOrder
    <3>2. CASE handoff # <<>>
      <4>1. toRenderer' = <<Message("open", Head(handoff))>>
        BY <1>7, <3>2 DEF Relaunch
      <4>2. \A i \in DOMAIN toRenderer' : toRenderer'[i].type = "open"
        BY <4>1, MessageIs
      <4> QED
        BY <4>2 DEF ToRendererOrder
    <3> QED
      BY <3>1, <3>2
  <2>5. AnswersAreOver' /\ FreezeIsOwned'
    BY <2>2 DEF AnswersAreOver, FreezeIsOwned
  <2>6. Decision'
    BY <2>1, <2>2 DEF Decision, DecidedIsFrozen, DecidedIsSafe, Decided,
       ReadyToAccept, Quitting
  <2>7. PreparingIsBegun' /\ CloseHasOwner' /\ LockHasOwner' /\ FrozenIsLocked'
    BY <2>2 DEF PreparingIsBegun, CloseHasOwner, LockHasOwner, FrozenIsLocked, Idle
  <2>8. CutoffsArePast'
    <3>1. edits'.saved <= edits'.made
      BY <1>0, <2>2, Numbers DEF TypeOK
    <3> QED
      BY <2>2, <3>1 DEF CutoffsArePast
  <2>9. OneAtATime' /\ BegunIsPreparing'
    BY <2>2 DEF OneAtATime, BegunIsPreparing, Begun, Suspended
  <2> QED
    BY <1>0, <2>3, <2>4, <2>5, <2>6, <2>7, <2>8, <2>9
    DEF IInv, Channels, Renderer
<1> QED
    BY <1>1, <1>3, <1>4, <1>5, <1>6, <1>7 DEF MainStep

LEMMA PublishInv ==
    ASSUME IInv, NEW e \in Request, Publish(e)
    PROVE  IInv'
<1>0. /\ Typed' /\ Typed /\ TypeOK /\ Channels /\ Renderer /\ Decision
      /\ AnswersAreOver
    BY PublishTyped DEF IInv, Typed, Channels
<1>1. UNCHANGED <<toMain, closing, work, outlived>>
    BY DEF Publish
<1>2. Append(mailbox, e) \in Seq(Request)
    BY <1>0, Appends DEF TypeOK
<1>3. /\ exit'.id = exit.id /\ PastPreps' /\ ToRendererOrder' /\ FreezeIsOwned'
      /\ exit'.pc = "asking" => exit.pc = "asking"
      /\ Decided' => Decided
  <2>1. CASE UNCHANGED <<exit, toRenderer>>
    BY <1>1, <2>1, ChannelGrown DEF closing, Decided
  <2>2. CASE /\ exit.pc = "asking"
             /\ Deliver(Append(mailbox, e), delivered,
                       <<Message("abort", exit.id)>>)
             /\ Ended
    <3>1. exit'.id = exit.id /\ exit'.pc = "none"
      BY <1>0, <2>2, EndedExit
    <3>2. exit.id \in Attempt
      BY <1>0, <2>2 DEF Typed, RetriesFit
    <3>3. Message("abort", exit.id) \in MessageToRenderer
      BY <3>2, Messages
    <3>4. /\ Grown(Receipts \cup {Message("abort", exit.id)})
          /\ Gained(Message("abort", exit.id))
      BY <1>0, <1>2, <2>2, <3>3, DeliverGrows DEF TypeOK
    <3>5. PastPreps' /\ ToRendererOrder' /\ FreezeIsOwned'
      BY <1>1, <2>2, <3>1, <3>2, <3>4, ChannelGivenUp DEF closing
    <3> QED
      BY <3>1, <3>5 DEF Decided, Quitting
  <2>3. CASE Deliver(Append(mailbox, e), delivered, <<>>) /\ exit' = exit
    <3>1. Grown(Receipts)
      BY <1>0, <1>2, <2>3, DeliverOnlyGrows DEF TypeOK
    <3> QED
      BY <1>1, <2>3, <3>1, ChannelGrown DEF closing, Decided
  <2> QED
    BY <2>1, <2>2, <2>3 DEF Publish
<1>4. AnswersAreOver' /\ (ReadyToAccept' => ReadyToAccept)
    BY <1>0, <1>1, <1>3, AnswersTail DEF closing
<1>5. Decision'
    BY <1>0, <1>1, <1>3, <1>4, DecisionStays
<1>6. Renderer'
    BY <1>0, <1>1, RendererUntouched
<1> QED
    BY <1>0, <1>3, <1>4, <1>5, <1>6 DEF IInv, Channels

-----------------------------------------------------------------------------
(* The steps of the renderer.                                               *)
LEMMA Parts ==
    ASSUME IInv
    PROVE  /\ Typed /\ TypeOK /\ RetriesFit /\ OpenNamesRequest
           /\ Channels /\ PastPreps /\ ToRendererOrder /\ AnswersAreOver
           /\ FreezeIsOwned
           /\ Renderer /\ PreparingIsBegun /\ CloseHasOwner /\ LockHasOwner
           /\ CutoffsArePast /\ OneAtATime /\ FrozenIsLocked
           /\ BegunIsPreparing
           /\ Decision /\ DecidedIsFrozen /\ DecidedIsSafe
BY DEF IInv, Typed, Channels, Renderer, Decision

LEMMA DecidedNames ==
    ASSUME IInv, Decided \/ ReadyToAccept
    PROVE  /\ exit.id \in Attempt /\ exit.id # 0 /\ closeFreeze = exit.id
           /\ prep[exit.id] = "done" /\ exit.pc \notin {"none", "pausing"}
<1>1. exit.id \in Attempt /\ exit.pc \notin {"none", "pausing"}
    BY Parts DEF Decided, ReadyToAccept, RetriesFit, Quitting
<1> QED
    BY <1>1, Parts, Numbers DEF DecidedIsFrozen

LEMMA EditsAre ==
    ASSUME IInv
    PROVE  /\ edits.made \in Nat /\ edits.saved \in Nat
           /\ edits.made <= MaxEdits /\ edits.made # NotFrozen
           /\ edits.made < NotFrozen
           /\ \A a \in Attempt : cutoff[a] \in Nat
<1>1. TypeOK
    BY Parts
<1>2. edits.made \in 0..MaxEdits /\ edits.saved \in 0..MaxEdits
    BY <1>1 DEF TypeOK
<1>3. \A a \in Attempt : cutoff[a] \in 0..NotFrozen
    BY <1>1 DEF TypeOK
<1> QED
    BY <1>2, <1>3, Numbers DEF NotFrozen

LEMMA WorkInv ==
    ASSUME IInv, Edit \/ WriteNote \/ Save \/ SwitchTab
    PROVE  IInv'
<1>0. Typed' /\ Channels /\ Renderer /\ Decision
    BY WorkTyped, Parts
<1>1. UNCHANGED <<exit, toRenderer, toMain, closing, locked, outlived>>
    BY DEF Edit, WriteNote, Save, SwitchTab, main, history, work
<1>2. Channels'
    BY <1>0, <1>1 DEF Channels, PastPreps, ToRendererOrder, AnswersAreOver,
       FreezeIsOwned, Owned, Underway, Sent, closing
<1>3. /\ PreparingIsBegun' /\ CloseHasOwner' /\ OneAtATime' /\ FrozenIsLocked'
      /\ DecidedIsFrozen'
    BY <1>0, <1>1 DEF Renderer, PreparingIsBegun, CloseHasOwner, OneAtATime,
       FrozenIsLocked, Begun, Alone, closing, Decision, DecidedIsFrozen, Decided,
       ReadyToAccept
<1>4. /\ edits'.made \in Nat /\ edits'.saved \in Nat
      /\ edits.made <= edits'.made /\ edits.saved <= edits'.saved
      /\ edits'.saved <= edits'.made
      /\ edits.saved = edits.made /\ locked => edits' = edits
      /\ locked => edits'.made = edits.made
  <2>1. CASE Edit
    <3>1. edits'.made = edits.made + 1 /\ edits'.saved = edits.saved /\ ~locked
      BY <2>1, Parts DEF Edit, TypeOK
    <3> QED
      BY <3>1, EditsAre, Parts DEF CutoffsArePast
  <2>2. CASE Save
    <3>1. \/ /\ edits.saved < edits.made
             /\ edits'.saved = edits.made /\ edits'.made = edits.made
          \/ edits' = edits
      BY <2>2, Parts DEF Save, TypeOK
    <3> QED
      BY <3>1, EditsAre, Parts DEF CutoffsArePast
  <2>3. CASE WriteNote \/ SwitchTab
    BY <2>3, EditsAre, Parts DEF WriteNote, SwitchTab, CutoffsArePast, work
  <2> QED
    BY <2>1, <2>2, <2>3
<1>5. CutoffsArePast'
  <2> SUFFICES ASSUME NEW a \in Attempt
               PROVE  /\ prep[a] \in {"none", "navigation", "opens"}
                         => cutoff[a] = NotFrozen
                      /\ prep[a] \in {"draining", "reconciling"}
                         => cutoff[a] <= edits'.made
                      /\ prep[a] = "reconciling" => cutoff[a] <= edits'.saved
    BY <1>1, <1>4 DEF CutoffsArePast, closing
  <2> QED
    BY <1>4, EditsAre, Parts DEF CutoffsArePast
<1>6. LockHasOwner'
    BY <1>1, <1>4, Parts DEF LockHasOwner, closing
<1>7. note' => note \/ close.phase = "idle"
    BY DEF Edit, WriteNote, Save, SwitchTab, work
<1>8. BegunIsPreparing'
  <2> SUFFICES ASSUME Alone, NEW a \in Attempt
               PROVE  /\ Begun(a) => close = [phase |-> "preparing", id |-> a]
                                     /\ preparing = a
                      /\ prep[a] \in {"draining", "reconciling"} =>
                             locked /\ frozen = a /\ cutoff[a] = edits'.made
                      /\ prep[a] = "reconciling" =>
                             edits'.saved = edits'.made /\ ~note'
    BY <1>1 DEF BegunIsPreparing, Alone, Begun, closing
  <2>1. /\ Begun(a) => close = [phase |-> "preparing", id |-> a]
                       /\ preparing = a
        /\ prep[a] \in {"draining", "reconciling"} =>
               locked /\ frozen = a /\ cutoff[a] = edits.made
        /\ prep[a] = "reconciling" => edits.saved = edits.made /\ ~note
    BY Parts DEF BegunIsPreparing
  <2>2. prep[a] = "reconciling" => close.phase # "idle"
    BY <2>1 DEF Begun
  <2> QED
    BY <1>4, <1>7, <2>1, <2>2
<1>9. DecidedIsSafe'
  <2> SUFFICES ASSUME Alone, Decided \/ ReadyToAccept
               PROVE  /\ close = [phase |-> "ready", id |-> exit.id]
                      /\ locked /\ frozen = exit.id
                      /\ edits'.saved = edits'.made /\ ~note'
    BY <1>1 DEF DecidedIsSafe, Alone, Decided, ReadyToAccept, closing
  <2>1. /\ close = [phase |-> "ready", id |-> exit.id]
        /\ locked /\ frozen = exit.id
        /\ edits.saved = edits.made /\ ~note
    BY Parts DEF DecidedIsSafe
  <2>2. close.phase # "idle"
    BY <2>1
  <2> QED
    BY <1>4, <1>7, <2>1, <2>2
<1> QED
    BY <1>0, <1>2, <1>3, <1>5, <1>6, <1>8, <1>9 DEF IInv, Renderer, Decision

LEMMA OpeningInv ==
    ASSUME IInv,
           ReceiveOpen \/ AdmitQueued \/ FinishOpening \/ ReceiveAcknowledged
    PROVE  IInv'
<1>0. Typed' /\ Channels /\ Renderer /\ Decision /\ TypeOK
    BY OpeningTyped, Parts
<1>1. UNCHANGED <<exit, closing, work, outlived>>
    BY DEF ReceiveOpen, AdmitQueued, FinishOpening, ReceiveAcknowledged, main,
       history
<1>2. Renderer'
    BY <1>0, <1>1, RendererUntouched
<1>3. \A i \in DOMAIN toMain' :
          \/ i \in DOMAIN toMain /\ toMain'[i] = toMain[i]
          \/ toMain'[i].type = "acknowledge"
  <2>1. CASE FinishOpening
    <3> DEFINE m == Message("acknowledge", opening.id)
    <3>1. m \in MessageToMain /\ m.type = "acknowledge"
      BY <2>1, Parts, Messages, MessageIs DEF FinishOpening, OpenNamesRequest
    <3>2. toMain' = Append(toMain, m)
      BY <2>1 DEF FinishOpening, Reply
    <3> HIDE DEF m
    <3> QED
      BY SMTT(30), <1>0, <3>1, <3>2, MainAppend DEF TypeOK
  <2>2. CASE ReceiveOpen \/ AdmitQueued \/ ReceiveAcknowledged
    BY <2>2 DEF ReceiveOpen, AdmitQueued, ReceiveAcknowledged
  <2> QED
    BY <2>1, <2>2
<1>4. AnswersAreOver'
    BY <1>1, <1>3, Parts DEF AnswersAreOver, closing
<1>5. ReadyToAccept' => ReadyToAccept
  <2>1. \A x : Message("ready", x).type # "acknowledge"
    BY MessageIs
  <2> QED
    BY <1>1, <1>3, <2>1 DEF ReadyToAccept
<1>6. Decision'
    BY <1>0, <1>1, <1>5, DecisionStays DEF Decided
<1>7. PastPreps' /\ ToRendererOrder' /\ FreezeIsOwned'
  <2>1. CASE toRenderer' = toRenderer
    BY <1>1, <2>1, ChannelGrown DEF closing
  <2>2. CASE ReceiveOpen \/ ReceiveAcknowledged
    <3>1. /\ toRenderer # <<>> /\ toRenderer' = Tail(toRenderer)
          /\ Head(toRenderer).type \in {"open", "acknowledged"}
      BY <2>2 DEF ReceiveOpen, ReceiveAcknowledged, NextIs
    <3>2. \A a : Head(toRenderer) # Message("abort", a)
      BY <3>1, MessageIs
    <3>3. /\ ToRendererOrder'
          /\ \A a : Owned(a) => Owned(a)'
      <4>1. \A a \in Attempt : prep[a] = "none" => prep'[a] = "none"
        BY <1>1 DEF closing
      <4> QED
        BY <1>1, <3>1, <3>2, <4>1, ChannelTaken
    <3>4. FreezeIsOwned'
      <4> SUFFICES ASSUME closeFreeze # 0
                   PROVE  Owned(closeFreeze)' /\ prep[closeFreeze] # "none"
        BY <1>1 DEF FreezeIsOwned, closing
      <4>1. PICK x : x = closeFreeze
        OBVIOUS
      <4>2. Owned(x) /\ prep[x] # "none"
        BY <4>1, Parts DEF FreezeIsOwned
      <4>3. Owned(x)'
        BY <3>3, <4>2
      <4> QED
        BY <1>1, <4>1, <4>2, <4>3 DEF closing, Owned, Underway, Sent
    <3> QED
      BY <1>1, <3>3, <3>4, Parts DEF PastPreps, closing
  <2> QED
    BY <2>1, <2>2 DEF AdmitQueued, FinishOpening
<1> QED
    BY <1>0, <1>2, <1>4, <1>6, <1>7 DEF IInv, Channels

(* The preparation of an attempt goes on, or ends with an answer. *)
LEMMA PrepareChannels ==
    ASSUME IInv, NEW a \in Attempt, PrepareStep(a)
    PROVE  Channels'
<1>0. TypeOK /\ PastPreps /\ ToRendererOrder /\ AnswersAreOver /\ FreezeIsOwned
    BY Parts
<1>1. UNCHANGED <<exit, toRenderer>>
    BY DEF PrepareStep, NavigationSettles, NavigationTimesOut, OpensSettle,
       Drained, DrainFails, Reconciled, main
<1>2. prep[a] \in Suspended
    BY DEF PrepareStep, NavigationSettles, NavigationTimesOut, OpensSettle,
       Drained, DrainFails, Reconciled, Suspended
<1>3. /\ \E x \in Suspended \cup {"done"} : prep' = [prep EXCEPT ![a] = x]
      /\ closeFreeze' \in {0, closeFreeze}
    BY DEF PrepareStep, NavigationSettles, NavigationTimesOut, OpensSettle,
       Drained, DrainFails, Reconciled, StartProject, Freeze, GiveUp, TakeBack,
       Suspended
<1>4. \/ toMain' = toMain
      \/ /\ prep' = [prep EXCEPT ![a] = "done"]
         /\ \E type \in {"ready", "blocked", "retry"} : Reply(type, a)
    BY DEF PrepareStep, NavigationSettles, NavigationTimesOut, OpensSettle,
       Drained, DrainFails, Reconciled, StartProject, Freeze, GiveUp, TakeBack
<1>5. \A b \in Attempt :
          /\ b # a => prep'[b] = prep[b]
          /\ prep'[b] = "none" <=> prep[b] = "none"
          /\ prep[b] = "done" => prep'[b] = "done"
    BY <1>0, <1>2, <1>3 DEF TypeOK, Suspended
<1>6. PastPreps'
    BY <1>0, <1>1, <1>5 DEF PastPreps
<1>7. FreezeIsOwned'
  <2> SUFFICES ASSUME closeFreeze' # 0
               PROVE  Owned(closeFreeze)' /\ prep'[closeFreeze'] # "none"
    BY DEF FreezeIsOwned
  <2>1. closeFreeze' = closeFreeze /\ closeFreeze \in Attempt
    BY <1>0, <1>3 DEF TypeOK, Attempt
  <2>2. Owned(closeFreeze) /\ prep[closeFreeze] # "none"
    BY <1>0, <2>1 DEF FreezeIsOwned
  <2>3. prep'[closeFreeze] # "none"
    BY <1>5, <2>1, <2>2
  <2> QED
    BY <1>1, <2>1, <2>2, <2>3 DEF Owned, Underway, Sent
<1>8. ToRendererOrder'
  <2>1. \A i \in DOMAIN toRenderer :
            toRenderer[i].type = "prepare" => prep'[toRenderer[i].id] = "none"
    BY <1>0, <1>5, RendererCarries DEF ToRendererOrder, TypeOK
  <2> QED
    BY <1>0, <1>1, <2>1 DEF ToRendererOrder, Underway
<1>9. AnswersAreOver'
  <2>1. \A i \in DOMAIN toMain : toMain[i].type # "acknowledge"
                                 => prep'[toMain[i].id] = "done"
    BY <1>0, <1>5, MainCarries DEF AnswersAreOver, TypeOK
  <2>2. CASE toMain' = toMain
    BY <2>1, <2>2 DEF AnswersAreOver
  <2>3. CASE /\ prep' = [prep EXCEPT ![a] = "done"]
             /\ \E type \in {"ready", "blocked", "retry"} : Reply(type, a)
    <3>1. PICK type \in {"ready", "blocked", "retry"} : Reply(type, a)
      BY <2>3
    <3> DEFINE m == Message(type, a)
    <3>2. m \in MessageToMain /\ m.id = a
      BY Messages, MessageIs
    <3>3. toMain' = Append(toMain, m)
      BY <3>1 DEF Reply
    <3> HIDE DEF m
    <3>4. \A i \in DOMAIN toMain' :
              \/ i \in DOMAIN toMain /\ toMain'[i] = toMain[i]
              \/ toMain'[i] = m
      BY <1>0, <3>2, <3>3, MainAppend DEF TypeOK
    <3>5. prep'[a] = "done"
      BY <1>0, <2>3 DEF TypeOK
    <3> QED
      BY <2>1, <3>2, <3>4, <3>5 DEF AnswersAreOver
  <2> QED
    BY <1>4, <2>2, <2>3
<1> QED
    BY <1>6, <1>7, <1>8, <1>9 DEF Channels

(* What starting the project does to the locks of the renderer, once its    *)
(* navigation is frozen for the attempt.                                    *)
LEMMA StartRenderer ==
    ASSUME IInv, NEW a \in Attempt, StartProject(a),
           prep[a] \in {"none", "navigation"},
           UNCHANGED <<edits, note>>,
           \/ closeFreeze' = closeFreeze /\ prep[a] = "navigation"
           \/ closeFreeze = 0 /\ closeFreeze' = a,
           outlived' = FALSE =>
               /\ outlived = FALSE
               /\ \A b \in Attempt : prep[b] \in Suspended => b = a
    PROVE  Renderer'
<1>0. /\ TypeOK /\ PreparingIsBegun /\ CloseHasOwner /\ LockHasOwner
      /\ CutoffsArePast /\ OneAtATime /\ FrozenIsLocked
    BY Parts
<1>1. /\ preparing' = a /\ close' = [phase |-> "preparing", id |-> a]
      /\ \/ /\ prep' = [prep EXCEPT ![a] = "opens"]
            /\ UNCHANGED <<locked, frozen, cutoff>>
         \/ Freeze(a)
    BY DEF StartProject
<1>2. \A b \in Attempt \ {a} : prep'[b] = prep[b] /\ cutoff'[b] = cutoff[b]
    BY <1>0, <1>1 DEF Freeze, TypeOK
<1>3. \/ /\ prep'[a] = "opens" /\ cutoff'[a] = cutoff[a]
         /\ UNCHANGED <<locked, frozen>>
      \/ /\ prep'[a] = "draining" /\ cutoff'[a] = edits.made
         /\ locked' = TRUE /\ frozen' = a
    BY <1>0, <1>1 DEF Freeze, TypeOK
<1>4. /\ edits.made \in Nat /\ edits.saved \in Nat /\ a # 0
      /\ closeFreeze' \in {0, closeFreeze, a}
    BY EditsAre, Numbers
<1>5. PreparingIsBegun' /\ CloseHasOwner'
    BY <1>1, <1>3 DEF PreparingIsBegun, CloseHasOwner, Begun
<1>6. LockHasOwner'
  <2>1. CASE /\ prep'[a] = "opens" /\ UNCHANGED <<locked, frozen>>
    <3>1. frozen # 0 => frozen # a /\ frozen \in Attempt
      BY <1>0 DEF LockHasOwner, TypeOK, Attempt
    <3>2. frozen # 0 => prep'[frozen] = prep[frozen]
      BY <1>2, <3>1
    <3>3. locked /\ prep[frozen] = "done" => closeFreeze' = closeFreeze
      BY <1>0, <3>1, Numbers DEF LockHasOwner
    <3> QED
      BY <1>0, <2>1, <3>2, <3>3 DEF LockHasOwner
  <2>2. CASE prep'[a] = "draining" /\ locked' = TRUE /\ frozen' = a
    BY <1>4, <2>2 DEF LockHasOwner
  <2> QED
    BY <1>3, <2>1, <2>2
<1>7. CutoffsArePast'
  <2>1. \A b \in Attempt \ {a} :
          /\ prep'[b] \in {"none", "navigation", "opens"} => cutoff'[b] = NotFrozen
          /\ prep'[b] \in {"draining", "reconciling"} => cutoff'[b] <= edits.made
          /\ prep'[b] = "reconciling" => cutoff'[b] <= edits.saved
    BY <1>0, <1>2 DEF CutoffsArePast
  <2>2. /\ prep'[a] \in {"none", "navigation", "opens"} => cutoff'[a] = NotFrozen
        /\ prep'[a] \in {"draining", "reconciling"} => cutoff'[a] <= edits.made
        /\ prep'[a] = "reconciling" => cutoff'[a] <= edits.saved
    BY <1>0, <1>3, <1>4 DEF CutoffsArePast
  <2> QED
    BY <1>0, <2>1, <2>2 DEF CutoffsArePast
<1>8. ASSUME Alone'
      PROVE  Alone /\ \A b \in Attempt : prep'[b] \in Suspended => b = a
  <2>1. outlived' = FALSE
    BY <1>8, Parts DEF Alone, TypeOK
  <2> QED
    BY <1>2, <2>1 DEF Alone
<1>9. OneAtATime'
  <2> SUFFICES ASSUME Alone', NEW b \in Attempt, prep'[b] \in Suspended
               PROVE  /\ \A c \in Attempt : prep'[c] \in Suspended => c = b
                      /\ closeFreeze' \in {0, b}
    BY DEF OneAtATime
  <2>1. b = a /\ Alone
    BY <1>8
  <2>2. prep[a] = "navigation" => closeFreeze \in {0, a}
    BY <1>0, <2>1 DEF OneAtATime, Suspended
  <2> QED
    BY <1>8, <2>1, <2>2
<1>10. FrozenIsLocked'
    BY <1>0, <1>3, <1>8 DEF FrozenIsLocked
<1>11. BegunIsPreparing'
  <2> SUFFICES ASSUME Alone', NEW b \in Attempt
               PROVE  /\ Begun(b)' => /\ close' = [phase |-> "preparing", id |-> b]
                                      /\ preparing' = b
                      /\ prep'[b] \in {"draining", "reconciling"} =>
                             locked' /\ frozen' = b /\ cutoff'[b] = edits'.made
                      /\ prep'[b] = "reconciling" =>
                             edits'.saved = edits'.made /\ ~note'
    BY DEF BegunIsPreparing
  <2>1. b # a => prep'[b] \notin Suspended
    BY <1>8
  <2> QED
    BY <1>1, <1>3, <2>1 DEF Begun, Suspended
<1> QED
    BY <1>5, <1>6, <1>7, <1>9, <1>10, <1>11 DEF Renderer

LEMMA ReceivePrepareInv ==
    ASSUME IInv, ReceivePrepare
    PROVE  IInv'
<1> DEFINE h == Head(toRenderer).id
<1>0. Typed' /\ TypeOK
    BY ReceivePrepareTyped, Parts
<1>1. PICK a : a = h
    OBVIOUS
<1>2. /\ toRenderer # <<>> /\ toRenderer' = Tail(toRenderer)
      /\ Head(toRenderer).type = "prepare"
      /\ UNCHANGED <<main, aborted, edits, note, navigation, published, opened>>
    BY DEF ReceivePrepare, NextIs
<1>3. /\ a \in Attempt /\ Head(toRenderer) = Message("prepare", a)
      /\ Head(toRenderer) = toRenderer[1] /\ 1 \in DOMAIN toRenderer
    BY <1>0, <1>1, <1>2, HeadToRenderer, RendererCarries DEF TypeOK
<1>4. /\ prep[a] = "none" /\ a <= exit.id
  <2>1. toRenderer[1].type = "prepare" /\ toRenderer[1].id = a
    BY <1>1, <1>2, <1>3
  <2> QED
    BY <1>3, <2>1, Parts DEF ToRendererOrder
<1>5. IF closeFreeze # 0
      THEN /\ Reply("retry", a)
           /\ prep' = [prep EXCEPT ![a] = "done"]
           /\ UNCHANGED <<closeFreeze, close, preparing, frozen, cutoff,
                          locked, outlived>>
      ELSE /\ closeFreeze' = a
           /\ outlived' = (outlived \/ Overlap(a))
           /\ UNCHANGED toMain
           /\ IF NavigationIdle
              THEN StartProject(a)
              ELSE /\ prep' = [prep EXCEPT ![a] = "navigation"]
                   /\ UNCHANGED <<close, preparing, frozen, cutoff, locked>>
    BY <1>1 DEF ReceivePrepare
<1> HIDE DEF h
<1>6. \E x \in Suspended \cup {"done"} : prep' = [prep EXCEPT ![a] = x]
    BY <1>5 DEF StartProject, Freeze, Suspended
<1>7. /\ \A b \in Attempt \ {a} : prep'[b] = prep[b]
      /\ prep'[a] # "none"
    BY <1>0, <1>3, <1>6 DEF TypeOK, Suspended
<1>8. exit' = exit
    BY <1>2 DEF main
<1>9. /\ ToRendererOrder'
      /\ \A x : Owned(x) /\ Head(toRenderer) # Message("abort", x) => Owned(x)'
      /\ \A x : Head(toRenderer) = Message("prepare", x) => Owned(x)'
  <2>1. \A x \in Attempt : prep[x] = "none" =>
            prep'[x] = "none" \/ Head(toRenderer) = Message("prepare", x)
    BY <1>3, <1>7
  <2> QED
    BY <1>2, <1>8, <2>1, ChannelTaken
<1>10. PastPreps'
    BY <1>4, <1>7, <1>8, Parts DEF PastPreps
<1>11. FreezeIsOwned'
  <2>1. PICK x : x = closeFreeze'
    OBVIOUS
  <2>2. CASE closeFreeze # 0
    <3>1. x = closeFreeze /\ Owned(x) /\ prep[x] # "none" /\ x \in Attempt
      BY <1>0, <1>5, <2>1, <2>2, Parts DEF FreezeIsOwned, TypeOK, Attempt
    <3>2. Head(toRenderer) # Message("abort", x)
      BY <1>2, MessageIs
    <3>3. Owned(x)' /\ prep'[x] # "none"
      BY <1>4, <1>7, <1>9, <3>1, <3>2
    <3> QED
      BY <2>1, <3>3 DEF FreezeIsOwned, Owned, Underway, Sent
  <2>3. CASE closeFreeze = 0
    <3>1. x = a
      BY <1>5, <2>1, <2>3
    <3>2. Owned(a)'
      BY <1>3, <1>9
    <3> QED
      BY <1>7, <2>1, <3>1, <3>2 DEF FreezeIsOwned, Owned, Underway, Sent
  <2> QED
    BY <2>2, <2>3
<1>12. CASE closeFreeze # 0
  <2>1. /\ Reply("retry", a) /\ prep' = [prep EXCEPT ![a] = "done"]
        /\ UNCHANGED <<closeFreeze, close, preparing, frozen, cutoff,
                       locked, outlived, edits, note>>
    BY <1>2, <1>5, <1>12
  <2> DEFINE m == Message("retry", a)
  <2>2. m \in MessageToMain /\ m.id = a /\ m.type = "retry"
    BY <1>3, Messages, MessageIs
  <2>3. toMain' = Append(toMain, m)
    BY <2>1 DEF Reply
  <2> HIDE DEF m
  <2>4. \A i \in DOMAIN toMain' :
            \/ i \in DOMAIN toMain /\ toMain'[i] = toMain[i]
            \/ toMain'[i] = m
    BY <1>0, <2>2, <2>3, MainAppend DEF TypeOK
  <2>5. prep'[a] = "done"
    BY <1>0, <1>3, <2>1 DEF TypeOK
  <2>6. AnswersAreOver'
    <3>1. \A i \in DOMAIN toMain : toMain[i].type # "acknowledge"
                                   => prep'[toMain[i].id] = "done"
      BY <1>0, <1>7, <2>5, Parts, MainCarries DEF AnswersAreOver, TypeOK
    <3> QED
      BY <2>2, <2>4, <2>5, <3>1 DEF AnswersAreOver
  <2>7. ReadyToAccept' => ReadyToAccept
    <3>1. m # Message("ready", exit.id)
      BY <2>2, MessageIs
    <3> QED
      BY <1>8, <2>4, <3>1 DEF ReadyToAccept
  <2>8. Decided' <=> Decided
    BY <1>8 DEF Decided
  <2>9. DecidedIsFrozen'
    <3> SUFFICES ASSUME Decided \/ ReadyToAccept
                 PROVE  closeFreeze = exit.id /\ prep'[exit.id] = "done"
      BY <1>8, <2>1, <2>7, <2>8 DEF DecidedIsFrozen
    <3> QED
      BY <1>4, <1>7, DecidedNames
  <2>10. DecidedIsSafe'
    BY <1>8, <2>1, <2>7, <2>8, Parts DEF DecidedIsSafe, Alone
  <2>11. PreparingIsBegun' /\ CloseHasOwner'
    <3>1. preparing # 0 => preparing \in Attempt /\ preparing # a
      BY <1>0, <1>4, Parts DEF PreparingIsBegun, Begun, TypeOK, Attempt
    <3>2. close.phase # "idle" => close.id \in Attempt /\ close.id # a
      BY <1>0, <1>4, Parts DEF CloseHasOwner, Begun, TypeOK
    <3> QED
      BY <1>7, <2>1, <3>1, <3>2, Parts DEF PreparingIsBegun, CloseHasOwner, Begun
  <2>12. LockHasOwner'
    <3>1. frozen # 0 => frozen \in Attempt /\ frozen # a
      BY <1>0, <1>4, Parts DEF LockHasOwner, TypeOK, Attempt
    <3> QED
      BY <1>7, <2>1, <3>1, Parts DEF LockHasOwner
  <2>13. CutoffsArePast' /\ OneAtATime' /\ FrozenIsLocked' /\ BegunIsPreparing'
    <3>1. CutoffsArePast' /\ FrozenIsLocked'
      BY <1>7, <2>1, <2>5, Parts DEF CutoffsArePast, FrozenIsLocked, Alone
    <3>2. \A b \in Attempt : prep'[b] \in Suspended =>
              prep[b] \in Suspended /\ b # a
      BY <1>7, <2>5 DEF Suspended
    <3>3. OneAtATime'
      BY <2>1, <3>2, Parts DEF OneAtATime, Alone
    <3>4. \A b \in Attempt : Begun(b)' => Begun(b) /\ b # a
      BY <1>7, <2>5 DEF Begun
    <3>5. BegunIsPreparing'
      BY <1>7, <2>1, <2>5, <3>4, Parts DEF BegunIsPreparing, Alone, Begun
    <3> QED
      BY <3>1, <3>3, <3>5
  <2> QED
    BY <1>0, <1>9, <1>10, <1>11, <2>6, <2>9, <2>10, <2>11, <2>12, <2>13
    DEF IInv, Channels, Renderer, Decision
<1>13. CASE closeFreeze = 0
  <2>1. /\ closeFreeze' = a
        /\ outlived' = (outlived \/ Overlap(a))
        /\ UNCHANGED <<toMain, edits, note>>
        /\ IF NavigationIdle
           THEN StartProject(a)
           ELSE /\ prep' = [prep EXCEPT ![a] = "navigation"]
                /\ UNCHANGED <<close, preparing, frozen, cutoff, locked>>
    BY <1>2, <1>5, <1>13
  <2>2. AnswersAreOver'
    <3>1. \A i \in DOMAIN toMain : toMain[i].type # "acknowledge"
                                   => prep'[toMain[i].id] = "done"
      BY <1>0, <1>4, <1>7, Parts, MainCarries DEF AnswersAreOver, TypeOK
    <3> QED
      BY <2>1, <3>1 DEF AnswersAreOver
  <2>3. Decision'
    <3>1. ~Decided /\ ~ReadyToAccept
      BY <1>13, DecidedNames
    <3>2. ~Decided' /\ ~ReadyToAccept'
      BY <1>8, <2>1, <3>1 DEF Decided, ReadyToAccept
    <3> QED
      BY <3>2 DEF Decision, DecidedIsFrozen, DecidedIsSafe
  <2>4. outlived' = FALSE =>
            /\ outlived = FALSE
            /\ \A b \in Attempt : prep[b] \in Suspended => b = a
    BY <2>1, <1>0 DEF Overlap, TypeOK
  <2>5. Renderer'
    <3>1. CASE NavigationIdle
      BY <1>3, <1>4, <1>13, <2>1, <2>4, <3>1, StartRenderer
    <3>2. CASE ~NavigationIdle
      <4>1. /\ prep' = [prep EXCEPT ![a] = "navigation"]
            /\ UNCHANGED <<close, preparing, frozen, cutoff, locked>>
        BY <2>1, <3>2
      <4>2. prep'[a] = "navigation"
        BY <1>0, <1>3, <4>1 DEF TypeOK
      <4>3. /\ PreparingIsBegun /\ CloseHasOwner /\ LockHasOwner
            /\ CutoffsArePast /\ FrozenIsLocked /\ BegunIsPreparing
        BY Parts
      <4>4. PreparingIsBegun'
        <5>1. preparing # 0 => preparing \in Attempt /\ preparing # a
          BY <1>0, <1>4, <4>3 DEF PreparingIsBegun, Begun, TypeOK, Attempt
        <5> QED
          BY <1>7, <4>1, <4>3, <5>1 DEF PreparingIsBegun, Begun
      <4>5. CloseHasOwner'
        <5>1. close.phase # "ready"
          BY <1>13, <4>3, Numbers DEF CloseHasOwner
        <5>2. close.phase # "idle" => close.id \in Attempt /\ close.id # a
          BY <1>4, <4>3, <5>1, <1>0 DEF CloseHasOwner, Begun, TypeOK
        <5> QED
          BY <1>7, <4>1, <4>3, <5>1, <5>2 DEF CloseHasOwner, Begun
      <4>6. LockHasOwner'
        <5>1. frozen # 0 => frozen \in Attempt /\ frozen # a
          BY <1>0, <1>4, <4>3 DEF LockHasOwner, TypeOK, Attempt
        <5>2. ~(locked /\ prep[frozen] = "done")
          BY <1>13, <4>3 DEF LockHasOwner
        <5> QED
          BY <1>7, <4>1, <4>3, <5>1, <5>2 DEF LockHasOwner
      <4>7. CutoffsArePast'
        BY <1>4, <1>7, <2>1, <4>1, <4>2, <4>3 DEF CutoffsArePast
      <4>8. ASSUME Alone'
            PROVE  Alone /\ \A b \in Attempt : prep'[b] \in Suspended => b = a
        <5>1. outlived' = FALSE
          BY <4>8, <1>0 DEF Typed, Alone, TypeOK
        <5> QED
          BY <1>7, <2>4, <5>1 DEF Alone
      <4>9. OneAtATime'
        BY <2>1, <4>8 DEF OneAtATime
      <4>10. FrozenIsLocked'
        BY <4>1, <4>3, <4>8 DEF FrozenIsLocked
      <4>11. BegunIsPreparing'
        <5>1. Alone' => \A b \in Attempt : ~Begun(b)'
          BY <4>2, <4>8 DEF Begun, Suspended
        <5> QED
          BY <5>1 DEF BegunIsPreparing, Begun
      <4> QED
        BY <4>4, <4>5, <4>6, <4>7, <4>9, <4>10, <4>11 DEF Renderer
    <3> QED
      BY <3>1, <3>2
  <2> QED
    BY <1>0, <1>9, <1>10, <1>11, <2>2, <2>3, <2>5 DEF IInv, Channels
<1> QED
    BY <1>12, <1>13

LEMMA ReceiveAbortInv ==
    ASSUME IInv, ReceiveAbort
    PROVE  IInv'
<1>0. /\ Typed' /\ TypeOK /\ PreparingIsBegun /\ CloseHasOwner /\ LockHasOwner
      /\ CutoffsArePast /\ OneAtATime /\ FrozenIsLocked /\ BegunIsPreparing
      /\ DecidedIsFrozen /\ DecidedIsSafe
    BY ReceiveAbortTyped, Parts
<1>1. PICK a : a = Head(toRenderer).id
    OBVIOUS
<1>2. /\ toRenderer # <<>> /\ toRenderer' = Tail(toRenderer)
      /\ Head(toRenderer).type = "abort"
      /\ UNCHANGED <<main, toMain, preparing, prep, cutoff, edits, note,
                     navigation, history>>
    BY DEF ReceiveAbort, NextIs
<1>3. /\ a \in Attempt /\ Head(toRenderer) = Message("abort", a)
      /\ Head(toRenderer) = toRenderer[1] /\ 1 \in DOMAIN toRenderer
    BY <1>0, <1>1, <1>2, HeadToRenderer, RendererCarries DEF TypeOK
<1>4. /\ closeFreeze' = IF closeFreeze = a THEN 0 ELSE closeFreeze
      /\ IF preparing = a
         THEN UNCHANGED <<close, frozen, locked>>
         ELSE /\ IF Recovers(a)
                 THEN frozen' = 0 /\ locked' = FALSE
                 ELSE UNCHANGED <<frozen, locked>>
              /\ close' = IF Recovers(a)
                             \/ close = [phase |-> "ready", id |-> a]
                          THEN Idle ELSE close
    BY <1>1 DEF ReceiveAbort
<1>5. ~Underway(a)
  <2>1. toRenderer[1].type = "abort" /\ toRenderer[1].id = a
    BY <1>1, <1>2, <1>3
  <2>2. ~Underway(toRenderer[1].id)
    BY <1>3, <2>1, Parts DEF ToRendererOrder
  <2> QED
    BY <2>1, <2>2
<1>6. exit' = exit /\ outlived' = outlived /\ a # 0
    BY <1>2, <1>3, Numbers DEF main, history
<1>7. /\ ToRendererOrder'
      /\ \A x : Owned(x) /\ Head(toRenderer) # Message("abort", x) => Owned(x)'
  <2>1. \A x \in Attempt : prep[x] = "none" => prep'[x] = "none"
    BY <1>2
  <2> QED
    BY <1>2, <1>6, <2>1, ChannelTaken
<1>8. PastPreps' /\ AnswersAreOver'
    BY <1>2, <1>6, Parts DEF PastPreps, AnswersAreOver
<1>9. FreezeIsOwned'
  <2> SUFFICES ASSUME closeFreeze' # 0
               PROVE  Owned(closeFreeze)' /\ prep'[closeFreeze'] # "none"
    BY DEF FreezeIsOwned
  <2>1. PICK x : x = closeFreeze'
    OBVIOUS
  <2>2. x = closeFreeze /\ x # a
    BY <1>4, <2>1
  <2>3. Owned(x) /\ prep[x] # "none"
    BY <2>1, <2>2, Parts DEF FreezeIsOwned
  <2>4. Head(toRenderer) # Message("abort", x)
    BY <1>1, <2>2, MessageIs
  <2>5. Owned(x)'
    BY <1>7, <2>3, <2>4
  <2> QED
    BY <1>2, <2>1, <2>3, <2>5 DEF Owned, Underway, Sent
<1>10. Decided \/ ReadyToAccept => a # exit.id
    BY <1>5, DecidedNames DEF Underway
<1>11. /\ Decided' <=> Decided
       /\ ReadyToAccept' <=> ReadyToAccept
    BY <1>2, <1>6 DEF Decided, ReadyToAccept
<1>12. DecidedIsFrozen'
    BY <1>0, <1>2, <1>4, <1>6, <1>10, <1>11 DEF DecidedIsFrozen
<1>13. DecidedIsSafe'
  <2> SUFFICES ASSUME Alone, Decided \/ ReadyToAccept
               PROVE  /\ close' = [phase |-> "ready", id |-> exit.id]
                      /\ locked' /\ frozen' = exit.id
                      /\ edits.saved = edits.made /\ ~note
    BY <1>2, <1>6, <1>11 DEF DecidedIsSafe, Alone
  <2>1. /\ close = [phase |-> "ready", id |-> exit.id]
        /\ locked /\ frozen = exit.id
        /\ edits.saved = edits.made /\ ~note
    BY <1>0 DEF DecidedIsSafe
  <2>2. ~Recovers(a) /\ close # [phase |-> "ready", id |-> a]
    BY <1>10, <2>1 DEF Recovers
  <2> QED
    BY <1>4, <2>1, <2>2
<1>14. PreparingIsBegun'
    BY <1>0, <1>2 DEF PreparingIsBegun, Begun
<1>15. close' = close \/ close' = Idle
    BY <1>4
<1>16. CloseHasOwner'
  <2>1. ASSUME close.phase = "ready", close' = close
        PROVE  close.id # a \/ prep[a] = "done"
    BY <1>0, <2>1 DEF CloseHasOwner
  <2>2. close' = close /\ close.phase = "ready" => close.id # a
    <3> SUFFICES ASSUME close' = close, close.phase = "ready", close.id = a
                 PROVE  FALSE
      OBVIOUS
    <3>1. close = [phase |-> "ready", id |-> a]
      BY <1>0 DEF TypeOK
    <3>2. prep[a] = "done"
      BY <1>0 DEF CloseHasOwner
    <3>3. preparing # a
      BY <1>0, <1>6, <3>2 DEF PreparingIsBegun, Begun
    <3>4. close' = Idle
      BY <1>4, <3>1, <3>3
    <3> QED
      BY <3>4 DEF Idle
  <2>3. close' = Idle => close'.phase = "idle"
    BY DEF Idle
  <2> QED
    BY <1>0, <1>2, <1>4, <1>15, <2>2, <2>3 DEF CloseHasOwner, Begun
<1>17. LockHasOwner'
  <2>1. CASE preparing # a /\ Recovers(a)
    BY <1>4, <2>1 DEF LockHasOwner
  <2>2. CASE preparing = a \/ ~Recovers(a)
    <3>1. UNCHANGED <<frozen, locked>>
      BY <1>4, <2>2
    <3>2. locked /\ prep[frozen] = "done" => frozen # a
      <4> SUFFICES ASSUME locked, prep[frozen] = "done", frozen = a
                   PROVE  FALSE
        OBVIOUS
      <4>1. edits.saved = edits.made
        BY <1>0 DEF LockHasOwner
      <4>2. Recovers(a)
        BY <4>1 DEF Recovers
      <4>3. preparing # a
        BY <1>0, <1>6 DEF PreparingIsBegun, Begun
      <4> QED
        BY <2>2, <4>2, <4>3
    <3> QED
      BY <1>0, <1>2, <1>4, <3>1, <3>2 DEF LockHasOwner
  <2> QED
    BY <2>1, <2>2
<1>18. CutoffsArePast'
    BY <1>0, <1>2 DEF CutoffsArePast
<1>19. OneAtATime'
  <2>1. closeFreeze' \in {0, closeFreeze}
    BY <1>4
  <2> QED
    BY <1>0, <1>2, <1>6, <2>1 DEF OneAtATime, Alone
<1>20. FrozenIsLocked'
    BY <1>0, <1>4, <1>6 DEF FrozenIsLocked, Alone
<1>21. BegunIsPreparing'
  <2> SUFFICES ASSUME Alone, NEW b \in Attempt, Begun(b)
               PROVE  UNCHANGED <<close, frozen, locked>>
    <3>1. \A b \in Attempt : prep[b] \in {"draining", "reconciling"} => Begun(b)
      BY DEF Begun
    <3> QED
      BY <1>0, <1>2, <1>6, <3>1 DEF BegunIsPreparing, Alone, Begun
  <2>1. /\ close = [phase |-> "preparing", id |-> b] /\ preparing = b
    BY <1>0 DEF BegunIsPreparing
  <2>2. CASE a = b
    BY <1>4, <2>1, <2>2
  <2>3. CASE a # b
    <3>1. ~Recovers(a)
      <4> SUFFICES ASSUME frozen = a PROVE FALSE
        BY DEF Recovers
      <4>1. locked
        BY <1>0, <1>6 DEF FrozenIsLocked
      <4>2. prep[b] \in Suspended
        BY DEF Begun, Suspended
      <4>3. prep[a] \notin Suspended /\ closeFreeze \in {0, b}
        BY <1>0, <1>3, <2>3, <4>2 DEF OneAtATime
      <4>4. prep[a] = "done"
        BY <1>0, <1>6, <4>3 DEF LockHasOwner, Suspended
      <4>5. closeFreeze = a
        BY <1>0, <4>1, <4>4 DEF LockHasOwner
      <4> QED
        BY <1>6, <2>3, <4>3, <4>5
    <3>2. close # [phase |-> "ready", id |-> a]
      BY <2>1
    <3> QED
      BY <1>4, <2>1, <2>3, <3>1, <3>2
  <2> QED
    BY <2>2, <2>3
<1> QED
    BY <1>0, <1>7, <1>8, <1>9, <1>12, <1>13, <1>14, <1>16, <1>17, <1>18, <1>19,
       <1>20, <1>21
    DEF IInv, Channels, Renderer, Decision

-----------------------------------------------------------------------------
(* The preparation gives up.                                                *)
LEMMA GiveUpRenderer ==
    ASSUME IInv, NEW a \in Attempt, NEW type, GiveUp(a, type), Begun(a),
           UNCHANGED <<edits, note, outlived>>
    PROVE  Renderer'
<1>0. /\ TypeOK /\ PreparingIsBegun /\ CloseHasOwner /\ LockHasOwner
      /\ CutoffsArePast /\ OneAtATime /\ FrozenIsLocked /\ BegunIsPreparing
    BY Parts
<1>1. /\ prep' = [prep EXCEPT ![a] = "done"]
      /\ preparing' = IF preparing = a THEN 0 ELSE preparing
      /\ IF cutoff[a] = NotFrozen
         THEN UNCHANGED <<locked, frozen>>
         ELSE /\ locked' = FALSE
              /\ frozen' = IF frozen = a THEN 0 ELSE frozen
      /\ close' = Idle
      /\ closeFreeze' = IF closeFreeze = a THEN 0 ELSE closeFreeze
      /\ UNCHANGED cutoff
    BY DEF GiveUp
<1>2. /\ prep'[a] = "done"
      /\ \A b \in Attempt \ {a} : prep'[b] = prep[b]
    BY <1>0, <1>1 DEF TypeOK
<1>3. cutoff[a] = NotFrozen <=> prep[a] = "opens"
  <2>1. prep[a] \in {"draining", "reconciling"} => cutoff[a] <= edits.made
    BY <1>0 DEF CutoffsArePast
  <2>2. prep[a] \in {"draining", "reconciling"} => cutoff[a] # NotFrozen
    BY <2>1, EditsAre, Numbers
  <2> QED
    BY <1>0, <2>2 DEF CutoffsArePast, Begun
<1>4. PreparingIsBegun'
    BY <1>0, <1>1, <1>2 DEF PreparingIsBegun, Begun, TypeOK, Attempt
<1>5. CloseHasOwner'
    BY <1>1 DEF CloseHasOwner, Idle
<1>6. LockHasOwner'
  <2>1. CASE prep[a] = "opens"
    <3>1. UNCHANGED <<locked, frozen>>
      BY <1>1, <1>3, <2>1
    <3>2. frozen # 0 => frozen \in Attempt /\ frozen # a
      BY <1>0, <2>1 DEF LockHasOwner, TypeOK, Attempt
    <3> QED
      BY <1>0, <1>1, <1>2, <3>1, <3>2 DEF LockHasOwner
  <2>2. CASE prep[a] # "opens"
    <3>1. locked' = FALSE /\ frozen' = IF frozen = a THEN 0 ELSE frozen
      BY <1>1, <1>3, <2>2
    <3>2. frozen # 0 => frozen \in Attempt
      BY <1>0 DEF TypeOK, Attempt
    <3> QED
      BY <1>0, <1>2, <3>1, <3>2 DEF LockHasOwner
  <2> QED
    BY <2>1, <2>2
<1>7. CutoffsArePast'
    BY <1>0, <1>1, <1>2 DEF CutoffsArePast
<1>8. Alone' => Alone /\ \A b \in Attempt : prep'[b] \notin Suspended
  <2> SUFFICES ASSUME Alone, NEW b \in Attempt
               PROVE  prep'[b] \notin Suspended
    BY DEF Alone
  <2>1. prep[a] \in Suspended
    BY DEF Begun, Suspended
  <2>2. b # a => prep[b] \notin Suspended
    BY <1>0, <2>1 DEF OneAtATime
  <2> QED
    BY <1>2, <2>2 DEF Suspended
<1>9. OneAtATime'
    BY <1>8 DEF OneAtATime
<1>10. FrozenIsLocked'
  <2> SUFFICES ASSUME Alone, frozen' # 0
               PROVE  locked'
    BY <1>8 DEF FrozenIsLocked
  <2>1. CASE prep[a] = "opens"
    BY <1>0, <1>1, <1>3, <2>1 DEF FrozenIsLocked
  <2>2. CASE prep[a] # "opens"
    <3>1. frozen = a
      BY <1>0, <2>2 DEF BegunIsPreparing, Begun
    <3> QED
      BY <1>1, <1>3, <2>2, <3>1
  <2> QED
    BY <2>1, <2>2
<1>11. BegunIsPreparing'
  <2>1. Alone' => \A b \in Attempt : ~Begun(b)'
    BY <1>8 DEF Begun, Suspended
  <2> QED
    BY <2>1 DEF BegunIsPreparing, Begun
<1> QED
    BY <1>4, <1>5, <1>6, <1>7, <1>9, <1>10, <1>11 DEF Renderer

(* The preparation is ready, and counts or is taken back. *)
LEMMA ReconciledIs ==
    ASSUME IInv, NEW a \in Attempt, prep[a] = "reconciling",
           edits.made = cutoff[a]
    PROVE  edits.saved = edits.made
<1>1. cutoff[a] <= edits.saved /\ edits.saved <= edits.made
    BY Parts DEF CutoffsArePast
<1> QED
    BY <1>1, EditsAre

LEMMA ReadyRenderer ==
    ASSUME IInv, NEW a \in Attempt, Reconciled(a), MayBeReady(a),
           UNCHANGED <<edits, note, outlived>>
    PROVE  Renderer'
<1>0. /\ TypeOK /\ PreparingIsBegun /\ CloseHasOwner /\ LockHasOwner
      /\ CutoffsArePast /\ OneAtATime /\ FrozenIsLocked /\ BegunIsPreparing
    BY Parts
<1>1. /\ prep[a] = "reconciling"
      /\ prep' = [prep EXCEPT ![a] = "done"]
      /\ preparing' = IF preparing = a THEN 0 ELSE preparing
      /\ UNCHANGED cutoff
      /\ \/ /\ closeFreeze = a
            /\ close' = [phase |-> "ready", id |-> a]
            /\ UNCHANGED <<closeFreeze, frozen, locked>>
         \/ /\ closeFreeze # a
            /\ TakeBack(a)
    BY DEF Reconciled
<1>2. /\ prep'[a] = "done"
      /\ \A b \in Attempt \ {a} : prep'[b] = prep[b]
    BY <1>0, <1>1 DEF TypeOK
<1>3. edits.saved = edits.made
    BY <1>1, ReconciledIs DEF MayBeReady
<1>4. /\ closeFreeze' = closeFreeze
      /\ \/ closeFreeze = a /\ UNCHANGED <<frozen, locked>>
         \/ closeFreeze # a /\ frozen = a /\ locked' = FALSE /\ frozen' = 0
         \/ closeFreeze # a /\ frozen # a /\ UNCHANGED <<frozen, locked>>
    BY <1>1, <1>3 DEF TakeBack, Recovers
<1>5. PreparingIsBegun'
    BY <1>0, <1>1, <1>2 DEF PreparingIsBegun, Begun, TypeOK, Attempt
<1>6. CloseHasOwner'
    BY <1>1, <1>2 DEF CloseHasOwner, Idle, TakeBack
<1>7. LockHasOwner'
  <2>1. frozen # 0 => frozen \in Attempt
    BY <1>0 DEF TypeOK, Attempt
  <2>2. CASE closeFreeze = a /\ UNCHANGED <<frozen, locked>>
    BY <1>0, <1>2, <1>3, <1>4, <2>1, <2>2 DEF LockHasOwner
  <2>3. CASE locked' = FALSE /\ frozen' = 0
    BY <2>3 DEF LockHasOwner
  <2>4. CASE frozen # a /\ UNCHANGED <<frozen, locked>>
    BY <1>0, <1>2, <1>3, <1>4, <2>1, <2>4 DEF LockHasOwner
  <2> QED
    BY <1>4, <2>2, <2>3, <2>4
<1>8. CutoffsArePast'
    BY <1>0, <1>1, <1>2 DEF CutoffsArePast
<1>9. Alone' => Alone /\ \A b \in Attempt : prep'[b] \notin Suspended
  <2> SUFFICES ASSUME Alone, NEW b \in Attempt
               PROVE  prep'[b] \notin Suspended
    BY DEF Alone
  <2>1. prep[a] \in Suspended
    BY <1>1 DEF Suspended
  <2>2. b # a => prep[b] \notin Suspended
    BY <1>0, <2>1 DEF OneAtATime
  <2> QED
    BY <1>2, <2>2 DEF Suspended
<1>10. OneAtATime'
    BY <1>9 DEF OneAtATime
<1>11. FrozenIsLocked'
    BY <1>0, <1>4, <1>9 DEF FrozenIsLocked
<1>12. BegunIsPreparing'
  <2>1. Alone' => \A b \in Attempt : ~Begun(b)'
    BY <1>9 DEF Begun, Suspended
  <2> QED
    BY <2>1 DEF BegunIsPreparing, Begun
<1> QED
    BY <1>5, <1>6, <1>7, <1>8, <1>10, <1>11, <1>12 DEF Renderer

LEMMA TimesOutRenderer ==
    ASSUME IInv, NEW a \in Attempt, NavigationTimesOut(a),
           UNCHANGED outlived
    PROVE  Renderer'
<1>0. /\ TypeOK /\ PreparingIsBegun /\ CloseHasOwner /\ LockHasOwner
      /\ CutoffsArePast /\ OneAtATime /\ FrozenIsLocked /\ BegunIsPreparing
    BY Parts
<1>1. /\ prep[a] = "navigation" /\ prep' = [prep EXCEPT ![a] = "done"]
      /\ closeFreeze' = IF closeFreeze = a THEN 0 ELSE closeFreeze
      /\ UNCHANGED <<close, preparing, frozen, cutoff, locked, edits, note>>
    BY DEF NavigationTimesOut, work
<1>2. /\ prep'[a] = "done"
      /\ \A b \in Attempt \ {a} : prep'[b] = prep[b]
    BY <1>0, <1>1 DEF TypeOK
<1>3. PreparingIsBegun'
  <2>1. preparing # 0 => preparing \in Attempt /\ preparing # a
    BY <1>0, <1>1 DEF PreparingIsBegun, Begun, TypeOK, Attempt
  <2> QED
    BY <1>0, <1>1, <1>2, <2>1 DEF PreparingIsBegun, Begun
<1>4. CloseHasOwner'
  <2>1. close.phase # "idle" => close.id \in Attempt /\ close.id # a
    BY <1>0, <1>1 DEF CloseHasOwner, Begun, TypeOK
  <2> QED
    BY <1>0, <1>1, <1>2, <2>1 DEF CloseHasOwner, Begun
<1>5. LockHasOwner'
  <2>1. frozen # 0 => frozen \in Attempt /\ frozen # a
    BY <1>0, <1>1 DEF LockHasOwner, TypeOK, Attempt
  <2> QED
    BY <1>0, <1>1, <1>2, <2>1 DEF LockHasOwner
<1>6. CutoffsArePast'
    BY <1>0, <1>1, <1>2 DEF CutoffsArePast
<1>7. \A b \in Attempt : prep'[b] \in Suspended => prep[b] \in Suspended /\ b # a
    BY <1>2 DEF Suspended
<1>8. OneAtATime' /\ FrozenIsLocked'
  <2>1. prep[a] \in Suspended
    BY <1>1 DEF Suspended
  <2>2. OneAtATime'
    BY <1>0, <1>7, <2>1 DEF OneAtATime, Alone
  <2>3. FrozenIsLocked'
    BY <1>0, <1>1 DEF FrozenIsLocked, Alone
  <2> QED
    BY <2>2, <2>3
<1>9. BegunIsPreparing'
  <2>1. \A b \in Attempt : Begun(b)' => Begun(b) /\ b # a
    BY <1>2 DEF Begun
  <2> QED
    BY <1>0, <1>1, <1>2, <2>1 DEF BegunIsPreparing, Alone, Begun
<1> QED
    BY <1>3, <1>4, <1>5, <1>6, <1>8, <1>9 DEF Renderer

(* The opens have settled, or everything is saved. *)
LEMMA AdvanceRenderer ==
    ASSUME IInv, NEW a \in Attempt, OpensSettle(a) \/ Drained(a),
           UNCHANGED outlived
    PROVE  Renderer'
<1>0. /\ TypeOK /\ PreparingIsBegun /\ CloseHasOwner /\ LockHasOwner
      /\ CutoffsArePast /\ OneAtATime /\ FrozenIsLocked /\ BegunIsPreparing
    BY Parts
<1>1. /\ UNCHANGED <<closeFreeze, close, preparing, edits, note>>
      /\ Begun(a)
      /\ \/ /\ prep' = [prep EXCEPT ![a] = "draining"]
            /\ cutoff' = [cutoff EXCEPT ![a] = edits.made]
            /\ locked' = TRUE /\ frozen' = a
         \/ /\ prep[a] = "draining"
            /\ prep' = [prep EXCEPT ![a] = "reconciling"]
            /\ edits.saved = edits.made /\ ~note
            /\ UNCHANGED <<cutoff, locked, frozen>>
    BY DEF OpensSettle, Drained, Freeze, work, Begun
<1>2. \A b \in Attempt \ {a} : prep'[b] = prep[b] /\ cutoff'[b] = cutoff[b]
    BY <1>0, <1>1 DEF TypeOK
<1>3. \/ /\ prep'[a] = "draining" /\ cutoff'[a] = edits.made
         /\ locked' = TRUE /\ frozen' = a
      \/ /\ prep[a] = "draining" /\ prep'[a] = "reconciling"
         /\ edits.saved = edits.made /\ ~note /\ cutoff'[a] = cutoff[a]
         /\ UNCHANGED <<locked, frozen>>
    BY <1>0, <1>1 DEF TypeOK
<1>4. \A b \in Attempt : Begun(b)' <=> Begun(b)
    BY <1>1, <1>2, <1>3 DEF Begun
<1>5. edits.made \in Nat /\ edits.saved \in Nat /\ a # 0
    BY EditsAre, Numbers
<1>6. PreparingIsBegun' /\ CloseHasOwner'
  <2>1. preparing # 0 => preparing \in Attempt
    BY <1>0 DEF TypeOK, Attempt
  <2>2. PreparingIsBegun'
    BY <1>0, <1>1, <1>4, <2>1 DEF PreparingIsBegun, Begun
  <2>3. close.phase = "ready" => close.id # a
    BY <1>0, <1>1 DEF CloseHasOwner, Begun
  <2>4. CloseHasOwner'
    BY <1>0, <1>1, <1>2, <1>3, <1>4, <2>3 DEF CloseHasOwner, Begun
  <2> QED
    BY <2>2, <2>4
<1>7. LockHasOwner'
  <2>1. CASE /\ prep'[a] = "draining" /\ locked' = TRUE /\ frozen' = a
    BY <1>5, <2>1 DEF LockHasOwner
  <2>2. CASE prep[a] = "draining" /\ prep'[a] = "reconciling"
             /\ UNCHANGED <<locked, frozen>>
    <3>1. frozen # 0 => frozen \in Attempt
      BY <1>0 DEF TypeOK, Attempt
    <3> QED
      BY <1>0, <1>1, <1>2, <2>2, <3>1 DEF LockHasOwner
  <2> QED
    BY <1>3, <2>1, <2>2
<1>8. CutoffsArePast'
  <2>1. \A b \in Attempt \ {a} :
          /\ prep'[b] \in {"none", "navigation", "opens"} => cutoff'[b] = NotFrozen
          /\ prep'[b] \in {"draining", "reconciling"} => cutoff'[b] <= edits.made
          /\ prep'[b] = "reconciling" => cutoff'[b] <= edits.saved
    BY <1>0, <1>2 DEF CutoffsArePast
  <2>2. /\ prep'[a] \notin {"none", "navigation", "opens"}
        /\ prep'[a] \in {"draining", "reconciling"} => cutoff'[a] <= edits.made
        /\ prep'[a] = "reconciling" => cutoff'[a] <= edits.saved
    BY <1>0, <1>3, <1>5 DEF CutoffsArePast
  <2> QED
    BY <1>0, <1>1, <2>1, <2>2 DEF CutoffsArePast
<1>9. OneAtATime'
  <2>1. \A b \in Attempt : prep'[b] \in Suspended <=> prep[b] \in Suspended
    BY <1>1, <1>2, <1>3 DEF Begun, Suspended
  <2> QED
    BY <1>0, <1>1, <2>1 DEF OneAtATime, Alone
<1>10. FrozenIsLocked'
    BY <1>0, <1>3 DEF FrozenIsLocked, Alone
<1>11. BegunIsPreparing'
  <2> SUFFICES ASSUME Alone, NEW b \in Attempt, Begun(b)
               PROVE  /\ close = [phase |-> "preparing", id |-> b]
                      /\ preparing = b
                      /\ prep'[b] \in {"draining", "reconciling"} =>
                             locked' /\ frozen' = b /\ cutoff'[b] = edits.made
                      /\ prep'[b] = "reconciling" =>
                             edits.saved = edits.made /\ ~note
    <3>1. \A b \in Attempt : /\ prep'[b] \in {"draining", "reconciling"}
                                => Begun(b)'
                             /\ prep'[b] = "reconciling" => Begun(b)'
      BY DEF Begun
    <3> QED
      BY <1>1, <1>4, <3>1 DEF BegunIsPreparing, Alone, Begun
  <2>1. prep[a] \in Suspended /\ prep[b] \in Suspended
    BY <1>1 DEF Begun, Suspended
  <2>2. b = a
    BY <1>0, <2>1 DEF OneAtATime
  <2> QED
    BY <1>0, <1>3, <2>2 DEF BegunIsPreparing
<1> QED
    BY <1>6, <1>7, <1>8, <1>9, <1>10, <1>11 DEF Renderer

LEMMA PrepareRenderer ==
    ASSUME IInv, NEW a \in Attempt, PrepareStep(a)
    PROVE  Renderer'
<1>1. UNCHANGED <<exit, edits, note, outlived>>
    BY DEF PrepareStep, NavigationSettles, NavigationTimesOut, OpensSettle,
       Drained, DrainFails, Reconciled, main, work, history
<1>2. CASE NavigationSettles(a)
  <2>1. outlived = FALSE =>
            \A b \in Attempt : prep[b] \in Suspended => b = a
    BY <1>2, Parts DEF NavigationSettles, OneAtATime, Alone, Suspended
  <2>2. outlived' = FALSE =>
            /\ outlived = FALSE
            /\ \A b \in Attempt : prep[b] \in Suspended => b = a
    BY <1>1, <2>1
  <2>3. /\ StartProject(a) /\ prep[a] = "navigation"
        /\ closeFreeze' = closeFreeze
    BY <1>2 DEF NavigationSettles
  <2> QED
    BY <1>1, <2>2, <2>3, StartRenderer
<1>3. CASE NavigationTimesOut(a)
    BY <1>1, <1>3, TimesOutRenderer
<1>4. CASE OpensSettle(a) \/ Drained(a)
    BY <1>1, <1>4, AdvanceRenderer
<1>5. CASE DrainFails(a)
  <2>1. Begun(a)
    BY <1>5 DEF DrainFails, Begun
  <2> QED
    BY <1>1, <1>5, <2>1, GiveUpRenderer DEF DrainFails
<1>6. CASE Reconciled(a)
  <2>1. CASE MayBeReady(a)
    BY <1>1, <1>6, <2>1, ReadyRenderer
  <2>2. CASE ~MayBeReady(a)
    <3>1. Begun(a)
      BY <1>6 DEF Reconciled, Begun
    <3>2. PICK type : GiveUp(a, type)
      BY <1>6, <2>2 DEF Reconciled
    <3> QED
      BY <1>1, <3>1, <3>2, GiveUpRenderer
  <2> QED
    BY <2>1, <2>2
<1> QED
    BY <1>2, <1>3, <1>4, <1>5, <1>6 DEF PrepareStep

LEMMA PrepareDecision ==
    ASSUME IInv, NEW a \in Attempt, PrepareStep(a)
    PROVE  Decision'
<1>0. TypeOK /\ OneAtATime
    BY Parts
<1>1. UNCHANGED <<exit, edits, note, outlived>>
    BY DEF PrepareStep, NavigationSettles, NavigationTimesOut, OpensSettle,
       Drained, DrainFails, Reconciled, main, work, history
<1>2. prep[a] \in Suspended /\ a # 0
    BY Numbers DEF PrepareStep, NavigationSettles, NavigationTimesOut,
       OpensSettle, Drained, DrainFails, Reconciled, Suspended
<1>3. /\ \E x \in Suspended \cup {"done"} : prep' = [prep EXCEPT ![a] = x]
      /\ closeFreeze' = closeFreeze
         \/ closeFreeze' = IF closeFreeze = a THEN 0 ELSE closeFreeze
    BY DEF PrepareStep, NavigationSettles, NavigationTimesOut, OpensSettle,
       Drained, DrainFails, Reconciled, StartProject, Freeze, GiveUp, TakeBack,
       Suspended
<1>4. \A b \in Attempt \ {a} : prep'[b] = prep[b]
    BY <1>0, <1>3 DEF TypeOK
<1>5. ASSUME Decided \/ ReadyToAccept
      PROVE  /\ closeFreeze' = exit.id /\ prep'[exit.id] = "done"
             /\ ~Alone
  <2>1. /\ exit.id \in Attempt /\ exit.id # 0 /\ closeFreeze = exit.id
        /\ prep[exit.id] = "done"
    BY <1>5, DecidedNames
  <2>2. exit.id # a
    BY <1>2, <2>1 DEF Suspended
  <2>3. ~Alone
    BY <1>0, <1>2, <2>1, <2>2 DEF OneAtATime
  <2> QED
    BY <1>3, <1>4, <2>1, <2>2, <2>3
<1>6. Decided' <=> Decided
    BY <1>1 DEF Decided
<1>7. CASE Decided \/ ReadyToAccept
    BY <1>1, <1>5, <1>7 DEF Decision, DecidedIsFrozen, DecidedIsSafe, Alone
<1>8. CASE ~Decided /\ ~ReadyToAccept /\ ~ReadyToAccept'
    BY <1>6, <1>8 DEF Decision, DecidedIsFrozen, DecidedIsSafe
<1>9. CASE ~ReadyToAccept /\ ReadyToAccept'
  <2>1. PICK i \in DOMAIN toMain' : toMain'[i] = Message("ready", exit.id)
    BY <1>1, <1>9 DEF ReadyToAccept
  <2>2. ~(\E j \in DOMAIN toMain : toMain[j] = Message("ready", exit.id))
    BY <1>1, <1>9 DEF ReadyToAccept
  <2>3. toMain' # toMain
    BY <2>1, <2>2
  <2>4. PICK type \in {"ready", "blocked", "retry"} :
            /\ Reply(type, a)
            /\ type = "ready" =>
                   /\ Reconciled(a) /\ MayBeReady(a) /\ closeFreeze = a
    BY <2>3 DEF PrepareStep, NavigationSettles, NavigationTimesOut, OpensSettle,
       Drained, DrainFails, Reconciled, StartProject, Freeze, GiveUp, TakeBack
  <2>5. toMain'[i] = Message(type, a)
    <3> DEFINE m == Message(type, a)
    <3>1. m \in MessageToMain
      BY Messages
    <3>2. toMain' = Append(toMain, m)
      BY <2>4 DEF Reply
    <3> HIDE DEF m
    <3>3. \A k \in DOMAIN toMain' :
              \/ k \in DOMAIN toMain /\ toMain'[k] = toMain[k]
              \/ toMain'[k] = m
      BY <1>0, <3>1, <3>2, MainAppend DEF TypeOK
    <3> QED
      BY <2>1, <2>2, <3>3 DEF m
  <2>6. type = "ready" /\ a = exit.id
    <3>1. /\ Message("ready", exit.id).type = "ready"
          /\ Message("ready", exit.id).id = exit.id
          /\ Message(type, a).type = type /\ Message(type, a).id = a
      BY MessageIs
    <3> QED
      BY <2>1, <2>5, <3>1
  <2>7. /\ prep[a] = "reconciling" /\ edits.made = cutoff[a]
        /\ prep' = [prep EXCEPT ![a] = "done"]
        /\ close' = [phase |-> "ready", id |-> a]
        /\ UNCHANGED <<closeFreeze, frozen, locked>>
    BY <2>4, <2>6 DEF Reconciled, MayBeReady
  <2>8. prep'[a] = "done"
    BY <1>0, <2>7 DEF TypeOK
  <2>9. DecidedIsFrozen'
    BY <1>1, <2>4, <2>6, <2>7, <2>8 DEF DecidedIsFrozen
  <2>10. DecidedIsSafe'
    <3>1. edits.saved = edits.made
      BY <2>7, ReconciledIs
    <3>2. Alone => locked /\ frozen = a /\ ~note
      BY <2>7, Parts DEF BegunIsPreparing
    <3> QED
      BY <1>1, <2>6, <2>7, <3>1, <3>2 DEF DecidedIsSafe, Alone
  <2> QED
    BY <2>9, <2>10 DEF Decision
<1> QED
    BY <1>7, <1>8, <1>9

LEMMA StepInv == IInv /\ [Next]_vars => IInv'
<1> SUFFICES ASSUME IInv, [Next]_vars
             PROVE  IInv'
    OBVIOUS
<1>1. CASE UNCHANGED vars
  <2>1. UNCHANGED <<exit, bridge, mailbox, delivered, handoff, toRenderer, toMain,
                    closing, work, opening, published, opened, outlived>>
    BY <1>1 DEF vars, main, navigation, history
  <2>2. Typed'
    BY <1>1, Parts, StepTyped
  <2>3. Renderer'
    BY <2>1, Parts, RendererUntouched
  <2>4. Channels'
    BY <2>1, Parts DEF Channels, PastPreps, ToRendererOrder, AnswersAreOver,
       FreezeIsOwned, Owned, Underway, Sent, closing
  <2>5. Decision'
    BY <2>1, Parts, DecisionStays DEF Decided, ReadyToAccept
  <2> QED
    BY <2>2, <2>3, <2>4, <2>5 DEF IInv
<1>2. CASE MainStep
    BY <1>2, MainStepInv
<1>3. CASE \E e \in Request : Publish(e)
    BY <1>3, PublishInv
<1>4. CASE Edit \/ WriteNote \/ Save \/ SwitchTab
    BY <1>4, WorkInv
<1>5. CASE ReceiveOpen \/ AdmitQueued \/ FinishOpening \/ ReceiveAcknowledged
    BY <1>5, OpeningInv
<1>6. CASE ReceivePrepare
    BY <1>6, ReceivePrepareInv
<1>7. CASE ReceiveAbort
    BY <1>7, ReceiveAbortInv
<1>8. CASE \E a \in Attempt : PrepareStep(a)
  <2>1. PICK a \in Attempt : PrepareStep(a)
    BY <1>8
  <2>2. Typed'
    BY <2>1, Parts, PrepareTyped
  <2> QED
    BY <2>1, <2>2, PrepareChannels, PrepareRenderer, PrepareDecision DEF IInv
<1> QED
    BY <1>1, <1>2, <1>3, <1>4, <1>5, <1>6, <1>7, <1>8 DEF Next, RendererStep

-----------------------------------------------------------------------------
(* The theorems.                                                            *)

(* The parts of the invariant hold in every reachable state. *)
THEOREM Invariance == Spec => []IInv
BY InitInv, StepInv, PTL DEF Spec

(* Every variable keeps its type, whatever is lost, retried or deferred,    *)
(* and the identities of the attempts leave room for the one retry.         *)
THEOREM TypeCorrect == Spec => []TypeOK
<1>1. IInv => TypeOK
    BY Parts
<1> QED
    BY <1>1, Invariance, PTL

(* Unless a preparation outlived its attempt, the application never exits   *)
(* with an edit or a draft that is not on disk (prepareClose and            *)
(* coordinateApplicationExit).                                              *)
THEOREM NothingIsLostOnExit == Spec => []ExitLosesNothing
<1>1. IInv => ExitLosesNothing
    BY Parts DEF ExitLosesNothing, DecidedIsSafe, Decided, Alone
<1> QED
    BY <1>1, Invariance, PTL

(* From the moment "ready" is accepted until the exit is given up, the      *)
(* navigation is frozen for that attempt, even if others are still being    *)
(* prepared (prepareClose and abortClose of the controller).                *)
THEOREM DecisionsFreeze == Spec => []DecidedMeansFrozen
<1>1. IInv => DecidedMeansFrozen
    BY Parts DEF DecidedMeansFrozen, DecidedIsFrozen, Decided
<1> QED
    BY <1>1, Invariance, PTL

(* When an attempt was given up and its messages have arrived, nothing of   *)
(* it remains in the renderer, even if its preparation outlived it          *)
(* (abortClose and the end of prepareClose).                                *)
THEOREM GivenUpIsGone == Spec => []QuietMeansUsable
<1>1. IInv => QuietMeansUsable
  <2> SUFFICES ASSUME IInv, exit.pc \in {"none", "pausing"},
                      ~Carries("abort"), Preparing = {}
               PROVE  closeFreeze = 0 /\ close.phase = "idle" /\ ~locked
    BY DEF QuietMeansUsable
  <2>0. TypeOK /\ FreezeIsOwned /\ CloseHasOwner /\ LockHasOwner
    BY Parts
  <2>1. closeFreeze = 0
    <3> SUFFICES ASSUME closeFreeze # 0 PROVE FALSE
      OBVIOUS
    <3>1. Sent(Message("abort", closeFreeze))
      BY <2>0 DEF FreezeIsOwned, Owned, Underway
    <3> QED
      BY <3>1, MessageIs DEF Sent, Carries
  <2>2. \A a \in Attempt : prep[a] \notin Suspended
    BY DEF Preparing
  <2>3. close.phase = "idle"
    <3>1. close.phase # "preparing"
      BY <2>0, <2>2 DEF CloseHasOwner, Begun, Suspended
    <3>2. close.phase # "ready"
      BY <2>0, <2>1, Numbers DEF CloseHasOwner
    <3> QED
      BY <2>0, <3>1, <3>2 DEF TypeOK
  <2>4. ~locked
    <3> SUFFICES ASSUME locked PROVE FALSE
      OBVIOUS
    <3>1. frozen # 0 /\ frozen \in Attempt
      BY <2>0 DEF LockHasOwner, TypeOK, Attempt
    <3>2. prep[frozen] = "done"
      BY <2>0, <2>2, <3>1 DEF LockHasOwner, Suspended
    <3> QED
      BY <2>0, <2>1, <3>1, <3>2 DEF LockHasOwner
  <2> QED
    BY <2>1, <2>3, <2>4
<1> QED
    BY <1>1, Invariance, PTL

(* When an attempt the exit no longer stands on has its question still on   *)
(* its way, its abort follows, so that the renderer prepares nothing that   *)
(* nobody will take back (requestRendererClose and finishCloseAbort).       *)
THEOREM QuestionsAreTakenBack == Spec => []OpenFollowsAbort
<1>1. IInv => OpenFollowsAbort
    BY Parts DEF OpenFollowsAbort, ToRendererOrder, Underway
<1> QED
    BY <1>1, Invariance, PTL
=============================================================================
