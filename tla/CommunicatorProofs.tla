-------------------------- MODULE CommunicatorProofs --------------------------
(***************************************************************************)
(* Safety of Communicator for every set of frames and of threads that call *)
(* send: its type invariant, silence after stop(), and that it implements  *)
(* FifoChannel.                                                            *)
(***************************************************************************)
EXTENDS Communicator, TLAPS

\* The two threads exist from start() until stop() has joined them.
ThreadsOwned ==
    /\ owner = "idle" /\ ~ running => sender = "none" /\ receiver = "none"
    /\ owner # "idle" => ~ running
    /\ owner = "joiningReceiver" => sender = "none"

Inv == TypeOK /\ ThreadsOwned

-----------------------------------------------------------------------------
(* Sequences.                                                              *)

LEMMA AppendBehind ==
    ASSUME NEW S, NEW s \in Seq(S), NEW a \in S, NEW b \in S
    PROVE  <<a>> \o Append(s, b) = Append(<<a>> \o s, b)
  OBVIOUS

LEMMA AheadOf ==
    ASSUME NEW S, NEW s \in Seq(S), NEW a \in S
    PROVE  /\ <<a>> \o s # <<>>
           /\ Head(<<a>> \o s) = a
           /\ Tail(<<a>> \o s) = s
  OBVIOUS

\* What SenderPop takes is the head, and what it leaves the tail.
LEMMA PopIsHead ==
    ASSUME NEW s \in Seq(Frame), s # <<>>
    PROVE  /\ s[NextFrame] = Head(s)
           /\ SubSeq(s, 1, NextFrame - 1) \o SubSeq(s, NextFrame + 1, Len(s)) = Tail(s)
           /\ Head(s) \in Frame
           /\ Tail(s) \in Seq(Frame)
           /\ <<Head(s)>> \o Tail(s) = s
  BY DEF NextFrame

-----------------------------------------------------------------------------
(* The invariant.                                                          *)

LEMMA InvInit == Init => Inv
  <1> SUFFICES ASSUME Init PROVE Inv
    OBVIOUS
  <1>1. queue \in Seq(Frame) /\ written \in Seq(Frame) /\ caller \in [Caller -> {"idle", "notifying"}]
    BY DEF Init
  <1>2. running \in BOOLEAN /\ signalled \in BOOLEAN /\ ~ running
    BY Zenon DEF Init
  <1> QED BY <1>1, <1>2 DEF Init, Inv, TypeOK, ThreadsOwned, Holding

LEMMA NotifiedBoolean == TypeOK => Notified \in BOOLEAN
  BY Zenon DEF TypeOK, Notified

LEMMA InvNext == Inv /\ [Next]_vars => Inv'
  <1> SUFFICES ASSUME Inv, [Next]_vars PROVE Inv'
    OBVIOUS
  <1> USE DEF Inv, TypeOK, ThreadsOwned, Holding
  <1>1. ASSUME NEW t \in Caller, SendNotify(t) PROVE Inv'
    BY <1>1, NotifiedBoolean DEF SendNotify
  <1>2. ASSUME NEW t \in Caller, NEW f \in Frame, SendPush(t, f) PROVE Inv'
    BY <1>2 DEF SendPush, MutexFree
  <1>3. CASE SenderLoop \/ SenderLock \/ SenderTest \/ SenderBlock \/ SenderWake
             \/ SenderRelock \/ SenderDrained
    <2>1. signalled' \in BOOLEAN
      BY <1>3, Zenon DEF SenderLoop, SenderLock, SenderTest, SenderBlock, SenderWake,
                         SenderRelock, SenderDrained
    <2> QED
      BY <1>3, <2>1 DEF SenderLoop, SenderLock, SenderTest, SenderBlock, SenderWake,
                        SenderRelock, SenderDrained, SenderStep
  <1>4. CASE SenderPop
    <2>1. queue'\in Seq(Frame) /\ data' \in Frame
      BY <1>4, PopIsHead DEF SenderPop
    <2> QED BY <1>4, <2>1, NoneAssumption DEF SenderPop
  <1>5. CASE SenderWrite
    BY <1>5 DEF SenderWrite, SenderStep
  <1>6. CASE Receiver
    BY <1>6 DEF Receiver, ReceiverSleep, ReceiverWake
  <1>7. CASE Start \/ Stop
    BY <1>7 DEF Start, Stop
  <1>8. CASE StopRun
    BY <1>8, NotifiedBoolean DEF StopRun, StopNotify, StopJoinSender, StopJoinReceiver
  <1>9. CASE UNCHANGED vars
    BY <1>9 DEF vars
  <1> HIDE DEF Inv, TypeOK, ThreadsOwned, Holding
  <1> QED BY <1>1, <1>2, <1>3, <1>4, <1>5, <1>6, <1>7, <1>8, <1>9 DEF Next, SenderRun

LEMMA InvAlways == Spec => []Inv
  BY InvInit, InvNext, PTL DEF Spec

\* Every variable keeps its type, and the send thread has a frame in hand exactly
\* while it writes.
THEOREM TypeCorrect == Spec => []TypeOK
  <1>1. Inv => TypeOK
    BY DEF Inv
  <1> QED BY <1>1, InvAlways, PTL

\* After stop() has returned, and before start(), the device is left alone
\* (Communicator::stop joins both threads).
THEOREM Quiet == Spec => QuietWhenStopped
  <1>1. Inv /\ [Next]_vars => [owner = "idle" /\ ~ running => UNCHANGED <<written, data>>]_vars
    <2> SUFFICES ASSUME Inv, Next, owner = "idle", ~ running
                 PROVE  UNCHANGED <<written, data>>
      OBVIOUS
    <2>1. sender = "none" /\ receiver = "none"
      BY DEF Inv, ThreadsOwned
    <2>2. ~ SenderRun /\ ~ SenderWake /\ ~ Receiver
      BY <2>1 DEF SenderRun, SenderLoop, SenderLock, SenderTest, SenderBlock, SenderWake,
                  SenderRelock, SenderDrained, SenderWrite, SenderPop, SenderStep,
                  Receiver, ReceiverSleep, ReceiverWake
    <2> QED
      BY <2>2 DEF Next, SendNotify, SendPush, Start, Stop, StopRun, StopNotify,
                  StopJoinSender, StopJoinReceiver
  <1> QED BY <1>1, InvAlways, PTL DEF Spec, QuietWhenStopped

-----------------------------------------------------------------------------
(* Wakeups.                                                                *)

\* While the send thread is on its way to block, it holds sendMutex and has found
\* the queue empty; once it is blocked, a push is followed by its notification.
NoWakeupLost ==
    /\ sender = "blocking" => queue = <<>>
    /\ sender = "waiting" /\ queue # <<>> => signalled \/ \E t \in Caller : caller[t] = "notifying"

LEMMA WakeupNext == Inv /\ NoWakeupLost /\ [Next]_vars => NoWakeupLost'
  <1> SUFFICES ASSUME Inv, NoWakeupLost, [Next]_vars PROVE NoWakeupLost'
    OBVIOUS
  <1> USE DEF NoWakeupLost
  <1>1. ASSUME NEW t \in Caller, SendNotify(t) PROVE NoWakeupLost'
    BY <1>1 DEF SendNotify, Notified
  <1>2. ASSUME NEW t \in Caller, NEW f \in Frame, SendPush(t, f) PROVE NoWakeupLost'
    <2>1. caller'[t] = "notifying" /\ sender' # "blocking"
      BY <1>2 DEF SendPush, MutexFree, Holding, Inv, TypeOK
    <2> QED BY <2>1
  <1>3. CASE SenderBlock
    BY <1>3 DEF SenderBlock, SenderStep
  <1>4. CASE SenderTest
    BY <1>4 DEF SenderTest, SenderStep
  <1>5. CASE SenderLoop \/ SenderLock \/ SenderWake \/ SenderWrite \/ SenderRelock \/ SenderDrained
    BY <1>5 DEF SenderLoop, SenderLock, SenderWake, SenderWrite, SenderRelock, SenderDrained,
                SenderStep
  <1>6. CASE SenderPop
    BY <1>6 DEF SenderPop
  <1>7. CASE Receiver
    BY <1>7 DEF Receiver, ReceiverSleep, ReceiverWake
  <1>8. CASE Start \/ Stop \/ StopRun
    BY <1>8 DEF Start, Stop, StopRun, StopNotify, StopJoinSender, StopJoinReceiver, Notified
  <1>9. CASE UNCHANGED vars
    BY <1>9 DEF vars
  <1> HIDE DEF NoWakeupLost
  <1> QED BY <1>1, <1>2, <1>3, <1>4, <1>5, <1>6, <1>7, <1>8, <1>9 DEF Next, SenderRun

\* Communicator::send loses no wakeup, although it notifies after it has released
\* sendMutex: a send thread that sleeps over a queue that is not empty has been
\* notified, or some caller is about to do it.  (It is what EveryFrameWritten rests
\* on besides fairness.)
THEOREM SendWakesSender == Spec => []NoWakeupLost
  <1>1. Init => NoWakeupLost
    BY DEF Init, NoWakeupLost
  <1>2. Inv /\ NoWakeupLost /\ [Next]_vars => NoWakeupLost'
    BY WakeupNext
  <1> QED BY <1>1, <1>2, InvAlways, PTL DEF Spec

\* stop() waits for a send thread that nobody will wake.
StopMissed == owner = "joiningSender" /\ sender = "waiting" /\ ~ signalled

\* That comes about in one way only: the send thread blocks after it has tested the
\* flag and after stop(), which takes no mutex, has cleared it and notified.
MissedOnlyInWindow == [][~ StopMissed /\ StopMissed' => SenderBlock /\ ~ running]_vars

\* The hang of Communicator::stop has no other cause than the step between the test
\* of the predicate and the block, into which stop() can fall.
THEOREM StopMissedInWindow == Spec => MissedOnlyInWindow
  <1>1. Inv /\ [Next]_vars => [~ StopMissed /\ StopMissed' => SenderBlock /\ ~ running]_vars
    <2> SUFFICES ASSUME Inv, Next, ~ StopMissed, StopMissed'
                 PROVE  SenderBlock /\ ~ running
      OBVIOUS
    <2> USE DEF StopMissed
    <2>1. CASE SenderBlock
      BY <2>1 DEF SenderBlock, SenderStep, Inv, ThreadsOwned
    <2>2. ASSUME NEW t \in Caller, SendNotify(t) PROVE FALSE
      BY <2>2, Zenon DEF SendNotify, Notified
    <2>3. ASSUME NEW t \in Caller, NEW f \in Frame, SendPush(t, f) PROVE FALSE
      BY <2>3 DEF SendPush
    <2>4. CASE SenderLoop \/ SenderLock \/ SenderTest \/ SenderPop \/ SenderWrite \/ SenderRelock
               \/ SenderDrained \/ SenderWake
      BY <2>4 DEF SenderLoop, SenderLock, SenderTest, SenderPop, SenderWrite, SenderRelock,
                  SenderDrained, SenderWake, SenderStep
    <2>5. CASE Receiver \/ Start \/ Stop \/ StopRun
      BY <2>5 DEF Receiver, ReceiverSleep, ReceiverWake, Start, Stop, StopRun, StopNotify,
                  StopJoinSender, StopJoinReceiver, Notified
    <2> QED BY <2>1, <2>2, <2>3, <2>4, <2>5 DEF Next, SenderRun
  <1> QED BY <1>1, InvAlways, PTL DEF Spec, MissedOnlyInWindow

-----------------------------------------------------------------------------
(* Refinement: the frames on their way are the one in the send thread's    *)
(* hand and those in the queue.                                            *)

OnTheWay == IF data = None THEN queue ELSE <<data>> \o queue

LEMMA PushAccepts ==
    ASSUME Inv, NEW t \in Caller, NEW f \in Frame, SendPush(t, f)
    PROVE  Channel!Accept(f)
  <1>1. UNCHANGED <<data, written>> /\ queue' = Append(queue, f)
    BY DEF SendPush
  <1>2. OnTheWay' = Append(OnTheWay, f)
    BY <1>1, AppendBehind DEF Inv, TypeOK, OnTheWay
  <1> QED BY <1>1, <1>2 DEF Channel!Accept, OnTheWay

LEMMA PopKeeps ==
    ASSUME Inv, SenderPop
    PROVE  UNCHANGED <<OnTheWay, written>>
  <1>1. data = None /\ queue \in Seq(Frame) /\ queue # <<>>
    BY DEF Inv, TypeOK, SenderPop
  <1>2. data' = Head(queue) /\ queue' = Tail(queue) /\ data' # None
    BY <1>1, PopIsHead, NoneAssumption DEF SenderPop
  <1> QED BY <1>1, <1>2, PopIsHead DEF OnTheWay, SenderPop

LEMMA WriteWrites ==
    ASSUME Inv, SenderWrite
    PROVE  Channel!Write
  <1>1. data \in Frame /\ data # None /\ data' = None /\ queue \in Seq(Frame)
    BY DEF Inv, TypeOK, SenderWrite, SenderStep
  <1>2. queue' = queue /\ written' = Append(written, data)
    BY DEF SenderWrite, SenderStep
  <1>3. OnTheWay = <<data>> \o queue /\ OnTheWay' = queue
    BY <1>1, <1>2 DEF OnTheWay
  <1> QED BY <1>1, <1>2, <1>3, AheadOf DEF Channel!Write, OnTheWay

LEMMA NextRefines == Inv /\ [Next]_vars => [Channel!Next]_<<OnTheWay, written>>
  <1> SUFFICES ASSUME Inv, [Next]_vars PROVE [Channel!Next]_<<OnTheWay, written>>
    OBVIOUS
  <1>1. ASSUME NEW t \in Caller, NEW f \in Frame, SendPush(t, f) PROVE Channel!Next
    BY <1>1, PushAccepts DEF Channel!Next
  <1>2. CASE SenderPop
    BY <1>2, PopKeeps
  <1>3. CASE SenderWrite
    BY <1>3, WriteWrites DEF Channel!Next
  <1>4. ASSUME \/ \E t \in Caller : SendNotify(t)
               \/ SenderLoop \/ SenderLock \/ SenderTest \/ SenderBlock \/ SenderWake
               \/ SenderRelock \/ SenderDrained \/ Receiver \/ Start \/ Stop \/ StopRun
               \/ UNCHANGED vars
        PROVE  UNCHANGED <<OnTheWay, written>>
    <2>1. UNCHANGED <<queue, data, written>>
      BY <1>4 DEF SendNotify, SenderLoop, SenderLock, SenderTest, SenderBlock, SenderWake,
                  SenderRelock, SenderDrained, SenderStep, Receiver, ReceiverSleep,
                  ReceiverWake, Start, Stop, StopRun, StopNotify, StopJoinSender,
                  StopJoinReceiver, vars
    <2> QED BY <2>1 DEF OnTheWay
  <1> QED BY <1>1, <1>2, <1>3, <1>4 DEF Next, SenderRun

\* The send thread writes each accepted frame once and in the order of the pushes,
\* with any number of callers, and over any number of starts and stops.
THEOREM ChannelImplemented == Spec => ImplementsChannel
  <1>1. Init => Channel!Init
    BY DEF Init, Channel!Init
  <1>2. Inv /\ [Next]_vars => [Channel!Next]_<<OnTheWay, written>>
    BY NextRefines
  <1> QED
    BY <1>1, <1>2, InvAlways, PTL DEF Spec, ImplementsChannel, Channel!Spec, OnTheWay
=============================================================================
