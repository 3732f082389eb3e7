----------------------------- MODULE Communicator -----------------------------
(***************************************************************************)
(* The device threads and the send queue of SCALPEL::Communicator          *)
(* (src/src/SCALPEL/Communicator.{hpp,cpp}).                               *)
(*                                                                         *)
(* The threads: sendThread, receiveThread, the threads that call send, and *)
(* the one thread that calls start and stop (AVCProtocol, which never      *)
(* starts it twice).  sendMutex is held by the send thread while sender is *)
(* one of Holding; a call of send holds it within one action.  cv.wait     *)
(* evaluates its predicate with the mutex held and only then blocks, and   *)
(* stop() takes no mutex, so the two are separate actions.                 *)
(***************************************************************************)
EXTENDS Integers, Sequences, FiniteSets

CONSTANTS
    Frame,          \* frames, each sent once
    Caller,         \* threads that call send
    None            \* no frame

ASSUME NoneAssumption == None \notin Frame

VARIABLES
    queue,          \* sendQueue
    accepted,       \* auxiliary: frames pushed so far
    caller,         \* progress of send in each thread
    running,
    sender,         \* what sendThread is doing
    data,           \* the frame the send thread has popped
    written,        \* frames written to the device
    signalled,      \* a notification has reached the send thread in its wait
    receiver,       \* what receiveThread is doing
    owner           \* progress of stop()

vars == <<queue, accepted, caller, running, sender, data, written, signalled,
          receiver, owner>>

Holding == {"test", "blocking", "drain"}
MutexFree == sender \notin Holding

Init ==
    /\ queue = <<>>
    /\ accepted = {}
    /\ caller = [t \in Caller |-> "idle"]
    /\ running = FALSE
    /\ sender = "none"
    /\ data = None
    /\ written = <<>>
    /\ signalled = FALSE
    /\ receiver = "none"
    /\ owner = "idle"

-----------------------------------------------------------------------------
(* send                                                                    *)

SendPush(t, f) ==
    /\ caller[t] = "idle"
    /\ f \notin accepted
    /\ MutexFree
    /\ queue' = Append(queue, f)
    /\ accepted' = accepted \cup {f}
    /\ caller' = [caller EXCEPT ![t] = "notifying"]
    /\ UNCHANGED <<running, sender, data, written, signalled, receiver, owner>>

\* Mutant: no notification after the push.
NotifiedNot == signalled

\* notify_one and notify_all reach the thread only while it is blocked.
Notified == signalled \/ sender = "waiting"

SendNotify(t) ==
    /\ caller[t] = "notifying"
    /\ caller' = [caller EXCEPT ![t] = "idle"]
    /\ signalled' = Notified
    /\ UNCHANGED <<queue, accepted, running, sender, data, written, receiver, owner>>

-----------------------------------------------------------------------------
(* sendThreadFunc                                                          *)

SenderStep(from, to) ==
    /\ sender = from
    /\ sender' = to
    /\ UNCHANGED <<queue, accepted, caller, running, receiver, owner>>

SenderLoop ==
    /\ SenderStep("loop", IF running THEN "lock" ELSE "exited")
    /\ UNCHANGED <<data, written, signalled>>

SenderLock ==
    /\ SenderStep("lock", "test")
    /\ UNCHANGED <<data, written, signalled>>

SenderTest ==
    /\ SenderStep("test", IF queue # <<>> \/ ~ running THEN "drain" ELSE "blocking")
    /\ UNCHANGED <<data, written, signalled>>

SenderBlock ==
    /\ SenderStep("blocking", "waiting")
    /\ signalled' = FALSE
    /\ UNCHANGED <<data, written>>

\* Notified, or spuriously: the mutex is taken and the predicate tested again.
SenderWake ==
    /\ SenderStep("waiting", "lock")
    /\ signalled' = FALSE
    /\ UNCHANGED <<data, written>>

\* Mutant: the newest frame first.
NextFrameNewest == Len(queue)

NextFrame == 1

\* Mutant: the inner loop runs once more after the queue has been emptied.
SenderPopUnguarded ==
    /\ sender = "drain"
    /\ data' = IF queue = <<>> THEN None ELSE Head(queue)
    /\ queue' = IF queue = <<>> THEN <<>> ELSE Tail(queue)
    /\ sender' = "write"
    /\ UNCHANGED <<accepted, caller, running, written, signalled, receiver, owner>>

\* The mutex is released for the write and taken again after it.
SenderPop ==
    /\ sender = "drain"
    /\ queue # <<>>
    /\ data' = queue[NextFrame]
    /\ queue' = SubSeq(queue, 1, NextFrame - 1) \o SubSeq(queue, NextFrame + 1, Len(queue))
    /\ sender' = "write"
    /\ UNCHANGED <<accepted, caller, running, written, signalled, receiver, owner>>

SenderWrite ==
    /\ SenderStep("write", "relock")
    /\ written' = Append(written, data)
    /\ data' = None
    /\ UNCHANGED signalled

SenderRelock ==
    /\ SenderStep("relock", "drain")
    /\ UNCHANGED <<data, written, signalled>>

SenderDrained ==
    /\ queue = <<>>
    /\ SenderStep("drain", "loop")
    /\ UNCHANGED <<data, written, signalled>>

-----------------------------------------------------------------------------
(* receiveThreadFunc: a placeholder that sleeps and never has data.        *)

ReceiverSleep ==
    /\ receiver = "loop"
    /\ receiver' = IF running THEN "sleeping" ELSE "exited"
    /\ UNCHANGED <<queue, accepted, caller, running, sender, data, written, signalled, owner>>

ReceiverWake ==
    /\ receiver = "sleeping"
    /\ receiver' = "loop"
    /\ UNCHANGED <<queue, accepted, caller, running, sender, data, written, signalled, owner>>

-----------------------------------------------------------------------------
(* start and stop                                                          *)

Start ==
    /\ owner = "idle"
    /\ ~ running
    /\ running' = TRUE
    /\ sender' = "loop"
    /\ receiver' = "loop"
    /\ UNCHANGED <<queue, accepted, caller, data, written, signalled, owner>>

Stop ==
    /\ owner = "idle"
    /\ running
    /\ running' = FALSE
    /\ owner' = "notifying"
    /\ UNCHANGED <<queue, accepted, caller, sender, data, written, signalled, receiver>>

\* Mutant: stop() does not wait for the send thread.
StopNotifyOnly ==
    /\ owner = "notifying"
    /\ signalled' = Notified
    /\ owner' = "idle"
    /\ UNCHANGED <<queue, accepted, caller, running, sender, data, written, receiver>>

StopNotify ==
    /\ owner = "notifying"
    /\ signalled' = Notified
    /\ owner' = "joiningSender"
    /\ UNCHANGED <<queue, accepted, caller, running, sender, data, written, receiver>>

StopJoinSender ==
    /\ owner = "joiningSender"
    /\ sender = "exited"
    /\ sender' = "none"
    /\ owner' = "joiningReceiver"
    /\ UNCHANGED <<queue, accepted, caller, running, data, written, signalled, receiver>>

StopJoinReceiver ==
    /\ owner = "joiningReceiver"
    /\ receiver = "exited"
    /\ receiver' = "none"
    /\ owner' = "idle"
    /\ UNCHANGED <<queue, accepted, caller, running, sender, data, written, signalled>>

-----------------------------------------------------------------------------

SenderRun ==
    \/ SenderLoop \/ SenderLock \/ SenderTest \/ SenderBlock \/ SenderPop
    \/ SenderWrite \/ SenderRelock \/ SenderDrained

Receiver == ReceiverSleep \/ ReceiverWake
StopRun == StopNotify \/ StopJoinSender \/ StopJoinReceiver

Next ==
    \/ \E t \in Caller : SendNotify(t) \/ \E f \in Frame : SendPush(t, f)
    \/ SenderRun \/ SenderWake \/ Receiver
    \/ Start \/ Stop \/ StopRun

Spec == Init /\ [][Next]_vars

\* Threads run, a notified wait ends, and what send and stop have begun goes on.
\* Nothing makes anyone call send or stop, and no wait ends spuriously.
Fairness ==
    /\ WF_vars(SenderRun)
    /\ WF_vars(signalled /\ SenderWake)
    /\ WF_vars(Receiver)
    /\ WF_vars(StopRun)
    /\ \A t \in Caller : WF_vars(SendNotify(t))

FairSpec == Spec /\ Fairness

-----------------------------------------------------------------------------
(* What the class promises.                                                *)

TypeOK ==
    /\ queue \in Seq(Frame)
    /\ accepted \subseteq Frame
    /\ caller \in [Caller -> {"idle", "notifying"}]
    /\ running \in BOOLEAN
    /\ sender \in Holding \cup {"none", "loop", "lock", "waiting", "write", "relock", "exited"}
    /\ data \in Frame \cup {None}
    /\ sender = "write" <=> data # None
    /\ written \in Seq(Frame)
    /\ signalled \in BOOLEAN
    /\ receiver \in {"none", "loop", "sleeping", "exited"}
    /\ owner \in {"idle", "notifying", "joiningSender", "joiningReceiver"}

Channel == INSTANCE FifoChannel
    WITH channel <- IF data = None THEN queue ELSE <<data>> \o queue

\* Frames are written in the order of the pushes, none twice and none lost, also
\* when stop() and start() come between.
ImplementsChannel == Channel!Spec

\* A frame accepted by a running communicator is written, whatever the send thread
\* was doing when it was pushed: no wakeup of send() is lost.
EveryFrameWritten ==
    \A f \in Frame : f \in accepted ~>
        ((\E i \in 1 .. Len(written) : written[i] = f) \/ ~ running)

\* After stop() has returned, and before start(), nothing more is written.
QuietWhenStopped ==
    [][owner = "idle" /\ ~ running => UNCHANGED <<written, data>>]_vars

\* Communicator.hpp:42-45: stop() "Stops the communication interface": it returns.
StopReturns == owner # "idle" ~> owner = "idle"
=============================================================================
