------------------------------ MODULE RocketLink ------------------------------
(***************************************************************************)
(* The facade, Core::RocketLink (src/src/RocketLink.{hpp,cpp}): its send   *)
(* and receive threads, the threads of its users, and the one that         *)
(* initializes and destroys it.                                            *)
(*                                                                         *)
(* The command manager is the queue of module CommandQueue, which module   *)
(* CommandManager implements, and its mutex_, which its worker holds from  *)
(* turn to turn of its loop and everybody else for the length of a call.   *)
(* sendMutex is taken by the send thread only, so it orders nothing;       *)
(* callbackMutex is a variable.  The data is left out: decodeTelemetry     *)
(* returns a blank record whatever has arrived, and encodeCommand an empty *)
(* packet whatever is to be sent.  The radio and the callbacks are         *)
(* external: a call of them succeeds or throws, an exception of the        *)
(* standard library or another one, and receivePacket may return false.    *)
(***************************************************************************)
EXTENDS Integers

CONSTANTS
    Command,        \* commands, each sent once
    Client,         \* threads that call sendCommand
    Callbacks,      \* objects that users register
    None,           \* a null pointer, a free mutex, no command
    Receiver,       \* receiveThread as the owner of callbackMutex
    RadioFails,     \* whether calls of the radio may throw
    GivesUp,        \* whether the manager's worker may give commands up
    MaxPackets      \* bound: packets received

ASSUME NoneAssumption == None \notin Command \cup Client \cup Callbacks \cup {Receiver}
ASSUME ReceiverAssumption == Receiver \notin Client
ASSUME RadioAssumption == RadioFails \in BOOLEAN /\ GivesUp \in BOOLEAN
ASSUME PacketsAssumption == MaxPackets \in Nat

VARIABLES
    status,         \* the command manager's queue
    running,        \* isRunning
    owner,          \* progress of initialize() and the destructor
    callbackMutex,  \* the thread that holds it
    managerBusy,    \* whether the manager's worker holds CommandManager::mutex_
    userCallbacks,
    caller,         \* progress of sendCommand in each client
    sender,         \* what sendThread is doing
    sending,        \* the command it has taken
    signalled,      \* a notification has reached it in its wait
    transmitted,    \* how often each command has been given to the radio
    receiver,       \* what receiveThread is doing
    invoked,        \* the object whose telemetry callback is running
    received,       \* packets received
    stored,         \* records added to telemetryBuffer
    counted,        \* packetsReceived of the diagnostics
    failed          \* auxiliary: packets whose callback threw

queueVars    == <<status>>
clientVars   == <<caller>>
senderVars   == <<sender, sending, transmitted>>
receiverVars == <<receiver, invoked, received, stored, counted, failed>>
ownerVars    == <<running, owner>>
vars == <<queueVars, clientVars, senderVars, receiverVars, ownerVars,
          callbackMutex, managerBusy, userCallbacks, signalled>>

Manager == INSTANCE CommandQueue WITH Entry <- Command

Queue == {c \in Command : status[c] = "queued"}

Init ==
    /\ Manager!Init
    /\ running = FALSE
    /\ owner = "new"
    /\ callbackMutex = None
    /\ managerBusy = FALSE
    /\ userCallbacks = None
    /\ caller = [t \in Client |-> "idle"]
    /\ sender = "none"
    /\ sending = None
    /\ signalled = FALSE
    /\ transmitted = [c \in Command |-> 0]
    /\ receiver = "none"
    /\ invoked = None
    /\ received = 0
    /\ stored = 0
    /\ counted = 0
    /\ failed = 0

\* Users call an object that is constructed and not being destroyed.
Alive == owner \in {"new", "spawningSender", "spawningReceiver", "up"}

-----------------------------------------------------------------------------
(* sendCommand and registerCallbacks                                       *)

\* A call has a command that was not sent before.
ClientLock(t) ==
    /\ Alive
    /\ \E c \in Command : status[c] = "new"
    /\ caller[t] = "idle"
    /\ callbackMutex = None
    /\ callbackMutex' = t
    /\ caller' = [caller EXCEPT ![t] = "locked"]
    /\ UNCHANGED <<queueVars, senderVars, receiverVars, ownerVars, managerBusy,
                   userCallbacks, signalled>>

\* Not running: false is returned.
ClientRefused(t) ==
    /\ caller[t] = "locked"
    /\ ~ running
    /\ callbackMutex' = None
    /\ caller' = [caller EXCEPT ![t] = "idle"]
    /\ UNCHANGED <<queueVars, senderVars, receiverVars, ownerVars, managerBusy,
                   userCallbacks, signalled>>

\* addCommand waits for the manager's mutex_, with callbackMutex held.
ClientAdd(t, c) ==
    /\ caller[t] = "locked"
    /\ running
    /\ ~ managerBusy
    /\ status[c] = "new"
    /\ Manager!Add(c)
    /\ caller' = [caller EXCEPT ![t] = "added"]
    /\ UNCHANGED <<senderVars, receiverVars, ownerVars, callbackMutex, managerBusy,
                   userCallbacks, signalled>>

\* notify_one, without sendMutex, reaches the send thread only in its wait.
ClientNotify(t) ==
    /\ caller[t] = "added"
    /\ signalled' = (signalled \/ sender = "waiting")
    /\ callbackMutex' = None
    /\ caller' = [caller EXCEPT ![t] = "idle"]
    /\ UNCHANGED <<queueVars, senderVars, receiverVars, ownerVars, managerBusy, userCallbacks>>

\* Mutant: registerCallbacks does not take the mutex.
RegisterAllowedAlways == TRUE

RegisterAllowed == callbackMutex = None

RegisterCallbacks(k) ==
    /\ Alive
    /\ RegisterAllowed
    /\ userCallbacks' = k
    /\ UNCHANGED <<queueVars, clientVars, senderVars, receiverVars, ownerVars,
                   callbackMutex, managerBusy, signalled>>

-----------------------------------------------------------------------------
(* The manager's worker                                                    *)

\* It lives from initialize() to the destruction of the manager.
ManagerStep ==
    /\ owner \notin {"new", "destroyed"}
    /\ UNCHANGED <<clientVars, senderVars, receiverVars, ownerVars, callbackMutex,
                   userCallbacks, signalled>>

ManagerLock ==
    /\ ~ managerBusy
    /\ managerBusy' = TRUE
    /\ ManagerStep
    /\ UNCHANGED queueVars

\* It waits, for a command or for the next timeout.
ManagerUnlock ==
    /\ managerBusy
    /\ managerBusy' = FALSE
    /\ ManagerStep
    /\ UNCHANGED queueVars

\* It gives a command up.
ManagerDrop(c) ==
    /\ GivesUp
    /\ managerBusy
    /\ Manager!Drop(c)
    /\ ManagerStep
    /\ UNCHANGED managerBusy

-----------------------------------------------------------------------------
(* sendLoop                                                                *)

SenderStep(from, to) ==
    /\ sender = from
    /\ sender' = to
    /\ UNCHANGED <<clientVars, receiverVars, ownerVars, callbackMutex, managerBusy,
                   userCallbacks>>

SenderLoop ==
    /\ SenderStep("loop", IF running THEN "test" ELSE "exited")
    /\ UNCHANGED <<queueVars, sending, transmitted, signalled>>

\* The two parts of the predicate are read one after the other; isRunning only
\* ever falls while the thread lives, so it still stood when the queue was read.
SenderTest ==
    /\ ~ managerBusy
    /\ SenderStep("test", IF Queue # {} \/ ~ running THEN "check" ELSE "blocking")
    /\ UNCHANGED <<queueVars, sending, transmitted, signalled>>

SenderBlock ==
    /\ SenderStep("blocking", "waiting")
    /\ signalled' = FALSE
    /\ UNCHANGED <<queueVars, sending, transmitted>>

\* Notified, or spuriously.
SenderWake ==
    /\ SenderStep("waiting", "test")
    /\ signalled' = FALSE
    /\ UNCHANGED <<queueVars, sending, transmitted>>

SenderCheck ==
    /\ SenderStep("check", IF running THEN "take" ELSE "exited")
    /\ UNCHANGED <<queueVars, sending, transmitted, signalled>>

\* Mutant: the command is handed out and stays in the queue.
TakenStays(c) == c \in Queue /\ UNCHANGED status

Taken(c) == Manager!Take(c)

SenderTake(c) ==
    /\ ~ managerBusy
    /\ SenderStep("take", "transmit")
    /\ Taken(c)
    /\ sending' = c
    /\ UNCHANGED <<transmitted, signalled>>

\* The worker may have given up the command that the predicate saw.
SenderTakeNothing ==
    /\ ~ managerBusy
    /\ Queue = {}
    /\ SenderStep("take", "loop")
    /\ UNCHANGED <<queueVars, sending, transmitted, signalled>>

SenderTransmit ==
    /\ SenderStep("transmit", "loop")
    /\ transmitted' = [transmitted EXCEPT ![sending] = @ + 1]
    /\ sending' = None
    /\ UNCHANGED <<queueVars, signalled>>

\* sendPacket throws a std::exception: the command is in neither the queue nor on
\* the air.
SenderTransmitFails ==
    /\ RadioFails
    /\ SenderStep("transmit", "error")
    /\ sending' = None
    /\ UNCHANGED <<queueVars, transmitted, signalled>>

\* handleEvent takes and releases callbackMutex.
SenderError ==
    /\ callbackMutex = None
    /\ SenderStep("error", "loop")
    /\ UNCHANGED <<queueVars, sending, transmitted, signalled>>

-----------------------------------------------------------------------------
(* receiveLoop                                                             *)

ReceiverStep(from, to) ==
    /\ receiver = from
    /\ receiver' = to
    /\ UNCHANGED <<queueVars, clientVars, senderVars, ownerVars, managerBusy, userCallbacks,
                   signalled>>

\* Mutant: the loop does not look at isRunning.
KeepsReceivingAlways == TRUE

KeepsReceiving == running

ReceiverLoop ==
    /\ ReceiverStep("loop", IF KeepsReceiving THEN "receive" ELSE "exited")
    /\ UNCHANGED <<callbackMutex, invoked, received, stored, counted, failed>>

ReceiverPacket ==
    /\ received < MaxPackets
    /\ ReceiverStep("receive", "store")
    /\ received' = received + 1
    /\ UNCHANGED <<callbackMutex, invoked, stored, counted, failed>>

ReceiverNothing ==
    /\ ReceiverStep("receive", "loop")
    /\ UNCHANGED <<callbackMutex, invoked, received, stored, counted, failed>>

\* receivePacket throws a std::exception.
ReceiverFails ==
    /\ RadioFails
    /\ ReceiverStep("receive", "error")
    /\ UNCHANGED <<callbackMutex, invoked, received, stored, counted, failed>>

ReceiverStore ==
    /\ ReceiverStep("store", "lock")
    /\ stored' = stored + 1
    /\ UNCHANGED <<callbackMutex, invoked, received, counted, failed>>

ReceiverInvoke ==
    /\ callbackMutex = None
    /\ userCallbacks # None
    /\ ReceiverStep("lock", "callback")
    /\ callbackMutex' = Receiver
    /\ invoked' = userCallbacks
    /\ UNCHANGED <<received, stored, counted, failed>>

ReceiverNoCallbacks ==
    /\ callbackMutex = None
    /\ userCallbacks = None
    /\ ReceiverStep("lock", "count")
    /\ UNCHANGED <<callbackMutex, invoked, received, stored, counted, failed>>

CallbackReturns ==
    /\ ReceiverStep("callback", "count")
    /\ callbackMutex' = None
    /\ invoked' = None
    /\ UNCHANGED <<received, stored, counted, failed>>

\* Mutant: an exception of the callback leaves the mutex locked.
UnwoundLocked == callbackMutex

Unwound == None

\* The callback throws a std::exception: the handler catches no other.
CallbackThrows ==
    /\ ReceiverStep("callback", "error")
    /\ callbackMutex' = Unwound
    /\ invoked' = None
    /\ failed' = failed + 1
    /\ UNCHANGED <<received, stored, counted>>

\* Mutant: packets are not counted.
CountedNot == counted

\* Mutant: packets are counted where they are received and once more after the callback.
CountedTwice == counted + 2

Counted == counted + 1

ReceiverCount ==
    /\ ReceiverStep("count", "loop")
    /\ counted' = Counted
    /\ UNCHANGED <<callbackMutex, invoked, received, stored, failed>>

ReceiverError ==
    /\ callbackMutex = None
    /\ ReceiverStep("error", "loop")
    /\ UNCHANGED <<callbackMutex, invoked, received, stored, counted, failed>>

-----------------------------------------------------------------------------
(* initialize and the destructor, and the end of the program               *)

OwnerStep(from, to) ==
    /\ owner = from
    /\ owner' = to
    /\ UNCHANGED <<queueVars, clientVars, callbackMutex, managerBusy, userCallbacks, sending,
                   transmitted, invoked, received, stored, counted, failed>>

\* A radio that throws makes initialize() return false, with nothing changed.
Initialize ==
    /\ OwnerStep("new", "spawningSender")
    /\ running' = TRUE
    /\ UNCHANGED <<sender, receiver, signalled>>

SpawnSender ==
    /\ OwnerStep("spawningSender", "spawningReceiver")
    /\ sender' = "loop"
    /\ UNCHANGED <<running, receiver, signalled>>

SpawnReceiver ==
    /\ OwnerStep("spawningReceiver", "up")
    /\ receiver' = "loop"
    /\ UNCHANGED <<running, sender, signalled>>

\* initialize() once more assigns to a joinable thread: std::terminate.
InitializeAgain ==
    /\ OwnerStep("up", "terminated")
    /\ UNCHANGED <<running, sender, receiver, signalled>>

\* An exception that is not a std::exception leaves the function of a thread, where
\* nothing catches it: std::terminate.  It comes from a callback or from the radio.
Uncaught ==
    /\ \/ receiver = "callback"
       \/ RadioFails /\ (receiver = "receive" \/ sender = "transmit")
    /\ owner' = "terminated"
    /\ UNCHANGED <<queueVars, clientVars, senderVars, receiverVars, running, callbackMutex,
                   managerBusy, userCallbacks, signalled>>

\* The destructor, called when no other thread is inside the object.
Destroy ==
    /\ \A t \in Client : caller[t] = "idle"
    /\ OwnerStep("up", "notifying")
    /\ running' = FALSE
    /\ UNCHANGED <<sender, receiver, signalled>>

\* Never initialized: there is nothing to join.
DestroyUnstarted ==
    /\ \A t \in Client : caller[t] = "idle"
    /\ OwnerStep("new", "destroyed")
    /\ UNCHANGED <<running, sender, receiver, signalled>>

DestroyNotify ==
    /\ OwnerStep("notifying", "joiningSender")
    /\ signalled' = (signalled \/ sender = "waiting")
    /\ UNCHANGED <<running, sender, receiver>>

JoinSender ==
    /\ sender = "exited"
    /\ OwnerStep("joiningSender", "joiningReceiver")
    /\ UNCHANGED <<running, sender, receiver, signalled>>

\* Mutant: the receive thread is detached.
JoinableNever == TRUE

ReceiverJoinable == receiver = "exited"

JoinReceiver ==
    /\ ReceiverJoinable
    /\ OwnerStep("joiningReceiver", "destroyed")
    /\ UNCHANGED <<running, sender, receiver, signalled>>

-----------------------------------------------------------------------------

ClientCall(t) ==
    \/ ClientRefused(t) \/ ClientNotify(t)
    \/ \E c \in Command : ClientAdd(t, c)

SenderRun ==
    \/ SenderLoop \/ SenderTest \/ SenderBlock \/ SenderCheck
    \/ (\E c \in Command : SenderTake(c)) \/ SenderTakeNothing
    \/ SenderTransmit \/ SenderTransmitFails \/ SenderError

ReceiverRun ==
    \/ ReceiverLoop \/ ReceiverPacket \/ ReceiverNothing \/ ReceiverFails
    \/ ReceiverStore \/ ReceiverInvoke \/ ReceiverNoCallbacks
    \/ CallbackReturns \/ CallbackThrows \/ ReceiverCount \/ ReceiverError

OwnerRun ==
    \/ SpawnSender \/ SpawnReceiver
    \/ DestroyNotify \/ JoinSender \/ JoinReceiver

\* Nothing happens after std::terminate.
Running == owner # "terminated"

Halted == owner \in {"terminated", "destroyed"} /\ UNCHANGED vars

Next ==
    \/ /\ Running
       /\ \/ \E t \in Client : ClientLock(t) \/ ClientCall(t)
          \/ \E k \in Callbacks \cup {None} : RegisterCallbacks(k)
          \/ ManagerLock \/ ManagerUnlock
          \/ \E c \in Command : ManagerDrop(c)
          \/ SenderRun \/ SenderWake \/ ReceiverRun \/ Uncaught
          \/ Initialize \/ InitializeAgain \/ Destroy \/ DestroyUnstarted \/ OwnerRun
    \/ Halted

Spec == Init /\ [][Next]_vars

\* The threads run, callbacks return, a notified wait ends, a call in progress goes
\* on.  The manager's worker gives mutex_ up, whatever is queued (LockReleased of
\* CommandManager), and then sleeps until a timeout or a notification, so that
\* whoever waits for mutex_ gets it at last.  Nothing makes users call, no wait ends
\* spuriously, and no command need ever be given up.
Fairness ==
    /\ WF_vars(Running /\ ManagerUnlock)
    /\ SF_vars(Running /\ SenderRun)
    /\ WF_vars(Running /\ signalled /\ SenderWake)
    /\ WF_vars(Running /\ ReceiverRun)
    /\ WF_vars(Running /\ OwnerRun)
    /\ \A t \in Client : SF_vars(Running /\ ClientCall(t))

FairSpec == Spec /\ Fairness

-----------------------------------------------------------------------------

TypeOK ==
    /\ status \in [Command -> {"new", "queued", "taken", "dropped"}]
    /\ running \in BOOLEAN
    /\ owner \in {"new", "spawningSender", "spawningReceiver", "up", "notifying",
                  "joiningSender", "joiningReceiver", "destroyed", "terminated"}
    /\ callbackMutex \in Client \cup {Receiver, None}
    /\ managerBusy \in BOOLEAN
    /\ userCallbacks \in Callbacks \cup {None}
    /\ caller \in [Client -> {"idle", "locked", "added"}]
    /\ sender \in {"none", "loop", "test", "blocking", "waiting", "check", "take",
                   "transmit", "error", "exited"}
    /\ sending \in Command \cup {None}
    /\ sender = "transmit" <=> sending # None
    /\ signalled \in BOOLEAN
    /\ transmitted \in [Command -> Nat]
    /\ receiver \in {"none", "loop", "receive", "store", "lock", "callback", "count",
                     "error", "exited"}
    /\ invoked \in Callbacks \cup {None}
    /\ {received, stored, counted, failed} \subseteq 0 .. MaxPackets

\* A command reaches the radio at most once through the send loop, although its
\* wait looks at the queue before it takes from it and clients and the manager's
\* worker change the queue in between.
TransmittedOnce == \A c \in Command : transmitted[c] <= 1

\* A callback runs on the registered object: once registerCallbacks has returned,
\* the object that was registered before is not used again and may be destroyed.
RetiredNotInvoked == invoked # None => invoked = userCallbacks

\* The destructor leaves neither loop behind to use what it destroys: sendThread
\* and receiveThread have ended when its body returns.  (The threads of the manager,
\* the protocol and the communicator are left to their own destructors.)
NothingAfterDestruction ==
    owner = "destroyed" => {sender, receiver} \subseteq {"none", "exited"}

\* Each packet received is stored, and when the next one is asked for it has been
\* counted by the diagnostics, unless its callback threw.
PacketsAccounted ==
    receiver \in {"loop", "receive"} => stored = received /\ counted + failed = received

\* Whoever holds callbackMutex releases it: a client although addCommand makes it
\* wait for the manager's worker, the receive thread also when the callback throws a
\* std::exception.  Nobody is kept from sendCommand, registerCallbacks or the handling
\* of an error for ever.
MutexReleased ==
    \A t \in Client \cup {Receiver} : callbackMutex = t ~> (callbackMutex # t \/ ~ Running)

\* The destructor does not wait for ever for the receive thread, wherever in its
\* loop, in a callback or in the handling of an error, isRunning was cleared.  The
\* radio's receivePacket is taken to return (see RadioDriver for when it does not).
ReceiverJoined == owner = "joiningReceiver" ~> (owner = "destroyed" \/ ~ Running)

\* RocketLink.hpp: sendCommand "queues a command for transmission to the rocket":
\* with a radio that works, and before the manager would give it up, a running send
\* loop transmits what was accepted.
AcceptedIsTransmitted ==
    \A c \in Command : status[c] = "queued" ~> (transmitted[c] > 0 \/ ~ running \/ ~ Running)
=============================================================================
