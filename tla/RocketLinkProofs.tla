--------------------------- MODULE RocketLinkProofs ---------------------------
(***************************************************************************)
(* Safety of RocketLink for every set of commands, clients and callbacks   *)
(* objects, any number of packets, and every behaviour of the radio.       *)
(***************************************************************************)
EXTENDS RocketLink, TLAPS

\* Each position in the code that holds callbackMutex, and no other, owns it; the
\* receive thread holds it while it runs a callback of the registered object, and of
\* its holders only a client about to call addCommand still wants the manager's mutex_.
MutexOwned ==
    /\ \A t \in Client : caller[t] \in {"locked", "added"} <=> callbackMutex = t
    /\ receiver = "callback" <=> callbackMutex = Receiver
    /\ invoked # None => receiver = "callback" /\ invoked = userCallbacks

\* What has been counted of the packet in hand, at each position of receiveLoop.
PacketsInHand ==
    /\ received \in Nat /\ stored \in Nat /\ counted \in Nat /\ failed \in Nat
    /\ received <= MaxPackets
    /\ stored = IF receiver = "store" THEN received - 1 ELSE received
    /\ counted + failed = IF receiver \in {"store", "lock", "callback", "count"}
                          THEN received - 1 ELSE received

\* A command that was transmitted, or is about to be, has left the queue.
OnTheWay ==
    \A c \in Command :
        /\ transmitted[c] > 0 => status[c] = "taken"
        /\ sending = c => status[c] = "taken" /\ transmitted[c] = 0

\* Threads are made in order and joined in order.
ThreadsOwned ==
    /\ owner \in {"new", "spawningSender"} => sender = "none"
    /\ owner \in {"new", "spawningSender", "spawningReceiver"} => receiver = "none"
    /\ owner = "joiningReceiver" => sender = "exited"

Inv ==
    /\ TypeOK
    /\ MutexOwned
    /\ PacketsInHand
    /\ OnTheWay
    /\ TransmittedOnce
    /\ ThreadsOwned
    /\ NothingAfterDestruction

-----------------------------------------------------------------------------
(* The steps of each thread.                                               *)

ClientNext ==
    \/ \E t \in Client : ClientLock(t) \/ ClientCall(t)
    \/ \E k \in Callbacks \cup {None} : RegisterCallbacks(k)

ManagerNext == ManagerLock \/ ManagerUnlock \/ \E c \in Command : ManagerDrop(c)

OwnerNext ==
    Initialize \/ InitializeAgain \/ Destroy \/ DestroyUnstarted \/ OwnerRun

LEMMA Steps ==
    ASSUME [Next]_vars
    PROVE  \/ ClientNext
           \/ ManagerNext
           \/ SenderRun \/ SenderWake
           \/ ReceiverRun \/ Uncaught
           \/ OwnerNext
           \/ UNCHANGED vars
  BY DEF Next, Halted, ClientNext, ManagerNext, OwnerNext

\* A command moves in the queue from one place to another, and no other does.
LEMMA Moves ==
    ASSUME TypeOK, NEW c \in Command, NEW to \in {"queued", "taken", "dropped"},
           Manager!Move(c, to)
    PROVE  /\ status' \in [Command -> {"new", "queued", "taken", "dropped"}]
           /\ status'[c] = to
           /\ \A d \in Command : d # c => status'[d] = status[d]
  BY DEF TypeOK, Manager!Move

LEMMA MutexInit == Init => MutexOwned
  BY NoneAssumption DEF Init, MutexOwned

LEMMA MutexNext == TypeOK /\ ThreadsOwned /\ MutexOwned /\ [Next]_vars => MutexOwned'
  <1> SUFFICES ASSUME TypeOK, ThreadsOwned, MutexOwned, [Next]_vars PROVE MutexOwned'
    OBVIOUS
  <1> USE NoneAssumption, ReceiverAssumption
          DEF TypeOK, MutexOwned, queueVars, clientVars, senderVars, receiverVars, ownerVars
  <1>1. ASSUME NEW t \in Client, ClientLock(t) \/ ClientCall(t) PROVE MutexOwned'
    <2>1. CASE ClientLock(t)
      BY <2>1 DEF ClientLock
    <2>2. CASE ClientRefused(t)
      BY <2>2 DEF ClientRefused
    <2>3. CASE ClientNotify(t)
      BY <2>3 DEF ClientNotify
    <2>4. ASSUME NEW c \in Command, ClientAdd(t, c) PROVE MutexOwned'
      BY <2>4 DEF ClientAdd
    <2> QED BY <1>1, <2>1, <2>2, <2>3, <2>4 DEF ClientCall
  <1>2. ASSUME NEW k \in Callbacks \cup {None}, RegisterCallbacks(k) PROVE MutexOwned'
    BY <1>2 DEF RegisterCallbacks, RegisterAllowed
  <1>3. CASE ManagerNext
    BY <1>3 DEF ManagerNext, ManagerLock, ManagerUnlock, ManagerDrop, ManagerStep
  <1>4. CASE SenderRun \/ SenderWake
    BY <1>4 DEF SenderRun, SenderWake, SenderLoop, SenderTest, SenderBlock, SenderCheck,
                SenderTake, SenderTakeNothing, SenderTransmit, SenderTransmitFails,
                SenderError, SenderStep
  <1>5. CASE ReceiverRun
    <2> USE DEF ReceiverStep
    <2>1. CASE ReceiverInvoke
      BY <2>1 DEF ReceiverInvoke
    <2>2. CASE CallbackReturns
      BY <2>2 DEF CallbackReturns
    <2>3. CASE CallbackThrows
      BY <2>3 DEF CallbackThrows, Unwound
    <2>4. CASE ReceiverLoop \/ ReceiverPacket \/ ReceiverNothing \/ ReceiverFails
      BY <2>4 DEF ReceiverLoop, ReceiverPacket, ReceiverNothing, ReceiverFails
    <2>5. CASE ReceiverStore \/ ReceiverNoCallbacks \/ ReceiverCount \/ ReceiverError
      BY <2>5 DEF ReceiverStore, ReceiverNoCallbacks, ReceiverCount, ReceiverError
    <2> HIDE DEF TypeOK, MutexOwned
    <2> QED BY <1>5, <2>1, <2>2, <2>3, <2>4, <2>5 DEF ReceiverRun
  <1>6. CASE OwnerNext
    BY <1>6 DEF OwnerNext, OwnerRun, Initialize, InitializeAgain, Destroy, DestroyUnstarted,
                SpawnSender, SpawnReceiver, DestroyNotify, JoinSender, JoinReceiver, OwnerStep,
                ThreadsOwned
  <1>7. CASE Uncaught \/ UNCHANGED vars
    BY <1>7 DEF Uncaught, vars
  <1> QED BY <1>1, <1>2, <1>3, <1>4, <1>5, <1>6, <1>7, Steps DEF ClientNext

LEMMA PacketsInit == Init => PacketsInHand
  BY PacketsAssumption DEF Init, PacketsInHand

LEMMA PacketsNext == ThreadsOwned /\ PacketsInHand /\ [Next]_vars => PacketsInHand'
  <1> SUFFICES ASSUME ThreadsOwned, PacketsInHand, [Next]_vars PROVE PacketsInHand'
    OBVIOUS
  <1> USE PacketsAssumption DEF PacketsInHand, receiverVars
  <1>1. CASE ClientNext
    BY <1>1 DEF ClientNext, ClientLock, ClientCall, ClientRefused, ClientNotify, ClientAdd,
                RegisterCallbacks
  <1>2. CASE ManagerNext
    BY <1>2 DEF ManagerNext, ManagerLock, ManagerUnlock, ManagerDrop, ManagerStep
  <1>3. CASE SenderRun \/ SenderWake
    BY <1>3 DEF SenderRun, SenderWake, SenderLoop, SenderTest, SenderBlock, SenderCheck,
                SenderTake, SenderTakeNothing, SenderTransmit, SenderTransmitFails,
                SenderError, SenderStep
  <1>4. CASE ReceiverRun
    <2> USE DEF ReceiverStep
    <2>1. CASE ReceiverLoop \/ ReceiverNothing \/ ReceiverFails \/ ReceiverError
      BY <2>1 DEF ReceiverLoop, ReceiverNothing, ReceiverFails, ReceiverError
    <2>2. CASE ReceiverPacket
      BY <2>2 DEF ReceiverPacket
    <2>3. CASE ReceiverStore
      BY <2>3 DEF ReceiverStore
    <2>4. CASE ReceiverInvoke \/ ReceiverNoCallbacks \/ CallbackReturns
      BY <2>4 DEF ReceiverInvoke, ReceiverNoCallbacks, CallbackReturns
    <2>5. CASE CallbackThrows
      BY <2>5 DEF CallbackThrows
    <2>6. CASE ReceiverCount
      BY <2>6 DEF ReceiverCount, Counted
    <2> HIDE DEF PacketsInHand
    <2> QED BY <1>4, <2>1, <2>2, <2>3, <2>4, <2>5, <2>6 DEF ReceiverRun
  <1>5. CASE OwnerNext
    <2>1. CASE SpawnReceiver
      BY <2>1 DEF SpawnReceiver, OwnerStep, ThreadsOwned
    <2>2. CASE ~ SpawnReceiver
      BY <1>5, <2>2 DEF OwnerNext, OwnerRun, Initialize, InitializeAgain, Destroy,
                DestroyUnstarted, SpawnSender, DestroyNotify, JoinSender, JoinReceiver, OwnerStep
    <2> QED BY <2>1, <2>2
  <1>6. CASE Uncaught \/ UNCHANGED vars
    BY <1>6 DEF Uncaught, vars
  <1> QED BY <1>1, <1>2, <1>3, <1>4, <1>5, <1>6, Steps

LEMMA WayInit == Init => OnTheWay /\ TransmittedOnce
  BY NoneAssumption DEF Init, OnTheWay, TransmittedOnce

LEMMA WayNext ==
    TypeOK /\ OnTheWay /\ TransmittedOnce /\ [Next]_vars => OnTheWay' /\ TransmittedOnce'
  <1> SUFFICES ASSUME TypeOK, OnTheWay, TransmittedOnce, [Next]_vars
               PROVE  OnTheWay' /\ TransmittedOnce'
    OBVIOUS
  <1> USE NoneAssumption DEF OnTheWay, TransmittedOnce
  <1>1. ASSUME NEW c \in Command, status[c] # "taken", NEW to \in {"queued", "dropped"},
               Manager!Move(c, to), UNCHANGED <<transmitted, sending>>
        PROVE  OnTheWay' /\ TransmittedOnce'
    BY <1>1, Moves DEF TypeOK
  <1>2. ASSUME NEW c \in Command, SenderTake(c) PROVE OnTheWay' /\ TransmittedOnce'
    BY <1>2, Moves DEF SenderTake, Taken, Manager!Take, SenderStep, TypeOK
  <1>3. CASE SenderTransmit
    <2>1. sending \in Command /\ status' = status /\ sending' = None
      BY <1>3 DEF SenderTransmit, SenderStep, TypeOK, queueVars
    <2>2. /\ transmitted'[sending] = 1
          /\ \A c \in Command : c # sending => transmitted'[c] = transmitted[c]
      BY <1>3, <2>1 DEF SenderTransmit, TypeOK
    <2> QED BY <2>1, <2>2 DEF TypeOK
  <1>4. CASE SenderTransmitFails
    BY <1>4 DEF SenderTransmitFails, SenderStep, queueVars, TypeOK
  <1>5. CASE UNCHANGED <<status, transmitted, sending>>
    BY <1>5
  <1> HIDE DEF OnTheWay, TransmittedOnce
  <1>6. CASE ClientNext
    <2>1. ASSUME NEW t \in Client, NEW c \in Command, ClientAdd(t, c)
          PROVE  OnTheWay' /\ TransmittedOnce'
      BY <1>1, <2>1 DEF ClientAdd, Manager!Add, senderVars
    <2>2. ASSUME NEW t \in Client, ClientLock(t) \/ ClientRefused(t) \/ ClientNotify(t)
          PROVE  OnTheWay' /\ TransmittedOnce'
      BY <1>5, <2>2 DEF ClientLock, ClientRefused, ClientNotify, queueVars, senderVars
    <2>3. ASSUME NEW k \in Callbacks \cup {None}, RegisterCallbacks(k)
          PROVE  OnTheWay' /\ TransmittedOnce'
      BY <1>5, <2>3 DEF RegisterCallbacks, queueVars, senderVars
    <2> QED BY <1>6, <2>1, <2>2, <2>3 DEF ClientNext, ClientCall
  <1>7. CASE ManagerNext
    <2>1. ASSUME NEW c \in Command, ManagerDrop(c) PROVE OnTheWay' /\ TransmittedOnce'
      BY <1>1, <2>1 DEF ManagerDrop, ManagerStep, Manager!Drop, senderVars
    <2>2. CASE ManagerLock \/ ManagerUnlock
      BY <1>5, <2>2 DEF ManagerLock, ManagerUnlock, ManagerStep, queueVars, senderVars
    <2> QED BY <1>7, <2>1, <2>2 DEF ManagerNext
  <1>8. CASE SenderRun \/ SenderWake
    <2>1. CASE SenderLoop \/ SenderTest \/ SenderBlock \/ SenderCheck \/ SenderTakeNothing
               \/ SenderError \/ SenderWake
      BY <1>5, <2>1 DEF SenderLoop, SenderTest, SenderBlock, SenderCheck, SenderTakeNothing,
                        SenderError, SenderWake, queueVars
    <2> QED BY <1>2, <1>3, <1>4, <1>8, <2>1 DEF SenderRun
  <1>9. CASE ReceiverRun
    BY <1>5, <1>9 DEF ReceiverRun, ReceiverLoop, ReceiverPacket, ReceiverNothing, ReceiverFails,
                ReceiverStore, ReceiverInvoke, ReceiverNoCallbacks, CallbackReturns,
                CallbackThrows, ReceiverCount, ReceiverError, ReceiverStep, queueVars, senderVars
  <1>10. CASE OwnerNext
    BY <1>5, <1>10 DEF OwnerNext, OwnerRun, Initialize, InitializeAgain, Destroy,
                DestroyUnstarted, SpawnSender, SpawnReceiver, DestroyNotify, JoinSender,
                JoinReceiver, OwnerStep, queueVars
  <1>11. CASE Uncaught \/ UNCHANGED vars
    BY <1>5, <1>11 DEF Uncaught, vars, queueVars, senderVars
  <1> QED BY <1>6, <1>7, <1>8, <1>9, <1>10, <1>11, Steps

\* Which thread is at which position, as far as the join of the threads goes.
LEMMA ThreadsInit == Init => ThreadsOwned /\ NothingAfterDestruction
  BY DEF Init, ThreadsOwned, NothingAfterDestruction

LEMMA ThreadsNext ==
    ThreadsOwned /\ NothingAfterDestruction /\ [Next]_vars
        => ThreadsOwned' /\ NothingAfterDestruction'
  <1> SUFFICES ASSUME ThreadsOwned, NothingAfterDestruction, [Next]_vars
               PROVE  ThreadsOwned' /\ NothingAfterDestruction'
    OBVIOUS
  <1> USE DEF ThreadsOwned, NothingAfterDestruction, ownerVars, senderVars, receiverVars
  <1>1. CASE ClientNext
    BY <1>1 DEF ClientNext, ClientLock, ClientCall, ClientRefused, ClientNotify, ClientAdd,
                RegisterCallbacks
  <1>2. CASE ManagerNext
    BY <1>2 DEF ManagerNext, ManagerLock, ManagerUnlock, ManagerDrop, ManagerStep
  <1>3. CASE SenderRun \/ SenderWake
    BY <1>3 DEF SenderRun, SenderWake, SenderLoop, SenderTest, SenderBlock, SenderCheck,
                SenderTake, SenderTakeNothing, SenderTransmit, SenderTransmitFails,
                SenderError, SenderStep
  <1>4. CASE ReceiverRun
    BY <1>4 DEF ReceiverRun, ReceiverLoop, ReceiverPacket, ReceiverNothing, ReceiverFails,
                ReceiverStore, ReceiverInvoke, ReceiverNoCallbacks, CallbackReturns,
                CallbackThrows, ReceiverCount, ReceiverError, ReceiverStep
  <1>5. CASE OwnerNext
    BY <1>5 DEF OwnerNext, OwnerRun, Initialize, InitializeAgain, Destroy, DestroyUnstarted,
                SpawnSender, SpawnReceiver, DestroyNotify, JoinSender, JoinReceiver,
                ReceiverJoinable, OwnerStep
  <1>6. CASE Uncaught \/ UNCHANGED vars
    BY <1>6 DEF Uncaught, vars
  <1> QED BY <1>1, <1>2, <1>3, <1>4, <1>5, <1>6, Steps

-----------------------------------------------------------------------------

LEMMA CountersInRange ==
    ASSUME PacketsInHand
    PROVE  {received, stored, counted, failed} \subseteq 0 .. MaxPackets
  <1>1. /\ received \in 0 .. MaxPackets /\ stored \in 0 .. MaxPackets
        /\ counted \in 0 .. MaxPackets /\ failed \in 0 .. MaxPackets
    BY PacketsAssumption DEF PacketsInHand
  <1> QED BY <1>1, Zenon

LEMMA TypeInit == Init => TypeOK
  <1> SUFFICES ASSUME Init PROVE TypeOK
    OBVIOUS
  <1>1. {received, stored, counted, failed} \subseteq 0 .. MaxPackets
    BY CountersInRange, PacketsInit
  <1> QED BY <1>1, NoneAssumption DEF Init, TypeOK, Manager!Init

LEMMA TypeNext == TypeOK /\ ThreadsOwned /\ PacketsInHand' /\ [Next]_vars => TypeOK'
  <1> SUFFICES ASSUME TypeOK, ThreadsOwned, PacketsInHand', [Next]_vars PROVE TypeOK'
    OBVIOUS
  <1>1. ({received, stored, counted, failed} \subseteq 0 .. MaxPackets)'
    BY CountersInRange, PTL
  <1> USE <1>1, NoneAssumption
          DEF TypeOK, queueVars, clientVars, senderVars, receiverVars, ownerVars
  <1>2. ASSUME NEW t \in Client, ClientLock(t) \/ ClientCall(t) PROVE TypeOK'
    <2>1. CASE ClientLock(t)
      BY <2>1 DEF ClientLock
    <2>3. CASE ClientRefused(t)
      BY <2>3 DEF ClientRefused
    <2>4. CASE ClientNotify(t)
      BY <2>4 DEF ClientNotify
    <2>2. ASSUME NEW c \in Command, ClientAdd(t, c) PROVE TypeOK'
      BY <2>2, Moves DEF ClientAdd, Manager!Add
    <2> QED BY <1>2, <2>1, <2>2, <2>3, <2>4 DEF ClientCall
  <1>3. ASSUME NEW k \in Callbacks \cup {None}, RegisterCallbacks(k) PROVE TypeOK'
    BY <1>3 DEF RegisterCallbacks
  <1>4. CASE ManagerNext
    <2>1. ASSUME NEW c \in Command, ManagerDrop(c) PROVE TypeOK'
      BY <2>1, Moves DEF ManagerDrop, ManagerStep, Manager!Drop
    <2>2. CASE ManagerLock
      BY <2>2 DEF ManagerLock, ManagerStep
    <2>3. CASE ManagerUnlock
      <3>1. managerBusy' \in BOOLEAN
        BY <2>3, Zenon DEF ManagerUnlock
      <3> QED BY <2>3, <3>1 DEF ManagerUnlock, ManagerStep
    <2> HIDE DEF TypeOK
    <2> QED BY <1>4, <2>1, <2>2, <2>3 DEF ManagerNext
  <1>5. CASE SenderRun \/ SenderWake
    <2> USE DEF SenderStep
    <2>1. ASSUME NEW c \in Command, SenderTake(c) PROVE TypeOK'
      BY <2>1, Moves DEF SenderTake, Taken, Manager!Take
    <2>2. CASE SenderTransmit
      BY <2>2 DEF SenderTransmit
    <2>3. CASE SenderTransmitFails
      BY <2>3 DEF SenderTransmitFails
    <2>4. CASE SenderTakeNothing
      BY <2>4 DEF SenderTakeNothing
    <2>5. CASE SenderError
      BY <2>5 DEF SenderError
    <2>6. CASE SenderWake
      <3>1. signalled' \in BOOLEAN
        BY <2>6, Zenon DEF SenderWake
      <3> QED BY <2>6, <3>1 DEF SenderWake, SenderStep
    <2>7. CASE SenderLoop
      BY <2>7 DEF SenderLoop
    <2>8. CASE SenderTest
      BY <2>8 DEF SenderTest
    <2>9. CASE SenderBlock
      <3>1. signalled' \in BOOLEAN
        BY <2>9, Zenon DEF SenderBlock
      <3> QED BY <2>9, <3>1 DEF SenderBlock, SenderStep
    <2>10. CASE SenderCheck
      BY <2>10 DEF SenderCheck
    <2> HIDE DEF TypeOK
    <2> QED BY <1>5, <2>1, <2>2, <2>3, <2>4, <2>5, <2>6, <2>7, <2>8, <2>9, <2>10 DEF SenderRun
  <1>6. CASE ReceiverRun
    <2> USE DEF ReceiverStep
    <2>1. CASE ReceiverLoop \/ ReceiverPacket \/ ReceiverNothing \/ ReceiverFails
      BY <2>1 DEF ReceiverLoop, ReceiverPacket, ReceiverNothing, ReceiverFails
    <2>2. CASE ReceiverStore \/ ReceiverNoCallbacks \/ ReceiverCount \/ ReceiverError
      BY <2>2 DEF ReceiverStore, ReceiverNoCallbacks, ReceiverCount, ReceiverError
    <2>3. CASE ReceiverInvoke \/ CallbackReturns \/ CallbackThrows
      BY <2>3 DEF ReceiverInvoke, CallbackReturns, CallbackThrows, Unwound
    <2> HIDE DEF TypeOK
    <2> QED BY <1>6, <2>1, <2>2, <2>3 DEF ReceiverRun
  <1>7. CASE OwnerNext
    <2> USE DEF OwnerStep
    <2>1. CASE Initialize
      BY <2>1 DEF Initialize
    <2>2. CASE InitializeAgain
      BY <2>2 DEF InitializeAgain
    <2>3. CASE Destroy
      <3>1. running' \in BOOLEAN
        BY <2>3, Zenon DEF Destroy
      <3> QED BY <2>3, <3>1 DEF Destroy, OwnerStep
    <2>4. CASE DestroyUnstarted
      BY <2>4 DEF DestroyUnstarted
    <2>5. CASE SpawnSender
      BY <2>5 DEF SpawnSender, ThreadsOwned
    <2>6. CASE SpawnReceiver
      BY <2>6 DEF SpawnReceiver
    <2>7. CASE DestroyNotify
      BY <2>7 DEF DestroyNotify
    <2>8. CASE JoinSender
      BY <2>8 DEF JoinSender
    <2>9. CASE JoinReceiver
      BY <2>9 DEF JoinReceiver
    <2> HIDE DEF TypeOK
    <2> QED BY <1>7, <2>1, <2>2, <2>3, <2>4, <2>5, <2>6, <2>7, <2>8, <2>9 DEF OwnerNext, OwnerRun
  <1>8. CASE Uncaught \/ UNCHANGED vars
    BY <1>8 DEF Uncaught, vars
  <1> QED BY <1>2, <1>3, <1>4, <1>5, <1>6, <1>7, <1>8, Steps DEF ClientNext

LEMMA Inductive == Spec => []Inv
  <1>1. Init => Inv
    BY TypeInit, MutexInit, PacketsInit, WayInit, ThreadsInit DEF Inv
  <1>2. Inv /\ [Next]_vars => Inv'
    BY TypeNext, MutexNext, PacketsNext, WayNext, ThreadsNext DEF Inv
  <1> QED BY <1>1, <1>2, PTL DEF Spec

\* Every variable keeps its type; a command is in hand exactly while it is sent.
THEOREM TypeCorrect == Spec => []TypeOK
  <1>1. Inv => TypeOK
    BY DEF Inv
  <1> QED BY <1>1, Inductive, PTL

\* sendLoop gives no command to the radio twice.
THEOREM NeverTwice == Spec => []TransmittedOnce
  <1>1. Inv => TransmittedOnce
    BY DEF Inv
  <1> QED BY <1>1, Inductive, PTL

\* receiveLoop runs callbacks of the registered object only: registerCallbacks
\* waits for the one that is running.
THEOREM OnlyRegisteredInvoked == Spec => []RetiredNotInvoked
  <1>1. Inv => RetiredNotInvoked
    BY DEF Inv, MutexOwned, RetiredNotInvoked
  <1> QED BY <1>1, Inductive, PTL

\* The body of the destructor returns after sendThread and receiveThread have ended,
\* the two it joins; those of the manager, the protocol and the communicator are not its.
THEOREM LoopsJoined == Spec => []NothingAfterDestruction
  <1>1. Inv => NothingAfterDestruction
    BY DEF Inv
  <1> QED BY <1>1, Inductive, PTL

\* Packets are stored and, unless a callback throws, counted, one by one.
THEOREM PacketsCounted == Spec => []PacketsAccounted
  <1>1. Inv => PacketsAccounted
    BY DEF Inv, PacketsInHand, PacketsAccounted
  <1> QED BY <1>1, Inductive, PTL

\* callbackMutex is held in sendCommand, before and after the command is added, and
\* during a callback, and at no other position of any thread: neither the handling of an
\* error nor a std::exception of a callback leaves it locked.  Of its holders a client
\* may wait for the manager's mutex_, the receive thread for no lock.
THEOREM MutexHeldAndLeft == Spec => []MutexOwned
  <1>1. Inv => MutexOwned
    BY DEF Inv
  <1> QED BY <1>1, Inductive, PTL

-----------------------------------------------------------------------------
(* The life of the two loops, and the wakeups of the send loop.            *)

\* From initialize to the destructor both loops run, or the program has ended; a
\* std::exception of the radio or of a callback ends neither.  They exit only when
\* isRunning is cleared, and the destructor joins threads that exist.
LoopsLive ==
    /\ owner # "terminated" =>
          (running <=> owner \in {"spawningSender", "spawningReceiver", "up"})
    /\ owner \in {"spawningReceiver", "up", "notifying", "joiningSender", "joiningReceiver"} =>
          sender # "none"
    /\ owner \in {"up", "notifying", "joiningSender", "joiningReceiver"} => receiver # "none"
    /\ "exited" \in {sender, receiver} => ~ running

LEMMA LivesNext == ThreadsOwned /\ LoopsLive /\ [Next]_vars => LoopsLive'
  <1> SUFFICES ASSUME ThreadsOwned, LoopsLive, [Next]_vars PROVE LoopsLive'
    OBVIOUS
  <1> USE DEF LoopsLive, ownerVars, senderVars, receiverVars
  <1>1. CASE ClientNext
    <2>1. UNCHANGED <<running, owner, sender, receiver>>
      BY <1>1 DEF ClientNext, ClientLock, ClientCall, ClientRefused, ClientNotify, ClientAdd,
                  RegisterCallbacks
    <2> QED BY <2>1
  <1>2. CASE ManagerNext
    BY <1>2 DEF ManagerNext, ManagerLock, ManagerUnlock, ManagerDrop, ManagerStep
  <1>3. CASE SenderRun \/ SenderWake
    <2>1. /\ UNCHANGED <<running, owner, receiver>>
          /\ sender \notin {"none", "exited"} /\ sender' # "none"
          /\ sender' = "exited" => ~ running
      BY <1>3 DEF SenderRun, SenderWake, SenderLoop, SenderTest, SenderBlock, SenderCheck,
                  SenderTake, SenderTakeNothing, SenderTransmit, SenderTransmitFails,
                  SenderError, SenderStep
    <2> QED BY <2>1
  <1>4. CASE ReceiverRun
    <2>1. /\ UNCHANGED <<running, owner, sender>>
          /\ receiver \notin {"none", "exited"} /\ receiver' # "none"
          /\ receiver' = "exited" => ~ running
      BY <1>4 DEF ReceiverRun, ReceiverLoop, KeepsReceiving, ReceiverPacket, ReceiverNothing,
                  ReceiverFails, ReceiverStore, ReceiverInvoke, ReceiverNoCallbacks,
                  CallbackReturns, CallbackThrows, ReceiverCount, ReceiverError, ReceiverStep
    <2> QED BY <2>1
  <1>5. CASE OwnerNext
    <2> USE DEF OwnerStep
    <2>1. CASE Initialize
      BY <2>1 DEF Initialize, ThreadsOwned
    <2>2. CASE InitializeAgain \/ Destroy \/ DestroyUnstarted
      BY <2>2 DEF InitializeAgain, Destroy, DestroyUnstarted
    <2>3. CASE SpawnSender
      BY <2>3 DEF SpawnSender
    <2>4. CASE SpawnReceiver
      BY <2>4 DEF SpawnReceiver
    <2>5. CASE DestroyNotify \/ JoinSender \/ JoinReceiver
      BY <2>5 DEF DestroyNotify, JoinSender, JoinReceiver, ReceiverJoinable
    <2> QED BY <1>5, <2>1, <2>2, <2>3, <2>4, <2>5 DEF OwnerNext, OwnerRun
  <1>6. CASE Uncaught \/ UNCHANGED vars
    BY <1>6 DEF Uncaught, vars
  <1> QED BY <1>1, <1>2, <1>3, <1>4, <1>5, <1>6, Steps

\* A std::exception of the radio or of a user's callback ends neither sendLoop nor
\* receiveLoop, and the destructor waits for no thread that was never made.  Any other
\* exception ends the program, in "terminated", and is no exit of a loop.
THEOREM LoopsStayAlive == Spec => []LoopsLive
  <1>1. Init => LoopsLive
    BY DEF Init, LoopsLive
  <1>2. Inv /\ LoopsLive /\ [Next]_vars => LoopsLive'
    BY LivesNext DEF Inv
  <1> QED BY <1>1, <1>2, Inductive, PTL DEF Spec

\* A command is in the queue, the send thread sleeps, and nobody is about to wake it.
SendMissed ==
    /\ sender = "waiting" /\ ~ signalled /\ Queue # {}
    /\ \A t \in Client : caller[t] # "added"

\* The destructor waits for a send thread that nobody will wake.
StopMissed == owner = "joiningSender" /\ sender = "waiting" /\ ~ signalled

MissedOnlyInWindow ==
    [][(~ SendMissed /\ SendMissed') \/ (~ StopMissed /\ StopMissed') => SenderBlock]_vars

\* The wakeups of sendCommand and of the destructor are lost in one place only: when
\* the command is added, or isRunning cleared, and the notification made, between the
\* send thread's test of its predicate and its block.
THEOREM MissedInWindow == Spec => MissedOnlyInWindow
  <1>1. TypeOK /\ [Next]_vars =>
          [(~ SendMissed /\ SendMissed') \/ (~ StopMissed /\ StopMissed') => SenderBlock]_vars
    <2> SUFFICES ASSUME TypeOK, [Next]_vars, ~ SenderBlock
                 PROVE  (SendMissed' => SendMissed) /\ (StopMissed' => StopMissed)
      OBVIOUS
    <2> USE DEF SendMissed, StopMissed, Queue, queueVars, clientVars, senderVars, ownerVars
    <2>1. ASSUME NEW t \in Client, NEW c \in Command, ClientAdd(t, c)
          PROVE  (SendMissed' => SendMissed) /\ (StopMissed' => StopMissed)
      <3>1. caller'[t] = "added" /\ UNCHANGED <<owner, sender, signalled>>
        BY <2>1 DEF ClientAdd, TypeOK
      <3> QED BY <3>1
    <2>2. ASSUME NEW t \in Client, ClientNotify(t)
          PROVE  (SendMissed' => SendMissed) /\ (StopMissed' => StopMissed)
      <3>1. sender' = "waiting" => signalled'
        BY <2>2, Zenon DEF ClientNotify
      <3> QED BY <3>1
    <2>3. ASSUME NEW t \in Client, ClientLock(t) \/ ClientRefused(t)
          PROVE  (SendMissed' => SendMissed) /\ (StopMissed' => StopMissed)
      <3>1. /\ UNCHANGED <<owner, sender, signalled, status>>
            /\ caller[t] # "added"
            /\ \A u \in Client : u # t => caller'[u] = caller[u]
        BY <2>3 DEF ClientLock, ClientRefused, TypeOK
      <3> QED BY <3>1
    <2>4. ASSUME NEW k \in Callbacks \cup {None}, RegisterCallbacks(k)
          PROVE  (SendMissed' => SendMissed) /\ (StopMissed' => StopMissed)
      BY <2>4 DEF RegisterCallbacks
    <2>5. CASE ManagerNext
      <3>1. UNCHANGED <<owner, sender, signalled, caller>> /\ (Queue' # {} => Queue # {})
        <4>1. ASSUME NEW c \in Command, ManagerDrop(c) PROVE Queue # {}
          BY <4>1 DEF ManagerDrop, Manager!Drop
        <4> QED BY <2>5, <4>1 DEF ManagerNext, ManagerLock, ManagerUnlock, ManagerDrop, ManagerStep
      <3> QED BY <3>1
    <2>6. CASE SenderRun \/ SenderWake
      <3>1. sender' # "waiting"
        BY <2>6 DEF SenderRun, SenderWake, SenderLoop, SenderTest, SenderCheck, SenderTake,
                    SenderTakeNothing, SenderTransmit, SenderTransmitFails, SenderError, SenderStep
      <3> QED BY <3>1
    <2>7. CASE ReceiverRun
      <3>1. UNCHANGED <<status, caller, sender, signalled, owner>>
        BY <2>7 DEF ReceiverRun, ReceiverLoop, ReceiverPacket, ReceiverNothing, ReceiverFails,
                    ReceiverStore, ReceiverInvoke, ReceiverNoCallbacks, CallbackReturns,
                    CallbackThrows, ReceiverCount, ReceiverError, ReceiverStep
      <3> QED BY <3>1
    <2>8. CASE DestroyNotify
      <3>1. sender' = "waiting" => signalled'
        BY <2>8, Zenon DEF DestroyNotify
      <3> QED BY <3>1
    <2>9. CASE OwnerNext /\ ~ DestroyNotify
      <3>1. /\ UNCHANGED <<status, caller, signalled>>
            /\ sender' \in {sender, "loop"} /\ owner' # "joiningSender"
        BY <2>9 DEF OwnerNext, OwnerRun, Initialize, InitializeAgain, Destroy, DestroyUnstarted,
                    SpawnSender, SpawnReceiver, JoinSender, JoinReceiver, OwnerStep
      <3> QED BY <3>1
    <2>10. CASE Uncaught \/ UNCHANGED vars
      BY <2>10 DEF Uncaught, vars
    <2> HIDE DEF SendMissed, StopMissed
    <2> QED
      BY <2>1, <2>2, <2>3, <2>4, <2>5, <2>6, <2>7, <2>8, <2>9, <2>10, Steps
      DEF ClientNext, ClientCall
  <1> QED BY <1>1, TypeCorrect, PTL DEF Spec, MissedOnlyInWindow
=============================================================================
