------------------------------ MODULE AVCProtocol ------------------------------
(***************************************************************************)
(* Acknowledgment tracking and retransmission in AVC::AVCProtocol          *)
(* (src/src/AVC/AVCProtocol.{hpp,cpp}).                                    *)
(*                                                                         *)
(* A Call is one call of sendCommand with a valid command, and the         *)
(* PendingCommand that it stores.  timestamp is kept as an age, which      *)
(* saturates at MaxAge.  sendCommand puts its frame in the queue of the    *)
(* communicator before it stores the command, with no lock in between, so  *)
(* it is two actions; every critical section of pendingMutex is one.       *)
(*                                                                         *)
(* The peer, outside this repository, may answer any frame it was sent, at *)
(* any time, any number of times, or never: that is the lossy link.  The   *)
(* communicator's own queue is left out, so an answer may come earlier     *)
(* here than the frame can have been written.                              *)
(* The library does not yet hand any frame to onDataReceived; the handler  *)
(* behind it is modelled as it runs when it is reached.                    *)
(*                                                                         *)
(* Any number of threads (Owner) call start() and stop().  These test the  *)
(* atomic flag, set it, and handle the thread without any lock: each of    *)
(* the steps is an action, and calls of several threads may interleave.    *)
(***************************************************************************)
EXTENDS Integers, FiniteSets

CONSTANTS
    Call,           \* calls of sendCommand
    Number,         \* command numbers
    NumberOf,       \* the number of the command of each call
    None,           \* no pending command
    Owner,          \* threads that call start() and stop()
    MaxRetries,     \* maxRetries
    Interval,       \* retryInterval, in ticks
    MaxLag,         \* bound: ticks from reading the clock to the end of the collection
    MaxAge          \* bound: ages above it are not told apart

ASSUME NoneAssumption == None \notin Call
ASSUME NumberAssumption == NumberOf \in [Call -> Number]
ASSUME TimeAssumption ==
    /\ MaxRetries \in Nat
    /\ Interval \in Nat \ {0}
    /\ MaxLag \in Nat
    /\ MaxAge \in Nat
    /\ MaxAge >= Interval + MaxLag

VARIABLES
    call,           \* progress of sendCommand
    pending,        \* pendingCommands
    age,            \* steady_clock::now() - PendingCommand::timestamp
    retry,          \* PendingCommand::retryCount
    sent,           \* how often each command has been given to the communicator
    running,
    thread,         \* what retransThread is doing
    lag,            \* ticks since the handler read the clock
    toResend,       \* the handler's copies of the commands to send again
    sleep,          \* ticks until the handler's cv.wait_for ends
    signalled,      \* stop() has notified the handler in its wait
    owner,          \* progress of start() or stop() in each Owner
    communicating,  \* what communicator was told last: start() or stop()
    crashed,        \* std::terminate was called
    overlapped,     \* auxiliary: start() or stop() was called during another one
    timedOut,       \* auxiliary: calls whose command was erased for want of an answer
    life            \* auxiliary: ticks since the command was stored, saturating at Lifetime

vars == <<call, pending, age, retry, sent, running, thread, lag, toResend, sleep,
          signalled, owner, communicating, crashed, overlapped, timedOut, life>>

trackVars  == <<call, pending, age, retry, sent, timedOut, life>>
ownerVars  == <<owner, communicating, crashed, overlapped>>
threadVars == <<running, thread, lag, toResend, sleep, signalled, ownerVars>>

AtMost(n, bound) == IF n < bound THEN n ELSE bound

\* From the first transmission to the end of the wait after the last one.
Lifetime == (MaxRetries + 1) * Interval

Init ==
    /\ call = [c \in Call |-> "new"]
    /\ pending = [n \in Number |-> None]
    /\ age = [c \in Call |-> 0]
    /\ retry = [c \in Call |-> 0]
    /\ sent = [c \in Call |-> 0]
    /\ running = FALSE
    /\ thread = "none"
    /\ lag = 0
    /\ toResend = {}
    /\ sleep = 0
    /\ signalled = FALSE
    /\ owner = [o \in Owner |-> "idle"]
    /\ communicating = FALSE
    /\ crashed = FALSE
    /\ overlapped = FALSE
    /\ timedOut = {}
    /\ life = [c \in Call |-> 0]

-----------------------------------------------------------------------------
(* sendCommand and the acknowledgment handler.                             *)

SendFrame(c) ==
    /\ call[c] = "new"
    /\ call' = [call EXCEPT ![c] = "framed"]
    /\ sent' = [sent EXCEPT ![c] = @ + 1]
    /\ UNCHANGED <<pending, age, retry, timedOut, life, threadVars>>

\* What remains in the table keeps its timestamp; that of the others is gone.
Kept(times, table) == [c \in Call |-> IF table[NumberOf[c]] = c THEN times[c] ELSE 0]

\* operator[] replaces what was pending under the number.
StorePending(c) ==
    /\ call[c] = "framed"
    /\ call' = [call EXCEPT ![c] = "stored"]
    /\ pending' = [pending EXCEPT ![NumberOf[c]] = c]
    /\ age' = Kept(age, pending')
    /\ UNCHANGED <<retry, sent, timedOut, life, threadVars>>

\* handleIncomingPacket with an acknowledgment of call c: handleAcknowledgment
\* erases what is pending under its number, the only thing the packet carries.
HandleAcknowledgment(c) ==
    /\ sent[c] > 0
    /\ pending' = [pending EXCEPT ![NumberOf[c]] = None]
    /\ age' = Kept(age, pending')
    /\ UNCHANGED <<call, retry, sent, timedOut, life, threadVars>>

-----------------------------------------------------------------------------
(* retransmissionHandler.                                                  *)

\* The clock is read before the lock is taken.
ReadClock ==
    /\ thread = "loop"
    /\ running
    /\ thread' = "collect"
    /\ lag' = 0
    /\ UNCHANGED <<trackVars, running, toResend, sleep, signalled, ownerVars>>

HandlerExit ==
    /\ thread = "loop"
    /\ ~ running
    /\ thread' = "exited"
    /\ UNCHANGED <<trackVars, running, lag, toResend, sleep, signalled, ownerVars>>

Pending == {c \in Call : pending[NumberOf[c]] = c}

\* elapsed >= retryInterval, with elapsed measured from the clock reading.
Overdue == {c \in Pending : age[c] - lag >= Interval}

\* Mutant: one retransmission more than maxRetries.
AgainOnceMore == {c \in Overdue : retry[c] <= MaxRetries}

Again == {c \in Overdue : retry[c] < MaxRetries}

\* Mutant: the counter is increased in the copy, not in the table.
RetriesUncounted == retry

Retries == [c \in Call |-> IF c \in Again THEN retry[c] + 1 ELSE retry[c]]

\* Mutant: the timestamp in the table is left as it was.
AgesKept == age

Ages == [c \in Call |-> IF c \in Again THEN lag ELSE age[c]]

\* Mutant: a command out of retries is passed over and stays in the table.
GivenUpNever == {}

GivenUp == Overdue \ Again

Collect ==
    /\ thread = "collect"
    /\ toResend' = Again
    /\ retry' = Retries
    /\ timedOut' = timedOut \cup GivenUp
    /\ pending' = [n \in Number |-> IF pending[n] \in GivenUp THEN None ELSE pending[n]]
    /\ age' = Kept(Ages, pending')
    /\ thread' = "resend"
    /\ lag' = 0
    /\ UNCHANGED <<call, sent, life, running, sleep, signalled, ownerVars>>

\* The copies are sent after the lock is released.
Resend(c) ==
    /\ thread = "resend"
    /\ c \in toResend
    /\ sent' = [sent EXCEPT ![c] = @ + 1]
    /\ toResend' = toResend \ {c}
    /\ UNCHANGED <<call, pending, age, retry, timedOut, life,
                   running, thread, lag, sleep, signalled, ownerVars>>

\* cv.wait_for evaluates its predicate, and blocks if it is false.
CheckStopped ==
    /\ thread = "resend"
    /\ toResend = {}
    /\ thread' = IF running THEN "blocking" ELSE "loop"
    /\ UNCHANGED <<trackVars, running, lag, toResend, sleep, signalled, ownerVars>>

Block ==
    /\ thread = "blocking"
    /\ thread' = "waiting"
    /\ sleep' = Interval
    /\ signalled' = FALSE
    /\ UNCHANGED <<trackVars, running, lag, toResend, ownerVars>>

\* Mutant: cv.wait, which has no deadline, in place of cv.wait_for.
WaitOverUntimed == signalled /\ ~ running

WaitOver == sleep = 0 \/ (signalled /\ ~ running)

\* The wait ends at its deadline, or notified with running cleared.
Wake ==
    /\ thread = "waiting"
    /\ WaitOver
    /\ thread' = "loop"
    /\ sleep' = 0
    /\ signalled' = FALSE
    /\ UNCHANGED <<trackVars, running, lag, toResend, ownerVars>>

SpuriousWake ==
    /\ thread = "waiting"
    /\ ~ running
    /\ thread' = "loop"
    /\ sleep' = 0
    /\ signalled' = FALSE
    /\ UNCHANGED <<trackVars, running, lag, toResend, ownerVars>>

-----------------------------------------------------------------------------
(* start and stop.                                                         *)

At(o, step) == owner[o] = step

Proceed(o, step) == owner' = [owner EXCEPT ![o] = step]

\* Auxiliary: whether o calls while another thread is in start() or stop().
Overlaps(o) == overlapped \/ \E p \in Owner \ {o} : owner[p] # "idle"

Start(o) ==
    /\ At(o, "idle")
    /\ ~ running
    /\ Proceed(o, "starting")
    /\ overlapped' = Overlaps(o)
    /\ UNCHANGED <<trackVars, running, thread, lag, toResend, sleep, signalled,
                   communicating, crashed>>

SetRunning(o) ==
    /\ At(o, "starting")
    /\ running' = TRUE
    /\ Proceed(o, "spawning")
    /\ UNCHANGED <<trackVars, thread, lag, toResend, sleep, signalled,
                   communicating, crashed, overlapped>>

SpawnHandler(o) ==
    /\ At(o, "spawning")
    /\ thread = "none"
    /\ thread' = "loop"
    /\ Proceed(o, "opening")
    /\ UNCHANGED <<trackVars, running, lag, toResend, sleep, signalled,
                   communicating, crashed, overlapped>>

\* The assignment to a joinable std::thread calls std::terminate.
SpawnOverThread(o) ==
    /\ At(o, "spawning")
    /\ thread # "none"
    /\ crashed' = TRUE
    /\ UNCHANGED <<trackVars, running, thread, lag, toResend, sleep, signalled,
                   owner, communicating, overlapped>>

StartCommunicator(o) ==
    /\ At(o, "opening")
    /\ communicating' = TRUE
    /\ Proceed(o, "idle")
    /\ UNCHANGED <<trackVars, running, thread, lag, toResend, sleep, signalled,
                   crashed, overlapped>>

Stop(o) ==
    /\ At(o, "idle")
    /\ running
    /\ Proceed(o, "stopping")
    /\ overlapped' = Overlaps(o)
    /\ UNCHANGED <<trackVars, running, thread, lag, toResend, sleep, signalled,
                   communicating, crashed>>

ClearRunning(o) ==
    /\ At(o, "stopping")
    /\ running' = FALSE
    /\ Proceed(o, "notifying")
    /\ UNCHANGED <<trackVars, thread, lag, toResend, sleep, signalled,
                   communicating, crashed, overlapped>>

\* notify_all reaches the handler only if it is already blocked: stop() does not
\* take cvMutex.
StopNotify(o) ==
    /\ At(o, "notifying")
    /\ signalled' = (signalled \/ thread = "waiting")
    /\ Proceed(o, "joining")
    /\ UNCHANGED <<trackVars, running, thread, lag, toResend, sleep,
                   communicating, crashed, overlapped>>

\* Joins the handler's thread, or finds none to join.
StopJoin(o) ==
    /\ At(o, "joining")
    /\ thread \in {"exited", "none"}
    /\ thread' = "none"
    /\ Proceed(o, "closing")
    /\ UNCHANGED <<trackVars, running, lag, toResend, sleep, signalled,
                   communicating, crashed, overlapped>>

\* communicator->stop() returns, if it does: Communicator!StopReturns can fail.
StopCommunicator(o) ==
    /\ At(o, "closing")
    /\ communicating' = FALSE
    /\ Proceed(o, "idle")
    /\ UNCHANGED <<trackVars, running, thread, lag, toResend, sleep, signalled,
                   crashed, overlapped>>

-----------------------------------------------------------------------------
Tick ==
    /\ thread = "collect" => lag < MaxLag
    /\ lag' = IF thread = "collect" THEN lag + 1 ELSE lag
    /\ age' = [c \in Call |-> IF c \in Pending THEN AtMost(age[c] + 1, MaxAge) ELSE age[c]]
    /\ life' = [c \in Call |-> IF c \in Pending THEN AtMost(life[c] + 1, Lifetime) ELSE life[c]]
    /\ sleep' = IF sleep > 0 THEN sleep - 1 ELSE 0
    /\ UNCHANGED <<call, pending, retry, sent, timedOut, running, thread,
                   toResend, signalled, ownerVars>>

Handler ==
    \/ ReadClock \/ HandlerExit \/ Collect \/ CheckStopped \/ Block \/ Wake
    \/ \E c \in Call : Resend(c)

\* start() in progress, and stop() until it has joined the handler.
Advance(o) ==
    \/ SetRunning(o) \/ SpawnHandler(o) \/ SpawnOverThread(o) \/ StartCommunicator(o)
    \/ ClearRunning(o) \/ StopNotify(o) \/ StopJoin(o)

Control == \E o \in Owner : Start(o) \/ Stop(o) \/ Advance(o) \/ StopCommunicator(o)

Running ==
    \/ \E c \in Call : SendFrame(c) \/ StorePending(c) \/ HandleAcknowledgment(c)
    \/ Handler \/ SpuriousWake \/ Control \/ Tick

\* A crashed program does nothing more.
Terminated == crashed /\ UNCHANGED vars

Next == (~ crashed /\ Running) \/ Terminated

Spec == Init /\ [][Next]_vars

\* The handler thread runs, time passes, and a start() or stop() in progress goes
\* on, but for the call of communicator->stop(), which may hang.
Fairness ==
    /\ WF_vars(~ crashed /\ Handler)
    /\ WF_vars(~ crashed /\ Tick)
    /\ \A o \in Owner : WF_vars(~ crashed /\ Advance(o))

FairSpec == Spec /\ Fairness

-----------------------------------------------------------------------------
(* What the class promises.                                                *)

TypeOK ==
    /\ call \in [Call -> {"new", "framed", "stored"}]
    /\ pending \in [Number -> Call \cup {None}]
    /\ age \in [Call -> 0 .. MaxAge]
    /\ retry \in [Call -> 0 .. MaxRetries]
    /\ sent \in [Call -> Nat]
    /\ running \in BOOLEAN
    /\ thread \in {"none", "loop", "collect", "resend", "blocking", "waiting", "exited"}
    /\ lag \in 0 .. MaxLag
    /\ toResend \subseteq Call
    /\ sleep \in 0 .. Interval
    /\ signalled \in BOOLEAN
    /\ owner \in [Owner -> {"idle", "starting", "spawning", "opening", "stopping",
                            "notifying", "joining", "closing"}]
    /\ communicating \in BOOLEAN
    /\ crashed \in BOOLEAN
    /\ overlapped \in BOOLEAN
    /\ timedOut \subseteq Call
    /\ life \in [Call -> 0 .. Lifetime]

\* A command is transmitted at most once and maxRetries times more, although the
\* handler counts in the table, sends later from copies, and may find the entry
\* replaced, erased or answered in between.
TransmissionsBounded == \A c \in Call : sent[c] <= MaxRetries + 1

\* The handler erases a command as timed out only when all its transmissions have
\* been made and retryInterval has passed after each of them.
TimedOutAfterAllTries ==
    \A c \in timedOut : sent[c] = MaxRetries + 1 /\ life[c] = Lifetime

\* Every stored command leaves the table of a running protocol: it is answered,
\* replaced, or given up.
PendingResolved ==
    \A c \in Call : pending[NumberOf[c]] = c ~>
        (pending[NumberOf[c]] # c \/ ~ running \/ crashed)

\* stop() gets past its join although its notification may come between the handler's
\* check of the flag and its wait, as long as no start() or stop() is called during
\* another one: a stop() that comes late to the join may otherwise find the thread of
\* a later start().  Behind the join it calls communicator->stop(), which may hang.
HandlerJoined ==
    \A o \in Owner : owner[o] \in {"notifying", "joining"} ~>
        (owner[o] \notin {"notifying", "joining"} \/ overlapped \/ crashed)
=============================================================================
