---------------------------- MODULE CommandManager ----------------------------
(***************************************************************************)
(* The priority queue of outgoing commands, AVC::CommandManager            *)
(* (src/src/Management/CommandManager.{hpp,cpp}).                          *)
(*                                                                         *)
(* An Entry is one PendingCommand object.  One that has left the queue is  *)
(* made anew by a later addCommand, so Entry bounds the commands queued at *)
(* a time and not the calls.  lastSentTime is kept as an age               *)
(* (now - lastSentTime), which saturates at MaxAge: two entries that old   *)
(* compare as equally old.                                                 *)
(*                                                                         *)
(* mutex_ is held by the worker thread exactly while worker = "holding":   *)
(* it keeps the lock from one iteration of its loop to the next and gives  *)
(* it up only inside cv.wait and cv.wait_until.  Every other critical      *)
(* section is one action, enabled when the worker does not hold the lock.  *)
(*                                                                         *)
(* Any number of threads (Owner) call start() and stop(), at the same time *)
(* if they like.  What the calls do to workerThread they do without the    *)
(* lock; each such access is taken to be atomic.                           *)
(***************************************************************************)
EXTENDS Integers

CONSTANTS
    Entry,          \* PendingCommand objects
    Owner,          \* threads that call start() and stop()
    Number,         \* command numbers
    Command,        \* what addCommand is called with
    None,           \* no entry
    MaxRetries,     \* maxRetries
    Timeout,        \* timeoutInterval, in ticks
    MaxAge          \* bound: ages above it are not told apart

ASSUME NoneAssumption == None \notin Entry /\ None \notin Command
ASSUME CommandAssumption ==
    Command \subseteq [num : Number, prio : Int, sendable : BOOLEAN]
ASSUME TimeAssumption ==
    /\ MaxRetries \in Nat
    /\ Timeout \in Nat \ {0}
    /\ MaxAge \in Nat
    /\ MaxAge >= Timeout

VARIABLES
    cmd,            \* PendingCommand::command and ::priority
    status,         \* where the entry is: not made, in commandQueue, handed out, given up
    age,            \* now - PendingCommand::lastSentTime
    retry,          \* PendingCommand::retryCount
    map,            \* pendingCommandsMap
    running,
    worker,         \* what workerThread is doing
    sleep,          \* ticks until the deadline of the worker's cv.wait_until
    signalled,      \* a notification has reached the worker in its wait
    owner,          \* progress of start() or stop() in each Owner
    crashed,        \* std::terminate was called
    life,           \* auxiliary: ticks spent in the queue, saturating at Lifetime
    forgotten,      \* auxiliary: acknowledged, or another one of its number left
                    \* the queue, since the entry was queued
    overlapped      \* auxiliary: start() or stop() was called during another one

vars == <<cmd, status, age, retry, map, running, worker, sleep, signalled,
          owner, crashed, life, forgotten, overlapped>>

entryVars  == <<cmd, status, age, retry, life, forgotten>>
threadVars == <<running, worker, sleep, signalled, owner, crashed, overlapped>>

AtMost(n, bound) == IF n < bound THEN n ELSE bound

\* From addCommand to the end of the wait after the last retransmission.
Lifetime == (MaxRetries + 1) * Timeout

Queue == {e \in Entry : status[e] = "queued"}

\* ComparePendingCommand: the higher priority first, then the older lastSentTime.
Before(e, f) ==
    \/ cmd[e].prio > cmd[f].prio
    \/ cmd[e].prio = cmd[f].prio /\ age[e] > age[f]

\* The entry the heap has at its top; the heap leaves ties open.
IsTop(e) == e \in Queue /\ \A f \in Queue : ~ Before(f, e)

Due(e) == age[e] >= Timeout

Waiting == worker \in {"waitEmpty", "waitUntil"}

\* Mutant: the notification is left out.
NotifiedNot == signalled

Notified == signalled \/ Waiting

Unlocked == worker # "holding" /\ ~ crashed

Init ==
    /\ cmd = [e \in Entry |-> None]
    /\ status = [e \in Entry |-> "new"]
    /\ age = [e \in Entry |-> 0]
    /\ retry = [e \in Entry |-> 0]
    /\ map = [n \in Number |-> None]
    /\ running = FALSE
    /\ worker = "none"
    /\ sleep = 0
    /\ signalled = FALSE
    /\ owner = [o \in Owner |-> "idle"]
    /\ crashed = FALSE
    /\ life = [e \in Entry |-> 0]
    /\ forgotten = [e \in Entry |-> FALSE]
    /\ overlapped = FALSE

-----------------------------------------------------------------------------
(* The public operations.                                                  *)

\* Mutant: map.insert instead of operator[], which keeps an older entry.
TrackIfAbsent(e, n) == [map EXCEPT ![n] = IF @ = None THEN e ELSE @]

Track(e, n) == [map EXCEPT ![n] = e]

\* Mutant: the entry leaves the queue but not the map.
UntrackNothing(n) == map

Untrack(n) == [map EXCEPT ![n] = None]

\* Auxiliary: n is acknowledged, or a command of this number leaves the queue.
Forget(n) == [f \in Entry |-> f \in Queue' /\ (forgotten[f] \/ cmd[f].num = n)]

\* A fresh PendingCommand: sent just now as far as lastSentTime says, no retries.
AddCommand(e, c) ==
    /\ Unlocked
    /\ status[e] # "queued"
    /\ cmd' = [cmd EXCEPT ![e] = c]
    /\ status' = [status EXCEPT ![e] = "queued"]
    /\ age' = [age EXCEPT ![e] = 0]
    /\ retry' = [retry EXCEPT ![e] = 0]
    /\ life' = [life EXCEPT ![e] = 0]
    /\ forgotten' = [forgotten EXCEPT ![e] = FALSE]
    /\ map' = Track(e, c.num)
    /\ signalled' = Notified
    /\ UNCHANGED <<running, worker, sleep, owner, crashed, overlapped>>

HandleAcknowledgment(n) ==
    /\ Unlocked
    /\ map[n] # None
    /\ map' = Untrack(n)
    /\ UNCHANGED <<cmd, status, age, retry, life, threadVars>>
    /\ forgotten' = Forget(n)

\* getNextCommand erases whatever entry the map holds under the number.  Nothing
\* refers to the PendingCommand afterwards, and its fields are as good as new.
GetNextCommand(e) ==
    /\ Unlocked
    /\ IsTop(e)
    /\ status' = [status EXCEPT ![e] = "taken"]
    /\ map' = Untrack(cmd[e].num)
    /\ forgotten' = Forget(cmd[e].num)
    /\ cmd' = [cmd EXCEPT ![e] = None]
    /\ age' = [age EXCEPT ![e] = 0]
    /\ retry' = [retry EXCEPT ![e] = 0]
    /\ life' = [life EXCEPT ![e] = 0]
    /\ UNCHANGED threadVars

At(o, step) == owner[o] = step /\ ~ crashed

Proceed(o, step) == owner' = [owner EXCEPT ![o] = step]

\* Auxiliary: whether o calls while another thread is in start() or stop().
Overlaps(o) == overlapped \/ \E p \in Owner \ {o} : owner[p] # "idle"

\* start() sets the flag under the lock and makes the thread after it.
Start(o) ==
    /\ Unlocked
    /\ At(o, "idle")
    /\ ~ running
    /\ running' = TRUE
    /\ Proceed(o, "spawning")
    /\ overlapped' = Overlaps(o)
    /\ UNCHANGED <<entryVars, map, worker, sleep, signalled, crashed>>

SpawnWorker(o) ==
    /\ At(o, "spawning")
    /\ worker = "none"
    /\ worker' = "starting"
    /\ Proceed(o, "idle")
    /\ UNCHANGED <<entryVars, map, running, sleep, signalled, crashed, overlapped>>

\* The assignment to a joinable std::thread calls std::terminate.
SpawnOverThread(o) ==
    /\ At(o, "spawning")
    /\ worker # "none"
    /\ crashed' = TRUE
    /\ UNCHANGED <<entryVars, map, running, worker, sleep, signalled, owner, overlapped>>

\* stop() clears the flag under the lock, notifies after it, then joins.
Stop(o) ==
    /\ Unlocked
    /\ At(o, "idle")
    /\ running
    /\ running' = FALSE
    /\ Proceed(o, "notifying")
    /\ overlapped' = Overlaps(o)
    /\ UNCHANGED <<entryVars, map, worker, sleep, signalled, crashed>>

\* Mutant: stop() notifies but does not wait for the worker.
StopNotifyWithoutJoin(o) ==
    /\ At(o, "notifying")
    /\ signalled' = Notified
    /\ Proceed(o, "idle")
    /\ UNCHANGED <<entryVars, map, running, worker, sleep, crashed, overlapped>>

StopNotify(o) ==
    /\ At(o, "notifying")
    /\ signalled' = Notified
    /\ Proceed(o, "joining")
    /\ UNCHANGED <<entryVars, map, running, worker, sleep, crashed, overlapped>>

\* Joins the worker's thread, or finds none to join.
StopJoin(o) ==
    /\ At(o, "joining")
    /\ worker \in {"exited", "none"}
    /\ worker' = "none"
    /\ Proceed(o, "idle")
    /\ UNCHANGED <<entryVars, map, running, sleep, signalled, crashed, overlapped>>

-----------------------------------------------------------------------------
(* workerThreadFunc.                                                       *)

WorkerLock ==
    /\ worker = "starting"
    /\ ~ crashed
    /\ worker' = "holding"
    /\ UNCHANGED <<entryVars, map, running, sleep, signalled, owner, crashed, overlapped>>

WorkerExit ==
    /\ worker = "holding"
    /\ ~ running
    /\ ~ crashed
    /\ worker' = "exited"
    /\ UNCHANGED <<entryVars, map, running, sleep, signalled, owner, crashed, overlapped>>

\* The loop's turn with something in the queue, or with nothing in it.
WorkerTurn == worker = "holding" /\ running /\ ~ crashed

WorkerWaitEmpty ==
    /\ WorkerTurn
    /\ Queue = {}
    /\ worker' = "waitEmpty"
    /\ signalled' = FALSE
    /\ UNCHANGED <<entryVars, map, running, sleep, owner, crashed, overlapped>>

WorkerWaitUntil(e) ==
    /\ WorkerTurn
    /\ IsTop(e)
    /\ ~ Due(e)
    /\ worker' = "waitUntil"
    /\ sleep' = Timeout - age[e]
    /\ signalled' = FALSE
    /\ UNCHANGED <<entryVars, map, running, owner, crashed, overlapped>>

\* Mutant: one retransmission more than maxRetries.
RetriesLeftOnceMore(e) == retry[e] <= MaxRetries

RetriesLeft(e) == retry[e] < MaxRetries

\* Mutant: the command given up is not popped, and comes up again at once.
WorkerGiveUpWithoutPop(e) ==
    /\ WorkerTurn
    /\ IsTop(e)
    /\ Due(e)
    /\ ~ RetriesLeft(e)
    /\ map' = Untrack(cmd[e].num)
    /\ UNCHANGED <<entryVars, threadVars>>

\* Out of retries: popped, and whatever the map holds under the number erased.
WorkerGiveUp(e) ==
    /\ WorkerTurn
    /\ IsTop(e)
    /\ Due(e)
    /\ ~ RetriesLeft(e)
    /\ status' = [status EXCEPT ![e] = "dropped"]
    /\ map' = Untrack(cmd[e].num)
    /\ forgotten' = Forget(cmd[e].num)
    /\ cmd' = [cmd EXCEPT ![e] = None]
    /\ age' = [age EXCEPT ![e] = 0]
    /\ UNCHANGED <<retry, life, threadVars>>

\* Mutant: lastSentTime is not refreshed, so the retries follow at once.
RefreshNot(e) == age

Refresh(e) == [age EXCEPT ![e] = 0]

\* Mutant: retryCount is not counted up.
CountNot(e) == retry

Count(e) == [retry EXCEPT ![e] = @ + 1]

WorkerRetransmit(e) ==
    /\ WorkerTurn
    /\ IsTop(e)
    /\ Due(e)
    /\ RetriesLeft(e)
    /\ cmd[e].sendable
    /\ age' = Refresh(e)
    /\ retry' = Count(e)
    /\ UNCHANGED <<cmd, status, life, forgotten, map, threadVars>>

\* sendCommand throws (invalid number, payload longer than a packet holds) and
\* nothing in the thread catches it.
WorkerCrash(e) ==
    /\ WorkerTurn
    /\ IsTop(e)
    /\ Due(e)
    /\ RetriesLeft(e)
    /\ ~ cmd[e].sendable
    /\ crashed' = TRUE
    /\ UNCHANGED <<entryVars, map, running, worker, sleep, signalled, owner, overlapped>>

\* cv.wait returns once its predicate holds, woken by a notification or spuriously.
WakeFromWait ==
    /\ worker = "waitEmpty"
    /\ ~ running \/ Queue # {}
    /\ ~ crashed
    /\ worker' = "holding"
    /\ signalled' = FALSE
    /\ UNCHANGED <<entryVars, map, running, sleep, owner, crashed, overlapped>>

\* cv.wait_until returns at its deadline, or woken with running cleared.
WakeFromWaitUntil ==
    /\ worker = "waitUntil"
    /\ ~ running \/ sleep = 0
    /\ ~ crashed
    /\ worker' = "holding"
    /\ sleep' = 0
    /\ signalled' = FALSE
    /\ UNCHANGED <<entryVars, map, running, owner, crashed, overlapped>>

\* A notified wait whose predicate is still false waits on.
WaitOn ==
    /\ signalled
    /\ \/ worker = "waitEmpty" /\ running /\ Queue = {}
       \/ worker = "waitUntil" /\ running /\ sleep > 0
    /\ ~ crashed
    /\ signalled' = FALSE
    /\ UNCHANGED <<entryVars, map, running, worker, sleep, owner, crashed, overlapped>>

-----------------------------------------------------------------------------
\* steady_clock advances.
Tick ==
    /\ ~ crashed
    /\ age' = [e \in Entry |-> IF e \in Queue THEN AtMost(age[e] + 1, MaxAge)
                                              ELSE age[e]]
    /\ life' = [e \in Entry |-> IF e \in Queue THEN AtMost(life[e] + 1, Lifetime)
                                               ELSE life[e]]
    /\ sleep' = IF sleep > 0 THEN sleep - 1 ELSE 0
    /\ UNCHANGED <<cmd, status, retry, forgotten, map, running, worker, signalled, owner,
                   crashed, overlapped>>

\* A crashed program does nothing more.
Terminated == crashed /\ UNCHANGED vars

Worker ==
    \/ WorkerLock \/ WorkerExit \/ WorkerWaitEmpty
    \/ WakeFromWait \/ WakeFromWaitUntil \/ WaitOn
    \/ \E e \in Entry : \/ WorkerWaitUntil(e)
                        \/ WorkerGiveUp(e)
                        \/ WorkerRetransmit(e)
                        \/ WorkerCrash(e)

Client ==
    \/ \E e \in Entry : (\E c \in Command : AddCommand(e, c)) \/ GetNextCommand(e)
    \/ \E n \in Number : HandleAcknowledgment(n)

Control ==
    \E o \in Owner : \/ Start(o) \/ SpawnWorker(o) \/ SpawnOverThread(o)
                     \/ Stop(o) \/ StopNotify(o) \/ StopJoin(o)

Next == Worker \/ Client \/ Control \/ Tick \/ Terminated

Spec == Init /\ [][Next]_vars

\* A runnable thread runs, a wait ends when it is notified or at its deadline,
\* time passes, and a start() or stop() in progress goes on.  Nothing makes
\* clients add, take or acknowledge, or an owner start or stop.
WorkerStep ==
    \/ WorkerLock \/ WorkerExit \/ WorkerWaitEmpty
    \/ \E e \in Entry : \/ WorkerWaitUntil(e)
                        \/ WorkerGiveUp(e)
                        \/ WorkerRetransmit(e)
                        \/ WorkerCrash(e)

NotifiedWake ==
    \/ signalled /\ (WakeFromWait \/ WakeFromWaitUntil)
    \/ sleep = 0 /\ WakeFromWaitUntil

Fairness ==
    /\ WF_vars(WorkerStep)
    /\ WF_vars(NotifiedWake)
    /\ WF_vars(Tick)
    /\ \A o \in Owner :
           WF_vars(SpawnWorker(o) \/ SpawnOverThread(o) \/ StopNotify(o) \/ StopJoin(o))

FairSpec == Spec /\ Fairness

-----------------------------------------------------------------------------
(* What the class promises.                                                *)

TypeOK ==
    /\ cmd \in [Entry -> Command \cup {None}]
    /\ status \in [Entry -> {"new", "queued", "taken", "dropped"}]
    /\ age \in [Entry -> 0 .. MaxAge]
    /\ retry \in [Entry -> 0 .. MaxRetries]
    /\ map \in [Number -> Entry \cup {None}]
    /\ running \in BOOLEAN
    /\ worker \in {"none", "starting", "holding", "waitEmpty", "waitUntil", "exited"}
    /\ sleep \in 0 .. Timeout
    /\ signalled \in BOOLEAN
    /\ owner \in [Owner -> {"idle", "spawning", "notifying", "joining"}]
    /\ crashed \in BOOLEAN
    /\ life \in [Entry -> 0 .. Lifetime]
    /\ forgotten \in [Entry -> BOOLEAN]
    /\ overlapped \in BOOLEAN
    /\ \A e \in Entry : status[e] = "queued" => cmd[e] \in Command

\* The map never outlives the queue: what it holds under a number is an entry
\* still in commandQueue that was added with this number, although each of
\* addCommand, getNextCommand, the acknowledgment and the giving up changes the
\* two containers in its own way.
MapTracksQueue ==
    \A n \in Number : map[n] # None =>
        status[map[n]] = "queued" /\ cmd[map[n]].num = n

\* With several commands of one number in the queue, the map never holds one while
\* a younger one waits: an acknowledgment does not retire an older one in its place.
\* And the youngest is the one it holds, from addCommand until its number is
\* acknowledged or another command of the number leaves the queue.  From then on
\* the map holds none: getNextCommand and the giving up erase by the number, so an
\* older command takes the entry of the youngest with it.
TrackedIsNewest ==
    /\ \A n \in Number : map[n] # None =>
           \A f \in Queue : cmd[f].num = n => life[map[n]] <= life[f]
    /\ \A e \in Queue :
           (\A f \in Queue \ {e} : cmd[f].num = cmd[e].num => life[e] < life[f])
               => map[cmd[e].num] = IF forgotten[e] THEN None ELSE e

\* workerThreadFunc gives a command up only after maxRetries retransmissions, and
\* never before (maxRetries + 1) timeouts have passed since it was added.
GivenUpAfterLifetime ==
    \A e \in Entry : status[e] = "dropped" =>
        retry[e] = MaxRetries /\ life[e] = Lifetime

\* start() assigns a new thread only when the previous worker has been joined,
\* through any number of restarts, by whichever thread, and wherever the worker was:
\* the assignment to a joinable std::thread would end the program.  It holds as long
\* as no start() or stop() is called during another one: stop() releases the lock
\* before it joins, so a start() in between finds the flag cleared and the thread not
\* joined, and a stop() between the two halves of start() finds no thread to join.
RestartSafe == \A o \in Owner : owner[o] = "spawning" => worker = "none" \/ overlapped

\* A command is added that goes ahead of e, which is queued.
Overtakes(e) ==
    /\ e \in Queue
    /\ \E f \in Entry : f \notin Queue /\ f \in Queue' /\ cmd'[f].prio > cmd[e].prio

\* A queued command does not stay in the queue of a running worker, although this
\* looks at the top only: whatever is queued ahead of it, it is taken, or retransmitted
\* until it is given up.  The exception is a stream of commands of higher priority
\* that never ends; behind it a command may wait for ever.
EveryCommandLeaves ==
    \A e \in Entry :
        \/ []<><<Overtakes(e)>>_vars
        \/ status[e] = "queued" ~> (status[e] # "queued" \/ ~ running \/ crashed)

\* stop() returns: the worker, wherever it waits, sees the flag and exits.
WorkerJoined ==
    \A o \in Owner : owner[o] \in {"notifying", "joining"} ~> (owner[o] = "idle" \/ crashed)

\* The worker holds the mutex from turn to turn of its loop, and gives it up all the
\* same whatever is queued: addCommand, getNextCommand and isQueueEmpty get in.
LockReleased == worker = "holding" ~> (worker # "holding" \/ crashed)

\* Seen from outside, a command leaves the queue once for each time it was added,
\* however the worker, the acknowledgments and getNextCommand alternate.
Promise == INSTANCE CommandQueue
ImplementsQueue == Promise!Spec

\* CommandManager.cpp:57 says of an acknowledged command that "it remains in the
\* priority queue, but will be skipped in the worker thread": the worker does not
\* send a command that the map no longer holds.
AcknowledgedIsSkipped ==
    [][\A e \in Entry : retry'[e] > retry[e] => map[cmd[e].num] = e]_vars
=============================================================================
