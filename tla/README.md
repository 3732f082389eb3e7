# NovaLink in TLA+

NovaLink (namespace `RocketLink`) is a C++ library for the link between a ground
station and a rocket. A ground program hands commands to a facade; threads frame
them, give them to a radio, retransmit what is not acknowledged, and store the
telemetry that comes back. This directory holds TLA+ specifications of it, the TLC
instances that check them, and proofs that hold for every value of the constants.

Paths below are relative to `src/src/` of the repository unless they start with
`README.md`.

## 1. The system

| Component | State | Operations | Talks to |
|---|---|---|---|
| `Core::RocketLink` (`RocketLink.*`) | `isRunning`, two threads, `callbackMutex`, `sendMutex` with its condition variable, `userCallbacks` | `initialize`, destructor, `sendCommand`, `registerCallbacks`, `getTelemetry`, `sendLoop`, `receiveLoop` | owns all others; called by users' threads |
| `AVC::CommandManager` (`Management/CommandManager.*`) | priority queue, map from command number to command, worker thread | `addCommand`, `handleAcknowledgment`, `getNextCommand`, `isQueueEmpty`, `start`, `stop`, worker | worker calls `AVCProtocol::sendCommand`; facade adds and takes |
| `AVC::AVCProtocol` (`AVC/AVCProtocol.*`) | table of unacknowledged commands, retransmission thread | `sendCommand`, `sendTelemetry`, `onDataReceived` and the descriptor handlers, retransmission, `start`, `stop` | `Communicator::send` |
| `SCALPEL::Communicator` (`SCALPEL/Communicator.*`) | send queue, two threads | `send`, `start`, `stop`, both thread functions | device, receive callback |
| SCALPEL codecs (`SCALPEL/{Checksum,COBS,Packet}.*`) | none | CRC-8, 2-bit checksum, COBS encode/decode, `assemble`, `disassemble` | used by protocol and radios |
| AVC codecs (`AVC/{Command,Telemetry}.*`) | none | `encode`, `decode` | used by protocol |
| `Management::TelemetryBuffer` | ring of records, `head`, `count` | `addTelemetry`, four reads | receive loop writes, users read |
| Radio drivers (`PhysicalLayer/*`) | packet queue, status counters, read thread | `initialize`, `configure`, destructor, `sendPacket`, `receivePacket`, `getStatus`, `readLoop`, `processFrame` | serial port; called by the facade's loops |
| `API::Callbacks` | three functions under one mutex | `set*`, `invoke*` | receive loop invokes |
| `Diagnostics` | counters and metrics | `packet*`, `record*`, `get*` | receive loop counts |
| `Utils/MemoryPool` | free list, counter | `allocate`, `deallocate`, `reset` | nothing in the library |
| `Utils/Logger` | level, outputs | `log` | everyone |

How they interact, as shipped:

* `RocketLink::sendCommand` adds to the command manager and notifies the send
  thread. **Two** threads then compete for the queue: the facade's `sendLoop`
  takes commands out with `getNextCommand`, and the manager's own worker sends the
  top of the queue through `AVCProtocol`, counts the retry and puts it back, until
  it gives it up. A command may therefore go out both ways; neither path waits for
  the other.
* `AVCProtocol::sendCommand` frames a command, pushes it into the communicator and
  stores it for its retransmission thread.
* `AVCProtocol::onDataReceived` has no caller, and is private: the communicator of
  `RocketLink` is made with a lambda that ignores its data, and `RocketLink` itself
  receives from the radio, whose packets go to the placeholder `decodeTelemetry`. The
  receive half of the protocol is therefore complete but not connected.
  `AVCProtocol` models its acknowledgment handler as it will run once frames reach
  it; what the module shows with acknowledgments is about that code, and what it
  shows without any (they may all be lost) about the library as it is wired now.
  `CommandManager::handleAcknowledgment` is public.

* A radio driver has a read thread of its own, which parses what comes from the
  modem and queues packets for `receivePacket`. The RFD900 is set up by commands
  and replies on the same port; `configure`, called while the thread runs, reads
  the port beside it.

What is hard: seven threads besides those of the user; five condition variables,
four of them notified without their mutex somewhere, the fifth (the radio's) waited
on without a predicate; a serial port that two threads read; state kept twice (queue and
map; table and copies to resend); commands told apart by a number that several
share; timeouts and retries; exceptions of the radio and of user callbacks; and
byte-level framing over a link that damages what it carries. `PROJECT.json` lists
the hazards line by line, with the property that covers each.

What makes each component correct:

* CommandManager: the map holds queued commands only, and the newest of a number until
  the number is erased; nothing is given up early; everything leaves in the end; the
  mutex is let go of; stop and restart are safe. From outside: a command leaves the
  queue once for each time it was added.
* AVCProtocol: transmissions are bounded; a timeout comes after all tries; each
  stored command is resolved; `stop()` gets past its join.
* Communicator: a FIFO channel; no lost wakeup; silence after `stop()`.
* TelemetryBuffer: the log of the last `capacity` records.
* Codecs: what is sent arrives; what is damaged is rejected.
* Radio drivers: packets are received in order and once, whatever the reads split and
  the line loses; the counters agree with what happened; a waiting receiver is told
  of each packet; dialogues with the modem and the destructor return.
* RocketLink: nothing is sent twice, callbacks that were replaced are not run, neither
  loop survives the destructor, packets are accounted for, the mutex is released.

## 2. Modules

| Module | Models | Stands on |
|---|---|---|
| `CommandQueue` | what users of the command manager rely on (abstract) | |
| `CommandManager`, `MCCommandManager` | `Management/CommandManager.*` | implements `CommandQueue` |
| `CommandManagerProofs` | its theorems | |
| `TelemetryLog` | bounded log (abstract) | |
| `TelemetryBuffer` | `Management/TelemetryBuffer.*` | implements `TelemetryLog` |
| `TelemetryBufferProofs` | its theorems | |
| `AVCProtocol`, `MCAVCProtocol` | acknowledgment tracking of `AVC/AVCProtocol.*` | |
| `AVCProtocolProofs` | its theorems | |
| `FifoChannel` | FIFO channel (abstract) | |
| `Communicator` | `SCALPEL/Communicator.*` | implements `FifoChannel` |
| `CommunicatorProofs` | its theorems | |
| `RadioChannel` | a link that loses packets but keeps their order (abstract) | |
| `RadioDriver` | threads and state of `PhysicalLayer/{RFD900,XBeePro900HP}.*` | implements `RadioChannel` |
| `RadioDriverProofs` | its theorems | |
| `Scalpel` | the SCALPEL codecs, as operators | |
| `ScalpelProofs` | theorems about them | |
| `AVCFrame` | the AVC codecs and the protocol's framing | extends `Scalpel` |
| `RadioFrames` | the bytes of `PhysicalLayer/*`: MAVLink and API frames and their parsers | extends `Scalpel` |
| `Link`, `MCLink` | one transmission over a noisy link, by any of the library's framings | extends `AVCFrame`, `RadioFrames` |
| `LinkProofs` | theorems about it, `AVCFrame` and `RadioFrames` | extends `ScalpelProofs` |
| `RocketLink` | the facade and its threads | instantiates `CommandQueue` |
| `RocketLinkProofs` | its theorems | |

`map` in `PROJECT.json` names the lines of each definition.

### Correspondence

*Granularity.* A critical section is one action; where the code gives a mutex up,
reads an atomic flag outside one, or works without one, the action ends. A wait on
a condition variable is three steps (test of the predicate with the mutex held,
block, wake), because a notification made without the mutex can fall between the
first two. `signalled` records that a notification reached the thread in its wait;
a wait may also end spuriously, by an action of its own that no fairness
condition mentions. The radio drivers notify with the mutex held, so that there the
test and the block are one step.

*Time.* Clocks are ages that `Tick` advances and that saturate at a bound
(`MaxAge`): the code compares only an age with an interval and two ages with each
other.

*CommandManager.* `status` is where an entry is (queue, handed out, given up),
`map` is `pendingCommandsMap`, `worker`, `sleep` and `signalled` are the thread,
`owner` the progress of each thread that calls start or stop. An entry that has left
the queue is made anew by a later `addCommand`, so that the calls are not bounded.
`start` releases the mutex before it makes the thread, `stop` before it joins, and the
model lets any other thread in between; `SpawnOverThread` is the assignment over a
joinable `std::thread`, which ends the program. `IsTop` is any maximum of `Before`, the
comparison of the priority queue, since the order of equal elements is unspecified.
`WorkerCrash` is an exception of `sendCommand`, which nothing catches.
`getNextCommand` erases the map entry by number, the worker by number too: the
operators `Track` and `Untrack` are these two ways of keeping the containers
together. Erasing by number means that a command that is given up, or taken, takes the
map entry of a newer one of its number with it; `forgotten` records for each queued
command whether that, or an acknowledgment, has happened, and `TrackedIsNewest` says
that the newest has its entry exactly when it has not.

*AVCProtocol.* `SendFrame` and `StorePending` are the two halves of `sendCommand`;
`HandleAcknowledgment` may occur for any frame that was sent, at any time, any
number of times: that is the lossy, duplicating, delaying link. The handler's
iteration is `ReadClock`, `Collect` (under the lock), one `Resend` for each copy,
`CheckStopped`, `Block`, `Wake`. `start` and `stop` test and set an atomic flag without
a lock, so each of their accesses is an action and several threads may be in them; their
last ones start and stop the communicator (`communicating`). The latter may hang
(`communicator_stop`), so nothing is assumed of it: `HandlerJoined` is about `stop` up
to there, and no property says that `stop` returns.

*Communicator.* `SendPush` and `SendNotify` are `send`; the send thread tests,
blocks, wakes, pops, writes and locks again.

*Scalpel, AVCFrame, RadioFrames, Link.* Codecs are operators over sequences of bytes
whose value is a set: a singleton, or `{}` for a thrown exception. They keep the width
of the code (`% 256`, 16-bit signed words, 16-bit CRC). `CalculateCRC8` and `CRC16` use
the table of the shift register that the code runs bit by bit. The loops of the code are
recursive functions on positions of the input; `Xor` is the operator `^` of the code as a
table, made bit by bit, and the coding of the input by COBS keeps the state of the loop
(`Opened`, `Put`, `Close`). `RadioFrames` has what
each driver writes (`MAVLinkFrame`, `TransmitRequest`) and what each makes of the bytes
it reads (`ProcessFrame` of one read; of the stream, the frames that `readLoop` delimits,
`ReadFrames`, and the packets that come out of them, `PacketsRead`). `Received` and
`Escaped` are the XBee modem of the peer, external. It is modelled from what the
repository says of it: the layout of a received frame, with its byte of options, from the
comment at `PhysicalLayer/XBeePro900HP.cpp:245`, and the escaping of API mode 2 from the
comment at line 38. The frame that asks for that mode is an AT command `My` with a wrong
checksum, so that the modem may as well ignore it: `SendXBee` has both, escaped and not.
The sender's modem is taken to understand the request as it is written. `Link` sends one content by
one of five routes (the packet alone, either radio, the protocol's frame, and a
retransmission, which has none) and lets the link invert bits and lose bytes.

*RadioDriver.* One module for both drivers: they share the read thread's loop, the
queue, the timed wait, the counters and the destructor; `driver` tells them apart
where they differ, in reading (`ReadSome` against `ReadStart` and `ReadBody`) and in
setting up. The bytes are `RadioFrames`' matter. Here a packet is two tokens, the half
with the start byte and the rest, so that a read may end between them, and a half may
be lost or spoilt; a reply of the modem is a token, and so is noise. `Ask`, `ReadUntil`
and `Refused` are the dialogue of `sendCommand`, which may run while the read thread
takes from the same `input`: `stolen` records that the thread got a reply. The modem of
the XBee also reports on itself, in whole frames of other types (`ModemReports`), which
`processFrame` drops and no counter shows (`ParseOther`). `configure`
holds `statusMutex` throughout, a `receivePacket` that counts holds `queueMutex`
(`StatusFree`, `QueueFree`); other critical sections are single actions. `Timeout` may
come although a notification has: `missed` counts those. `RadioChannel` has the packets on the air as
a set, of which the channel may lose or receive those above what it has received.

*RocketLink.* `caller`, `sender`, `receiver` and `owner` are the threads'
positions. The command manager is `CommandQueue`, which `CommandManager` is proved
to implement, with `Drop` for whatever its worker gives up, and `managerBusy` for its
mutex, which the worker holds from turn to turn of its loop: `sendCommand` waits for it
with `callbackMutex` held, `sendLoop` in the predicate of its wait. `sendMutex` is taken
by one thread only and so orders nothing, which is the reason why a notification can be
lost. The radio is the interface `IRadioModule`, external here: it succeeds, throws or
returns nothing. Both loops catch `std::exception`; an exception of another type, from
the radio or from a user's callback, ends the program (`Uncaught`).

## 3. Runs

| Run | Instance | Shows |
|---|---|---|
| `command_manager` | 2 entries, 2 numbers, 3 kinds of command, 1 retry, 2 threads that start and stop | all properties of the class; 165,380 states |
| `command_manager_ack` | 1 entry | *violated*: an acknowledged command is still retransmitted |
| `telemetry_buffer` | capacity 3, 3 kinds of record | the ring is the log |
| `avc_protocol` | 2 commands of one number, 1 retry, lag 1, 2 threads that start and stop | tracking and retransmission; 276,808 states |
| `communicator` | 3 frames, 2 senders | FIFO, no lost wakeup of `send`, silence after `stop` |
| `communicator_stop` | 1 frame, 1 sender | *violated*: `stop()` can hang |
| `link` | contents up to 3 bytes over {0, 1, 170}, contents of all 28 bytes with every border of two values, commands and telemetry; two values of the XBee's options; five routes; up to two alterations | the codecs and the radios' frames over a noisy link; 275,973 states |
| `link_frames` | commands and telemetry | *violated*: the protocol drops its own frames |
| `link_xbee` | the same | *violated*: the XBee driver drops what its modem hands over in the layout that its own comment gives |
| `rocketlink` | 2 commands, 2 clients, 2 packets | safety of the facade, release of its mutex, end of its receive thread; 195,706 states |
| `rocketlink_send` | 1 command, 1 client, a radio that works | *violated*: a wakeup of `sendCommand` is lost |
| `radio` | 2 packets, 2 clients, dialogues of 2 and 1 commands, 2 calls of `initialize` or `configure`, 1 send, 1 fault | order, statistics, notification and termination of both radio drivers; 327,688 states |

The violations are disagreements between the code and its own documentation or
comments; `findings` in `PROJECT.json` quotes both.

### Bounds, and why they are enough

* `command_manager`: entries interact in pairs (order in the queue, shared
  numbers). Two entries, of one number or two, at two priorities, give each of
  those pairs, and as an entry is made anew once it has left, later commands meet
  earlier ones without end. `MaxRetries = 1` has a command with retries left and one
  without, `MaxAge` is above `Timeout`, so due and not due differ, and one kind of
  command makes the protocol throw. Two threads are the least whose calls of `start`
  and `stop` overlap.
* `avc_protocol`: two commands of *one* number is the case in which entries
  interact; different numbers are independent entries of a map. `MaxLag` is the
  time the handler may lose between reading the clock and taking the lock. Two threads
  start and stop it.
* `communicator`: three frames are the least that let one be written, one queued
  and one on the way in; two callers race their pushes and notifications.
* `telemetry_buffer`: three slots filled and wrapped around; the model is finite
  without a bound on the number of records, since the state is the ring itself.
  `MaxIndex` is above the capacity. The theorem lifts the bounds.
* `link`: the special values are 0 (an illegal code byte), 1 (a code byte) and 170
  (the start byte). All contents of up to three bytes over these, and at full
  length each position of a border, let stuffing begin, end, and repeat at each
  place. Every bit of every packet is inverted and every byte lost. Two
  alterations are allowed for packets of short contents, one otherwise, and none for
  a radio's frame around a long content, whose packet has been altered by itself
  (`MCMaxDamage`); **beyond that bound nothing is claimed**: a CRC of 8 bits cannot
  catch everything. The commands have the number 101 and, one of them, 170, with the
  payload for which the loss of a byte makes a retransmission look like a packet.
  `FramesRecovered` and `FramesDelimited` put a frame of every content behind a part of
  itself and before a second frame and the beginning of a third.
* `radio`: two packets are the least that can change their order or be confused with
  each other's halves, two clients the least that race for a packet and for a
  notification. Two commands of `initialize` have a first, which alone can be refused,
  and a last; two calls let a `configure` run beside the read thread, and a second
  `initialize` meet a running thread (`terminated`). One fault at any place: two would
  lose both packets. For safety the theorems lift all of these bounds.
* `rocketlink`: two clients contend for the mutex, two commands let one be on the
  air while the other is added, two packets let one callback follow another.

### Fairness, and why it is justified

Each thread of the library runs if it can (`WF` on its steps): the operating system
schedules it. Time passes (`WF` on `Tick`). A `start`, `stop` or `send` in progress
goes on. A wait that was notified or has timed out ends. Nothing obliges a user to
call anything, a link to deliver anything, or a wait to end spuriously; the lost
wakeups above would disappear if spurious wakeups were fair, which no implementation
promises.

In `CommandManager` a `start` or `stop` in progress goes on, in each thread. In
`AVCProtocol` it does up to the call of `communicator->stop()`. `EveryCommandLeaves`
excepts the schedule in which commands of higher priority are added for ever: the worker
looks at the top of the queue only, and a stream of those starves the rest.

In `RocketLink`, user callbacks return, or throw. The manager's worker is fair in giving
its mutex up (`LockReleased` of `CommandManager`), and then sleeps until a timeout or a
notification, far longer than a thread needs to take a free mutex; therefore a client
inside `sendCommand` and the send thread, which wait for it, have strong fairness: if
the mutex is free again and again they get it. Nothing obliges the worker to give a
command up; `rocketlink_send` forbids it (`GivesUp`), to look at the time before.
`Communicator.cfg` does not check deadlock: the model can stop in the real
deadlock that `communicator_stop` finds.

In `RadioDriver` the read thread, the dialogue and the destructor's join go on, the
modem answers a command it was given, a wait of `receivePacket` ends after 100 ms, and
its callers, the facade's receive loop among them, call it again. No peer has to send
anything and no fault has to happen. The temporal properties name the cases in which
the code does block: a `configure` whose reply the read thread has taken waits for ever
with `statusMutex` held (`Hung`, `stolen`), and the destructor's join cannot end a
synchronous read on a silent line. `RadioDriver.cfg` does not check deadlock for these
two reasons, and because the object may be closed for good.

## 4. Proofs

Assumptions are the named `ASSUME`s of the modules; TLC evaluates them in the runs.
A proof module also states safety facts that no run checks, most of them what a liveness
property rests on besides fairness (`NoWakeupLost`, `MutexOwned`, `RepliesOnTheirWay`).
Each was checked by TLC on the instance of its component's run before it was proved.

**`CommandManagerProofs`**, for every set of entries and commands and all timings:

* `TypeCorrect`: the type invariant.
* `NewestTracked`, `GivenUpLate`, `RestartIsSafe`: the safety properties of the run.
* `MapCorrect`: what the map holds is queued, and under its own number.
* `QueueImplemented`: `Spec` implements `CommandQueue`; each step of the manager
  adds, takes or drops one entry or stutters.
* `WorkerWoken`: `addCommand` and `stop()` lose no wakeup of the worker, the latter
  although it notifies after it has released the mutex.
* `StopHasWorker`: a started manager has its worker, and `stop()` joins one that exists
  and will see the flag.

`RestartIsSafe` and `StopHasWorker` hold for any set of threads that call `start()` and
`stop()`, as long as none of these calls was made during another one. The condition
(`overlapped`) is needed: with two owners TLC finds a `start()` between the two halves of
a `stop()` that assigns over the worker. `README.md:73-74` of the repository promises
"Thread-Safe Operations" of "access to shared resources"; neither class says that it may
be started and stopped by several threads at once, so this is stated as a limit and not
as a finding.

The properties are not inductive by themselves. `Inv` adds `RetriesTookTime`: an entry
with *r* retries has been queued for at least *r* timeouts and for its age more, which is
what makes the last retry late enough. `RestartSafe` follows from `WorkerLives`, which
says where the worker can be at each position of the one `start()` or `stop()` that is in
progress. Each conjunct has a lemma with one step per action that can disturb it, and
`QuietSteps` deals at once with all those that leave the entries alone. `NoWakeupLost`
and `WorkerLives` are inductive with the types: the worker tests what it waits for and blocks in one critical
section, and `addCommand` and `stop()` change it inside theirs, so that a worker that
waits is either notified or has somebody who is about to notify it.

**`TelemetryBufferProofs`**, for every capacity, record set and index:

* `TypeCorrect`, and `Refinement`: the ring implements the log. The argument is
  arithmetic modulo the capacity after at most one turn (`WrapOnce`); adding to a
  ring that is not full appends, adding to a full one drops the oldest.

**`AVCProtocolProofs`**, for every set of calls and numbers, every `maxRetries`,
`retryInterval` and delay of the retransmission thread:

* `TypeCorrect`, `Bounded`, `TimedOutLate`: the safety properties of the run.
* `TableCorrect`: the table holds each command under its own number, and none that
  has timed out.
* `RetiredStaysRetired`: a command that was answered, replaced or given up is never
  sent again and never back in the table. This begins when no copy of it is in the
  retransmission thread's hand: an acknowledgment that arrives between the two locks
  of an iteration does not stop the transmission of the second.
* `StopHasHandler`: as long as no two calls of `start()` and `stop()` overlap, whichever
  threads make them, `start()` never assigns over a thread that has not been joined,
  `stop()` joins one that exists and will see the flag, and the communicator is open only
  while the protocol is. `Quiet`: from the return of
  `stop()` to the next `start()` nothing is retransmitted, whatever the table holds.

The bound on transmissions is about `sent`, while the code bounds `retryCount`, in
another place and at another time. `SentCounted` relates them: a command has gone
out once and once more for each retry, except the one whose copy is still to be
sent. It needs `HandlerOwned` (copies live within one iteration, and a new thread
starts without any) and `TableSound` (only stored commands are retried).
`RetriesTookTime` says that *r* retries and an age took as much time in the table.
A step of `Collect` keeps it because elapsed time is measured from the clock
reading, before the lock, and the new timestamp is that reading too: `lag` cancels.

**`RocketLinkProofs`**, for every set of clients, commands and callback objects, any
number of packets, and every behaviour of the radio:

* `TypeCorrect`, `NeverTwice`, `OnlyRegisteredInvoked`, `PacketsCounted`: the safety
  properties of the run.
* `LoopsJoined`: when the body of the destructor has returned, `sendThread` and
  `receiveThread` have ended. It says nothing of the other threads: those of the manager,
  the protocol and the communicator are left to the destructors of these objects, the
  radio's to whoever shares the radio.
* `MutexHeldAndLeft`: `callbackMutex` is held at two lines of `sendCommand` and while a
  callback runs, and at no other position of any thread, whatever `std::exception` a
  callback throws. Of its holders a client may wait for the manager's mutex, which the
  worker lets go of; the receive thread waits for no lock of the library.
* `LoopsStayAlive`: no `std::exception` of the radio or of a callback ends a loop (any
  other exception ends the program), and the destructor joins threads that exist.
* `MissedInWindow`: the wakeups of `sendCommand` and of the destructor are missed in one
  step only, the send thread's block after it tested its predicate. What the run
  `rocketlink_send` finds has no other cause, and nor has a destructor that hangs there.

The strengthening is `MutexOwned` (which positions of which thread hold
`callbackMutex`, and what runs then), `OnTheWay` (a command that was or is about to
be transmitted has left the queue), `PacketsInHand` (what has been counted of the
packet in hand, at each line of `receiveLoop`) and `ThreadsOwned` (threads are made
and joined in order). The facade is proved against `CommandQueue`, which
`QueueImplemented` justifies; `Moves` is all that is used of it.

**`CommunicatorProofs`**, for every set of frames and of threads that send:

* `TypeCorrect`, and `Quiet`: nothing is written after `stop()` has returned.
* `ChannelImplemented`: `Spec` implements `FifoChannel`; a push accepts, a write
  delivers, a pop moves a frame from the queue to the send thread's hand, which
  together are the channel.

* `SendWakesSender`: `send` loses no wakeup, although it notifies after it has released
  `sendMutex`. `StopMissedInWindow`: the send thread misses the wakeup of `stop()`, which
  takes no mutex, only by blocking after it tested the flag, so that the deadlock that
  `communicator_stop` finds has no other cause.

`ThreadsOwned` is added: threads exist from `start()` until `stop()` has joined them.
`NoWakeupLost` says why a push is not missed and `stop()` can be: on its way to block the
send thread holds the mutex that a push needs, and the queue is empty.

**`RadioDriverProofs`**, for every set of clients, any number of packets, sends, calls
and faults, and dialogues of any length:

* `TypeCorrect`, `Accounted`, `EveryPacketAnnounced`: the three invariants of the run.
  `Accounted` counts frames of packets and frames whose check fails; the XBee's frames of
  other types are in none of its sums.
* `InOrder`: what `receivePacket` has returned is strictly ascending in the peer's
  numbering, so that nothing is repeated or overtaken.
* `ChannelImplemented`: `Spec` implements `RadioChannel`.
* `OnlyTheftHangs`: a dialogue of the RFD900 waits for ever only when the read thread
  has taken its reply; the first `initialize`, before there is one, never does.

`Accounted` and `EveryPacketAnnounced` are inductive with `TypeOK`: each equation has a
lemma per actor, and the "leaves" lemmas deal with the actors that do not touch it.
`InOrder` needs the whole path of a packet. `StreamOrdered` says that the tokens not yet
parsed ascend; what can happen to them is one of three things (a token arrives, some
are dropped, the parser takes a frame), and each keeps it. `Passed` says that whatever
is still to be parsed lies behind what is queued or delivered, `QueueOrdered` the same
between queue and deliveries. `ChannelImplemented` adds that a packet is on its way if it
is queued, or if both its halves are still to be parsed (`OnTheWay`): each step of the
driver then sends, loses any number of packets, delivers the oldest, or stutters. That the
oldest is delivered is `OrderInv` once more; that a packet queued by the parser was on its
way needs the two halves, which `StreamOrdered` puts beside each other. `OnlyTheftHangs`
follows the replies (`RepliesOnTheirWay`): a reply that is waited for is owed by the modem
or lies in the port, and a read that cuts the port in two leaves it on one side of the cut
(`HeldBehind`), the dialogue's, the remaining input's, or the read thread's.

**`ScalpelProofs`**, for payloads of every content:

* `COBSRoundTrip`: for an input of at most 168 bytes `COBS::encode` does not throw, adds
  one byte, leaves no start byte, and `decode` returns the input. (169 bytes without a
  start byte have 170, the start byte, as their code, and encode throws.)
* `PacketRoundTrip`: for a payload of at most 28 bytes `assemble` makes a packet that
  is five bytes longer, in which only the first byte, and by chance the checksum, is a
  start byte, and `disassemble` returns the payload.
* `InvertedBitRejected`, `LostByteRejected`: from a packet with one bit inverted, or one
  byte lost, wherever it is, `disassemble` returns nothing.

The loop of `encode` has the invariant `Encoding`: what is closed stands for the input up
to the last start byte (`Stuffed`), and the open run is the rest. It is carried along the
input position by position, and then the loop of `decode` backwards from the end
(`StandsFor`). `ChecksumSteps` and `CRC8Steps` say what the recursive functions of the
checksums are; as nobody but the code's loops promises that a function with such an equation
exists, `LeftExists` and `RightExists` construct it first.

An inverted bit changes the number of bits set by one (`BitInverted`), and the total modulo
256 with it, so that the 2-bit checksums of the length (`LengthInverted`) and of the encoded
bytes (`ChecksumInverted`) notice it; a COBS byte that passes has another index, which
`decode` finds at most one of (`OneIndex`). A byte lost behind the length byte leaves *n*
encoded bytes for a payload of *n*, of which *n* - 1 are decoded (`DecodedLength`). The
length byte is the hard one: its loss puts the COBS byte in its place and the first code
in that of the COBS byte, and the two checksums can agree by chance. `NoneMistaken` follows
what the encoding then looks like: what is left has to be one block, the payload one byte
and start bytes, and of the lengths only 15, 23 and 27 remain, for which the CRC-8s of what
was sent and of what would be found are computed and differ (`CRCsDiffer`).

**`LinkProofs`**, for every set of payloads, commands and telemetry whose fields have the
widths of the code's types (`PayloadAssumption`, `CommandAssumption`,
`TelemetryAssumption`), and any number of alterations (`DamageAssumption`):

* `LinkTypeCorrect`: whatever the link does, what is under way and what is received are
  bytes.
* `PacketsDelivered`, `StuffingSucceeds`, `CommandsDelivered`, `TelemetryDelivered`,
  `FramesFound`, `FramesRead`, `DamageNoticed`: seven of the safety properties of the run.
  The first is about bare packets and the RFD900, `FramesFound` about the RFD900's frames;
  of the XBee `FramesRead` says that `readLoop` hands the frames of the modem, unescaped,
  to `processFrame` whole and in their order. That no packet comes out of them there is
  what `link_xbee` finds.
* `OnceAlteredNotMisread`: `NothingMisread` for every payload and each of the routes but
  the XBee's, as long as the link has altered at most one bit or byte. A retransmission of
  a command numbered 170, the start byte, is excepted in the property itself.
* `AlteredFramesDropped`: of a frame of `AVCProtocol` that was altered once nothing is
  found. `ResentNotHandled`: whatever is made of a retransmission, altered once or not and
  whatever its number, no handler is called with it.
* `OwnFramesIgnored`: undisturbed, `onDataReceived` takes in nothing that `sendCommand`,
  `sendTelemetry` or the retransmission thread sends, for all commands and telemetry: what
  the run `link_frames` finds for one command.
* `CommandRoundTrip`, `TelemetryRoundTrip`, `FrameProcessed`: the codecs and the frame of
  the RFD900 by themselves.

`PacketsArrive` speaks of what has been received, so `LinkInv` says the same of what is
under way: as long as nothing has been altered, the receiver of its route would find the
payload, and nothing else, in the bytes (`Undisturbed`). A send establishes it by
`PacketRoundTrip` and the layout of the frame (`MAVLinkLayout`), a receive uses it, an
alteration ends it. Commands and telemetry need their own round trips
too (`CommandRoundTrip`, `TelemetryRoundTrip`). The parsers are loops that find a frame,
take it and go on behind it (`IsLoop`); `FramesFound` and `FramesRead` follow them over a
row of frames (`ProcessNext`, `ReadNext`). For `DamageNoticed` the invariant `Rejected` is added: what is
under way on the route of bare packets is what `assemble` made, and once altered something
that `disassemble` rejects.

For one alteration the invariant is `OnceAltered`: what is under way is what was sent by
its route (`IsSentBy`), or, altered once, bytes in which the receiver finds only what that
route allows (`OnlyWhatWasSent`). Each route has its own reason, for an inverted bit and for
a lost byte:

* A bare packet is rejected by its checksums (`InvertedBitRejected`, `LostByteRejected`).
* In a MAVLink frame no start byte is left where another packet could begin (`NoStart`,
  `ProcessFindsNone`), and a packet that the frame's length cuts off is rejected by its own
  length byte (`CutRejected`). The frame's checksum is not looked at: a bit inverted there
  is not noticed and the payload arrives, which is why this route allows it.
* A frame of `AVCProtocol` is decoded for index 0, which makes its first block one byte long
  (`FrameShape`), and as COBS left no start byte in it no packet begins behind that
  (`NoBlock`, `NoPacketInside`). Damaged or not, it is not taken in.
* A retransmission has no checksum. Only the number of its command can be in the place of
  a start byte, when a byte in front of it is lost (`ResentShortened`), and what can then be
  found is at most one byte long, too short for the descriptor that a handler is chosen by
  (`ResentUnhandled`). This does happen: of command 170 from 8 to 0 with the payload
  0 2 7 21 241, byte 2 lost, `onDataReceived` makes the payload 7.

Model-checked only:

* Liveness: the prover has neither fairness nor `ENABLED`. What these properties need
  besides fairness is proved: that `EveryFrameWritten` has its wakeups (`SendWakesSender`),
  `EveryCommandLeaves` and `WorkerJoined` theirs and a worker (`WorkerWoken`,
  `StopHasWorker`), `HandlerJoined` its thread (`StopHasHandler`), `MutexReleased` a holder
  that goes on (`MutexHeldAndLeft`), the facade's `ReceiverJoined` a loop that sees the
  flag (`LoopsStayAlive`), and `DialogueEnds` its reply (`OnlyTheftHangs`). `LockReleased`,
  `PendingResolved`, and `PacketsDelivered` and `JoinReturns` of `RadioDriver`, are left to
  TLC altogether.
* `NothingMisread` of `Link` on the route of the XBee.
* `NothingMisread` of `Link` for two alterations of short contents, within the bounds of
  the run. Beyond them it need not hold: a CRC of 8 bits has collisions.

No theorem is an induction by the library's schemata, which take an operator as a
parameter. Where a proof goes through the elements of a sequence it takes the least
position at which the claim fails (`Least`, `Upward`, `Downward`).

## 5. Not modelled

* Logger: output only.
* Getters and setters, and the descriptor handlers of `AVCProtocol` that print.
* `encodeCommand` and `decodeTelemetry`, which return blank values: the facade's
  model therefore has no data in its packets. (`sendLoop` passes the assembled bytes of a
  packet where a packet is expected, `RocketLink.cpp:140`, so that what is transmitted is
  a packet around an assembled empty packet. No property depends on it.)
* A user callback that calls back into `RocketLink` or into its `Callbacks` object
  locks a `std::mutex` its thread holds, which is undefined; and the caller that
  destroys an object in use.
* Priorities through the facade: `Command::priority` is never set there and so
  always 0.
* `Utils/MemoryPool`: nothing in the library uses it. Its constructor runs `~T()` on
  raw memory, and `reset()` locks a `std::mutex` its thread holds: both are undefined
  before any property of the pool could be stated. They are listed as hazards.
* Of the radio drivers: `currentConfig` and `isInitialized`, which nothing reads, and
  with them the XBee's `configure`, which sets only these; `parseTelemetry`, which
  nothing calls; a half of a frame that holds another start byte or the end of a line,
  in `RadioDriver` (`RadioFrames` has the bytes).
* Serial ports and modems: external.

Some facts show by reading and need no run:

* `RFD900::initialize` compares what `getline` returns with `"OK"`, but `getline` leaves
  the `"\r"` of a line that ends with CR LF, for which `sendCommand` waits: the reply
  `"OK\r\n"` is refused (`Refused`; the model allows a modem that passes, too).
* The XBee's `apiModeFrame` is commented "Set API mode 2 (escaped)", but its bytes are the
  AT command `My`, with a checksum that does not match. Nothing the driver writes is
  escaped, and nothing it reads unescaped (`XBeePro900HP.cpp:38-39, 107-144`).
* `AVCProtocol::sendCommand` hands the frame over (line 62) before it stores the command
  (line 71). An acknowledgment handled in between would find nothing, and the command would
  be resent and time out; but as shipped no acknowledgment can be handled at all.
* `AVCProtocol::stop()` ends with `communicator->stop()` (line 39), which may hang
  (`communicator_stop`), and with it the destructor.
* The facade's `ReceiverJoined` takes `receivePacket` to return. While a `configure` of the
  RFD900 hangs with `statusMutex` held (`Hung` of `RadioDriver`), a `receivePacket` that has
  a packet does not.
* A Boost exception of the serial port in `sendCommand` is not a `RadioException`.
* `AVCProtocol` retransmits the encoded command without packet or frame (route `resend`
  of `Link`): a receiver takes none of it in (`OwnFramesIgnored`, `ResentNotHandled`). It never sends an acknowledgment itself.

## 6. Plan

What is left, in the order of importance:

1. `RadioDriver` behind `RocketLink`: the facade's radio as `RadioChannel`, so that a
   packet is followed from the port to the telemetry buffer.
2. `AVCProtocol` composed with `Communicator` through `FifoChannel`: what is on the
   wire in which order when a command is retransmitted.
