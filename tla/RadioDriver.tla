------------------------------ MODULE RadioDriver ------------------------------
(***************************************************************************)
(* The drivers of the two radios, RFD900 and XBeePro900HP                  *)
(* (src/src/PhysicalLayer): the thread that reads the serial port, the     *)
(* threads that receive and send packets, and the one that initializes,    *)
(* configures and destroys the driver.  They differ in how they read, and  *)
(* in that the RFD900 is set up by a dialogue of commands and replies on   *)
(* the port that its read thread may be reading too.                       *)
(*                                                                         *)
(* What a modem sends to the host is a sequence of tokens: each packet is  *)
(* a frame of two halves of one length, the first of which holds the start *)
(* byte, and each command is answered by a reply of that length.  Neither  *)
(* half holds another start byte or the end of a line.  The modem of the   *)
(* XBee also reports on itself, in whole frames of other types than a      *)
(* packet's.  The modem and its peer are external; the line may lose or    *)
(* spoil a half.                                                           *)
(*                                                                         *)
(* statusMutex is held over several steps only by the configure of the     *)
(* RFD900, and queueMutex only by a receivePacket that is about to count.  *)
(* Left out: currentConfig and isInitialized, which nothing in the library *)
(* reads, and so the configure of the XBee, which sets only these.         *)
(***************************************************************************)
EXTENDS Integers, Sequences, FiniteSets

CONSTANTS
    Client,             \* threads that call receivePacket
    InitializeCommands, \* commands of initialize (9 in the code)
    ConfigureCommands,  \* commands of configure (5 in the code)
    MaxPackets,         \* bound: packets of the peer
    MaxSends,           \* bound: calls of sendPacket
    MaxCalls,           \* bound: calls of initialize and configure
    MaxFaults           \* bound: halves lost or spoilt, reads and writes that fail

ASSUME CommandsAssumption == {InitializeCommands, ConfigureCommands} \subseteq Nat \ {0}
ASSUME BoundsAssumption == {MaxPackets, MaxSends, MaxCalls, MaxFaults} \subseteq Nat
ASSUME ClientAssumption == IsFiniteSet(Client)

VARIABLES
    driver,         \* "rfd900" or "xbee"
    owner,          \* progress of initialize, configure and the destructor
    calls,          \* calls of initialize and configure so far
    left,           \* commands of the dialogue still to be written
    awaiting,       \* sendCommand is in read_until
    unanswered,     \* commands the modem has yet to answer
    running,
    reader,         \* progress of readLoop
    chunk,          \* tokens it has read and not yet parsed
    input,          \* tokens the serial port has ready
    queue,          \* packetQueue
    receiver,       \* progress of receivePacket in each client
    notified,       \* waiting clients that notify_one has reached
    sender,         \* progress of sendPacket
    status,         \* currentStatus
    sent,           \* packets of the peer so far
    delivered,      \* packets popped from the queue, in order
    sends,          \* calls of sendPacket so far
    faults,
    frames,         \* auxiliary: frames parsed, of packets or with a wrong checksum
    failures,       \* auxiliary: failed reads that were counted
    missed,         \* auxiliary: clients notified of a packet that timed out
    stolen          \* auxiliary: the read thread has taken a reply of the modem

dialogueVars == <<left, awaiting, unanswered>>
ownerVars    == <<owner, calls, dialogueVars, running>>
readerVars   == <<reader, chunk, frames, failures, stolen>>
receiverVars == <<receiver, delivered, missed>>
senderVars   == <<sender, sends>>
vars == <<driver, ownerVars, readerVars, receiverVars, senderVars, input, queue,
          notified, status, sent, faults>>

Token   == (1 .. MaxPackets) \X {"head", "tail"} \cup {<<0, "reply">>, <<0, "report">>, <<0, "noise">>}
Reply   == <<0, "reply">>
Report  == <<0, "report">>
Noise   == <<0, "noise">>
IsHead(token) == token[2] = "head"

Prefix(n) == SubSeq(input, 1, n)
Rest(n)   == SubSeq(input, n + 1, Len(input))

Holds(tokens, token) == \E i \in 1 .. Len(tokens) : tokens[i] = token

Init ==
    /\ driver \in {"rfd900", "xbee"}
    /\ owner = "idle"
    /\ calls = 0
    /\ left = 0
    /\ awaiting = FALSE
    /\ unanswered = 0
    /\ running = FALSE
    /\ reader = "none"
    /\ chunk = <<>>
    /\ input = <<>>
    /\ queue = <<>>
    /\ receiver = [t \in Client |-> "idle"]
    /\ notified = {}
    /\ sender = "idle"
    /\ status = [sent |-> 0, received |-> 0, transmissionErrors |-> 0, receptionErrors |-> 0]
    /\ sent = 0
    /\ delivered = <<>>
    /\ sends = 0
    /\ faults = 0
    /\ frames = 0
    /\ failures = 0
    /\ missed = 0
    /\ stolen = FALSE

\* The object exists: users may call it, and the constructor has opened the port.
Alive == owner \notin {"joining", "closed", "terminated"}

StatusFree == owner # "configuring"
QueueFree  == \A t \in Client : receiver[t] # "counting"

Fault == faults < MaxFaults /\ faults' = faults + 1

-----------------------------------------------------------------------------
(* The modem and the line                                                  *)

Carry(tokens) ==
    /\ sent < MaxPackets
    /\ sent' = sent + 1
    /\ input' = input \o tokens
    /\ UNCHANGED <<driver, ownerVars, readerVars, receiverVars, senderVars, queue,
                   notified, status>>

\* A packet of the peer arrives ...
PeerSends ==
    /\ Carry(<<<<sent + 1, "head">>, <<sent + 1, "tail">>>>)
    /\ UNCHANGED faults

\* ... or what the link has left of it.
PeerDisturbed ==
    /\ Fault
    /\ \E half \in {<<<<sent + 1, "head">>>>, <<<<sent + 1, "tail">>>>},
          gap \in {<<>>, <<Noise>>} :
         Carry(IF half[1][2] = "head" THEN half \o gap ELSE gap \o half)

ModemReplies ==
    /\ unanswered > 0
    /\ unanswered' = unanswered - 1
    /\ input' = Append(input, Reply)
    /\ UNCHANGED <<driver, owner, calls, left, awaiting, running, readerVars, receiverVars,
                   senderVars, queue, notified, status, sent, faults>>

\* The status of a transmission, the answer to the frame of initialize, or a change
\* of the modem's own: unsolicited, and here never two at once.
ModemReports ==
    /\ driver = "xbee"
    /\ ~ Holds(input, Report)
    /\ input' = Append(input, Report)
    /\ UNCHANGED <<driver, ownerVars, readerVars, receiverVars, senderVars, queue,
                   notified, status, sent, faults>>

-----------------------------------------------------------------------------
(* initialize and configure                                                *)

OwnerStep(from, to) ==
    /\ owner = from
    /\ owner' = to
    /\ UNCHANGED <<driver, readerVars, receiverVars, senderVars, queue, notified, status, sent>>

Call(to) ==
    /\ calls < MaxCalls
    /\ calls' = calls + 1
    /\ OwnerStep("idle", to)

\* initialize of the XBee writes one frame, which may fail.
InitializeXBee ==
    /\ driver = "xbee"
    /\ Call("starting")
    /\ running' = TRUE
    /\ UNCHANGED <<dialogueVars, input, faults>>

InitializeXBeeFails ==
    /\ driver = "xbee"
    /\ Fault
    /\ Call("idle")
    /\ UNCHANGED <<dialogueVars, running, input>>

BeginDialogue(what, commands) ==
    /\ driver = "rfd900"
    /\ Call(what)
    /\ left' = commands
    /\ UNCHANGED <<awaiting, unanswered, running, input, faults>>

InitializeRFD900 == BeginDialogue("initializing", InitializeCommands)

\* configure takes statusMutex for the whole dialogue.
ConfigureRFD900 == BeginDialogue("configuring", ConfigureCommands)

InDialogue == owner \in {"initializing", "configuring"}

\* sendCommand writes a command ...
Ask ==
    /\ InDialogue
    /\ ~ awaiting
    /\ left > 0
    /\ left' = left - 1
    /\ awaiting' = TRUE
    /\ unanswered' = unanswered + 1
    /\ OwnerStep(owner, owner)
    /\ UNCHANGED <<calls, running, input, faults>>

\* Mutant: the end of a line is looked for at the end of a read.
AnsweredAtEnd(n) == input[n] = Reply

AnsweredIn(n) == Holds(Prefix(n), Reply)

\* ... and reads until the end of a line is among what it has read.  What came before
\* it, and behind it in the same read, is dropped with the streambuf.
ReadUntil(n) ==
    /\ awaiting
    /\ input' = Rest(n)
    /\ awaiting' = ~ AnsweredIn(n)
    /\ OwnerStep(owner, owner)
    /\ UNCHANGED <<calls, left, unanswered, running, faults>>

\* The first reply to initialize is not "OK": getline leaves the "\r" of "OK\r\n"
\* in the string, so that only a modem that ends its lines otherwise passes.
Refused(n) ==
    /\ owner = "initializing"
    /\ left = InitializeCommands - 1
    /\ awaiting
    /\ AnsweredIn(n)
    /\ input' = Rest(n)
    /\ awaiting' = FALSE
    /\ left' = 0
    /\ OwnerStep("initializing", "idle")
    /\ UNCHANGED <<calls, unanswered, running, faults>>

\* A write or a read of the dialogue throws.
DialogueFails ==
    /\ InDialogue
    /\ awaiting \/ left > 0
    /\ Fault
    /\ awaiting' = FALSE
    /\ left' = 0
    /\ OwnerStep(owner, "idle")
    /\ UNCHANGED <<calls, unanswered, running, input>>

\* Mutant: the reply to the last command is not waited for.
AnsweredEarly == left = 0

Answered == ~ awaiting /\ left = 0

InitializeEnds ==
    /\ Answered
    /\ OwnerStep("initializing", "starting")
    /\ running' = TRUE
    /\ UNCHANGED <<calls, dialogueVars, input, faults>>

ConfigureEnds ==
    /\ Answered
    /\ OwnerStep("configuring", "idle")
    /\ UNCHANGED <<calls, dialogueVars, running, input, faults>>

\* The thread is assigned to ioThread; when that is joinable already, std::terminate.
SpawnReader ==
    /\ owner = "starting"
    /\ owner' = IF reader = "none" THEN "idle" ELSE "terminated"
    /\ reader' = IF reader = "none" THEN "test" ELSE reader
    /\ UNCHANGED <<driver, calls, dialogueVars, running, chunk, frames, failures, stolen,
                   receiverVars, senderVars, input, queue, notified, status, sent, faults>>

\* The destructor, called when no other thread is inside the object.
Destroy ==
    /\ sender = "idle"
    /\ \A t \in Client : receiver[t] = "idle"
    /\ OwnerStep("idle", "joining")
    /\ running' = FALSE
    /\ UNCHANGED <<calls, dialogueVars, input, faults>>

\* ioService.stop() ends no read of the port, which is synchronous.
Join ==
    /\ reader \in {"none", "exited"}
    /\ OwnerStep("joining", "closed")
    /\ UNCHANGED <<calls, dialogueVars, running, input, faults>>

-----------------------------------------------------------------------------
(* readLoop and processFrame                                               *)

ReaderStep(from, to) ==
    /\ reader = from
    /\ reader' = to
    /\ UNCHANGED <<driver, ownerVars, receiverVars, senderVars, sent>>

\* Mutant: the loop does not look at running.
KeepsReadingAlways == TRUE

KeepsReading == running

ReaderTest ==
    /\ ReaderStep("test", IF KeepsReading THEN "reading" ELSE "exited")
    /\ UNCHANGED <<chunk, frames, failures, stolen, input, queue, notified, status, faults>>

\* The RFD900 takes what read_some returns ...
ReadSome(n) ==
    /\ driver = "rfd900"
    /\ n \in 1 .. Len(input)
    /\ ReaderStep("reading", "parsing")
    /\ chunk' = Prefix(n)
    /\ input' = Rest(n)
    /\ stolen' = (stolen \/ Holds(Prefix(n), Reply))
    /\ UNCHANGED <<frames, failures, queue, notified, status, faults>>

\* ... the XBee a start byte and, when it is one, what follows.
StartsFrame(token) == IsHead(token) \/ token = Report

ReadStart ==
    /\ driver = "xbee"
    /\ input # <<>>
    /\ ReaderStep("reading", IF IsHead(Head(input)) THEN "body"
                             ELSE IF Head(input) = Report THEN "parsing" ELSE "test")
    /\ chunk' = IF StartsFrame(Head(input)) THEN <<Head(input)>> ELSE <<>>
    /\ input' = Tail(input)
    /\ UNCHANGED <<frames, failures, stolen, queue, notified, status, faults>>

ReadBody ==
    /\ input # <<>>
    /\ ReaderStep("body", "parsing")
    /\ chunk' = Append(chunk, Head(input))
    /\ input' = Tail(input)
    /\ UNCHANGED <<frames, failures, stolen, queue, notified, status, faults>>

\* What remains of the read is parsed next; the loop goes on when nothing does.
Parse(rest) ==
    /\ ReaderStep("parsing", IF rest = <<>> THEN "test" ELSE "parsing")
    /\ chunk' = rest

\* A frame as long as its header says is there.
AtFrame == Len(chunk) > 1 /\ IsHead(chunk[1])

\* Mutant: the checks of the packet are left out.
IntactUnchecked(frame) == TRUE

Intact(frame) == frame[2] = <<frame[1][1], "tail">>

\* Mutant: the packet is pushed and nobody is notified.
NotifyNobody == UNCHANGED notified

NotifyOne ==
    LET asleep == {t \in Client : receiver[t] = "waiting"} \ notified
    IN \/ asleep = {} /\ UNCHANGED notified
       \/ \E t \in asleep : notified' = notified \cup {t}

AfterFrame == SubSeq(chunk, 3, Len(chunk))

ParsePacket ==
    /\ AtFrame
    /\ Intact(chunk)
    /\ QueueFree
    /\ Parse(AfterFrame)
    /\ queue' = Append(queue, chunk[1][1])
    /\ NotifyOne
    /\ frames' = frames + 1
    /\ UNCHANGED <<failures, stolen, input, status, faults>>

CountError == status' = [status EXCEPT !.receptionErrors = @ + 1]

\* A packet that cannot be disassembled, or a checksum that does not match.
ParseError ==
    /\ AtFrame
    /\ ~ Intact(chunk)
    /\ StatusFree
    /\ Parse(AfterFrame)
    /\ CountError
    /\ frames' = frames + 1
    /\ UNCHANGED <<failures, stolen, input, queue, notified, faults>>

AtReport == Len(chunk) > 0 /\ chunk[1] = Report

\* A frame of another type, its checksum right, is dropped and counted nowhere.
ParseOther ==
    /\ AtReport
    /\ Parse(Tail(chunk))
    /\ UNCHANGED <<frames, failures, stolen, input, queue, notified, status, faults>>

\* What starts no frame, or none that ends in this read, is passed over in silence.
ParseSkip ==
    /\ ~ AtFrame
    /\ ~ AtReport
    /\ Parse(Tail(chunk))
    /\ UNCHANGED <<frames, failures, stolen, input, queue, notified, status, faults>>

\* A read throws; while running, it is counted.
ReadFails ==
    /\ reader \in {"reading", "body"}
    /\ Fault
    /\ ReaderStep(reader, IF running THEN "failed" ELSE "test")
    /\ chunk' = <<>>
    /\ UNCHANGED <<frames, failures, stolen, input, queue, notified, status>>

CountFailure ==
    /\ StatusFree
    /\ ReaderStep("failed", "test")
    /\ CountError
    /\ failures' = failures + 1
    /\ UNCHANGED <<chunk, frames, stolen, input, queue, notified, faults>>

-----------------------------------------------------------------------------
(* receivePacket and sendPacket                                            *)

ReceiverStep(t, from, to) ==
    /\ receiver[t] = from
    /\ receiver' = [receiver EXCEPT ![t] = to]
    /\ UNCHANGED <<driver, ownerVars, readerVars, senderVars, input, sent, faults>>

\* The packet is the caller's before packetsReceived counts it; queueMutex is held
\* until then.
Pop(t, from) ==
    /\ QueueFree
    /\ queue # <<>>
    /\ ReceiverStep(t, from, "counting")
    /\ delivered' = Append(delivered, Head(queue))
    /\ queue' = Tail(queue)
    /\ UNCHANGED <<missed, status>>

\* Mutant: the wait comes before the look at the queue.
ReceiveWaits(t) ==
    /\ Alive
    /\ QueueFree
    /\ ReceiverStep(t, "idle", "waiting")
    /\ UNCHANGED <<delivered, missed, queue, notified, status>>

Receive(t) ==
    /\ Alive
    /\ Pop(t, "idle")
    /\ UNCHANGED notified

Wait(t) ==
    /\ Alive
    /\ QueueFree
    /\ queue = <<>>
    /\ ReceiverStep(t, "idle", "waiting")
    /\ UNCHANGED <<delivered, missed, queue, notified, status>>

\* Notified, or spuriously: the queue is looked at once more ...
WakeToPacket(t) ==
    /\ Pop(t, "waiting")
    /\ notified' = notified \ {t}

\* ... and false returned when another client was faster.
WakeToNothing(t) ==
    /\ QueueFree
    /\ queue = <<>>
    /\ ReceiverStep(t, "waiting", "idle")
    /\ notified' = notified \ {t}
    /\ UNCHANGED <<delivered, missed, queue, status>>

\* After 100 ms false is returned without a look at the queue, also when a
\* notification had come by then.
Timeout(t) ==
    /\ QueueFree
    /\ ReceiverStep(t, "waiting", "idle")
    /\ notified' = notified \ {t}
    /\ missed' = IF t \in notified THEN missed + 1 ELSE missed
    /\ UNCHANGED <<delivered, queue, status>>

CountReceived(t) ==
    /\ StatusFree
    /\ ReceiverStep(t, "counting", "idle")
    /\ status' = [status EXCEPT !.received = @ + 1]
    /\ UNCHANGED <<delivered, missed, queue, notified>>

SenderStep(from, to) ==
    /\ sender = from
    /\ sender' = to
    /\ UNCHANGED <<driver, ownerVars, readerVars, receiverVars, input, queue, notified, sent>>

SendPacket ==
    /\ Alive
    /\ sends < MaxSends
    /\ sends' = sends + 1
    /\ SenderStep("idle", "written")
    /\ UNCHANGED <<status, faults>>

SendPacketFails ==
    /\ Alive
    /\ sends < MaxSends
    /\ sends' = sends + 1
    /\ Fault
    /\ SenderStep("idle", "failed")
    /\ UNCHANGED status

\* Mutant: a packet whose write failed is counted as sent too.
CountSendTwice ==
    [status EXCEPT !.sent = @ + 1,
                   !.transmissionErrors = IF sender = "failed" THEN @ + 1 ELSE @]

CountSend ==
    IF sender = "failed" THEN [status EXCEPT !.transmissionErrors = @ + 1]
    ELSE [status EXCEPT !.sent = @ + 1]

SendCounted ==
    /\ StatusFree
    /\ sender # "idle"
    /\ SenderStep(sender, "idle")
    /\ status' = CountSend
    /\ UNCHANGED <<sends, faults>>

-----------------------------------------------------------------------------

ReaderRun ==
    \/ ReaderTest \/ ReadStart \/ ReadBody
    \/ (\E n \in 1 .. Len(input) : ReadSome(n))
    \/ ParsePacket \/ ParseError \/ ParseOther \/ ParseSkip \/ CountFailure

OwnerRun ==
    \/ Ask \/ (\E n \in 1 .. Len(input) : ReadUntil(n) \/ Refused(n))
    \/ InitializeEnds \/ ConfigureEnds \/ SpawnReader \/ Join

ReceiverRun(t) == Receive(t) \/ Timeout(t) \/ CountReceived(t)

Next ==
    /\ owner \notin {"closed", "terminated"}
    /\ \/ PeerSends \/ PeerDisturbed \/ ModemReplies \/ ModemReports
       \/ InitializeXBee \/ InitializeXBeeFails \/ InitializeRFD900 \/ ConfigureRFD900
       \/ DialogueFails \/ OwnerRun \/ Destroy
       \/ ReaderRun \/ ReadFails
       \/ \E t \in Client :
             ReceiverRun(t) \/ Wait(t) \/ WakeToPacket(t) \/ WakeToNothing(t)
       \/ SendPacket \/ SendPacketFails \/ SendCounted

Spec == Init /\ [][Next]_vars

\* The threads run, a wait of receivePacket ends after 100 ms, its callers call it
\* again and again, and the modem answers commands.  Nothing makes a peer send, users
\* call the rest, or the line lose anything.
Fairness ==
    /\ WF_readerVars(ReaderRun)
    /\ WF_ownerVars(OwnerRun)
    /\ WF_unanswered(ModemReplies)
    /\ \A t \in Client : WF_receiver(ReceiverRun(t))

FairSpec == Spec /\ Fairness

-----------------------------------------------------------------------------

TypeOK ==
    /\ driver \in {"rfd900", "xbee"}
    /\ owner \in {"idle", "initializing", "configuring", "starting", "joining", "closed",
                  "terminated"}
    /\ {calls, left, unanswered, sent, sends, faults, frames, failures, missed} \subseteq Nat
    /\ {awaiting, running, stolen} \subseteq BOOLEAN
    /\ awaiting => InDialogue
    /\ reader \in {"none", "test", "reading", "body", "parsing", "failed", "exited"}
    /\ chunk \in Seq(Token)
    /\ chunk # <<>> <=> reader \in {"body", "parsing"}
    /\ input \in Seq(Token)
    /\ queue \in Seq(1 .. MaxPackets)
    /\ receiver \in [Client -> {"idle", "waiting", "counting"}]
    /\ notified \subseteq {t \in Client : receiver[t] = "waiting"}
    /\ sender \in {"idle", "written", "failed"}
    /\ status \in [{"sent", "received", "transmissionErrors", "receptionErrors"} -> Nat]
    /\ delivered \in Seq(1 .. MaxPackets)

\* The statistics lose nothing to the threads that update them or to a configure that
\* keeps them waiting: every frame of a packet that the read thread parses is received,
\* in the queue or counted as an error, and so is every frame it cannot check; every
\* packet received and every send is counted.  (Frames of other types, which only the
\* XBee has, are dropped and appear in no counter: ParseOther.)
StatusAccounted ==
    /\ frames + failures = Len(delivered) + Len(queue) + status.receptionErrors
    /\ Len(delivered) =
         status.received + Cardinality({t \in Client : receiver[t] = "counting"})
    /\ sends = status.sent + status.transmissionErrors + (IF sender = "idle" THEN 0 ELSE 1)

\* No wakeup is lost but by a timeout: while a client sleeps, each packet in the queue
\* has another one that was notified of it, unless that one timed out.
PacketsAnnounced ==
    (\E t \in Client : receiver[t] = "waiting" /\ t \notin notified)
        => Len(queue) <= Cardinality(notified) + missed

\* A token that the port or the read thread holds.
Ahead(token) == Holds(chunk, token) \/ Holds(input, token)

\* The packets queued, and those of which both halves are still to be parsed.
OnTheWay ==
    {p \in 1 .. MaxPackets :
        Holds(queue, p) \/ \A half \in {"head", "tail"} : Ahead(<<p, half>>)}

Channel == INSTANCE RadioChannel WITH channel <- OnTheWay

\* Reads that split frames, bytes lost, dialogues that swallow frames and clients that
\* race never let receivePacket return a packet twice, out of order, or one made of
\* the halves of two.
ImplementsChannel == Channel!Spec

\* A configure that waits for a reply that does not come any more.
Hung ==
    /\ owner = "configuring"
    /\ awaiting
    /\ unanswered = 0
    /\ ~ Holds(input, Reply)

\* The packets in the queue are received, although timeouts may overtake notifications,
\* unless a configure that never ends keeps receivePacket from counting.
PacketsDelivered == queue # <<>> ~> (queue = <<>> \/ Hung \/ ~ Alive)

\* The destructor returns, whatever the read thread was doing, once it is out of the
\* read of a line on which nothing came; an XBee may be kept by half a frame.
JoinReturns ==
    (owner = "joining" /\ (reader \notin {"reading", "body"} \/ input # <<>>))
        ~> (owner = "closed" \/ (reader = "body" /\ input = <<>>))

\* initialize and configure return, whatever packets come in between the replies and
\* however much a read takes, unless the read thread has taken a reply.
DialogueEnds == InDialogue ~> (~ InDialogue \/ stolen)
=============================================================================
