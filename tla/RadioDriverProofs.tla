-------------------------- MODULE RadioDriverProofs --------------------------
(***************************************************************************)
(* Safety of the radio drivers for every set of clients, any number of     *)
(* packets, calls and faults, and dialogues of any length: types, the      *)
(* statistics, the notifications, and the order of what is received.       *)
(***************************************************************************)
EXTENDS RadioDriver, FiniteSetTheorems, SequenceTheorems, TLAPS

-----------------------------------------------------------------------------
(* The steps of each actor, and what they leave alone.                     *)

PeerNext == PeerSends \/ PeerDisturbed

ModemNext == ModemReplies \/ ModemReports

OwnerNext ==
    \/ InitializeXBee \/ InitializeXBeeFails \/ InitializeRFD900 \/ ConfigureRFD900
    \/ DialogueFails \/ OwnerRun \/ Destroy

ReaderNext == ReaderRun \/ ReadFails

ReceiverNext ==
    \E t \in Client : ReceiverRun(t) \/ Wait(t) \/ WakeToPacket(t) \/ WakeToNothing(t)

SenderNext == SendPacket \/ SendPacketFails \/ SendCounted

LEMMA Steps ==
    ASSUME [Next]_vars
    PROVE  \/ PeerNext \/ ModemNext \/ OwnerNext \/ ReaderNext \/ ReceiverNext
           \/ SenderNext \/ UNCHANGED vars
  BY DEF Next, PeerNext, ModemNext, OwnerNext, ReaderNext, ReceiverNext, SenderNext

LEMMA PeerLeaves ==
    ASSUME PeerNext
    PROVE  /\ UNCHANGED <<driver, ownerVars, readerVars, receiverVars, senderVars, queue,
                          notified, status>>
           /\ faults' \in {faults, faults + 1}
  BY DEF PeerNext, PeerSends, PeerDisturbed, Carry, Fault

LEMMA ModemLeaves ==
    ASSUME ModemNext
    PROVE  UNCHANGED <<driver, owner, calls, left, awaiting, running, readerVars,
                       receiverVars, senderVars, queue, notified, status, sent, faults>>
  BY DEF ModemNext, ModemReplies, ModemReports, ownerVars, dialogueVars

\* The owner takes from the port what it reads in a dialogue, and starts the reader.
LEMMA OwnerLeaves ==
    ASSUME OwnerNext
    PROVE  /\ UNCHANGED <<driver, chunk, frames, failures, stolen, receiverVars, senderVars,
                          queue, notified, status, sent>>
           /\ \/ input' = input
              \/ \E n \in 1 .. Len(input) : input' = Rest(n)
           /\ \/ reader' = reader
              \/ reader = "none" /\ reader' = "test"
           /\ faults' \in {faults, faults + 1}
  <1> USE DEF Fault, OwnerStep, ownerVars, dialogueVars, readerVars, receiverVars, senderVars
  <1>1. CASE \E n \in 1 .. Len(input) : ReadUntil(n) \/ Refused(n)
    BY <1>1 DEF ReadUntil, Refused
  <1>2. CASE SpawnReader
    BY <1>2 DEF SpawnReader
  <1>3. CASE InitializeXBee \/ InitializeXBeeFails \/ InitializeRFD900 \/ ConfigureRFD900
             \/ DialogueFails \/ Destroy \/ Ask \/ InitializeEnds \/ ConfigureEnds \/ Join
    BY <1>3 DEF InitializeXBee, InitializeXBeeFails, InitializeRFD900, ConfigureRFD900,
                BeginDialogue, Call, DialogueFails, Destroy, Ask, InitializeEnds,
                ConfigureEnds, Join
  <1> QED BY <1>1, <1>2, <1>3 DEF OwnerNext, OwnerRun

LEMMA ReaderLeaves ==
    ASSUME ReaderNext
    PROVE  /\ UNCHANGED <<driver, ownerVars, receiverVars, senderVars, sent>>
           /\ faults' \in {faults, faults + 1}
  BY DEF Fault, ReaderNext, ReaderRun, ReaderStep, Parse, ReaderTest, ReadStart, ReadBody, ReadSome,
         ParsePacket, ParseError, ParseOther, ParseSkip, CountFailure, ReadFails

LEMMA ReceiverLeaves ==
    ASSUME ReceiverNext
    PROVE  UNCHANGED <<driver, ownerVars, readerVars, senderVars, input, sent, faults>>
  BY DEF ReceiverNext, ReceiverRun, ReceiverStep, Receive, Pop, Timeout, CountReceived, Wait,
         WakeToPacket, WakeToNothing

LEMMA SenderLeaves ==
    ASSUME SenderNext
    PROVE  /\ UNCHANGED <<driver, ownerVars, readerVars, receiverVars, input, queue, notified,
                          sent>>
           /\ faults' \in {faults, faults + 1}
  BY DEF Fault, SenderNext, SenderStep, SendPacket, SendPacketFails, SendCounted

-----------------------------------------------------------------------------
(* Sequences.                                                              *)

LEMMA PrefixRest ==
    ASSUME NEW S, NEW s \in Seq(S), NEW n \in 1 .. Len(s)
    PROVE  /\ SubSeq(s, 1, n) \in Seq(S)
           /\ Len(SubSeq(s, 1, n)) = n
           /\ \A i \in 1 .. n : SubSeq(s, 1, n)[i] = s[i]
           /\ SubSeq(s, n + 1, Len(s)) \in Seq(S)
           /\ Len(SubSeq(s, n + 1, Len(s))) = Len(s) - n
           /\ \A i \in 1 .. Len(s) - n : SubSeq(s, n + 1, Len(s))[i] = s[n + i]
  OBVIOUS

LEMMA ConcatIndex ==
    ASSUME NEW S, NEW s \in Seq(S), NEW t \in Seq(S), NEW i \in 1 .. Len(s \o t)
    PROVE  \/ i \in 1 .. Len(s) /\ (s \o t)[i] = s[i]
           \/ i - Len(s) \in 1 .. Len(t) /\ (s \o t)[i] = t[i - Len(s)]
  <1>1. /\ Len(s \o t) = Len(s) + Len(t) /\ Len(s) \in Nat /\ Len(t) \in Nat
        /\ (s \o t)[i] = IF i <= Len(s) THEN s[i] ELSE t[i - Len(s)]
    BY ConcatProperties
  <1> QED BY <1>1

LEMMA ConcatFirst ==
    ASSUME NEW S, NEW s \in Seq(S), NEW t \in Seq(S), NEW i \in 1 .. Len(s)
    PROVE  i \in 1 .. Len(s \o t) /\ (s \o t)[i] = s[i]
  OBVIOUS

\* The first n elements of t go to the end of s.
LEMMA TakenIndex ==
    ASSUME NEW S, NEW s \in Seq(S), NEW t \in Seq(S), NEW n \in 1 .. Len(t)
    PROVE  /\ \A i \in 1 .. Len(SubSeq(t, n + 1, Len(t))) :
                 n + i \in 1 .. Len(t) /\ SubSeq(t, n + 1, Len(t))[i] = t[n + i]
           /\ \A i \in 1 .. Len(s \o SubSeq(t, 1, n)) :
                 \/ i \in 1 .. Len(s) /\ (s \o SubSeq(t, 1, n))[i] = s[i]
                 \/ /\ i - Len(s) \in 1 .. Len(t)
                    /\ (s \o SubSeq(t, 1, n))[i] = t[i - Len(s)]
  <1>1. /\ SubSeq(t, 1, n) \in Seq(S) /\ Len(SubSeq(t, 1, n)) = n
        /\ \A i \in 1 .. n : SubSeq(t, 1, n)[i] = t[i]
    BY PrefixRest
  <1>2. \A i \in 1 .. Len(SubSeq(t, n + 1, Len(t))) :
            n + i \in 1 .. Len(t) /\ SubSeq(t, n + 1, Len(t))[i] = t[n + i]
    <2>1. /\ Len(SubSeq(t, n + 1, Len(t))) = Len(t) - n
          /\ \A i \in 1 .. Len(t) - n : SubSeq(t, n + 1, Len(t))[i] = t[n + i]
      BY PrefixRest
    <2>2. \A i \in 1 .. Len(t) - n : n + i \in 1 .. Len(t)
      OBVIOUS
    <2> QED BY <2>1, <2>2
  <1>3. ASSUME NEW i \in 1 .. Len(s \o SubSeq(t, 1, n))
        PROVE  \/ i \in 1 .. Len(s) /\ (s \o SubSeq(t, 1, n))[i] = s[i]
               \/ /\ i - Len(s) \in 1 .. Len(t)
                  /\ (s \o SubSeq(t, 1, n))[i] = t[i - Len(s)]
    <2>1. CASE i - Len(s) \in 1 .. Len(SubSeq(t, 1, n))
      <3>1. i - Len(s) \in 1 .. n /\ i - Len(s) \in 1 .. Len(t)
        BY <1>1, <2>1
      <3> QED BY <1>1, <3>1, ConcatIndex
    <2> QED BY <1>1, <2>1, ConcatIndex
  <1> QED BY <1>2, <1>3

LEMMA TailIsRest ==
    ASSUME NEW S, NEW s \in Seq(S), s # <<>>
    PROVE  /\ Head(s) = s[1] /\ Head(s) \in S
           /\ Tail(s) \in Seq(S)
           /\ Len(s) \in Nat \ {0}
           /\ Len(Tail(s)) = Len(s) - 1
           /\ \A i \in 1 .. Len(s) - 1 : Tail(s)[i] = s[1 + i]
  OBVIOUS

LEMMA AppendEnds ==
    ASSUME NEW S, NEW s \in Seq(S), NEW e \in S
    PROVE  /\ Append(s, e) \in Seq(S)
           /\ Append(s, e) # <<>>
           /\ Len(Append(s, e)) = Len(s) + 1
           /\ Len(s) \in Nat
           /\ \A i \in 1 .. Len(s) : Append(s, e)[i] = s[i]
           /\ Append(s, e)[Len(s) + 1] = e
  OBVIOUS

\* What the parser leaves of a read behind a frame.
LEMMA BehindFrame ==
    ASSUME NEW S, NEW s \in Seq(S), Len(s) > 1
    PROVE  /\ SubSeq(s, 3, Len(s)) \in Seq(S)
           /\ Len(SubSeq(s, 3, Len(s))) = Len(s) - 2
           /\ \A i \in 1 .. Len(s) - 2 : SubSeq(s, 3, Len(s))[i] = s[2 + i]
  <1>1. 2 \in 1 .. Len(s) /\ 2 + 1 = 3
    OBVIOUS
  <1>2. \A n \in 1 .. Len(s) :
           /\ SubSeq(s, n + 1, Len(s)) \in Seq(S)
           /\ Len(SubSeq(s, n + 1, Len(s))) = Len(s) - n
           /\ \A i \in 1 .. Len(s) - n : SubSeq(s, n + 1, Len(s))[i] = s[n + i]
    BY PrefixRest
  <1> QED BY <1>1, <1>2

-----------------------------------------------------------------------------
(* Type correctness, in three parts.                                       *)

OwnerType ==
    /\ driver \in {"rfd900", "xbee"}
    /\ owner \in {"idle", "initializing", "configuring", "starting", "joining", "closed",
                  "terminated"}
    /\ calls \in Nat /\ left \in Nat /\ unanswered \in Nat
    /\ awaiting \in BOOLEAN /\ running \in BOOLEAN
    /\ awaiting => InDialogue

ReaderType ==
    /\ reader \in {"none", "test", "reading", "body", "parsing", "failed", "exited"}
    /\ chunk \in Seq(Token)
    /\ chunk # <<>> <=> reader \in {"body", "parsing"}
    /\ input \in Seq(Token)
    /\ queue \in Seq(1 .. MaxPackets)
    /\ sent \in Nat /\ frames \in Nat /\ failures \in Nat
    /\ stolen \in BOOLEAN

ClientType ==
    /\ receiver \in [Client -> {"idle", "waiting", "counting"}]
    /\ notified \subseteq {t \in Client : receiver[t] = "waiting"}
    /\ delivered \in Seq(1 .. MaxPackets)
    /\ missed \in Nat
    /\ sender \in {"idle", "written", "failed"}
    /\ sends \in Nat /\ faults \in Nat
    /\ status \in [{"sent", "received", "transmissionErrors", "receptionErrors"} -> Nat]

LEMMA TypeParts == TypeOK <=> OwnerType /\ ReaderType /\ ClientType
  BY DEF TypeOK, OwnerType, ReaderType, ClientType

LEMMA TypeInit == Init => TypeOK
  <1> SUFFICES ASSUME Init PROVE OwnerType /\ ReaderType /\ ClientType
    BY TypeParts
  <1>1. OwnerType
    <2>1. awaiting \in BOOLEAN /\ running \in BOOLEAN /\ ~ awaiting
      BY Zenon DEF Init
    <2> QED BY <2>1 DEF Init, OwnerType
  <1>2. ReaderType
    <2>1. stolen \in BOOLEAN
      BY Zenon DEF Init
    <2>2. chunk \in Seq(Token) /\ input \in Seq(Token) /\ queue \in Seq(1 .. MaxPackets)
      BY DEF Init
    <2> QED BY <2>1, <2>2 DEF Init, ReaderType
  <1>3. ClientType
    BY DEF Init, ClientType
  <1> QED BY <1>1, <1>2, <1>3

LEMMA OwnerTypeNext == OwnerType /\ [Next]_vars => OwnerType'
  <1> SUFFICES ASSUME OwnerType, [Next]_vars PROVE OwnerType'
    OBVIOUS
  <1> USE DEF OwnerType, ownerVars, dialogueVars, InDialogue
  <1>1. CASE PeerNext \/ ReaderNext \/ ReceiverNext \/ SenderNext \/ UNCHANGED vars
    BY <1>1, PeerLeaves, ReaderLeaves, ReceiverLeaves, SenderLeaves DEF vars
  <1>2. CASE ModemNext
    BY <1>2, ModemLeaves DEF ModemNext, ModemReplies, ModemReports
  <1>3. CASE \E n \in 1 .. Len(input) : ReadUntil(n) \/ Refused(n)
    <2>1. awaiting' \in BOOLEAN /\ (awaiting' => awaiting)
      BY <1>3, Zenon DEF ReadUntil, Refused
    <2>2. /\ UNCHANGED <<driver, calls, unanswered, running>>
          /\ left' \in {left, 0}
          /\ owner' = owner \/ (owner' = "idle" /\ ~ awaiting')
      BY <1>3 DEF ReadUntil, Refused, OwnerStep
    <2> QED BY <2>1, <2>2
  <1>4. CASE InitializeXBee \/ InitializeXBeeFails \/ InitializeRFD900 \/ ConfigureRFD900
    <2> USE <1>4 DEF InitializeXBee, InitializeXBeeFails, InitializeRFD900, ConfigureRFD900,
                     BeginDialogue, Call, OwnerStep
    <2>1. awaiting' \in BOOLEAN /\ running' \in BOOLEAN
      BY Zenon
    <2>2. ~ awaiting'
      OBVIOUS
    <2> QED BY <2>1, <2>2, CommandsAssumption
  <1>5. CASE DialogueFails \/ Destroy \/ Ask \/ InitializeEnds \/ ConfigureEnds \/ Join
    <2> USE <1>5 DEF DialogueFails, Destroy, Ask, InitializeEnds, ConfigureEnds, Join,
                     Answered, OwnerStep
    <2>1. awaiting' \in BOOLEAN /\ running' \in BOOLEAN
      BY Zenon
    <2>2. awaiting' => InDialogue'
      OBVIOUS
    <2> QED BY <2>1, <2>2
  <1>6. CASE SpawnReader
    BY <1>6 DEF SpawnReader
  <1> HIDE DEF OwnerType
  <1> QED BY <1>1, <1>2, <1>3, <1>4, <1>5, <1>6, Steps DEF OwnerNext, OwnerRun

LEMMA ShortSequences ==
    ASSUME NEW S, NEW a \in S, NEW b \in S
    PROVE  <<>> \in Seq(S) /\ <<a>> \in Seq(S) /\ <<a, b>> \in Seq(S)
  OBVIOUS

LEMMA CarryType ==
    ASSUME ReaderType, PeerNext
    PROVE  input' \in Seq(Token) /\ sent' \in Nat
  <1>1. sent < MaxPackets /\ sent + 1 \in 1 .. MaxPackets /\ sent' = sent + 1
    BY BoundsAssumption DEF ReaderType, PeerNext, PeerSends, PeerDisturbed, Carry
  <1>2. /\ <<sent + 1, "head">> \in Token
        /\ <<sent + 1, "tail">> \in Token
        /\ Noise \in Token
    BY <1>1 DEF Token, Noise
  <1>3. /\ <<>> \in Seq(Token) /\ <<Noise>> \in Seq(Token)
        /\ <<<<sent + 1, "head">>>> \in Seq(Token)
        /\ <<<<sent + 1, "tail">>>> \in Seq(Token)
        /\ <<<<sent + 1, "head">>, <<sent + 1, "tail">>>> \in Seq(Token)
    BY <1>2, ShortSequences
  <1>4. PICK tokens \in Seq(Token) : input' = input \o tokens
    <2>1. CASE PeerSends
      BY <1>3, <2>1 DEF PeerSends, Carry
    <2>2. CASE PeerDisturbed
      <3>1. PICK half \in {<<<<sent + 1, "head">>>>, <<<<sent + 1, "tail">>>>},
                 gap \in {<<>>, <<Noise>>} :
              input' = input \o (IF half[1][2] = "head" THEN half \o gap ELSE gap \o half)
        BY <2>2 DEF PeerDisturbed, Carry
      <3>2. half \in Seq(Token) /\ gap \in Seq(Token)
        BY <1>3
      <3>3. half \o gap \in Seq(Token) /\ gap \o half \in Seq(Token)
        BY <3>2
      <3> QED BY <3>1, <3>3
    <2> QED BY <2>1, <2>2 DEF PeerNext
  <1> QED BY <1>1, <1>4 DEF ReaderType

LEMMA ReceiverQueue ==
    ASSUME ReceiverNext
    PROVE  \/ UNCHANGED <<queue, delivered>>
           \/ /\ queue # <<>>
              /\ queue' = Tail(queue)
              /\ delivered' = Append(delivered, Head(queue))
  BY DEF ReceiverNext, ReceiverRun, ReceiverStep, Receive, Pop, Timeout, CountReceived, Wait,
         WakeToPacket, WakeToNothing

LEMMA FrameNumber ==
    ASSUME ReaderType, AtFrame
    PROVE  /\ chunk[1][1] \in 1 .. MaxPackets
           /\ AfterFrame \in Seq(Token)
           /\ Len(AfterFrame) = Len(chunk) - 2
           /\ \A i \in 1 .. Len(AfterFrame) : AfterFrame[i] = chunk[2 + i]
  <1>1. chunk \in Seq(Token) /\ Len(chunk) > 1 /\ IsHead(chunk[1])
    BY DEF ReaderType, AtFrame
  <1>2. chunk[1] \in Token
    BY <1>1
  <1>3. chunk[1][1] \in 1 .. MaxPackets
    BY <1>1, <1>2 DEF Token, IsHead
  <1> QED BY <1>1, <1>3, BehindFrame DEF AfterFrame

LEMMA ReaderTypeNext == ReaderType /\ [Next]_vars => ReaderType'
  <1> SUFFICES ASSUME ReaderType, [Next]_vars PROVE ReaderType'
    OBVIOUS
  <1> USE DEF readerVars
  <1>1. CASE PeerNext
    BY <1>1, PeerLeaves, CarryType DEF ReaderType
  <1>2. CASE ModemNext
    <2>1. Reply \in Token /\ Report \in Token
      BY DEF Token, Reply, Report
    <2>2. input' = Append(input, Reply) \/ input' = Append(input, Report)
      BY <1>2 DEF ModemNext, ModemReplies, ModemReports
    <2> HIDE DEF Reply, Report
    <2>3. input' \in Seq(Token)
      <3>1. input \in Seq(Token)
        BY DEF ReaderType
      <3>2. Append(input, Reply) \in Seq(Token)
        BY <2>1, <3>1, AppendEnds
      <3>3. Append(input, Report) \in Seq(Token)
        BY <2>1, <3>1, AppendEnds
      <3> QED BY <2>2, <3>2, <3>3
    <2> QED BY <1>2, <2>3, ModemLeaves DEF ReaderType
  <1>3. CASE OwnerNext
    <2>1. ASSUME NEW n \in 1 .. Len(input) PROVE Rest(n) \in Seq(Token)
      BY PrefixRest DEF ReaderType, Rest
    <2>2. input' \in Seq(Token)
      BY <1>3, <2>1, OwnerLeaves DEF ReaderType
    <2> QED BY <1>3, <2>2, OwnerLeaves DEF ReaderType
  <1>4. CASE ReceiverNext
    BY <1>4, ReceiverLeaves, ReceiverQueue, TailIsRest DEF ReaderType
  <1>5. CASE SenderNext \/ UNCHANGED vars
    BY <1>5, SenderLeaves DEF ReaderType, vars
  <1>6. CASE ReaderTest
    BY <1>6 DEF ReaderType, ReaderTest, ReaderStep
  <1>7. ASSUME NEW n \in 1 .. Len(input), ReadSome(n) PROVE ReaderType'
    <2>1. stolen' \in BOOLEAN
      BY <1>7, Zenon DEF ReadSome
    <2>2. chunk' \in Seq(Token) /\ Len(chunk') = n /\ input' \in Seq(Token)
      BY <1>7, PrefixRest DEF ReaderType, ReadSome, Prefix, Rest
    <2>3. chunk' # <<>>
      BY <2>2
    <2> QED BY <1>7, <2>1, <2>2, <2>3 DEF ReaderType, ReadSome, ReaderStep
  <1>8. CASE ReadStart
    <2>1. Head(input) \in Token /\ Tail(input) \in Seq(Token)
      BY <1>8, TailIsRest DEF ReaderType, ReadStart
    <2>2. <<Head(input)>> \in Seq(Token) /\ <<Head(input)>> # <<>>
      BY <2>1
    <2>3. Head(input) = Report => StartsFrame(Head(input))
      BY DEF StartsFrame
    <2>4. IsHead(Head(input)) => StartsFrame(Head(input))
      BY DEF StartsFrame
    <2>5. ~ IsHead(Head(input)) /\ Head(input) # Report => ~ StartsFrame(Head(input))
      BY DEF StartsFrame
    <2> QED BY <1>8, <2>1, <2>2, <2>3, <2>4, <2>5 DEF ReaderType, ReadStart, ReaderStep
  <1>9. CASE ReadBody
    <2>1. Head(input) \in Token /\ Tail(input) \in Seq(Token)
      BY <1>9, TailIsRest DEF ReaderType, ReadBody
    <2> QED BY <1>9, <2>1, AppendEnds DEF ReaderType, ReadBody, ReaderStep
  <1>10. CASE ParsePacket
    <2>1. queue' \in Seq(1 .. MaxPackets) /\ chunk' \in Seq(Token)
      BY <1>10, FrameNumber, AppendEnds DEF ReaderType, ParsePacket, Parse
    <2> QED BY <1>10, <2>1 DEF ReaderType, ParsePacket, Parse, ReaderStep
  <1>11. CASE ParseError
    <2>1. chunk' \in Seq(Token)
      BY <1>11, FrameNumber DEF ParseError, Parse
    <2> QED BY <1>11, <2>1 DEF ReaderType, ParseError, Parse, ReaderStep
  <1>12. CASE ParseOther \/ ParseSkip
    <2>1. chunk' \in Seq(Token)
      BY <1>12, TailIsRest DEF ReaderType, ParseOther, ParseSkip, Parse, ReaderStep
    <2> QED BY <1>12, <2>1 DEF ReaderType, ParseOther, ParseSkip, Parse, ReaderStep
  <1>13. CASE ReadFails
    BY <1>13 DEF ReaderType, ReadFails, ReaderStep
  <1>14. CASE CountFailure
    BY <1>14 DEF ReaderType, CountFailure, ReaderStep
  <1> QED
    BY <1>1, <1>2, <1>3, <1>4, <1>5, <1>6, <1>7, <1>8, <1>9, <1>10, <1>11, <1>12, <1>13,
       <1>14, Steps DEF ReaderNext, ReaderRun

LEMMA CountReceivedType ==
    ASSUME ClientType, NEW t \in Client, CountReceived(t)
    PROVE  ClientType'
  <1>1. /\ receiver' \in [Client -> {"idle", "waiting", "counting"}]
        /\ notified' \subseteq {c \in Client : receiver'[c] = "waiting"}
    BY DEF CountReceived, ReceiverStep, ClientType
  <1>2. status \in [{"sent", "received", "transmissionErrors", "receptionErrors"} -> Nat]
    BY DEF ClientType
  <1>3. status' = [status EXCEPT !.received = @ + 1]
    BY DEF CountReceived
  <1>4. status' \in [{"sent", "received", "transmissionErrors", "receptionErrors"} -> Nat]
    BY <1>2, <1>3
  <1>5. UNCHANGED <<missed, sender, sends, delivered, faults>>
    BY DEF CountReceived, ReceiverStep, senderVars
  <1> QED BY <1>1, <1>4, <1>5 DEF ClientType

LEMMA ClientTypeNext == ReaderType /\ ClientType /\ [Next]_vars => ClientType'
  <1> SUFFICES ASSUME ReaderType, ClientType, [Next]_vars PROVE ClientType'
    OBVIOUS
  <1> USE DEF receiverVars, senderVars
  <1>1. CASE PeerNext \/ ModemNext \/ UNCHANGED vars
    BY <1>1, PeerLeaves, ModemLeaves DEF ClientType, vars
  <1>2. CASE OwnerNext
    BY <1>2, OwnerLeaves DEF ClientType
  <1>3. CASE ReaderNext
    <2>1. /\ notified' \subseteq {t \in Client : receiver[t] = "waiting"}
          /\ UNCHANGED status \/ CountError
      BY <1>3 DEF ClientType, ReaderNext, ReaderRun, ReaderStep, Parse, ReaderTest, ReadStart,
         ReadBody, ReadSome, ParsePacket, NotifyOne, ParseError, ParseOther, ParseSkip, CountFailure,
         ReadFails
    <2> QED BY <1>3, <2>1, ReaderLeaves DEF ClientType, CountError
  <1>4. CASE SenderNext
    <2>1. CASE SendPacket \/ SendPacketFails
      BY <1>4, <2>1, SenderLeaves DEF ClientType, SendPacket, SendPacketFails, SenderStep
    <2>2. CASE SendCounted
      BY <1>4, <2>2, SenderLeaves DEF ClientType, SendCounted, SenderStep, CountSend
    <2> QED BY <1>4, <2>1, <2>2 DEF SenderNext
  <1>5. CASE ReceiverNext
    <2>1. delivered' \in Seq(1 .. MaxPackets)
      <3>1. queue # <<>> => Head(queue) \in 1 .. MaxPackets
        BY TailIsRest DEF ReaderType
      <3>2. queue # <<>> => Append(delivered, Head(queue)) \in Seq(1 .. MaxPackets)
        BY <3>1, AppendEnds DEF ClientType
      <3>3. delivered' = delivered \/ (queue # <<>> /\ delivered' = Append(delivered, Head(queue)))
        BY <1>5, ReceiverQueue
      <3> QED BY <3>2, <3>3 DEF ClientType
    <2>2. PICK t \in Client : ReceiverRun(t) \/ Wait(t) \/ WakeToPacket(t) \/ WakeToNothing(t)
      BY <1>5 DEF ReceiverNext
    <2> USE DEF ClientType, ReceiverStep
    <2>3. CASE Receive(t)
      BY <2>1, <2>3 DEF Receive, Pop
    <2>4. CASE WakeToPacket(t)
      BY <2>1, <2>4 DEF WakeToPacket, Pop
    <2>5. CASE Wait(t)
      BY <2>5 DEF Wait
    <2>6. CASE WakeToNothing(t)
      BY <2>6 DEF WakeToNothing
    <2>7. CASE Timeout(t)
      BY <2>7 DEF Timeout
    <2>8. CASE CountReceived(t)
      BY <2>8, CountReceivedType
    <2> QED BY <2>2, <2>3, <2>4, <2>5, <2>6, <2>7, <2>8 DEF ReceiverRun
  <1> QED BY <1>1, <1>2, <1>3, <1>4, <1>5, Steps

LEMMA TypeNext == TypeOK /\ [Next]_vars => TypeOK'
  <1> SUFFICES ASSUME OwnerType, ReaderType, ClientType, [Next]_vars PROVE TypeOK'
    BY TypeParts
  <1>1. OwnerType' /\ ReaderType' /\ ClientType'
    BY OwnerTypeNext, ReaderTypeNext, ClientTypeNext
  <1> QED BY <1>1 DEF TypeOK, OwnerType, ReaderType, ClientType

\* Every variable keeps its type; a notified client is one that waits, and the dialogue
\* of configure and initialize awaits a reply only while it lasts.
THEOREM TypeCorrect == Spec => []TypeOK
  BY TypeInit, TypeNext, PTL DEF Spec

-----------------------------------------------------------------------------
(* The statistics.                                                         *)

Counting == {t \in Client : receiver[t] = "counting"}

LEMMA CountingFinite == IsFiniteSet(Counting) /\ Cardinality(Counting) \in Nat
  BY ClientAssumption, FS_Subset, FS_CardinalityType DEF Counting

\* How a step of receivePacket changes the clients that are about to count.
LEMMA CountingMoves ==
    ASSUME ClientType, NEW t \in Client, NEW from, NEW to, ReceiverStep(t, from, to)
    PROVE  /\ from # "counting" /\ to # "counting" => Counting' = Counting
           /\ from # "counting" /\ to = "counting"
                => Cardinality(Counting') = Cardinality(Counting) + 1
           /\ from = "counting" /\ to # "counting"
                => Cardinality(Counting') = Cardinality(Counting) - 1
  <1>1. /\ receiver \in [Client -> {"idle", "waiting", "counting"}]
        /\ receiver[t] = from
        /\ receiver' = [receiver EXCEPT ![t] = to]
    BY DEF ClientType, ReceiverStep
  <1>2. from # "counting" /\ to # "counting" => Counting' = Counting
    BY <1>1 DEF Counting
  <1>3. ASSUME from # "counting", to = "counting"
        PROVE  Cardinality(Counting') = Cardinality(Counting) + 1
    <2>1. Counting' = Counting \cup {t} /\ t \notin Counting
      BY <1>1, <1>3 DEF Counting
    <2> QED BY <2>1, CountingFinite, FS_AddElement
  <1>4. ASSUME from = "counting", to # "counting"
        PROVE  Cardinality(Counting') = Cardinality(Counting) - 1
    <2>1. Counting' = Counting \ {t} /\ t \in Counting
      BY <1>1, <1>4 DEF Counting
    <2> QED BY <2>1, CountingFinite, FS_RemoveElement
  <1> QED BY <1>2, <1>3, <1>4

FramesAccounted == frames + failures = Len(delivered) + Len(queue) + status.receptionErrors

ReceivedAccounted == Len(delivered) = status.received + Cardinality(Counting)

SendsAccounted ==
    sends = status.sent + status.transmissionErrors + (IF sender = "idle" THEN 0 ELSE 1)

LEMMA StatusParts ==
    StatusAccounted <=> FramesAccounted /\ ReceivedAccounted /\ SendsAccounted
  BY DEF StatusAccounted, FramesAccounted, ReceivedAccounted, SendsAccounted, Counting

LEMMA StatusInit == Init => StatusAccounted
  <1> SUFFICES ASSUME Init PROVE FramesAccounted /\ ReceivedAccounted /\ SendsAccounted
    BY StatusParts
  <1>1. Counting = {} /\ Len(delivered) = 0 /\ Len(queue) = 0
    BY DEF Init, Counting
  <1>2. Cardinality(Counting) = 0
    BY <1>1, FS_EmptySet
  <1> QED BY <1>1, <1>2 DEF Init, FramesAccounted, ReceivedAccounted, SendsAccounted

\* What the reader does to the sums: a frame more in the queue or counted as an error,
\* or a failed read more.
LEMMA ReaderCounts ==
    ASSUME ReaderType, ClientType, ReaderNext
    PROVE  \/ UNCHANGED <<frames, failures, queue, status>>
           \/ /\ frames' = frames + 1
              /\ Len(queue') = Len(queue) + 1
              /\ UNCHANGED <<failures, status>>
           \/ /\ \/ frames' = frames + 1 /\ failures' = failures
                 \/ failures' = failures + 1 /\ frames' = frames
              /\ CountError
              /\ UNCHANGED queue
  <1>1. CASE ParsePacket
    BY <1>1, FrameNumber, AppendEnds DEF ReaderType, ParsePacket, Parse, ReaderStep
  <1>2. CASE ParseError \/ CountFailure
    BY <1>2 DEF ParseError, CountFailure
  <1>3. CASE ReaderTest \/ ReadStart \/ ReadBody \/ ParseOther \/ ParseSkip \/ ReadFails
             \/ \E n \in 1 .. Len(input) : ReadSome(n)
    BY <1>3 DEF ReaderTest, ReadStart, ReadBody, ParseOther, ParseSkip, ReadFails, ReadSome
  <1> QED BY <1>1, <1>2, <1>3 DEF ReaderNext, ReaderRun

LEMMA QueueLengths ==
    ASSUME ReaderType, ClientType
    PROVE  /\ Len(queue) \in Nat /\ Len(delivered) \in Nat
           /\ queue # <<>> => /\ Len(Tail(queue)) = Len(queue) - 1
                              /\ Len(Append(delivered, Head(queue))) = Len(delivered) + 1
  <1>1. queue # <<>> => Head(queue) \in 1 .. MaxPackets /\ Len(Tail(queue)) = Len(queue) - 1
    BY TailIsRest DEF ReaderType
  <1> QED BY <1>1, AppendEnds DEF ReaderType, ClientType

\* The sums after one more of a summand and of the total, or one moved between two.
LEMMA Sums ==
    ASSUME NEW f \in Nat, NEW g \in Nat, NEW d \in Nat, NEW q \in Nat, NEW e \in Nat
    PROVE  f + g = d + q + e =>
               /\ (f + 1) + g = d + (q + 1) + e
               /\ (f + 1) + g = d + q + (e + 1)
               /\ f + (g + 1) = d + q + (e + 1)
               /\ f + g = (d + 1) + (q - 1) + e
  OBVIOUS

LEMMA MoreReceived ==
    ASSUME NEW d \in Nat, NEW r \in Nat, NEW n \in Nat
    PROVE  d = r + n => d + 1 = r + (n + 1) /\ d = (r + 1) + (n - 1)
  OBVIOUS

LEMMA MoreSent ==
    ASSUME NEW a \in Nat, NEW b \in Nat
    PROVE  /\ (a + b + 0) + 1 = a + b + 1
           /\ a + b + 1 = (a + 1) + b + 0
           /\ a + b + 1 = a + (b + 1) + 0
  OBVIOUS

LEMMA StatusFields ==
    ASSUME ClientType
    PROVE  /\ status.sent \in Nat /\ status.received \in Nat
           /\ status.transmissionErrors \in Nat /\ status.receptionErrors \in Nat
           /\ CountError => /\ status'.receptionErrors = status.receptionErrors + 1
                            /\ status'.received = status.received
                            /\ status'.sent = status.sent
                            /\ status'.transmissionErrors = status.transmissionErrors
  BY DEF ClientType, CountError

LEMMA FramesNext ==
    ASSUME ReaderType, ClientType, FramesAccounted, [Next]_vars
    PROVE  FramesAccounted'
  <1>1. /\ frames \in Nat /\ failures \in Nat /\ Len(delivered) \in Nat
        /\ Len(queue) \in Nat /\ status.receptionErrors \in Nat
    BY QueueLengths, StatusFields DEF ReaderType
  <1>2. FramesAccounted' <=>
            frames' + failures' = Len(delivered') + Len(queue') + status'.receptionErrors
    BY DEF FramesAccounted
  <1>3. frames + failures = Len(delivered) + Len(queue) + status.receptionErrors
    BY DEF FramesAccounted
  <1>4. CASE PeerNext \/ ModemNext \/ OwnerNext \/ UNCHANGED vars
    BY <1>2, <1>3, <1>4, PeerLeaves, ModemLeaves, OwnerLeaves DEF vars, readerVars, receiverVars
  <1>5. CASE ReaderNext
    <2>1. delivered' = delivered
      BY <1>5, ReaderLeaves DEF receiverVars
    <2>2. CASE UNCHANGED <<frames, failures, queue, status>>
      BY <1>2, <1>3, <2>1, <2>2
    <2>3. CASE /\ frames' = frames + 1 /\ Len(queue') = Len(queue) + 1
               /\ UNCHANGED <<failures, status>>
      BY <1>1, <1>2, <1>3, <2>1, <2>3, Sums
    <2>4. CASE frames' = frames + 1 /\ failures' = failures /\ CountError /\ UNCHANGED queue
      BY <1>1, <1>2, <1>3, <2>1, <2>4, Sums, StatusFields
    <2>5. CASE failures' = failures + 1 /\ frames' = frames /\ CountError /\ UNCHANGED queue
      BY <1>1, <1>2, <1>3, <2>1, <2>5, Sums, StatusFields
    <2> QED BY <1>5, <2>2, <2>3, <2>4, <2>5, ReaderCounts
  <1>6. CASE SenderNext
    <2>1. UNCHANGED <<frames, failures, delivered, queue>>
      BY <1>6, SenderLeaves DEF readerVars, receiverVars
    <2>2. status'.receptionErrors = status.receptionErrors
      BY <1>6 DEF ClientType, SenderNext, SendPacket, SendPacketFails, SendCounted, CountSend
    <2> QED BY <1>2, <1>3, <2>1, <2>2
  <1>7. CASE ReceiverNext
    <2>1. UNCHANGED <<frames, failures>>
      BY <1>7, ReceiverLeaves DEF readerVars
    <2>2. status'.receptionErrors = status.receptionErrors
      BY <1>7 DEF ClientType, ReceiverNext, ReceiverRun, Receive, Pop, Timeout, CountReceived,
                  Wait, WakeToPacket, WakeToNothing
    <2>3. CASE UNCHANGED <<queue, delivered>>
      BY <1>2, <1>3, <2>1, <2>2, <2>3
    <2>4. CASE /\ queue # <<>> /\ queue' = Tail(queue)
               /\ delivered' = Append(delivered, Head(queue))
      <3>1. Len(queue') = Len(queue) - 1 /\ Len(delivered') = Len(delivered) + 1
        BY <2>4, QueueLengths
      <3> QED BY <1>1, <1>2, <1>3, <2>1, <2>2, <3>1, Sums
    <2> QED BY <1>7, <2>3, <2>4, ReceiverQueue
  <1> QED BY <1>4, <1>5, <1>6, <1>7, Steps

LEMMA ReceivedNext ==
    ASSUME ReaderType, ClientType, ReceivedAccounted, [Next]_vars
    PROVE  ReceivedAccounted'
  <1>1. Len(delivered) \in Nat /\ status.received \in Nat /\ Cardinality(Counting) \in Nat
    BY QueueLengths, StatusFields, CountingFinite
  <1>2. ReceivedAccounted' <=> Len(delivered') = status'.received + Cardinality(Counting')
    BY DEF ReceivedAccounted
  <1>3. Len(delivered) = status.received + Cardinality(Counting)
    BY DEF ReceivedAccounted
  <1>4. CASE PeerNext \/ ModemNext \/ OwnerNext \/ UNCHANGED vars
    <2>1. UNCHANGED <<delivered, status, Counting>>
      BY <1>4, PeerLeaves, ModemLeaves, OwnerLeaves DEF vars, receiverVars, Counting
    <2> QED BY <1>2, <1>3, <2>1
  <1>5. CASE ReaderNext
    <2>1. UNCHANGED <<delivered, Counting>>
      BY <1>5, ReaderLeaves DEF receiverVars, Counting
    <2>2. status'.received = status.received
      BY <1>5, ReaderCounts, StatusFields
    <2> QED BY <1>2, <1>3, <2>1, <2>2
  <1>6. CASE SenderNext
    <2>1. UNCHANGED <<delivered, Counting>>
      BY <1>6, SenderLeaves DEF receiverVars, Counting
    <2>2. status'.received = status.received
      BY <1>6 DEF ClientType, SenderNext, SendPacket, SendPacketFails, SendCounted, CountSend
    <2> QED BY <1>2, <1>3, <2>1, <2>2
  <1>7. CASE ReceiverNext
    <2>1. PICK t \in Client : ReceiverRun(t) \/ Wait(t) \/ WakeToPacket(t) \/ WakeToNothing(t)
      BY <1>7 DEF ReceiverNext
    <2>2. CASE Wait(t) \/ WakeToNothing(t) \/ Timeout(t)
      <3>1. Counting' = Counting /\ UNCHANGED <<delivered, status>>
        BY <2>2, CountingMoves DEF Wait, WakeToNothing, Timeout
      <3> QED BY <1>2, <1>3, <3>1
    <2>3. CASE Receive(t) \/ WakeToPacket(t)
      <3>1. /\ ReceiverStep(t, "idle", "counting") \/ ReceiverStep(t, "waiting", "counting")
            /\ queue # <<>>
            /\ delivered' = Append(delivered, Head(queue))
            /\ UNCHANGED status
        BY <2>3 DEF Receive, WakeToPacket, Pop
      <3>2. Cardinality(Counting') = Cardinality(Counting) + 1
        BY <3>1, CountingMoves
      <3>3. Len(delivered') = Len(delivered) + 1
        BY <3>1, QueueLengths
      <3>4. status'.received = status.received
        BY <3>1
      <3>5. Len(delivered) + 1 = status.received + (Cardinality(Counting) + 1)
        BY <1>1, <1>3, MoreReceived
      <3> QED BY <1>2, <3>2, <3>3, <3>4, <3>5
    <2>4. CASE CountReceived(t)
      <3>1. Cardinality(Counting') = Cardinality(Counting) - 1 /\ UNCHANGED delivered
        BY <2>4, CountingMoves DEF CountReceived
      <3>2. status'.received = status.received + 1
        BY <2>4 DEF CountReceived, ClientType
      <3>3. Len(delivered) = (status.received + 1) + (Cardinality(Counting) - 1)
        BY <1>1, <1>3, MoreReceived
      <3> QED BY <1>2, <3>1, <3>2, <3>3
    <2> QED BY <2>1, <2>2, <2>3, <2>4 DEF ReceiverRun
  <1> QED BY <1>4, <1>5, <1>6, <1>7, Steps

LEMMA SendsNext ==
    ASSUME ReaderType, ClientType, SendsAccounted, [Next]_vars
    PROVE  SendsAccounted'
  <1> DEFINE open == IF sender = "idle" THEN 0 ELSE 1
  <1>1. status.sent \in Nat /\ status.transmissionErrors \in Nat
    BY StatusFields
  <1>2. SendsAccounted' <=> sends' = status'.sent + status'.transmissionErrors + open'
    BY DEF SendsAccounted
  <1>3. sends = status.sent + status.transmissionErrors + open
    BY DEF SendsAccounted
  <1>4. CASE PeerNext \/ ModemNext \/ OwnerNext \/ UNCHANGED vars
    <2>1. UNCHANGED <<sends, status, open>>
      BY <1>4, PeerLeaves, ModemLeaves, OwnerLeaves DEF vars, senderVars
    <2> QED BY <1>2, <1>3, <2>1
  <1>5. CASE ReaderNext \/ ReceiverNext
    <2>1. UNCHANGED <<sends, open>>
      BY <1>5, ReaderLeaves, ReceiverLeaves DEF senderVars
    <2>2. CASE ReaderNext
      <3>1. status'.sent = status.sent /\ status'.transmissionErrors = status.transmissionErrors
        BY <2>2, ReaderCounts, StatusFields
      <3> QED BY <1>2, <1>3, <2>1, <3>1
    <2>3. CASE ReceiverNext
      <3>1. status'.sent = status.sent /\ status'.transmissionErrors = status.transmissionErrors
        BY <2>3 DEF ClientType, ReceiverNext, ReceiverRun, Receive, Pop, Timeout, CountReceived,
                    Wait, WakeToPacket, WakeToNothing
      <3> QED BY <1>2, <1>3, <2>1, <3>1
    <2> QED BY <1>5, <2>2, <2>3
  <1>6. CASE SendPacket \/ SendPacketFails
    <2>1. UNCHANGED status /\ sends' = sends + 1 /\ open = 0 /\ open' = 1
      BY <1>6 DEF SendPacket, SendPacketFails, SenderStep
    <2> HIDE DEF open
    <2> QED BY <1>1, <1>2, <1>3, <2>1, MoreSent
  <1>7. CASE SendCounted
    <2>1. sends' = sends /\ open = 1 /\ open' = 0
      BY <1>7 DEF SendCounted, SenderStep
    <2>2. \/ /\ status'.sent = status.sent + 1
             /\ status'.transmissionErrors = status.transmissionErrors
          \/ /\ status'.sent = status.sent
             /\ status'.transmissionErrors = status.transmissionErrors + 1
      BY <1>7 DEF SendCounted, CountSend, ClientType
    <2> HIDE DEF open
    <2> QED BY <1>1, <1>2, <1>3, <2>1, <2>2, MoreSent
  <1> QED BY <1>4, <1>5, <1>6, <1>7, Steps DEF SenderNext

LEMMA StatusNext == TypeOK /\ StatusAccounted /\ [Next]_vars => StatusAccounted'
  <1> SUFFICES ASSUME ReaderType, ClientType, FramesAccounted, ReceivedAccounted,
                      SendsAccounted, [Next]_vars
               PROVE  FramesAccounted' /\ ReceivedAccounted' /\ SendsAccounted'
    BY StatusParts, TypeParts
       DEF StatusAccounted, FramesAccounted, ReceivedAccounted, SendsAccounted, Counting
  <1> QED BY FramesNext, ReceivedNext, SendsNext

LEMMA StatusAlways == Spec => [](TypeOK /\ StatusAccounted)
  BY TypeInit, TypeNext, StatusInit, StatusNext, PTL DEF Spec

\* Every frame of a packet that is parsed is received, queued or counted as an error,
\* every received packet and every send is counted, although three kinds of threads
\* update the statistics.  What ParseOther drops, the XBee's frames of other types, is
\* in none of the sums.
THEOREM Accounted == Spec => []StatusAccounted
  BY StatusAlways, PTL

-----------------------------------------------------------------------------
(* Notifications.                                                          *)

\* A client that sleeps and that no notification has reached.
Asleep(t) == receiver[t] = "waiting" /\ t \notin notified

Announced == Len(queue) <= Cardinality(notified) + missed

LEMMA AnnouncedParts == PacketsAnnounced <=> ((\E t \in Client : Asleep(t)) => Announced)
  BY DEF PacketsAnnounced, Asleep, Announced

LEMMA NotifiedFinite ==
    ASSUME ClientType
    PROVE  IsFiniteSet(notified) /\ Cardinality(notified) \in Nat
  BY ClientAssumption, FS_Subset, FS_CardinalityType DEF ClientType

LEMMA AnnouncedInit == Init => PacketsAnnounced
  BY DEF Init, PacketsAnnounced

LEMMA Balance ==
    ASSUME NEW q \in Nat, NEW n \in Nat, NEW m \in Nat
    PROVE  q <= n + m => /\ q + 1 <= (n + 1) + m
                         /\ q - 1 <= n + m
                         /\ q - 1 <= (n - 1) + m
                         /\ q <= (n - 1) + (m + 1)
  OBVIOUS

LEMMA ReaderAnnounces ==
    ASSUME ReaderType, ClientType, PacketsAnnounced, ReaderNext
    PROVE  PacketsAnnounced'
  <1>1. UNCHANGED <<receiver, missed>>
    BY ReaderLeaves DEF receiverVars
  <1>2. CASE UNCHANGED <<queue, notified>>
    BY <1>1, <1>2 DEF PacketsAnnounced
  <1>3. CASE ParsePacket
    <2>1. Len(queue') = Len(queue) + 1 /\ Len(queue) \in Nat /\ NotifyOne
      BY <1>3, FrameNumber, AppendEnds DEF ReaderType, ParsePacket
    <2> SUFFICES ASSUME NEW t \in Client, receiver'[t] = "waiting", t \notin notified'
                 PROVE  Len(queue') <= Cardinality(notified') + missed'
      BY DEF PacketsAnnounced
    <2>2. PICK s \in Client : notified' = notified \cup {s} /\ s \notin notified /\ Asleep(t)
      BY <1>1, <2>1 DEF NotifyOne, Asleep
    <2>3. Cardinality(notified') = Cardinality(notified) + 1
      BY <2>2, NotifiedFinite, FS_AddElement
    <2>4. Len(queue) <= Cardinality(notified) + missed
      BY <2>2, AnnouncedParts DEF Announced
    <2> QED BY <1>1, <2>1, <2>3, <2>4, NotifiedFinite, Balance DEF ClientType
  <1>4. ParsePacket \/ UNCHANGED <<queue, notified>>
    BY DEF ReaderNext, ReaderRun, ReaderTest, ReadStart, ReadBody, ReadSome, ParseError,
           ParseOther, ParseSkip, CountFailure, ReadFails
  <1> QED BY <1>2, <1>3, <1>4

\* A client that falls asleep does so when the queue is empty.
LEMMA SleeperStays ==
    ASSUME ClientType, NEW t \in Client, NEW from, NEW to, to # "waiting",
           ReceiverStep(t, from, to), notified' = notified \ {t},
           NEW s \in Client, Asleep(s)'
    PROVE  Asleep(s)
  BY DEF Asleep, ReceiverStep, ClientType

LEMMA ReceiverAnnounces ==
    ASSUME ReaderType, ClientType, PacketsAnnounced, ReceiverNext
    PROVE  PacketsAnnounced'
  <1> SUFFICES ASSUME NEW s \in Client, Asleep(s)' PROVE Announced'
    BY DEF PacketsAnnounced, Asleep, Announced
  <1>1. /\ Len(queue) \in Nat /\ missed \in Nat
        /\ queue # <<>> => Len(Tail(queue)) = Len(queue) - 1
    BY QueueLengths DEF ClientType
  <1>2. IsFiniteSet(notified) /\ Cardinality(notified) \in Nat
    BY NotifiedFinite
  <1>3. Announced' <=> Len(queue') <= Cardinality(notified') + missed'
    BY DEF Announced
  <1>4. Asleep(s) => Len(queue) <= Cardinality(notified) + missed
    BY AnnouncedParts DEF Announced
  <1>5. PICK t \in Client : ReceiverRun(t) \/ Wait(t) \/ WakeToPacket(t) \/ WakeToNothing(t)
    BY DEF ReceiverNext
  <1>6. Cardinality(notified \ {t}) =
          IF t \in notified THEN Cardinality(notified) - 1 ELSE Cardinality(notified)
    BY <1>2, FS_RemoveElement
  <1>7. CASE Wait(t) \/ WakeToNothing(t)
    <2>1. queue = <<>> /\ UNCHANGED <<queue, missed>> /\ notified' \in {notified, notified \ {t}}
      BY <1>7 DEF Wait, WakeToNothing
    <2>a. Len(queue') = 0 /\ missed' \in Nat
      BY <1>1, <2>1
    <2>b. IsFiniteSet(notified')
      <3>1. IsFiniteSet(notified \ {t})
        BY <1>2, FS_RemoveElement
      <3> QED BY <1>2, <2>1, <3>1
    <2>2. Cardinality(notified') \in Nat
      BY <2>b, FS_CardinalityType
    <2> QED BY <1>3, <2>a, <2>2
  <1>8. CASE Receive(t)
    <2>1. queue # <<>> /\ queue' = Tail(queue) /\ UNCHANGED <<notified, missed>>
      BY <1>8 DEF Receive, Pop
    <2>2. Asleep(s)
      BY <1>8 DEF Receive, Pop, Asleep, ReceiverStep, ClientType
    <2> QED BY <1>1, <1>2, <1>3, <1>4, <2>1, <2>2, Balance
  <1>9. CASE WakeToPacket(t)
    <2>1. /\ queue # <<>> /\ queue' = Tail(queue)
          /\ notified' = notified \ {t} /\ UNCHANGED missed
      BY <1>9 DEF WakeToPacket, Pop
    <2>2. Asleep(s)
      BY <1>9, <2>1, SleeperStays DEF WakeToPacket, Pop
    <2> QED BY <1>1, <1>2, <1>3, <1>4, <1>6, <2>1, <2>2, Balance
  <1>10. CASE Timeout(t)
    <2>1. /\ UNCHANGED queue /\ notified' = notified \ {t}
          /\ missed' = IF t \in notified THEN missed + 1 ELSE missed
      BY <1>10 DEF Timeout
    <2>2. Asleep(s)
      BY <1>10, <2>1, SleeperStays DEF Timeout
    <2> QED BY <1>1, <1>2, <1>3, <1>4, <1>6, <2>1, <2>2, Balance
  <1>11. CASE CountReceived(t)
    <2>1. UNCHANGED <<queue, notified, missed>>
      BY <1>11 DEF CountReceived
    <2>2. Asleep(s)
      BY <1>11 DEF CountReceived, Asleep, ReceiverStep, ClientType
    <2> QED BY <1>3, <1>4, <2>1, <2>2
  <1> QED BY <1>5, <1>7, <1>8, <1>9, <1>10, <1>11 DEF ReceiverRun

LEMMA AnnouncedNext == TypeOK /\ PacketsAnnounced /\ [Next]_vars => PacketsAnnounced'
  <1> SUFFICES ASSUME ReaderType, ClientType, PacketsAnnounced, [Next]_vars
               PROVE  PacketsAnnounced'
    BY TypeParts
  <1>1. CASE PeerNext \/ ModemNext \/ OwnerNext \/ SenderNext \/ UNCHANGED vars
    <2>1. UNCHANGED <<receiver, missed, queue, notified>>
      BY <1>1, PeerLeaves, ModemLeaves, OwnerLeaves, SenderLeaves DEF vars, receiverVars
    <2> QED BY <2>1 DEF PacketsAnnounced
  <1> QED BY <1>1, ReaderAnnounces, ReceiverAnnounces, Steps

\* While a client sleeps in receivePacket, each queued packet has another client that
\* was notified of it and is awake or about to be, or whose wait timed out just then.
THEOREM EveryPacketAnnounced == Spec => []PacketsAnnounced
  BY TypeInit, TypeNext, AnnouncedInit, AnnouncedNext, PTL DEF Spec

-----------------------------------------------------------------------------
(* Order.                                                                  *)

\* Token a of the peer may be followed by b.  Noise and replies have number 0.
Before(a, b) ==
    a[1] > 0 /\ b[1] > 0 =>
        \/ a[1] < b[1]
        \/ a[1] = b[1] /\ a[2] = "head" /\ b[2] = "tail"

Ascending(s) == \A i, j \in 1 .. Len(s) : i < j => Before(s[i], s[j])

\* What the reader holds and what the port has ready are in the order of the peer.
StreamOrdered ==
    /\ Ascending(chunk) /\ Ascending(input)
    /\ \A i \in 1 .. Len(chunk), j \in 1 .. Len(input) : Before(chunk[i], input[j])
    /\ \A i \in 1 .. Len(chunk) : chunk[i][1] <= sent
    /\ \A i \in 1 .. Len(input) : input[i][1] <= sent

\* r is s from its element k + 1 on, or a prefix of that.
Part(r, s, k) ==
    /\ Len(r) \in Nat
    /\ k + Len(r) <= Len(s)
    /\ \A i \in 1 .. Len(r) : r[i] = s[k + i]

LEMMA PartIndex ==
    ASSUME NEW S, NEW s \in Seq(S), NEW r, NEW k \in Nat, Part(r, s, k)
    PROVE  \A i \in 1 .. Len(r) : k + i \in 1 .. Len(s) /\ r[i] = s[k + i]
  BY DEF Part

LEMMA PartAscending ==
    ASSUME NEW s \in Seq(Token), NEW r, NEW k \in Nat, Part(r, s, k), Ascending(s)
    PROVE  Ascending(r)
  <1> SUFFICES ASSUME NEW i \in 1 .. Len(r), NEW j \in 1 .. Len(r), i < j
               PROVE  Before(r[i], r[j])
    BY DEF Ascending
  <1>1. k + i \in 1 .. Len(s) /\ k + j \in 1 .. Len(s) /\ k + i < k + j
    BY PartIndex
  <1>2. r[i] = s[k + i] /\ r[j] = s[k + j]
    BY PartIndex
  <1>3. Before(s[k + i], s[k + j])
    BY <1>1 DEF Ascending
  <1> QED BY <1>2, <1>3

\* Dropping tokens at either end keeps the order.
LEMMA StreamShrinks ==
    ASSUME ReaderType, StreamOrdered, UNCHANGED sent,
           NEW k \in Nat, NEW l \in Nat, Part(chunk', chunk, k), Part(input', input, l)
    PROVE  StreamOrdered'
  <1>1. chunk \in Seq(Token) /\ input \in Seq(Token)
    BY DEF ReaderType
  <1>2. Ascending(chunk') /\ Ascending(input')
    BY <1>1, PartAscending DEF StreamOrdered
  <1>3. \A i \in 1 .. Len(chunk') : k + i \in 1 .. Len(chunk) /\ chunk'[i] = chunk[k + i]
    BY <1>1, PartIndex
  <1>4. \A i \in 1 .. Len(input') : l + i \in 1 .. Len(input) /\ input'[i] = input[l + i]
    BY <1>1, PartIndex
  <1>5. \A i \in 1 .. Len(chunk'), j \in 1 .. Len(input') : Before(chunk'[i], input'[j])
    BY <1>3, <1>4 DEF StreamOrdered
  <1>6. /\ \A i \in 1 .. Len(chunk') : chunk'[i][1] <= sent'
        /\ \A i \in 1 .. Len(input') : input'[i][1] <= sent'
    BY <1>3, <1>4 DEF StreamOrdered
  <1> QED BY <1>2, <1>5, <1>6 DEF StreamOrdered, Ascending

LEMMA Itself == ASSUME NEW S, NEW s \in Seq(S) PROVE Part(s, s, 0) /\ Part(<<>>, s, 0)
  BY DEF Part

\* The reader takes the first n tokens of the port behind those it holds.
LEMMA StreamMoves ==
    ASSUME ReaderType, StreamOrdered, UNCHANGED sent, NEW n \in 1 .. Len(input),
           chunk' = chunk \o SubSeq(input, 1, n), input' = SubSeq(input, n + 1, Len(input))
    PROVE  StreamOrdered'
  <1>1. chunk \in Seq(Token) /\ input \in Seq(Token)
    BY DEF ReaderType
  <1>2. /\ Len(input') = Len(input) - n
        /\ \A i \in 1 .. Len(input') : n + i \in 1 .. Len(input) /\ input'[i] = input[n + i]
    BY <1>1, PrefixRest
  <1>3. /\ Len(chunk) \in Nat /\ Len(chunk') = Len(chunk) + n
        /\ \A i \in 1 .. Len(chunk) : chunk'[i] = chunk[i]
        /\ \A i \in 1 .. n : chunk'[Len(chunk) + i] = input[i]
    <2>1. /\ SubSeq(input, 1, n) \in Seq(Token) /\ Len(SubSeq(input, 1, n)) = n
          /\ \A i \in 1 .. n : SubSeq(input, 1, n)[i] = input[i]
      BY <1>1, PrefixRest
    <2> QED BY <1>1, <2>1
  <1>4. \A i \in 1 .. Len(chunk') :
            \/ i \in 1 .. Len(chunk) /\ chunk'[i] = chunk[i]
            \/ /\ i - Len(chunk) \in 1 .. n /\ i - Len(chunk) \in 1 .. Len(input)
               /\ chunk'[i] = input[i - Len(chunk)]
    <2> SUFFICES ASSUME NEW i \in 1 .. Len(chunk'), i \notin 1 .. Len(chunk)
                 PROVE  /\ i - Len(chunk) \in 1 .. n /\ i - Len(chunk) \in 1 .. Len(input)
                        /\ chunk'[i] = input[i - Len(chunk)]
      BY <1>3
    <2>1. i - Len(chunk) \in 1 .. n /\ Len(chunk) + (i - Len(chunk)) = i
      BY <1>3
    <2> QED BY <1>3, <2>1
  <1>5. Ascending(chunk')
    <2> SUFFICES ASSUME NEW i \in 1 .. Len(chunk'), NEW j \in 1 .. Len(chunk'), i < j
                 PROVE  Before(chunk'[i], chunk'[j])
      BY DEF Ascending
    <2>1. CASE j \in 1 .. Len(chunk)
      <3>1. i \in 1 .. Len(chunk)
        BY <1>3, <2>1
      <3> QED BY <1>3, <2>1, <3>1 DEF StreamOrdered, Ascending
    <2>2. CASE j \notin 1 .. Len(chunk) /\ i \in 1 .. Len(chunk)
      <3>1. j - Len(chunk) \in 1 .. Len(input) /\ chunk'[j] = input[j - Len(chunk)]
        BY <1>4, <2>2
      <3> QED BY <1>3, <2>2, <3>1 DEF StreamOrdered
    <2>3. CASE j \notin 1 .. Len(chunk) /\ i \notin 1 .. Len(chunk)
      <3>1. /\ j - Len(chunk) \in 1 .. Len(input) /\ chunk'[j] = input[j - Len(chunk)]
            /\ i - Len(chunk) \in 1 .. Len(input) /\ chunk'[i] = input[i - Len(chunk)]
        BY <1>4, <2>3
      <3>2. i - Len(chunk) < j - Len(chunk)
        BY <1>3
      <3> QED BY <3>1, <3>2 DEF StreamOrdered, Ascending
    <2> QED BY <2>1, <2>2, <2>3
  <1>6. Ascending(input')
    <2> SUFFICES ASSUME NEW i \in 1 .. Len(input'), NEW j \in 1 .. Len(input'), i < j
                 PROVE  Before(input'[i], input'[j])
      BY DEF Ascending
    <2>1. n + i < n + j
      BY <1>1, <1>2
    <2> QED BY <1>2, <2>1 DEF StreamOrdered, Ascending
  <1>7. ASSUME NEW i \in 1 .. Len(chunk'), NEW j \in 1 .. Len(input')
        PROVE  Before(chunk'[i], input'[j])
    <2>1. n + j \in 1 .. Len(input) /\ input'[j] = input[n + j]
      BY <1>2
    <2>2. CASE i \in 1 .. Len(chunk)
      BY <1>3, <2>1, <2>2 DEF StreamOrdered
    <2>3. CASE i \notin 1 .. Len(chunk)
      <3>1. /\ i - Len(chunk) \in 1 .. n /\ i - Len(chunk) \in 1 .. Len(input)
            /\ chunk'[i] = input[i - Len(chunk)]
        BY <1>4, <2>3
      <3>2. i - Len(chunk) < n + j
        BY <1>1, <1>3, <3>1
      <3> QED BY <2>1, <3>1, <3>2 DEF StreamOrdered, Ascending
    <2> QED BY <2>2, <2>3
  <1>8. /\ \A i \in 1 .. Len(chunk') : chunk'[i][1] <= sent'
        /\ \A i \in 1 .. Len(input') : input'[i][1] <= sent'
    BY <1>2, <1>4 DEF StreamOrdered
  <1> QED BY <1>5, <1>6, <1>7, <1>8 DEF StreamOrdered, Ascending

LEMMA TokenNumber == ASSUME NEW token \in Token PROVE token[1] \in Nat
  BY BoundsAssumption DEF Token

\* Tokens arrive behind those that have: noise, replies, or halves of a newer packet.
LEMMA StreamGrows ==
    ASSUME ReaderType, StreamOrdered, UNCHANGED chunk, sent' \in Nat, sent <= sent',
           NEW tokens \in Seq(Token), input' = input \o tokens, Ascending(tokens),
           \A i \in 1 .. Len(tokens) : tokens[i][1] = 0 \/ (sent < tokens[i][1] /\ tokens[i][1] <= sent')
    PROVE  StreamOrdered'
  <1>1. chunk \in Seq(Token) /\ input \in Seq(Token) /\ sent \in Nat
    BY DEF ReaderType
  <1>2. /\ Len(input) \in Nat /\ Len(tokens) \in Nat
        /\ Len(input') = Len(input) + Len(tokens)
        /\ \A i \in 1 .. Len(input) : input'[i] = input[i]
        /\ \A i \in 1 .. Len(tokens) : input'[Len(input) + i] = tokens[i]
    BY <1>1
  <1>3. \A i \in 1 .. Len(input') :
            \/ i \in 1 .. Len(input) /\ input'[i] = input[i]
            \/ i - Len(input) \in 1 .. Len(tokens) /\ input'[i] = tokens[i - Len(input)]
    <2> SUFFICES ASSUME NEW i \in 1 .. Len(input'), i \notin 1 .. Len(input)
                 PROVE  i - Len(input) \in 1 .. Len(tokens) /\ input'[i] = tokens[i - Len(input)]
      BY <1>2
    <2>1. i - Len(input) \in 1 .. Len(tokens) /\ Len(input) + (i - Len(input)) = i
      BY <1>2
    <2> QED BY <1>2, <2>1
  <1>4. ASSUME NEW a \in Token, a[1] <= sent, NEW i \in 1 .. Len(tokens)
        PROVE  Before(a, tokens[i])
    <2>1. a[1] \in Nat /\ tokens[i] \in Token /\ tokens[i][1] \in Nat
      BY TokenNumber, ElementOfSeq
    <2>2. tokens[i][1] = 0 \/ a[1] < tokens[i][1]
      BY <1>1, <1>4, <2>1
    <2> QED BY <2>1, <2>2 DEF Before
  <1>5. Ascending(input')
    <2> SUFFICES ASSUME NEW i \in 1 .. Len(input'), NEW j \in 1 .. Len(input'), i < j
                 PROVE  Before(input'[i], input'[j])
      BY DEF Ascending
    <2>1. CASE j \in 1 .. Len(input)
      <3>1. i \in 1 .. Len(input)
        BY <1>2, <2>1
      <3> QED BY <1>2, <2>1, <3>1 DEF StreamOrdered, Ascending
    <2>2. CASE j \notin 1 .. Len(input) /\ i \in 1 .. Len(input)
      <3>1. input[i] \in Token /\ input[i][1] <= sent
        BY <1>1, <2>2 DEF StreamOrdered
      <3> QED BY <1>2, <1>3, <1>4, <2>2, <3>1
    <2>3. CASE j \notin 1 .. Len(input) /\ i \notin 1 .. Len(input)
      <3>1. /\ j - Len(input) \in 1 .. Len(tokens) /\ input'[j] = tokens[j - Len(input)]
            /\ i - Len(input) \in 1 .. Len(tokens) /\ input'[i] = tokens[i - Len(input)]
        BY <1>3, <2>3
      <3>2. i - Len(input) < j - Len(input)
        BY <1>2
      <3> QED BY <3>1, <3>2 DEF Ascending
    <2> QED BY <2>1, <2>2, <2>3
  <1>6. ASSUME NEW i \in 1 .. Len(chunk), NEW j \in 1 .. Len(input')
        PROVE  Before(chunk[i], input'[j])
    <2>1. chunk[i] \in Token /\ chunk[i][1] <= sent
      BY <1>1 DEF StreamOrdered
    <2>2. CASE j \in 1 .. Len(input)
      BY <1>2, <2>2 DEF StreamOrdered
    <2>3. CASE j \notin 1 .. Len(input)
      BY <1>3, <1>4, <2>1, <2>3
    <2> QED BY <2>2, <2>3
  <1>7. ASSUME NEW j \in 1 .. Len(input') PROVE input'[j][1] <= sent'
    <2>1. CASE j \in 1 .. Len(input)
      <3>1. input[j] \in Token /\ input[j][1] <= sent
        BY <1>1, <2>1 DEF StreamOrdered
      <3>2. input[j][1] \in Nat
        BY <3>1, BoundsAssumption DEF Token
      <3> QED BY <1>1, <1>2, <2>1, <3>1, <3>2
    <2>2. CASE j \notin 1 .. Len(input)
      <3>1. j - Len(input) \in 1 .. Len(tokens) /\ input'[j] = tokens[j - Len(input)]
        BY <1>3, <2>2
      <3> QED BY <3>1
    <2> QED BY <2>1, <2>2
  <1>8. ASSUME NEW i \in 1 .. Len(chunk) PROVE chunk[i][1] <= sent'
    <2>1. chunk[i] \in Token /\ chunk[i][1] <= sent
      BY <1>1 DEF StreamOrdered
    <2>2. chunk[i][1] \in Nat
      BY <2>1, BoundsAssumption DEF Token
    <2> QED BY <1>1, <2>1, <2>2
  <1> QED BY <1>5, <1>6, <1>7, <1>8 DEF StreamOrdered, Ascending

LEMMA ShortConcats ==
    ASSUME NEW S, NEW a \in S, NEW b \in S
    PROVE  /\ <<a>> \o <<>> = <<a>>
           /\ <<>> \o <<a>> = <<a>>
           /\ <<a>> \o <<b>> = <<a, b>>
  <1>1. <<a>> \in Seq(S)
    OBVIOUS
  <1>2. <<a>> \o <<>> = <<a>> /\ <<>> \o <<a>> = <<a>>
    BY <1>1
  <1>3. <<a>> \o <<b>> = <<a, b>>
    <2> DEFINE s == <<a>> \o <<b>>
    <2>1. <<b>> \in Seq(S) /\ <<a, b>> \in Seq(S) /\ Len(<<a, b>>) = 2
      OBVIOUS
    <2>2. s \in Seq(S) /\ Len(s) = 2
      BY <1>1, <2>1
    <2>3. s[1] = a /\ s[2] = b
      BY <1>1, <2>1
    <2> HIDE DEF s
    <2>4. \A i \in 1 .. Len(s) : s[i] = <<a, b>>[i]
      BY <2>2, <2>3
    <2>5. s = <<a, b>>
      BY <2>1, <2>2, <2>4, SeqEqual
    <2> QED BY <2>5 DEF s
  <1> QED BY <1>2, <1>3

\* The three things that happen to the stream: tokens at the ends of its two parts are
\* dropped, the reader takes some from the port, or new ones arrive.
Drops ==
    /\ UNCHANGED sent
    /\ \E k \in Nat, l \in Nat : Part(chunk', chunk, k) /\ Part(input', input, l)

Takes ==
    /\ UNCHANGED sent
    /\ \E n \in 1 .. Len(input) :
          chunk' = chunk \o SubSeq(input, 1, n) /\ input' = SubSeq(input, n + 1, Len(input))

Newer(token) == token[1] = 0 \/ (sent < token[1] /\ token[1] <= sent')

Arrives ==
    /\ UNCHANGED chunk
    /\ sent' \in Nat /\ sent <= sent'
    /\ \E tokens \in Seq(Token) :
          /\ input' = input \o tokens
          /\ Ascending(tokens)
          /\ \A i \in 1 .. Len(tokens) : Newer(tokens[i])

LEMMA PeerArrives ==
    ASSUME ReaderType, PeerNext
    PROVE  Arrives
  <1>1. sent \in Nat /\ sent + 1 \in 1 .. MaxPackets /\ sent' = sent + 1 /\ chunk' = chunk
    <2>1. sent \in Nat /\ MaxPackets \in Nat
      BY BoundsAssumption DEF ReaderType
    <2>2. sent < MaxPackets /\ sent' = sent + 1
      BY DEF PeerNext, PeerSends, PeerDisturbed, Carry
    <2>3. chunk' = chunk
      BY PeerLeaves DEF readerVars
    <2> QED BY <2>1, <2>2, <2>3
  <1> DEFINE h == <<sent + 1, "head">>
             t == <<sent + 1, "tail">>
  <1>2. h \in Token /\ t \in Token /\ Noise \in Token /\ Noise[1] = 0
    BY <1>1 DEF Token, Noise
  <1>3. \/ input' = input \o <<h, t>>
        \/ input' = input \o <<h>> \/ input' = input \o <<h, Noise>>
        \/ input' = input \o <<t>> \/ input' = input \o <<Noise, t>>
    <2>1. CASE PeerSends
      BY <2>1 DEF PeerSends, Carry
    <2>2. CASE PeerDisturbed
      <3>1. PICK half \in {<<h>>, <<t>>}, gap \in {<<>>, <<Noise>>} :
              input' = input \o (IF half[1][2] = "head" THEN half \o gap ELSE gap \o half)
        BY <2>2 DEF PeerDisturbed, Carry
      <3>2. half = <<h>> => half[1][2] = "head"
        OBVIOUS
      <3>3. half = <<t>> => half[1][2] # "head"
        OBVIOUS
      <3> HIDE DEF h, t
      <3>4. /\ <<h>> \o <<>> = <<h>> /\ <<h>> \o <<Noise>> = <<h, Noise>>
            /\ <<>> \o <<t>> = <<t>> /\ <<Noise>> \o <<t>> = <<Noise, t>>
        BY <1>2, ShortConcats
      <3> QED BY <3>1, <3>2, <3>3, <3>4
    <2> QED BY <2>1, <2>2 DEF PeerNext
  <1>4. Before(h, t) /\ Before(h, Noise) /\ Before(Noise, t)
    BY <1>2 DEF Before
  <1>5. h[1] = sent + 1 /\ t[1] = sent + 1
    OBVIOUS
  <1> HIDE DEF h, t
  <1>6. ASSUME NEW a \in {h, t, Noise} PROVE Newer(a)
    BY <1>1, <1>2, <1>5 DEF Newer
  <1>7. sent' \in Nat /\ sent <= sent'
    BY <1>1
  <1>8. ASSUME NEW a \in {h, t, Noise}, NEW b \in {h, t, Noise}, Before(a, b),
               input' = input \o <<a, b>>
        PROVE  Arrives
    <2>1. <<a, b>> \in Seq(Token) /\ Ascending(<<a, b>>)
      BY <1>2, <1>8 DEF Ascending
    <2>2. \A i \in 1 .. Len(<<a, b>>) : <<a, b>>[i] \in {h, t, Noise}
      OBVIOUS
    <2>3. \A i \in 1 .. Len(<<a, b>>) : Newer(<<a, b>>[i])
      BY <1>6, <2>2
    <2> QED BY <1>1, <1>7, <1>8, <2>1, <2>3 DEF Arrives
  <1>9. ASSUME NEW a \in {h, t}, input' = input \o <<a>> PROVE Arrives
    <2>1. <<a>> \in Seq(Token) /\ Ascending(<<a>>)
      BY <1>2, <1>9 DEF Ascending
    <2>2. \A i \in 1 .. Len(<<a>>) : <<a>>[i] \in {h, t, Noise}
      OBVIOUS
    <2>3. \A i \in 1 .. Len(<<a>>) : Newer(<<a>>[i])
      BY <1>6, <2>2
    <2> QED BY <1>1, <1>7, <1>9, <2>1, <2>3 DEF Arrives
  <1> QED BY <1>3, <1>4, <1>8, <1>9

LEMMA ModemArrives ==
    ASSUME ReaderType, ModemNext
    PROVE  Arrives
  <1>1. UNCHANGED <<chunk, sent>> /\ sent \in Nat
    BY ModemLeaves DEF readerVars, ReaderType
  <1>2. PICK token \in {Reply, Report} : input' = Append(input, token)
    BY DEF ModemNext, ModemReplies, ModemReports
  <1>3. token \in Token /\ token[1] = 0
    BY DEF Token, Reply, Report
  <1>4. /\ <<token>> \in Seq(Token) /\ Ascending(<<token>>)
        /\ \A i \in 1 .. Len(<<token>>) : <<token>>[i] = token
    BY <1>3 DEF Ascending
  <1>5. input' = input \o <<token>>
    BY <1>2, <1>3 DEF ReaderType
  <1>6. sent' \in Nat /\ sent <= sent'
    BY <1>1
  <1>7. \A i \in 1 .. Len(<<token>>) : Newer(<<token>>[i])
    BY <1>3, <1>4 DEF Newer
  <1> QED BY <1>1, <1>4, <1>5, <1>6, <1>7 DEF Arrives

LEMMA OwnerDrops ==
    ASSUME ReaderType, OwnerNext
    PROVE  Drops
  <1>1. chunk \in Seq(Token) /\ input \in Seq(Token) /\ UNCHANGED <<chunk, sent>>
    BY OwnerLeaves DEF ReaderType
  <1>2. Part(chunk', chunk, 0)
    BY <1>1, Itself
  <1>3. CASE input' = input
    BY <1>1, <1>2, <1>3, Itself DEF Drops
  <1>4. ASSUME NEW n \in 1 .. Len(input), input' = Rest(n) PROVE Drops
    <2>1. Part(input', input, n)
      BY <1>1, <1>4, PrefixRest DEF Part, Rest
    <2> QED BY <1>1, <1>2, <2>1 DEF Drops
  <1> QED BY <1>3, <1>4, OwnerLeaves

\* A parsed frame is gone from the chunk, and whatever else is parsed.
LEMMA ParseDrops ==
    ASSUME ReaderType, ParsePacket \/ ParseError \/ ParseOther \/ ParseSkip
    PROVE  /\ Drops
           /\ ParsePacket => /\ chunk' = AfterFrame
                             /\ UNCHANGED <<input, sent>>
  <1>1. /\ chunk \in Seq(Token) /\ input \in Seq(Token) /\ UNCHANGED <<input, sent>>
        /\ chunk # <<>>
    BY DEF ReaderType, ParsePacket, ParseError, ParseOther, ParseSkip, Parse, ReaderStep
  <1>2. Part(input', input, 0)
    BY <1>1, Itself
  <1>3. CASE ParsePacket \/ ParseError
    <2>1. chunk' = AfterFrame /\ AtFrame
      BY <1>3 DEF ParsePacket, ParseError, Parse
    <2>2. Part(chunk', chunk, 2)
      BY <1>1, <2>1, FrameNumber DEF Part
    <2> QED BY <1>1, <1>2, <2>1, <2>2 DEF Drops
  <1>4. CASE ParseOther \/ ParseSkip
    <2>1. chunk' = Tail(chunk) /\ ~ AtFrame
      BY <1>4 DEF ParseOther, ParseSkip, Parse, AtReport, AtFrame, Report, IsHead
    <2>2. Part(chunk', chunk, 1)
      BY <1>1, <2>1, TailIsRest DEF Part
    <2>3. Drops
      BY <1>1, <1>2, <2>2 DEF Drops
    <2> QED BY <2>1, <2>3 DEF ParsePacket
  <1> QED BY <1>3, <1>4

LEMMA FirstToken ==
    ASSUME NEW S, NEW s \in Seq(S), s # <<>>
    PROVE  /\ 1 \in 1 .. Len(s)
           /\ SubSeq(s, 1, 1) = <<Head(s)>>
           /\ SubSeq(s, 1 + 1, Len(s)) = Tail(s)
           /\ Part(Tail(s), s, 1)
  <1>1. 1 \in 1 .. Len(s)
    OBVIOUS
  <1>2. SubSeq(s, 1, 1) = <<Head(s)>>
    <2>1. /\ SubSeq(s, 1, 1) \in Seq(S) /\ Len(SubSeq(s, 1, 1)) = 1
          /\ SubSeq(s, 1, 1)[1] = s[1]
      BY <1>1, PrefixRest
    <2>2. <<Head(s)>> \in Seq(S) /\ Len(<<Head(s)>>) = 1 /\ <<Head(s)>>[1] = s[1]
      BY TailIsRest
    <2>3. \A i \in 1 .. 1 : SubSeq(s, 1, 1)[i] = <<Head(s)>>[i]
      BY <2>1, <2>2
    <2> QED BY <2>1, <2>2, <2>3, SeqEqual
  <1>3. SubSeq(s, 1 + 1, Len(s)) = Tail(s)
    BY TailIsSubSeq
  <1>4. Part(Tail(s), s, 1)
    BY TailIsRest DEF Part
  <1> QED BY <1>1, <1>2, <1>3, <1>4

LEMMA ReaderMoves ==
    ASSUME ReaderType, ReaderNext
    PROVE  Drops \/ Takes
  <1>1. chunk \in Seq(Token) /\ input \in Seq(Token) /\ UNCHANGED sent
    BY ReaderLeaves DEF ReaderType
  <1>2. CASE ReaderTest \/ CountFailure
    <2>1. UNCHANGED <<chunk, input>>
      BY <1>2 DEF ReaderTest, CountFailure
    <2> QED BY <1>1, <2>1, Itself DEF Drops
  <1>3. ASSUME NEW n \in 1 .. Len(input), ReadSome(n) PROVE Takes
    <2>1. chunk = <<>> /\ chunk' = Prefix(n) /\ input' = Rest(n)
      BY <1>3 DEF ReaderType, ReadSome, ReaderStep
    <2>2. Prefix(n) \in Seq(Token)
      BY <1>1, PrefixRest DEF Prefix
    <2>3. chunk' = chunk \o SubSeq(input, 1, n)
      BY <2>1, <2>2, ConcatEmptySeq DEF Prefix
    <2> QED BY <1>1, <2>1, <2>3 DEF Takes, Rest
  <1>4. CASE ReadStart
    <2>1. chunk = <<>> /\ input # <<>> /\ input' = Tail(input)
      BY <1>4 DEF ReaderType, ReadStart, ReaderStep
    <2>2. CASE StartsFrame(Head(input))
      <3>1. chunk' = <<Head(input)>> /\ <<Head(input)>> \in Seq(Token)
        BY <1>1, <1>4, <2>1, <2>2 DEF ReadStart
      <3>2. chunk' = chunk \o SubSeq(input, 1, 1)
        BY <1>1, <2>1, <3>1, FirstToken, ConcatEmptySeq
      <3> QED BY <1>1, <2>1, <3>2, FirstToken DEF Takes
    <2>3. CASE ~ StartsFrame(Head(input))
      <3>1. chunk' = chunk
        BY <1>4, <2>1, <2>3 DEF ReadStart
      <3> QED BY <1>1, <2>1, <3>1, Itself, FirstToken DEF Drops
    <2> QED BY <2>2, <2>3
  <1>5. CASE ReadBody
    <2>1. input # <<>> /\ input' = Tail(input) /\ chunk' = Append(chunk, Head(input))
      BY <1>5 DEF ReadBody
    <2>2. chunk' = chunk \o <<Head(input)>>
      BY <1>1, <2>1, TailIsRest
    <2> QED BY <1>1, <2>1, <2>2, FirstToken DEF Takes
  <1>6. CASE ParsePacket \/ ParseError \/ ParseOther \/ ParseSkip
    BY <1>6, ParseDrops
  <1>7. CASE ReadFails
    <2>1. chunk' = <<>> /\ UNCHANGED input
      BY <1>7 DEF ReadFails
    <2> QED BY <1>1, <2>1, Itself DEF Drops
  <1> QED BY <1>2, <1>3, <1>4, <1>5, <1>6, <1>7 DEF ReaderNext, ReaderRun

LEMMA StreamSteps ==
    ASSUME ReaderType, [Next]_vars
    PROVE  Drops \/ Takes \/ Arrives
  <1>1. CASE ReceiverNext \/ SenderNext \/ UNCHANGED vars
    <2>1. UNCHANGED <<chunk, input, sent>>
      BY <1>1, ReceiverLeaves, SenderLeaves DEF vars, readerVars
    <2> QED BY <2>1, Itself DEF Drops, ReaderType
  <1> QED BY <1>1, PeerArrives, ModemArrives, OwnerDrops, ReaderMoves, Steps

LEMMA StreamNext == ReaderType /\ StreamOrdered /\ [Next]_vars => StreamOrdered'
  <1> SUFFICES ASSUME ReaderType, StreamOrdered, [Next]_vars PROVE StreamOrdered'
    OBVIOUS
  <1>1. CASE Drops
    BY <1>1, StreamShrinks DEF Drops
  <1>2. CASE Takes
    BY <1>2, StreamMoves DEF Takes
  <1>3. CASE Arrives
    BY <1>3, StreamGrows DEF Arrives, Newer
  <1> QED BY <1>1, <1>2, <1>3, StreamSteps

\* Nothing of packet n or an older one is left in the stream.
Passed(n) ==
    /\ n <= sent
    /\ \A i \in 1 .. Len(chunk) : chunk[i][1] > 0 => n < chunk[i][1]
    /\ \A i \in 1 .. Len(input) : input[i][1] > 0 => n < input[i][1]

\* Packets popped and queued are in order, and behind the stream.
QueueOrdered ==
    /\ \A i, j \in 1 .. Len(delivered) : i < j => delivered[i] < delivered[j]
    /\ \A i, j \in 1 .. Len(queue) : i < j => queue[i] < queue[j]
    /\ \A i \in 1 .. Len(delivered), j \in 1 .. Len(queue) : delivered[i] < queue[j]
    /\ \A i \in 1 .. Len(delivered) : Passed(delivered[i])
    /\ \A i \in 1 .. Len(queue) : Passed(queue[i])

LEMMA PassedNext ==
    ASSUME ReaderType, [Next]_vars, NEW n \in Nat, Passed(n)
    PROVE  Passed(n)'
  <1>1. chunk \in Seq(Token) /\ input \in Seq(Token) /\ sent \in Nat
    BY DEF ReaderType
  <1>2. CASE Drops
    <2>1. PICK k \in Nat, l \in Nat : Part(chunk', chunk, k) /\ Part(input', input, l)
      BY <1>2 DEF Drops
    <2>2. /\ \A i \in 1 .. Len(chunk') : k + i \in 1 .. Len(chunk) /\ chunk'[i] = chunk[k + i]
          /\ \A i \in 1 .. Len(input') : l + i \in 1 .. Len(input) /\ input'[i] = input[l + i]
      BY <1>1, <2>1, PartIndex
    <2>3. sent' = sent
      BY <1>2 DEF Drops
    <2> QED BY <2>2, <2>3 DEF Passed
  <1>3. CASE Takes
    <2>1. PICK m \in 1 .. Len(input) :
             chunk' = chunk \o SubSeq(input, 1, m) /\ input' = SubSeq(input, m + 1, Len(input))
      BY <1>3 DEF Takes
    <2>2. /\ SubSeq(input, 1, m) \in Seq(Token) /\ Len(SubSeq(input, 1, m)) = m
          /\ \A i \in 1 .. m : SubSeq(input, 1, m)[i] = input[i]
      BY <1>1, PrefixRest
    <2>a. \A i \in 1 .. Len(input') : m + i \in 1 .. Len(input) /\ input'[i] = input[m + i]
      <3>1. /\ Len(SubSeq(input, m + 1, Len(input))) = Len(input) - m
            /\ \A i \in 1 .. Len(input) - m :
                  SubSeq(input, m + 1, Len(input))[i] = input[m + i]
        BY <1>1, PrefixRest
      <3>2. /\ Len(input') = Len(input) - m
            /\ \A i \in 1 .. Len(input) - m : input'[i] = input[m + i]
        BY <2>1, <3>1
      <3>3. Len(input) \in Nat /\ m \in 1 .. Len(input)
        BY <1>1
      <3>4. \A i \in 1 .. Len(input) - m : m + i \in 1 .. Len(input)
        BY <3>3
      <3> QED BY <3>2, <3>4
    <2>3. ASSUME NEW i \in 1 .. Len(chunk')
          PROVE  \/ i \in 1 .. Len(chunk) /\ chunk'[i] = chunk[i]
                 \/ i - Len(chunk) \in 1 .. Len(input) /\ chunk'[i] = input[i - Len(chunk)]
      <3>1. /\ Len(chunk') = Len(chunk) + m /\ Len(chunk) \in Nat
            /\ chunk'[i] = IF i <= Len(chunk) THEN chunk[i]
                           ELSE SubSeq(input, 1, m)[i - Len(chunk)]
        BY <1>1, <2>1, <2>2, ConcatProperties
      <3>2. CASE i <= Len(chunk)
        BY <3>1, <3>2
      <3>3. CASE ~ i <= Len(chunk)
        <4>1. i - Len(chunk) \in 1 .. m /\ i - Len(chunk) \in 1 .. Len(input)
          BY <3>1, <3>3
        <4> QED BY <2>2, <3>1, <3>3, <4>1
      <3> QED BY <3>2, <3>3
    <2>4. sent' = sent
      BY <1>3 DEF Takes
    <2> QED BY <2>a, <2>3, <2>4 DEF Passed
  <1>4. CASE Arrives
    <2>1. PICK tokens \in Seq(Token) :
             input' = input \o tokens /\ \A i \in 1 .. Len(tokens) : Newer(tokens[i])
      BY <1>4 DEF Arrives
    <2>2. chunk' = chunk /\ sent' \in Nat /\ sent <= sent'
      BY <1>4 DEF Arrives
    <2>3. ASSUME NEW i \in 1 .. Len(input'), input'[i][1] > 0 PROVE n < input'[i][1]
      <3>1. /\ Len(input') = Len(input) + Len(tokens)
            /\ Len(input) \in Nat /\ Len(tokens) \in Nat
            /\ input'[i] = IF i <= Len(input) THEN input[i] ELSE tokens[i - Len(input)]
        BY <1>1, <2>1, ConcatProperties
      <3>2. CASE i <= Len(input)
        BY <2>3, <3>1, <3>2 DEF Passed
      <3>3. CASE ~ i <= Len(input)
        <4>1. i - Len(input) \in 1 .. Len(tokens) /\ input'[i] = tokens[i - Len(input)]
          BY <3>1, <3>3
        <4>2. tokens[i - Len(input)] \in Token
          BY <4>1
        <4>3. tokens[i - Len(input)][1] \in Nat
          BY <4>2, BoundsAssumption DEF Token
        <4>4. sent < tokens[i - Len(input)][1]
          BY <2>1, <2>3, <4>1, <4>3 DEF Newer
        <4> QED BY <1>1, <4>1, <4>3, <4>4 DEF Passed
      <3> QED BY <3>2, <3>3
    <2>4. n <= sent'
      BY <1>1, <2>2 DEF Passed
    <2> QED BY <2>2, <2>3, <2>4 DEF Passed
  <1> QED BY <1>2, <1>3, <1>4, StreamSteps

\* A frame that is parsed leaves nothing of its packet or of older ones behind it.
LEMMA ParsedIsPassed ==
    ASSUME ReaderType, StreamOrdered, ParsePacket, NEW m, m = chunk[1][1]
    PROVE  /\ m \in Nat \ {0}
           /\ Passed(m)'
           /\ 1 \in 1 .. Len(chunk)
  <1>1. /\ AtFrame /\ Intact(chunk) /\ chunk' = AfterFrame /\ UNCHANGED <<input, sent>>
        /\ chunk \in Seq(Token) /\ input \in Seq(Token)
    BY ParseDrops DEF ParsePacket, ReaderType
  <1>2. m \in 1 .. MaxPackets /\ Len(chunk') = Len(chunk) - 2
        /\ \A i \in 1 .. Len(chunk') : chunk'[i] = chunk[2 + i]
    BY <1>1, FrameNumber
  <1>3. chunk[2] = <<m, "tail">> /\ 1 \in 1 .. Len(chunk) /\ 2 \in 1 .. Len(chunk)
    BY <1>1 DEF AtFrame, Intact
  <1>4. m \in Nat \ {0} /\ m <= sent /\ chunk[2][1] = m /\ chunk[2][2] = "tail"
    BY <1>2, <1>3, BoundsAssumption DEF StreamOrdered
  <1>5. ASSUME NEW b \in Token, Before(chunk[2], b), b[1] > 0 PROVE m < b[1]
    <2>1. b[1] \in Nat
      BY BoundsAssumption DEF Token
    <2> QED BY <1>4, <1>5, <2>1 DEF Before
  <1>6. ASSUME NEW i \in 1 .. Len(chunk'), chunk'[i][1] > 0 PROVE m < chunk'[i][1]
    <2>1. 2 + i \in 1 .. Len(chunk) /\ 2 < 2 + i /\ chunk'[i] = chunk[2 + i]
      BY <1>1, <1>2
    <2>2. chunk[2 + i] \in Token
      BY <1>1, <2>1
    <2>3. Before(chunk[2], chunk[2 + i])
      BY <1>3, <2>1 DEF StreamOrdered, Ascending
    <2> QED BY <1>5, <1>6, <2>1, <2>2, <2>3
  <1>7. ASSUME NEW i \in 1 .. Len(input'), input'[i][1] > 0 PROVE m < input'[i][1]
    <2>a. i \in 1 .. Len(input) /\ input[i] \in Token /\ input'[i] = input[i]
      BY <1>1
    <2>1. Before(chunk[2], input[i])
      BY <1>3, <2>a DEF StreamOrdered
    <2> QED BY <1>5, <1>7, <2>a, <2>1
  <1>8. m <= sent'
    BY <1>1, <1>4
  <1> QED BY <1>3, <1>4, <1>6, <1>7, <1>8 DEF Passed

LEMMA QueueOrderedNext ==
    ASSUME ReaderType, ClientType, StreamOrdered, QueueOrdered, [Next]_vars
    PROVE  QueueOrdered'
  <1>1. /\ queue \in Seq(1 .. MaxPackets) /\ delivered \in Seq(1 .. MaxPackets)
        /\ \A i \in 1 .. Len(queue) : queue[i] \in Nat
        /\ \A i \in 1 .. Len(delivered) : delivered[i] \in Nat
    <2>1. queue \in Seq(1 .. MaxPackets) /\ delivered \in Seq(1 .. MaxPackets)
      BY DEF ReaderType, ClientType
    <2>2. \A n \in 1 .. MaxPackets : n \in Nat
      BY BoundsAssumption
    <2>3. /\ \A i \in 1 .. Len(queue) : queue[i] \in 1 .. MaxPackets
          /\ \A i \in 1 .. Len(delivered) : delivered[i] \in 1 .. MaxPackets
      BY <2>1, ElementOfSeq
    <2> QED BY <2>1, <2>2, <2>3
  <1>2. \A n \in Nat : Passed(n) => Passed(n)'
    BY PassedNext
  <1>3. /\ \A n \in Nat : (\E i \in 1 .. Len(queue) : n = queue[i]) => Passed(n)'
        /\ \A n \in Nat : (\E i \in 1 .. Len(delivered) : n = delivered[i]) => Passed(n)'
    BY <1>1, <1>2 DEF QueueOrdered
  <1>4. CASE UNCHANGED <<queue, delivered>>
    BY <1>1, <1>3, <1>4 DEF QueueOrdered, Passed
  <1>5. CASE /\ queue # <<>> /\ queue' = Tail(queue)
             /\ delivered' = Append(delivered, Head(queue))
    <2>1. /\ Len(queue) \in Nat /\ 1 \in 1 .. Len(queue) /\ Len(queue') = Len(queue) - 1
          /\ \A i \in 1 .. Len(queue') : 1 + i \in 1 .. Len(queue) /\ queue'[i] = queue[1 + i]
      BY <1>1, <1>5, TailIsRest
    <2>2. /\ Len(delivered') = Len(delivered) + 1 /\ Len(delivered) \in Nat
          /\ \A i \in 1 .. Len(delivered) : delivered'[i] = delivered[i]
          /\ delivered'[Len(delivered) + 1] = queue[1]
      BY <1>1, <1>5, TailIsRest, AppendEnds
    <2>3. \A i \in 1 .. Len(delivered') :
             \/ i \in 1 .. Len(delivered) /\ delivered'[i] = delivered[i]
             \/ i = Len(delivered) + 1 /\ delivered'[i] = queue[1]
      BY <2>2
    <2>4. \A i, j \in 1 .. Len(delivered') : i < j => delivered'[i] < delivered'[j]
      <3> SUFFICES ASSUME NEW i \in 1 .. Len(delivered'), NEW j \in 1 .. Len(delivered'), i < j
                   PROVE  delivered'[i] < delivered'[j]
        OBVIOUS
      <3>1. i \in 1 .. Len(delivered) /\ delivered'[i] = delivered[i]
        BY <2>2
      <3>2. CASE j \in 1 .. Len(delivered) /\ delivered'[j] = delivered[j]
        BY <3>1, <3>2 DEF QueueOrdered
      <3>3. CASE delivered'[j] = queue[1]
        BY <2>1, <3>1, <3>3 DEF QueueOrdered
      <3> QED BY <2>3, <3>2, <3>3
    <2>5. \A i, j \in 1 .. Len(queue') : i < j => queue'[i] < queue'[j]
      <3> SUFFICES ASSUME NEW i \in 1 .. Len(queue'), NEW j \in 1 .. Len(queue'), i < j
                   PROVE  queue'[i] < queue'[j]
        OBVIOUS
      <3>1. 1 + i < 1 + j
        BY <2>1
      <3> QED BY <2>1, <3>1 DEF QueueOrdered
    <2>6. \A i \in 1 .. Len(delivered'), j \in 1 .. Len(queue') : delivered'[i] < queue'[j]
      <3> SUFFICES ASSUME NEW i \in 1 .. Len(delivered'), NEW j \in 1 .. Len(queue')
                   PROVE  delivered'[i] < queue'[j]
        OBVIOUS
      <3>1. 1 + j \in 1 .. Len(queue) /\ queue'[j] = queue[1 + j] /\ 1 < 1 + j
        BY <2>1
      <3>2. CASE i \in 1 .. Len(delivered) /\ delivered'[i] = delivered[i]
        BY <3>1, <3>2 DEF QueueOrdered
      <3>3. CASE delivered'[i] = queue[1]
        BY <2>1, <3>1, <3>3 DEF QueueOrdered
      <3> QED BY <2>3, <3>2, <3>3
    <2>7. \A i \in 1 .. Len(delivered') : Passed(delivered[i])' /\ delivered'[i] \in Nat
      BY <1>1, <1>3, <2>1, <2>3 DEF Passed
    <2>8. \A i \in 1 .. Len(queue') : Passed(queue[i])'
      BY <1>1, <1>3, <2>1 DEF Passed
    <2> QED BY <2>4, <2>5, <2>6, <2>7, <2>8 DEF QueueOrdered
  <1>6. CASE ParsePacket
    <2>1. PICK m : m = chunk[1][1]
      OBVIOUS
    <2>2. /\ m \in Nat \ {0} /\ Passed(m)' /\ 1 \in 1 .. Len(chunk)
          /\ m \in 1 .. MaxPackets
      BY <1>6, <2>1, ParsedIsPassed, FrameNumber DEF ParsePacket
    <2>3. /\ UNCHANGED delivered
          /\ Len(queue') = Len(queue) + 1 /\ Len(queue) \in Nat
          /\ \A i \in 1 .. Len(queue) : queue'[i] = queue[i]
          /\ queue'[Len(queue) + 1] = m
      BY <1>1, <1>6, <2>1, <2>2, AppendEnds DEF ParsePacket, Parse, ReaderStep, receiverVars
    <2>4. \A i \in 1 .. Len(queue') :
             \/ i \in 1 .. Len(queue) /\ queue'[i] = queue[i]
             \/ i = Len(queue) + 1 /\ queue'[i] = m
      BY <2>3
    <2>5. /\ \A i \in 1 .. Len(queue) : queue[i] < m
          /\ \A i \in 1 .. Len(delivered) : delivered[i] < m
      <3>1. \A n : Passed(n) => n < m
        BY <2>1, <2>2 DEF Passed
      <3> QED BY <3>1 DEF QueueOrdered
    <2>6. \A i, j \in 1 .. Len(queue') : i < j => queue'[i] < queue'[j]
      <3> SUFFICES ASSUME NEW i \in 1 .. Len(queue'), NEW j \in 1 .. Len(queue'), i < j
                   PROVE  queue'[i] < queue'[j]
        OBVIOUS
      <3>1. i \in 1 .. Len(queue) /\ queue'[i] = queue[i]
        BY <2>3
      <3>2. CASE j \in 1 .. Len(queue) /\ queue'[j] = queue[j]
        BY <3>1, <3>2 DEF QueueOrdered
      <3>3. CASE queue'[j] = m
        BY <2>5, <3>1, <3>3
      <3> QED BY <2>4, <3>2, <3>3
    <2>7. \A i \in 1 .. Len(delivered'), j \in 1 .. Len(queue') : delivered'[i] < queue'[j]
      BY <2>3, <2>4, <2>5 DEF QueueOrdered
    <2>8. \A i \in 1 .. Len(queue') : Passed(queue[i])'
      BY <1>1, <1>3, <2>2, <2>4 DEF Passed
    <2>9. \A i \in 1 .. Len(delivered') : Passed(delivered[i])'
      BY <1>1, <1>3, <2>3 DEF Passed
    <2> QED BY <2>3, <2>6, <2>7, <2>8, <2>9 DEF QueueOrdered
  <1>7. \/ UNCHANGED <<queue, delivered>>
        \/ /\ queue # <<>> /\ queue' = Tail(queue)
           /\ delivered' = Append(delivered, Head(queue))
        \/ ParsePacket
    <2>1. CASE ReaderNext
      <3>1. ParsePacket \/ UNCHANGED queue
        BY <2>1 DEF ReaderNext, ReaderRun, ReaderTest, ReadStart, ReadBody, ReadSome, ParseError,
           ParseOther, ParseSkip, CountFailure, ReadFails
      <3> QED BY <2>1, <3>1, ReaderLeaves DEF receiverVars
    <2>2. CASE PeerNext \/ ModemNext \/ OwnerNext \/ SenderNext \/ UNCHANGED vars
      BY <2>2, PeerLeaves, ModemLeaves, OwnerLeaves, SenderLeaves DEF vars, receiverVars
    <2> QED BY <2>1, <2>2, ReceiverQueue, Steps
  <1> QED BY <1>4, <1>5, <1>6, <1>7

OrderInv == TypeOK /\ StreamOrdered /\ QueueOrdered

LEMMA OrderInit == Init => OrderInv
  <1>1. ASSUME Init PROVE StreamOrdered /\ QueueOrdered
    BY <1>1 DEF Init, StreamOrdered, QueueOrdered, Ascending
  <1> QED BY <1>1, TypeInit DEF OrderInv

LEMMA OrderNext == OrderInv /\ [Next]_vars => OrderInv'
  BY TypeNext, TypeParts, StreamNext, QueueOrderedNext DEF OrderInv

\* What a client of receivePacket sees: numbers of packets the peer has sent, growing.
DeliveredInOrder ==
    /\ \A i \in 1 .. Len(delivered) : delivered[i] <= sent
    /\ \A i, j \in 1 .. Len(delivered) : i < j => delivered[i] < delivered[j]

\* No packet is delivered twice, before an older one, or without having been sent, for
\* every cut that reads make in the frames, every loss, and every race with a dialogue.
THEOREM InOrder == Spec => []DeliveredInOrder
  <1>1. OrderInv => DeliveredInOrder
    BY DEF OrderInv, QueueOrdered, Passed, DeliveredInOrder
  <1> QED BY <1>1, OrderInit, OrderNext, PTL DEF Spec
-----------------------------------------------------------------------------
(* The refinement of RadioChannel.  Reading, parsing and losing tokens are *)
(* steps in which packets are lost or none is; popping one delivers it.    *)

LEMMA AheadIndex ==
    ASSUME NEW token
    PROVE  Ahead(token) <=> \/ \E i \in 1 .. Len(chunk) : chunk[i] = token
                            \/ \E i \in 1 .. Len(input) : input[i] = token
  BY DEF Ahead, Holds

\* No token of a packet that was sent before comes back.
LEMMA AheadNext ==
    ASSUME ReaderType, [Next]_vars, NEW p \in 1 .. sent, NEW half, Ahead(<<p, half>>)'
    PROVE  Ahead(<<p, half>>)
  <1> DEFINE token == <<p, half>>
  <1>1. chunk \in Seq(Token) /\ input \in Seq(Token) /\ sent \in Nat
    BY DEF ReaderType
  <1>2. token[1] = p /\ Ahead(token)'
    OBVIOUS
  <1> HIDE DEF token
  <1>3. \/ \E i \in 1 .. Len(chunk') : chunk'[i] = token
        \/ \E i \in 1 .. Len(input') : input'[i] = token
    BY <1>2 DEF Ahead, Holds
  <1>4. CASE Drops
    <2>1. PICK k \in Nat, l \in Nat : Part(chunk', chunk, k) /\ Part(input', input, l)
      BY <1>4 DEF Drops
    <2>2. /\ \A i \in 1 .. Len(chunk') : k + i \in 1 .. Len(chunk) /\ chunk'[i] = chunk[k + i]
          /\ \A i \in 1 .. Len(input') : l + i \in 1 .. Len(input) /\ input'[i] = input[l + i]
      BY <1>1, <2>1, PartIndex
    <2> QED BY <1>3, <2>2, AheadIndex DEF token
  <1>5. CASE Takes
    <2>1. PICK m \in 1 .. Len(input) :
             chunk' = chunk \o SubSeq(input, 1, m) /\ input' = SubSeq(input, m + 1, Len(input))
      BY <1>5 DEF Takes
    <2>2. /\ \A i \in 1 .. Len(input') : m + i \in 1 .. Len(input) /\ input'[i] = input[m + i]
          /\ \A i \in 1 .. Len(chunk') :
                \/ i \in 1 .. Len(chunk) /\ chunk'[i] = chunk[i]
                \/ i - Len(chunk) \in 1 .. Len(input) /\ chunk'[i] = input[i - Len(chunk)]
      BY <1>1, <2>1, TakenIndex
    <2> QED BY <1>3, <2>2, AheadIndex DEF token
  <1>6. CASE Arrives
    <2>1. PICK tokens \in Seq(Token) :
             input' = input \o tokens /\ \A i \in 1 .. Len(tokens) : Newer(tokens[i])
      BY <1>6 DEF Arrives
    <2>2. chunk' = chunk
      BY <1>6 DEF Arrives
    <2>3. ASSUME NEW i \in 1 .. Len(input'), input'[i] = token
          PROVE  i \in 1 .. Len(input) /\ input[i] = token
      <3>1. \/ i \in 1 .. Len(input) /\ input'[i] = input[i]
            \/ i - Len(input) \in 1 .. Len(tokens) /\ input'[i] = tokens[i - Len(input)]
        BY <1>1, <2>1, ConcatIndex
      <3>2. CASE i - Len(input) \in 1 .. Len(tokens) /\ input'[i] = tokens[i - Len(input)]
        <4>1. Newer(token)
          BY <2>1, <2>3, <3>2
        <4>2. p = 0 \/ sent < p
          BY <1>2, <4>1 DEF Newer
        <4> QED BY <1>1, <4>2
      <3> QED BY <2>3, <3>1, <3>2
    <2> QED BY <1>3, <2>2, <2>3, AheadIndex DEF token
  <1> QED BY <1>4, <1>5, <1>6, StreamSteps

\* Packets whose numbers are to come are not on their way.
LEMMA OnTheWaySent == OrderInv => OnTheWay \subseteq 1 .. sent
  <1> SUFFICES ASSUME OrderInv, NEW p \in OnTheWay PROVE p \in 1 .. sent
    OBVIOUS
  <1>1. p \in 1 .. MaxPackets /\ MaxPackets \in Nat /\ sent \in Nat
    BY BoundsAssumption, TypeParts DEF OnTheWay, OrderInv, ReaderType
  <1>2. CASE Holds(queue, p)
    BY <1>1, <1>2 DEF Holds, OrderInv, QueueOrdered, Passed
  <1>3. CASE Ahead(<<p, "head">>)
    <2>1. <<p, "head">>[1] = p
      OBVIOUS
    <2> QED BY <1>1, <1>3, <2>1 DEF Ahead, Holds, OrderInv, StreamOrdered
  <1> QED BY <1>2, <1>3 DEF OnTheWay

LEMMA OnTheWaySentNext == (OrderInv => OnTheWay \subseteq 1 .. sent)'
  BY OnTheWaySent, PTL

\* A step that neither queues nor delivers loses packets at most, apart from the one
\* that the peer sends.
LEMMA OnlyLost ==
    ASSUME OrderInv, [Next]_vars, UNCHANGED queue
    PROVE  \A p \in OnTheWay' : p \in 1 .. sent => p \in OnTheWay
  <1>1. ReaderType
    BY TypeParts DEF OrderInv
  <1> SUFFICES ASSUME NEW p \in OnTheWay', p \in 1 .. sent PROVE p \in OnTheWay
    OBVIOUS
  <1>2. p \in 1 .. MaxPackets
    BY DEF OnTheWay
  <1>3. Holds(queue, p)' => Holds(queue, p)
    BY DEF Holds
  <1>4. \A half \in {"head", "tail"} : Ahead(<<p, half>>)' => Ahead(<<p, half>>)
    BY <1>1, AheadNext
  <1> QED BY <1>2, <1>3, <1>4 DEF OnTheWay

LEMMA PeerSendsOrLoses ==
    ASSUME OrderInv, OrderInv', [Next]_vars, PeerNext
    PROVE  Channel!Send
  <1>1. /\ sent < MaxPackets /\ sent' = sent + 1 /\ sent \in Nat
        /\ UNCHANGED <<chunk, queue, delivered>>
        /\ \E tokens \in Seq(Token) : input' = input \o tokens
        /\ chunk \in Seq(Token) /\ input \in Seq(Token)
    <2>1. ReaderType
      BY TypeParts DEF OrderInv
    <2>2. sent < MaxPackets /\ sent' = sent + 1
      BY DEF PeerNext, PeerSends, PeerDisturbed, Carry
    <2>3. UNCHANGED <<chunk, queue, delivered>>
      BY PeerLeaves DEF readerVars, receiverVars
    <2>4. \E tokens \in Seq(Token) : input' = input \o tokens
      BY <2>1, PeerArrives DEF Arrives
    <2> QED BY <2>1, <2>2, <2>3, <2>4 DEF ReaderType
  <1>2. \A p \in OnTheWay' : p \in OnTheWay \/ p = sent + 1
    BY <1>1, OnlyLost, OnTheWaySentNext
  <1>3. \A token : Ahead(token) => Ahead(token)'
    <2>1. PICK tokens \in Seq(Token) : input' = input \o tokens
      BY <1>1
    <2>2. \A i \in 1 .. Len(input) : i \in 1 .. Len(input') /\ input'[i] = input[i]
      BY <1>1, <2>1, ConcatFirst
    <2> QED BY <1>1, <2>2 DEF Ahead, Holds
  <1>4. OnTheWay \subseteq OnTheWay'
    BY <1>1, <1>3 DEF OnTheWay, Holds
  <1>5. OnTheWay' \in {OnTheWay, OnTheWay \cup {sent + 1}}
    BY <1>2, <1>4
  <1> QED BY <1>1, <1>5 DEF Channel!Send

LEMMA QueuedWasAhead ==
    ASSUME OrderInv, [Next]_vars, ParsePacket
    PROVE  Channel!Lose
  <1>1. ReaderType /\ StreamOrdered
    BY TypeParts DEF OrderInv
  <1>2. PICK m : m = chunk[1][1]
    OBVIOUS
  <1>3. /\ AtFrame /\ Intact(chunk) /\ queue' = Append(queue, m)
        /\ UNCHANGED <<delivered, sent>>
    BY <1>2 DEF ParsePacket, Parse, ReaderStep, receiverVars
  <1>4. /\ chunk \in Seq(Token) /\ queue \in Seq(1 .. MaxPackets)
        /\ m \in 1 .. MaxPackets /\ sent \in Nat
    BY <1>1, <1>2, <1>3, FrameNumber DEF ReaderType
  <1>5. Ahead(<<m, "head">>) /\ Ahead(<<m, "tail">>)
    <2>1. 1 \in 1 .. Len(chunk) /\ 2 \in 1 .. Len(chunk) /\ chunk[1] \in Token
      BY <1>3, <1>4 DEF AtFrame
    <2>2. chunk[2] = <<m, "tail">>
      BY <1>2, <1>3 DEF Intact
    <2>3. chunk[1] = <<m, "head">>
      BY <1>2, <1>3, <2>1 DEF AtFrame, IsHead, Token
    <2> QED BY <2>1, <2>2, <2>3 DEF Ahead, Holds
  <1>6. \A p \in 1 .. MaxPackets : Holds(queue, p)' => Holds(queue, p) \/ p = m
    BY <1>3, <1>4, AppendEnds DEF Holds
  <1>7. \A p \in 1 .. sent, half \in {"head", "tail"} :
            Ahead(<<p, half>>)' => Ahead(<<p, half>>)
    BY <1>1, AheadNext
  <1>8. OnTheWay' \subseteq 1 .. sent
    BY <1>3, OrderNext, OnTheWaySentNext
  <1>9. OnTheWay' \subseteq OnTheWay
    BY <1>4, <1>5, <1>6, <1>7, <1>8 DEF OnTheWay
  <1> QED BY <1>3, <1>9 DEF Channel!Lose

LEMMA PopDelivers ==
    ASSUME OrderInv, queue # <<>>, queue' = Tail(queue),
           delivered' = Append(delivered, Head(queue)), UNCHANGED <<chunk, input, sent>>
    PROVE  Channel!Deliver
  <1>1. queue \in Seq(1 .. MaxPackets) /\ QueueOrdered /\ MaxPackets \in Nat
    BY BoundsAssumption, TypeParts DEF OrderInv, ReaderType
  <1>2. /\ 1 \in 1 .. Len(queue) /\ queue[1] \in 1 .. MaxPackets /\ Head(queue) = queue[1]
        /\ Len(queue) \in Nat /\ Len(queue') = Len(queue) - 1
        /\ \A i \in 1 .. Len(queue) - 1 : queue'[i] = queue[1 + i]
    BY <1>1, TailIsRest, ElementOfSeq
  <1> DEFINE p == queue[1]
  <1>3. ASSUME NEW half, Ahead(<<p, half>>) PROVE FALSE
    <2> DEFINE token == <<p, half>>
    <2>1. token[1] = p /\ p > 0 /\ p \in Int /\ Ahead(token)
      BY <1>2, <1>3
    <2>2. Passed(p)
      BY <1>1, <1>2 DEF QueueOrdered
    <2> HIDE DEF token, p
    <2> QED BY <2>1, <2>2, SMTT(30) DEF Ahead, Holds, Passed
  <1>4. \A i \in 1 .. Len(queue) : i = 1 \/ p < queue[i]
    BY <1>1, <1>2 DEF QueueOrdered
  <1>5. p \in OnTheWay
    BY <1>2 DEF OnTheWay, Holds
  <1>6. ASSUME NEW q \in OnTheWay PROVE p <= q
    <2>1. q \in 1 .. MaxPackets /\ p \in 1 .. MaxPackets
      BY <1>2 DEF OnTheWay
    <2>2. CASE Holds(queue, q)
      BY <1>4, <2>1, <2>2, <1>1 DEF Holds
    <2>3. CASE Ahead(<<q, "head">>)
      <3>1. <<q, "head">>[1] = q /\ q > 0 /\ Passed(p)
        BY <1>1, <1>2, <2>1 DEF QueueOrdered
      <3>2. p < q
        BY <2>3, <3>1 DEF Ahead, Holds, Passed
      <3> QED BY <1>1, <2>1, <3>2
    <2> QED BY <1>6, <2>2, <2>3 DEF OnTheWay
  <1>7. \A token : Ahead(token)' <=> Ahead(token)
    BY DEF Ahead, Holds
  <1>8. ASSUME NEW q \in 1 .. MaxPackets PROVE Holds(queue, q)' <=> Holds(queue, q) /\ q # p
    <2>1. ASSUME NEW i \in 1 .. Len(queue'), queue'[i] = q PROVE Holds(queue, q) /\ q # p
      <3>1. 1 + i \in 1 .. Len(queue) /\ queue[1 + i] = q /\ 1 + i # 1
        BY <1>2, <2>1
      <3>2. p < queue[1 + i]
        BY <1>4, <3>1
      <3> QED BY <1>1, <1>2, <3>1, <3>2 DEF Holds
    <2>2. ASSUME NEW i \in 1 .. Len(queue), queue[i] = q, q # p PROVE Holds(queue, q)'
      <3>1. i - 1 \in 1 .. Len(queue') /\ 1 + (i - 1) = i
        BY <1>2, <2>2
      <3>2. queue'[i - 1] = q
        BY <1>2, <2>2, <3>1
      <3> QED BY <3>1, <3>2 DEF Holds
    <2> QED BY <2>1, <2>2 DEF Holds
  <1>9. OnTheWay' = OnTheWay \ {p}
    BY <1>3, <1>7, <1>8 DEF OnTheWay
  <1> QED BY <1>2, <1>5, <1>6, <1>9 DEF Channel!Deliver

LEMMA ChannelInit == Init => Channel!Init
  BY DEF Init, Channel!Init, OnTheWay, Ahead, Holds

LEMMA ChannelNext ==
    ASSUME OrderInv, OrderInv', [Next]_vars
    PROVE  [Channel!Next]_<<sent, OnTheWay, delivered>>
  <1>1. CASE ReceiverNext
    <2>1. UNCHANGED <<chunk, input, sent>>
      BY <1>1, ReceiverLeaves DEF readerVars
    <2>2. CASE UNCHANGED <<queue, delivered>>
      BY <2>1, <2>2 DEF OnTheWay, Ahead, Holds
    <2> QED BY <1>1, <2>1, <2>2, ReceiverQueue, PopDelivers DEF Channel!Next
  <1>2. CASE PeerNext
    BY <1>2, PeerSendsOrLoses DEF Channel!Next
  <1>3. CASE ParsePacket
    BY <1>3, QueuedWasAhead DEF Channel!Next
  <1>4. CASE /\ UNCHANGED <<queue, delivered, sent>>
    <2>1. OnTheWay' \subseteq OnTheWay
      BY <1>4, OnlyLost, OnTheWaySentNext
    <2> QED BY <1>4, <2>1 DEF Channel!Next, Channel!Lose
  <1>5. CASE ReaderNext /\ ~ ParsePacket
    <2>1. UNCHANGED <<queue, delivered, sent>>
      BY <1>5, ReaderLeaves
         DEF receiverVars, ReaderNext, ReaderRun, ReaderTest, ReadStart, ReadBody, ReadSome,
             ParseError, ParseOther, ParseSkip, CountFailure, ReadFails
    <2> QED BY <1>4, <2>1
  <1>6. CASE ModemNext \/ OwnerNext \/ SenderNext \/ UNCHANGED vars
    <2>1. UNCHANGED <<queue, delivered, sent>>
      BY <1>6, ModemLeaves, OwnerLeaves, SenderLeaves DEF vars, readerVars, receiverVars
    <2> QED BY <1>4, <2>1
  <1> QED BY <1>1, <1>2, <1>3, <1>5, <1>6, Steps

\* Seen through receivePacket the radio is a channel that loses packets and keeps the
\* order of the others: whatever cuts reads make in the frames, whatever the line loses
\* or a dialogue swallows, and however clients race.
THEOREM ChannelImplemented == Spec => ImplementsChannel
  <1>1. OrderInv /\ OrderInv' /\ [Next]_vars => [Channel!Next]_<<sent, OnTheWay, delivered>>
    BY ChannelNext
  <1> QED BY <1>1, ChannelInit, OrderInit, OrderNext, PTL DEF Spec, ImplementsChannel, Channel!Spec
-----------------------------------------------------------------------------
(* Dialogues with the modem.                                               *)

\* A dialogue waits for a reply that the modem has still to send or that lies in the
\* port, unless the read thread has taken one; and that needs a read thread, which
\* the first call of initialize does not have yet.
RepliesOnTheirWay ==
    /\ driver = "xbee" => ~ InDialogue
    /\ reader = "body" => driver = "xbee"
    /\ awaiting /\ unanswered = 0 /\ ~ Holds(input, Reply) => stolen
    /\ reader = "none" => ~ stolen

\* A token lies in one of the two parts into which a read cuts the input.
LEMMA HeldBehind ==
    ASSUME NEW s \in Seq(Token), NEW n \in 1 .. Len(s), NEW token,
           Holds(s, token), ~ Holds(SubSeq(s, 1, n), token)
    PROVE  Holds(SubSeq(s, n + 1, Len(s)), token)
  <1>1. PICK i \in 1 .. Len(s) : s[i] = token
    BY DEF Holds
  <1>2. /\ Len(SubSeq(s, 1, n)) = n
        /\ \A k \in 1 .. n : SubSeq(s, 1, n)[k] = s[k]
        /\ Len(SubSeq(s, n + 1, Len(s))) = Len(s) - n
        /\ \A k \in 1 .. Len(s) - n : SubSeq(s, n + 1, Len(s))[k] = s[n + k]
    BY PrefixRest
  <1>3. i \notin 1 .. n
    BY <1>1, <1>2 DEF Holds
  <1>4. i - n \in 1 .. Len(s) - n /\ n + (i - n) = i
    BY <1>3
  <1> QED BY <1>1, <1>2, <1>4 DEF Holds

LEMMA HeldStill ==
    ASSUME NEW s \in Seq(Token), NEW t \in Seq(Token), NEW token, Holds(s, token)
    PROVE  Holds(s \o t, token)
  BY ConcatFirst DEF Holds

LEMMA HeldLast ==
    ASSUME NEW s \in Seq(Token), NEW token \in Token
    PROVE  Holds(Append(s, token), token)
  <1>1. Append(s, token)[Len(s) + 1] = token /\ Len(s) + 1 \in 1 .. Len(Append(s, token))
    BY AppendEnds
  <1> QED BY <1>1 DEF Holds

LEMMA RepliesNext ==
    TypeOK /\ RepliesOnTheirWay /\ [Next]_vars => RepliesOnTheirWay'
  <1> SUFFICES ASSUME OwnerType, ReaderType, RepliesOnTheirWay, [Next]_vars
               PROVE  RepliesOnTheirWay'
    BY TypeParts
  <1>1. input \in Seq(Token) /\ chunk \in Seq(Token) /\ unanswered \in Nat
    BY DEF ReaderType, OwnerType
  <1>2. awaiting => driver = "rfd900"
    BY DEF RepliesOnTheirWay, OwnerType
  <1> USE DEF InDialogue, ownerVars, dialogueVars, readerVars
  <1>3. CASE PeerNext \/ ModemReports
    <2>1. UNCHANGED <<driver, owner, awaiting, unanswered, reader, stolen>>
      BY <1>3, PeerLeaves DEF ModemReports
    <2>2. \E t \in Seq(Token) : input' = input \o t
      BY <1>3, PeerArrives, ModemArrives DEF Arrives, ModemNext
    <2>3. Holds(input, Reply) => Holds(input', Reply)
      BY <1>1, <2>2, HeldStill
    <2> QED BY <2>1, <2>3 DEF RepliesOnTheirWay
  <1>4. CASE ModemReplies
    <2>1. Holds(input', Reply)
      BY <1>1, <1>4, HeldLast DEF ModemReplies, Reply, Token
    <2> QED BY <1>4, <2>1, ModemLeaves DEF RepliesOnTheirWay, ModemNext
  <1>5. CASE OwnerNext
    <2>1. driver' = driver /\ stolen' = stolen /\ (reader' = reader \/ reader' = "test")
      BY <1>5, OwnerLeaves
    <2>2. CASE \E n \in 1 .. Len(input) : ReadUntil(n) \/ Refused(n)
      <3>1. PICK n \in 1 .. Len(input) : ReadUntil(n) \/ Refused(n)
        BY <2>2
      <3>2. /\ unanswered' = unanswered /\ input' = Rest(n) /\ owner' \in {owner, "idle"}
            /\ awaiting' => awaiting /\ ~ Holds(Prefix(n), Reply)
        BY <3>1 DEF ReadUntil, Refused, OwnerStep, AnsweredIn
      <3>3. awaiting' /\ Holds(input, Reply) => Holds(input', Reply)
        BY <1>1, <3>2, HeldBehind DEF Prefix, Rest
      <3> QED BY <2>1, <3>2, <3>3 DEF RepliesOnTheirWay
    <2>3. CASE Ask
      <3>1. unanswered' # 0 /\ owner' = owner
        BY <1>1, <2>3 DEF Ask, OwnerStep
      <3> QED BY <2>1, <3>1 DEF RepliesOnTheirWay
    <2>4. CASE InitializeXBee \/ InitializeXBeeFails \/ SpawnReader \/ Destroy \/ Join
      BY <2>1, <2>4 DEF RepliesOnTheirWay, InitializeXBee, InitializeXBeeFails, SpawnReader, Destroy,
                        Join, Call, OwnerStep
    <2>5. CASE InitializeRFD900 \/ ConfigureRFD900 \/ DialogueFails \/ InitializeEnds \/ ConfigureEnds
      BY <2>1, <2>5 DEF RepliesOnTheirWay, InitializeRFD900, ConfigureRFD900, BeginDialogue, Call,
                        DialogueFails, InitializeEnds, ConfigureEnds, OwnerStep
    <2> QED BY <1>5, <2>2, <2>3, <2>4, <2>5 DEF OwnerNext, OwnerRun
  <1>6. CASE ReaderNext
    <2>1. UNCHANGED <<driver, owner, awaiting, unanswered>> /\ reader # "none" /\ reader' # "none"
      BY <1>6, ReaderLeaves
         DEF ReaderNext, ReaderRun, ReaderStep, Parse, ReaderTest, ReadStart, ReadBody, ReadSome,
             ParsePacket, ParseError, ParseOther, ParseSkip, CountFailure, ReadFails
    <2>2. CASE \E n \in 1 .. Len(input) : ReadSome(n)
      <3>1. PICK n \in 1 .. Len(input) : ReadSome(n)
        BY <2>2
      <3>2. input' = Rest(n) /\ (stolen' <=> stolen \/ Holds(Prefix(n), Reply))
        BY <3>1, Zenon DEF ReadSome
      <3>4. reader' = "parsing"
        BY <3>1 DEF ReadSome, ReaderStep
      <3>3. Holds(input, Reply) => Holds(input', Reply) \/ Holds(Prefix(n), Reply)
        BY <1>1, <3>2, HeldBehind DEF Prefix, Rest
      <3> QED BY <2>1, <3>2, <3>3, <3>4 DEF RepliesOnTheirWay
    <2>3. CASE ReadStart \/ ReadBody
      <3>1. stolen' = stolen
        BY <2>3 DEF ReadStart, ReadBody
      <3>2. driver = "xbee"
        BY <2>3 DEF ReadStart, ReadBody, ReaderStep, RepliesOnTheirWay
      <3> QED BY <1>2, <2>1, <3>1, <3>2 DEF RepliesOnTheirWay
    <2>4. CASE ReaderTest \/ ParsePacket \/ ParseError \/ ParseOther \/ ParseSkip
               \/ CountFailure \/ ReadFails
      <3>1. input' = input /\ stolen' = stolen /\ (reader' = "body" => reader = "body")
        BY <2>4 DEF ReaderTest, ParsePacket, ParseError, ParseOther, ParseSkip, CountFailure, ReadFails,
                    ReaderStep, Parse
      <3> QED BY <2>1, <3>1 DEF RepliesOnTheirWay
    <2> QED BY <1>6, <2>2, <2>3, <2>4 DEF ReaderNext, ReaderRun
  <1>7. CASE ReceiverNext \/ SenderNext \/ UNCHANGED vars
    <2>1. UNCHANGED <<driver, owner, awaiting, unanswered, reader, stolen, input>>
      BY <1>7, ReceiverLeaves, SenderLeaves DEF vars
    <2> QED BY <2>1 DEF RepliesOnTheirWay
  <1> QED BY <1>3, <1>4, <1>5, <1>6, <1>7, Steps DEF ModemNext

\* initialize and configure of the RFD900 can wait for ever for one reason only: the
\* read thread, which reads the same port, has taken a reply (or the modem is silent).
\* The first initialize runs before there is a read thread and cannot lose one.
THEOREM OnlyTheftHangs == Spec => [](RepliesOnTheirWay /\ (Hung => stolen))
  <1>1. Init => RepliesOnTheirWay
    BY DEF Init, RepliesOnTheirWay, InDialogue
  <1>2. TypeOK /\ RepliesOnTheirWay /\ [Next]_vars => RepliesOnTheirWay'
    BY RepliesNext
  <1>3. RepliesOnTheirWay => (Hung => stolen)
    BY DEF RepliesOnTheirWay, Hung
  <1> QED BY <1>1, <1>2, <1>3, TypeCorrect, PTL DEF Spec
=============================================================================
