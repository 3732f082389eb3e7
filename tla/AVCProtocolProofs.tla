--------------------------- MODULE AVCProtocolProofs ---------------------------
(***************************************************************************)
(* Safety of AVCProtocol for every set of calls and numbers, and for every *)
(* maxRetries, retryInterval and delay of the retransmission thread.       *)
(***************************************************************************)
EXTENDS AVCProtocol, TLAPS

\* The table holds stored commands, each under its own number, and none that has
\* timed out; a command not yet stored has no history.
TableSound ==
    /\ \A n \in Number : pending[n] # None =>
          NumberOf[pending[n]] = n /\ call[pending[n]] = "stored"
    /\ \A c \in timedOut : pending[NumberOf[c]] # c
    /\ \A c \in Call : call[c] # "stored" =>
          retry[c] = 0 /\ age[c] = 0 /\ life[c] = 0 /\ c \notin timedOut

\* A command has been transmitted once, and once for each retry but the one whose
\* copy is still waiting to be sent.
SentCounted ==
    \A c \in Call :
        sent[c] = IF call[c] = "new" THEN 0
                  ELSE IF c \in toResend THEN retry[c] ELSE retry[c] + 1

\* Copies live within one iteration of the handler.
CopiesInHand ==
    /\ thread # "resend" => toResend = {}
    /\ \A c \in toResend : call[c] = "stored"

\* A pending command has been in the table for an interval per retry, and for the
\* time since the last one.
RetriesTookTime ==
    \A c \in Pending : life[c] >= AtMost(retry[c] * Interval + age[c], Lifetime)

Inv ==
    /\ TypeOK
    /\ TableSound
    /\ SentCounted
    /\ CopiesInHand
    /\ RetriesTookTime
    /\ TimedOutAfterAllTries

-----------------------------------------------------------------------------
(* Arithmetic, and the steps that touch neither table nor copies.          *)

LEMMA OneMoreInterval ==
    ASSUME NEW r \in Nat
    PROVE  (r + 1) * Interval = r * Interval + Interval /\ r * Interval \in Nat
  BY TimeAssumption

LEMMA LifetimeNat == Lifetime \in Nat /\ Lifetime = MaxRetries * Interval + Interval
  BY OneMoreInterval, TimeAssumption DEF Lifetime

TrackStep ==
    \/ \E c \in Call : SendFrame(c) \/ StorePending(c) \/ HandleAcknowledgment(c) \/ Resend(c)
    \/ Collect
    \/ Tick

LEMMA QuietSteps ==
    ASSUME [Next]_vars, ~ TrackStep
    PROVE  UNCHANGED <<call, pending, age, retry, sent, timedOut, life, toResend>>
  <1>1. CASE Control
    BY <1>1 DEF Control, Advance, trackVars, Start, SetRunning, SpawnHandler, SpawnOverThread,
                StartCommunicator, Stop, ClearRunning, StopNotify, StopJoin, StopCommunicator
  <1>2. CASE ReadClock \/ HandlerExit \/ CheckStopped \/ Block \/ Wake \/ SpuriousWake
    BY <1>2 DEF trackVars, ReadClock, HandlerExit, CheckStopped, Block, Wake, SpuriousWake
  <1>3. CASE UNCHANGED vars
    BY <1>3 DEF vars
  <1> QED BY <1>1, <1>2, <1>3 DEF Next, Running, Terminated, Handler, TrackStep

\* A pending command is what its number leads to, and it is stored.
LEMMA PendingStored ==
    ASSUME TypeOK, TableSound, NEW c \in Pending
    PROVE  c \in Call /\ call[c] = "stored" /\ pending[NumberOf[c]] = c /\ NumberOf[c] \in Number
  BY NoneAssumption, NumberAssumption DEF Pending, TableSound, TypeOK

-----------------------------------------------------------------------------

LEMMA TypeInit == Init => TypeOK
  <1> SUFFICES ASSUME Init PROVE TypeOK
    OBVIOUS
  <1>1. 0 \in 0 .. MaxAge /\ 0 \in 0 .. MaxRetries /\ 0 \in 0 .. MaxLag
        /\ 0 \in 0 .. Interval /\ 0 \in 0 .. Lifetime /\ 0 \in Nat
    BY LifetimeNat, TimeAssumption
  <1>2. /\ age \in [Call -> 0 .. MaxAge] /\ retry \in [Call -> 0 .. MaxRetries]
        /\ sent \in [Call -> Nat] /\ life \in [Call -> 0 .. Lifetime]
    BY <1>1 DEF Init
  <1> QED BY <1>1, <1>2 DEF Init, TypeOK

LEMMA TypeNext == TypeOK /\ [Next]_vars => TypeOK'
  <1> SUFFICES ASSUME TypeOK, [Next]_vars PROVE TypeOK'
    OBVIOUS
  <1>0. Lifetime' = Lifetime
    BY DEF Lifetime
  <1> USE <1>0, LifetimeNat, TimeAssumption, NumberAssumption
      DEF TypeOK, threadVars, trackVars, ownerVars
  <1>1. ASSUME NEW c \in Call, SendFrame(c) PROVE TypeOK'
    BY <1>1 DEF SendFrame
  <1>2. ASSUME NEW c \in Call, StorePending(c) PROVE TypeOK'
    BY <1>2 DEF StorePending, Kept
  <1>3. ASSUME NEW c \in Call, HandleAcknowledgment(c) PROVE TypeOK'
    BY <1>3 DEF HandleAcknowledgment, Kept
  <1>4. ASSUME NEW c \in Call, Resend(c) PROVE TypeOK'
    BY <1>4 DEF Resend
  <1>5. CASE Collect
    <2>1. Again \subseteq Call /\ GivenUp \subseteq Call
      BY DEF Again, GivenUp, Overdue, Pending
    <2>2. retry' \in [Call -> 0 .. MaxRetries]
      BY <1>5 DEF Collect, Retries, Again
    <2>3. age' \in [Call -> 0 .. MaxAge]
      BY <1>5 DEF Collect, Ages, Kept
    <2>4. pending' \in [Number -> Call \cup {None}]
      BY <1>5 DEF Collect
    <2> QED BY <1>5, <2>1, <2>2, <2>3, <2>4 DEF Collect
  <1>6. CASE Tick
    <2>1. age' \in [Call -> 0 .. MaxAge] /\ life' \in [Call -> 0 .. Lifetime]
      BY <1>6 DEF Tick, AtMost
    <2>2. lag' \in 0 .. MaxLag /\ sleep' \in 0 .. Interval
      BY <1>6 DEF Tick
    <2> QED BY <1>6, <2>1, <2>2 DEF Tick
  <1>7. CASE ReadClock \/ HandlerExit \/ CheckStopped
    BY <1>7 DEF ReadClock, HandlerExit, CheckStopped
  <1>11. CASE Block
    <2>1. Interval \in 0 .. Interval
      OBVIOUS
    <2>2. /\ thread' = "waiting" /\ sleep' = Interval /\ signalled' = FALSE
          /\ UNCHANGED <<trackVars, running, lag, toResend, ownerVars>>
      BY <1>11 DEF Block
    <2> QED BY <2>1, <2>2
  <1>12. CASE Wake \/ SpuriousWake
    <2>1. 0 \in 0 .. Interval
      OBVIOUS
    <2>2. /\ thread' = "loop" /\ sleep' = 0 /\ signalled' = FALSE
          /\ UNCHANGED <<trackVars, running, lag, toResend, ownerVars>>
      BY <1>12 DEF Wake, SpuriousWake
    <2> QED BY <2>1, <2>2
  <1>8. ASSUME NEW o \in Owner, Start(o) \/ Stop(o) \/ Advance(o) \/ StopCommunicator(o)
        PROVE  TypeOK'
    <2>1. UNCHANGED <<trackVars, lag, toResend, sleep>>
      BY <1>8 DEF Advance, Start, SetRunning, SpawnHandler, SpawnOverThread, StartCommunicator,
                  Stop, ClearRunning, StopNotify, StopJoin, StopCommunicator
    <2>2. /\ running' \in BOOLEAN /\ signalled' \in BOOLEAN /\ communicating' \in BOOLEAN
          /\ crashed' \in BOOLEAN
          /\ thread' \in {thread, "loop", "none"}
      BY <1>8 DEF Advance, Start, SetRunning, SpawnHandler, SpawnOverThread, StartCommunicator,
                  Stop, ClearRunning, StopNotify, StopJoin, StopCommunicator
    <2>3. owner' \in [Owner -> {"idle", "starting", "spawning", "opening", "stopping",
                                "notifying", "joining", "closing"}]
      BY <1>8 DEF Advance, Start, SetRunning, SpawnHandler, SpawnOverThread, StartCommunicator,
                  Stop, ClearRunning, StopNotify, StopJoin, StopCommunicator, Proceed
    <2>4. overlapped' \in BOOLEAN
      BY <1>8 DEF Advance, Start, SetRunning, SpawnHandler, SpawnOverThread, StartCommunicator,
                  Stop, ClearRunning, StopNotify, StopJoin, StopCommunicator, Overlaps
    <2> QED BY <2>1, <2>2, <2>3, <2>4
  <1>10. CASE UNCHANGED vars
    BY <1>10 DEF vars
  <1> HIDE DEF TypeOK
  <1> QED BY <1>1, <1>2, <1>3, <1>4, <1>5, <1>6, <1>7, <1>8, <1>10, <1>11, <1>12
          DEF Next, Running, Terminated, Handler, Control

LEMMA CopiesInit == Init => CopiesInHand
  BY DEF Init, CopiesInHand

LEMMA CopiesNext == TypeOK /\ TableSound /\ CopiesInHand /\ [Next]_vars => CopiesInHand'
  <1> SUFFICES ASSUME TypeOK, TableSound, CopiesInHand, [Next]_vars PROVE CopiesInHand'
    OBVIOUS
  <1> USE DEF CopiesInHand, threadVars
  <1>1. ASSUME NEW c \in Call, SendFrame(c) \/ StorePending(c) \/ HandleAcknowledgment(c)
        PROVE  CopiesInHand'
    BY <1>1 DEF SendFrame, StorePending, HandleAcknowledgment, TypeOK
  <1>2. ASSUME NEW c \in Call, Resend(c) PROVE CopiesInHand'
    BY <1>2 DEF Resend
  <1>3. CASE Collect
    BY <1>3, PendingStored DEF Collect, Again, Overdue
  <1>4. CASE Tick
    BY <1>4 DEF Tick
  <1>5. CASE ~ TrackStep
    <2>1. UNCHANGED <<call, toResend>>
      BY <1>5, QuietSteps
    <2>2. thread = "resend" => thread' = "resend" \/ toResend = {}
      <3>1. CASE Control
        BY <3>1 DEF Control, Advance, Start, SetRunning, SpawnHandler, SpawnOverThread,
                    StartCommunicator, Stop, ClearRunning, StopNotify, StopJoin, StopCommunicator
      <3>2. CASE ReadClock \/ HandlerExit \/ CheckStopped \/ Block \/ Wake \/ SpuriousWake
        BY <3>2 DEF ReadClock, HandlerExit, CheckStopped, Block, Wake, SpuriousWake
      <3>3. CASE UNCHANGED vars
        BY <3>3 DEF vars
      <3> QED BY <1>5, <3>1, <3>2, <3>3 DEF Next, Running, Terminated, Handler, TrackStep
    <2> QED BY <2>1, <2>2
  <1> QED BY <1>1, <1>2, <1>3, <1>4, <1>5 DEF TrackStep

LEMMA TableInit == Init => TableSound
  BY DEF Init, TableSound

LEMMA TableNext == TypeOK /\ TableSound /\ [Next]_vars => TableSound'
  <1> SUFFICES ASSUME TypeOK, TableSound, [Next]_vars PROVE TableSound'
    OBVIOUS
  <1> USE NoneAssumption, NumberAssumption DEF TypeOK, TableSound
  <1>1. ASSUME NEW c \in Call, SendFrame(c) PROVE TableSound'
    BY <1>1 DEF SendFrame
  <1>2. ASSUME NEW c \in Call, StorePending(c) PROVE TableSound'
    BY <1>2 DEF StorePending, Kept
  <1>3. ASSUME NEW c \in Call, HandleAcknowledgment(c) PROVE TableSound'
    BY <1>3 DEF HandleAcknowledgment, Kept
  <1>4. ASSUME NEW c \in Call, Resend(c) PROVE TableSound'
    BY <1>4 DEF Resend
  <1>5. CASE Collect
    <2>1. \A c \in Overdue : c \in Call /\ call[c] = "stored" /\ pending[NumberOf[c]] = c
      BY PendingStored DEF Overdue
    <2>2. Again \subseteq Overdue /\ GivenUp \subseteq Overdue
      BY DEF Again, GivenUp
    <2>3. \A n \in Number : pending'[n] # None =>
              pending'[n] = pending[n] /\ pending[n] \notin GivenUp
      BY <1>5 DEF Collect
    <2>4. \A c \in Call : call[c] # "stored" => retry'[c] = retry[c] /\ age'[c] = age[c]
      <3>1. ASSUME NEW c \in Call, call[c] # "stored"
            PROVE  retry'[c] = retry[c] /\ age'[c] = age[c]
        <4>1. c \notin Again /\ age[c] = 0
          BY <2>1, <2>2, <3>1
        <4>2. retry'[c] = retry[c]
          BY <1>5, <4>1 DEF Collect, Retries
        <4>3. age' = Kept(Ages, pending')
          BY <1>5 DEF Collect
        <4>4. age'[c] \in {Ages[c], 0}
          BY <4>3 DEF Kept
        <4>5. Ages[c] = age[c]
          BY <4>1 DEF Ages
        <4> QED BY <4>1, <4>2, <4>4, <4>5
      <3> QED BY <3>1
    <2>5. call' = call /\ life' = life /\ timedOut' = timedOut \cup GivenUp
      BY <1>5 DEF Collect
    <2> QED BY <2>1, <2>2, <2>3, <2>4, <2>5
  <1>6. CASE Tick
    <2>1. \A c \in Call : call[c] # "stored" => age'[c] = age[c] /\ life'[c] = life[c]
      BY <1>6, PendingStored DEF Tick
    <2> QED BY <1>6, <2>1 DEF Tick
  <1>7. CASE ~ TrackStep
    BY <1>7, QuietSteps
  <1> QED BY <1>1, <1>2, <1>3, <1>4, <1>5, <1>6, <1>7 DEF TrackStep

LEMMA SentInit == Init => SentCounted
  BY DEF Init, SentCounted

LEMMA SentNext ==
    TypeOK /\ TableSound /\ CopiesInHand /\ SentCounted /\ [Next]_vars => SentCounted'
  <1> SUFFICES ASSUME TypeOK, TableSound, CopiesInHand, SentCounted, [Next]_vars
               PROVE  SentCounted'
    OBVIOUS
  <1> USE DEF TypeOK, SentCounted, threadVars
  <1>1. ASSUME NEW c \in Call, SendFrame(c) PROVE SentCounted'
    BY <1>1 DEF SendFrame, TableSound, CopiesInHand
  <1>2. ASSUME NEW c \in Call, StorePending(c) PROVE SentCounted'
    BY <1>2 DEF StorePending
  <1>3. ASSUME NEW c \in Call, HandleAcknowledgment(c) PROVE SentCounted'
    BY <1>3 DEF HandleAcknowledgment
  <1>4. ASSUME NEW c \in Call, Resend(c) PROVE SentCounted'
    BY <1>4 DEF Resend, CopiesInHand
  <1>5. CASE Collect
    <2>1. toResend = {} /\ toResend' = Again /\ call' = call /\ sent' = sent
      BY <1>5 DEF Collect, CopiesInHand
    <2>2. \A c \in Call : retry'[c] = IF c \in Again THEN retry[c] + 1 ELSE retry[c]
      BY <1>5 DEF Collect, Retries
    <2>3. \A c \in Again : c \in Call /\ call[c] = "stored"
      BY PendingStored DEF Again, Overdue
    <2> QED BY <2>1, <2>2, <2>3
  <1>6. CASE Tick
    BY <1>6 DEF Tick
  <1>7. CASE ~ TrackStep
    BY <1>7, QuietSteps
  <1> QED BY <1>1, <1>2, <1>3, <1>4, <1>5, <1>6, <1>7 DEF TrackStep

LEMMA RetriesInit == Init => RetriesTookTime
  BY NoneAssumption, NumberAssumption DEF Init, RetriesTookTime, Pending

LEMMA RetriesNext ==
    TypeOK /\ TableSound /\ RetriesTookTime /\ [Next]_vars => RetriesTookTime'
  <1> SUFFICES ASSUME TypeOK, TableSound, RetriesTookTime, [Next]_vars,
                      NEW c \in Call, (c \in Pending)'
               PROVE  life'[c] >= AtMost(retry'[c] * Interval + age'[c], Lifetime)
    BY DEF RetriesTookTime, Pending, Lifetime, AtMost
  <1> DEFINE spent == retry[c] * Interval
  <1>1. spent \in Nat /\ (retry[c] + 1) * Interval = spent + Interval
    BY OneMoreInterval DEF TypeOK
  <1>2. /\ age[c] \in 0 .. MaxAge /\ life[c] \in 0 .. Lifetime /\ lag \in 0 .. MaxLag
        /\ Interval \in Nat /\ MaxAge \in Nat /\ MaxLag \in Nat /\ Lifetime \in Nat
    BY LifetimeNat, TimeAssumption DEF TypeOK
  <1>3. c \in Pending => life[c] >= AtMost(spent + age[c], Lifetime)
    BY DEF RetriesTookTime
  <1>4. CASE \E d \in Call : StorePending(d)
    <2>1. PICK d \in Call : StorePending(d)
      BY <1>4
    <2>2. CASE c = d
      <3>1. retry[c] = 0 /\ age[c] = 0 /\ life[c] = 0
        BY <2>1, <2>2 DEF StorePending, TableSound
      <3>2. retry'[c] = 0 /\ age'[c] = 0 /\ life'[c] = 0
        BY <2>1, <3>1 DEF StorePending, Kept
      <3>3. retry'[c] * Interval + age'[c] = 0 /\ life'[c] = 0
        BY <3>2, <1>2
      <3> QED BY <3>3, <1>2 DEF AtMost
    <2>3. CASE c # d
      <3>1. c \in Pending
        BY <2>1, <2>3, NumberAssumption DEF StorePending, Pending, TypeOK
      <3>2. age'[c] = age[c]
        BY <2>1, <2>3 DEF StorePending, Kept, Pending
      <3> QED BY <1>3, <2>1, <3>1, <3>2 DEF StorePending
    <2> QED BY <2>2, <2>3
  <1>5. CASE \E d \in Call : SendFrame(d) \/ HandleAcknowledgment(d) \/ Resend(d)
    <2>1. age'[c] = age[c] /\ UNCHANGED <<retry, life>>
      BY <1>5 DEF SendFrame, HandleAcknowledgment, Resend, Kept, Pending
    <2>2. c \in Pending
      BY <1>5, NumberAssumption, NoneAssumption
         DEF SendFrame, HandleAcknowledgment, Resend, Pending, TypeOK
    <2> QED BY <1>3, <2>1, <2>2
  <1>6. CASE Collect
    <2>1. c \in Pending /\ life' = life
      BY <1>6, NumberAssumption, NoneAssumption DEF Collect, Pending, TypeOK
    <2>2. CASE c \in Again
      <3>1. age[c] >= Interval + lag
        BY <1>2, <2>2 DEF Again, Overdue
      <3>2. life[c] >= AtMost(spent + Interval + lag, Lifetime)
        BY <1>1, <1>2, <1>3, <2>1, <3>1 DEF AtMost
      <3>3. retry'[c] * Interval + age'[c] = spent + Interval + lag
        BY <1>1, <1>6, <2>2 DEF Collect, Retries, Ages, Kept, Pending
      <3> QED BY <2>1, <3>2, <3>3
    <2>3. CASE c \notin Again
      BY <1>3, <1>6, <2>1, <2>3 DEF Collect, Retries, Ages, Kept, Pending
    <2> QED BY <2>2, <2>3
  <1>7. CASE Tick
    <2>1. c \in Pending /\ retry' = retry
      BY <1>7 DEF Tick, Pending
    <2>2. age'[c] = AtMost(age[c] + 1, MaxAge) /\ life'[c] = AtMost(life[c] + 1, Lifetime)
      BY <1>7, <2>1 DEF Tick
    <2>3. retry'[c] * Interval = spent
      BY <2>1
    <2> HIDE DEF spent
    <2> QED BY <1>1, <1>2, <1>3, <2>1, <2>2, <2>3 DEF AtMost
  <1>8. CASE ~ TrackStep
    <2>1. UNCHANGED <<pending, age, retry, life>>
      BY <1>8, QuietSteps
    <2> QED BY <1>3, <2>1 DEF Pending
  <1> QED BY <1>4, <1>5, <1>6, <1>7, <1>8 DEF TrackStep

LEMMA TimedOutInit == Init => TimedOutAfterAllTries
  BY DEF Init, TimedOutAfterAllTries

LEMMA TimedOutNext ==
    Inv /\ [Next]_vars => TimedOutAfterAllTries'
  <1> SUFFICES ASSUME Inv, [Next]_vars, NEW c \in timedOut'
               PROVE  sent'[c] = MaxRetries + 1 /\ life'[c] = Lifetime
    BY DEF TimedOutAfterAllTries, Lifetime
  <1> USE DEF Inv, TypeOK
  <1>1. c \in timedOut => /\ c \in Call /\ call[c] = "stored" /\ c \notin Pending
                         /\ sent[c] = MaxRetries + 1 /\ life[c] = Lifetime
    BY DEF TimedOutAfterAllTries, TableSound, Pending
  <1>2. ASSUME NEW d \in Call, SendFrame(d)
        PROVE  sent'[c] = MaxRetries + 1 /\ life'[c] = Lifetime
    BY <1>1, <1>2 DEF SendFrame
  <1>3. ASSUME NEW d \in Call, StorePending(d) \/ HandleAcknowledgment(d)
        PROVE  sent'[c] = MaxRetries + 1 /\ life'[c] = Lifetime
    BY <1>1, <1>3 DEF StorePending, HandleAcknowledgment
  <1>4. ASSUME NEW d \in Call, Resend(d)
        PROVE  sent'[c] = MaxRetries + 1 /\ life'[c] = Lifetime
    <2>1. c \in timedOut
      BY <1>4 DEF Resend
    <2>2. c \notin toResend
      <3>1. c \in Call /\ retry[c] \in 0 .. MaxRetries /\ sent[c] = MaxRetries + 1
        BY <1>1, <2>1
      <3>2. c \in toResend => sent[c] = retry[c]
        BY <1>1, <2>1 DEF SentCounted
      <3> QED BY <3>1, <3>2, TimeAssumption
    <2> QED BY <1>1, <1>4, <2>1, <2>2 DEF Resend
  <1>5. CASE Collect
    <2>1. sent' = sent /\ life' = life /\ timedOut' = timedOut \cup GivenUp /\ toResend = {}
      BY <1>5 DEF Collect, CopiesInHand
    <2>2. CASE c \in GivenUp
      <3>1. c \in Pending /\ c \in Call /\ call[c] = "stored"
        BY <2>2, PendingStored DEF GivenUp, Overdue
      <3>2. retry[c] = MaxRetries /\ age[c] >= Interval
        BY <2>2, <3>1, TimeAssumption DEF GivenUp, Overdue, Again
      <3>3. sent[c] = MaxRetries + 1
        BY <2>1, <3>1, <3>2 DEF SentCounted
      <3>4. retry[c] * Interval = MaxRetries * Interval /\ MaxRetries * Interval \in Nat
        BY <3>2, OneMoreInterval, TimeAssumption
      <3>5. life[c] >= AtMost(MaxRetries * Interval + age[c], Lifetime)
        BY <3>1, <3>4 DEF RetriesTookTime
      <3>6. life[c] = Lifetime
        BY <3>1, <3>2, <3>4, <3>5, LifetimeNat, TimeAssumption DEF AtMost
      <3> QED BY <2>1, <3>3, <3>6
    <2> QED BY <1>1, <2>1, <2>2
  <1>6. CASE Tick
    BY <1>1, <1>6 DEF Tick
  <1>7. CASE ~ TrackStep
    BY <1>1, <1>7, QuietSteps
  <1> QED BY <1>2, <1>3, <1>4, <1>5, <1>6, <1>7 DEF TrackStep

-----------------------------------------------------------------------------

LEMMA Inductive == Spec => []Inv
  <1>1. Init => Inv
    BY TypeInit, TableInit, SentInit, CopiesInit, RetriesInit, TimedOutInit DEF Inv
  <1>2. Inv /\ [Next]_vars => Inv'
    BY TypeNext, TableNext, SentNext, CopiesNext, RetriesNext, TimedOutNext DEF Inv
  <1> QED BY <1>1, <1>2, PTL DEF Spec

\* Every variable keeps its type; retryCount never exceeds maxRetries.
THEOREM TypeCorrect == Spec => []TypeOK
  <1>1. Inv => TypeOK
    BY DEF Inv
  <1> QED BY <1>1, Inductive, PTL

\* No command is given to the communicator more often than maxRetries + 1 times.
THEOREM Bounded == Spec => []TransmissionsBounded
  <1>1. Inv => TransmissionsBounded
    BY TimeAssumption DEF Inv, TypeOK, SentCounted, TransmissionsBounded
  <1> QED BY <1>1, Inductive, PTL

\* The handler gives a command up only after every transmission and every wait.
THEOREM TimedOutLate == Spec => []TimedOutAfterAllTries
  <1>1. Inv => TimedOutAfterAllTries
    BY DEF Inv
  <1> QED BY <1>1, Inductive, PTL

\* The table never holds a command under a number that is not its own, nor one
\* whose timeout has been reported.
THEOREM TableCorrect == Spec => []TableSound
  <1>1. Inv => TableSound
    BY DEF Inv
  <1> QED BY <1>1, Inductive, PTL
-----------------------------------------------------------------------------
(* What is over, and whom stop() joins.                                    *)

\* The command has left the table, and no copy of it is waiting to be sent.
Retired(c) == call[c] = "stored" /\ c \notin Pending /\ c \notin toResend

RetiredForGood ==
    [][\A c \in Call : Retired(c) => Retired(c)' /\ sent'[c] = sent[c]]_vars

\* A command that was answered, replaced or given up, once the copy that may be in
\* the handler's hand is gone, is never sent again and never comes back to the table.
THEOREM RetiredStaysRetired == Spec => RetiredForGood
  <1>1. Inv /\ [Next]_vars => [\A c \in Call : Retired(c) => Retired(c)' /\ sent'[c] = sent[c]]_vars
    <2> SUFFICES ASSUME Inv, [Next]_vars, NEW c \in Call, Retired(c)
                 PROVE  Retired(c)' /\ sent'[c] = sent[c]
      OBVIOUS
    <2> USE DEF Inv, TypeOK, Retired, Pending
    <2>1. ASSUME NEW d \in Call, SendFrame(d) \/ StorePending(d) PROVE Retired(c)' /\ sent'[c] = sent[c]
      BY <2>1, NumberAssumption DEF SendFrame, StorePending, threadVars
    <2>2. ASSUME NEW d \in Call, HandleAcknowledgment(d) PROVE Retired(c)' /\ sent'[c] = sent[c]
      BY <2>2, NumberAssumption, NoneAssumption DEF HandleAcknowledgment, threadVars
    <2>3. ASSUME NEW d \in Call, Resend(d) PROVE Retired(c)' /\ sent'[c] = sent[c]
      BY <2>3 DEF Resend
    <2>4. CASE Collect
      BY <2>4, NumberAssumption, NoneAssumption DEF Collect, Again, Overdue
    <2>5. CASE Tick
      BY <2>5 DEF Tick
    <2>6. CASE ~ TrackStep
      BY <2>6, QuietSteps
    <2> QED BY <2>1, <2>2, <2>3, <2>4, <2>5, <2>6 DEF TrackStep
  <1> QED BY <1>1, Inductive, PTL DEF Spec, RetiredForGood

\* As long as no call of start() or stop() overlapped another: a started protocol has
\* its handler, which ends only when the flag has been cleared; stop() always has one
\* to join; and the communicator is started after the handler and stopped after it.
OneAtATime ==
    \A o, p \in Owner : owner[o] # "idle" /\ owner[p] # "idle" => o = p

HandlerLives == ~ overlapped =>
    /\ OneAtATime
    /\ thread = "none" <=> \/ \E o \in Owner : owner[o] \in {"starting", "spawning", "closing"}
                           \/ ~ running /\ \A o \in Owner : owner[o] = "idle"
    /\ \A o \in Owner : owner[o] \in {"spawning", "opening", "stopping"} => running
    /\ \A o \in Owner : owner[o] \in {"starting", "notifying", "joining", "closing"} => ~ running
    /\ thread = "exited" => ~ running
    /\ communicating <=>
           \/ \E o \in Owner : owner[o] \in {"stopping", "notifying", "joining", "closing"}
           \/ running /\ \A o \in Owner : owner[o] = "idle"

LEMMA ControlLives ==
    ASSUME TypeOK, HandlerLives, NEW o \in Owner,
           Start(o) \/ Stop(o) \/ Advance(o) \/ StopCommunicator(o)
    PROVE  HandlerLives'
  <1> SUFFICES ASSUME ~ overlapped' PROVE HandlerLives'
    BY DEF HandlerLives
  <1> USE DEF HandlerLives, OneAtATime
  <1>0. ~ overlapped
    BY DEF Advance, Start, SetRunning, SpawnHandler, SpawnOverThread, StartCommunicator,
           Stop, ClearRunning, StopNotify, StopJoin, StopCommunicator, Overlaps
  <1>1. owner[o] = "idle" => Start(o) \/ Stop(o)
    BY DEF Advance, At, SetRunning, SpawnHandler, SpawnOverThread, StartCommunicator,
           ClearRunning, StopNotify, StopJoin, StopCommunicator
  <1>2. \A p \in Owner \ {o} : owner[p] = "idle" /\ owner'[p] = "idle"
    <2>1. CASE Start(o) \/ Stop(o)
      BY <1>0, <2>1 DEF Start, Stop, Overlaps, Proceed, TypeOK
    <2>2. CASE owner[o] # "idle"
      BY <1>0, <2>2 DEF Start, Stop, Advance, At, SetRunning, SpawnHandler, SpawnOverThread,
             StartCommunicator, ClearRunning, StopNotify, StopJoin, StopCommunicator, Proceed,
             TypeOK
    <2> QED BY <1>1, <2>1, <2>2
  <1>3. CASE Start(o)
    <2>1. owner[o] = "idle" /\ owner'[o] = "starting"
      BY <1>3 DEF Start, At, Proceed, TypeOK
    <2> QED BY <1>0, <1>2, <1>3, <2>1 DEF Start
  <1>4. CASE SetRunning(o)
    <2>1. owner[o] = "starting" /\ owner'[o] = "spawning"
      BY <1>4 DEF SetRunning, At, Proceed, TypeOK
    <2> QED BY <1>0, <1>2, <1>4, <2>1 DEF SetRunning
  <1>5. CASE SpawnHandler(o)
    <2>1. owner[o] = "spawning" /\ owner'[o] = "opening"
      BY <1>5 DEF SpawnHandler, At, Proceed, TypeOK
    <2> QED BY <1>0, <1>2, <1>5, <2>1 DEF SpawnHandler
  <1>6. CASE SpawnOverThread(o)
    BY <1>0, <1>6 DEF SpawnOverThread, At
  <1>7. CASE StartCommunicator(o)
    <2>1. owner[o] = "opening" /\ owner'[o] = "idle"
      BY <1>7 DEF StartCommunicator, At, Proceed, TypeOK
    <2> QED BY <1>0, <1>2, <1>7, <2>1 DEF StartCommunicator
  <1>8. CASE Stop(o)
    <2>1. owner[o] = "idle" /\ owner'[o] = "stopping"
      BY <1>8 DEF Stop, At, Proceed, TypeOK
    <2> QED BY <1>0, <1>2, <1>8, <2>1 DEF Stop
  <1>9. CASE ClearRunning(o)
    <2>1. owner[o] = "stopping" /\ owner'[o] = "notifying"
      BY <1>9 DEF ClearRunning, At, Proceed, TypeOK
    <2> QED BY <1>0, <1>2, <1>9, <2>1 DEF ClearRunning
  <1>10. CASE StopNotify(o)
    <2>1. owner[o] = "notifying" /\ owner'[o] = "joining"
      BY <1>10 DEF StopNotify, At, Proceed, TypeOK
    <2> QED BY <1>0, <1>2, <1>10, <2>1 DEF StopNotify
  <1>11. CASE StopJoin(o)
    <2>1. owner[o] = "joining" /\ owner'[o] = "closing"
      BY <1>11 DEF StopJoin, At, Proceed, TypeOK
    <2> QED BY <1>0, <1>2, <1>11, <2>1 DEF StopJoin
  <1>12. CASE StopCommunicator(o)
    <2>1. owner[o] = "closing" /\ owner'[o] = "idle"
      BY <1>12 DEF StopCommunicator, At, Proceed, TypeOK
    <2> QED BY <1>0, <1>2, <1>12, <2>1 DEF StopCommunicator
  <1> QED BY <1>3, <1>4, <1>5, <1>6, <1>7, <1>8, <1>9, <1>10, <1>11, <1>12 DEF Advance

LEMMA LivesNext == TypeOK /\ HandlerLives /\ [Next]_vars => HandlerLives'
  <1> SUFFICES ASSUME TypeOK, HandlerLives, [Next]_vars PROVE HandlerLives'
    OBVIOUS
  <1> USE DEF HandlerLives, OneAtATime, threadVars, ownerVars
  <1>1. CASE Control
    BY <1>1, ControlLives DEF Control
  <1>5. CASE ReadClock \/ HandlerExit \/ CheckStopped
    BY <1>5 DEF ReadClock, HandlerExit, CheckStopped
  <1>6. CASE Collect \/ Block \/ Wake \/ SpuriousWake \/ Tick
    BY <1>6 DEF Collect, Block, Wake, SpuriousWake, Tick
  <1>7. ASSUME NEW c \in Call, SendFrame(c) \/ StorePending(c) \/ HandleAcknowledgment(c) \/ Resend(c)
        PROVE  HandlerLives'
    BY <1>7 DEF SendFrame, StorePending, HandleAcknowledgment, Resend
  <1>8. CASE UNCHANGED vars
    BY <1>8 DEF vars
  <1> HIDE DEF HandlerLives
  <1> QED BY <1>1, <1>5, <1>6, <1>7, <1>8 DEF Next, Running, Terminated, Handler

\* As long as no call of start() or stop() overlaps another, whichever threads make
\* them: start() never overwrites a thread that has not been joined, stop() joins one
\* that exists and that will see the flag cleared, and the communicator is open only
\* while the protocol is.
THEOREM StopHasHandler == Spec => []HandlerLives
  <1>1. Init => HandlerLives
    BY DEF Init, HandlerLives, OneAtATime
  <1>2. TypeOK /\ HandlerLives /\ [Next]_vars => HandlerLives'
    BY LivesNext
  <1> QED BY <1>1, <1>2, TypeCorrect, PTL DEF Spec

\* stop() has returned, or start() was never called.
Stopped == ~ overlapped /\ ~ running /\ \A o \in Owner : owner[o] = "idle"

QuietWhenStopped ==
    [][Stopped => \A c \in Call : call[c] # "new" => sent'[c] = sent[c]]_vars

\* After stop() has returned, and before start(), no command is transmitted again,
\* whatever is still in the table: the only frames are those of new calls.
THEOREM Quiet == Spec => QuietWhenStopped
  <1>1. Inv /\ HandlerLives /\ [Next]_vars =>
          [Stopped => \A c \in Call : call[c] # "new" => sent'[c] = sent[c]]_vars
    <2> SUFFICES ASSUME Inv, HandlerLives, [Next]_vars, Stopped,
                        NEW c \in Call, call[c] # "new"
                 PROVE  sent'[c] = sent[c]
      OBVIOUS
    <2>1. thread = "none"
      BY DEF HandlerLives, Stopped
    <2>2. ASSUME NEW d \in Call, SendFrame(d) PROVE sent'[c] = sent[c]
      BY <2>2 DEF SendFrame, Inv, TypeOK
    <2>3. ASSUME NEW d \in Call, StorePending(d) \/ HandleAcknowledgment(d) PROVE sent'[c] = sent[c]
      BY <2>3 DEF StorePending, HandleAcknowledgment
    <2>4. ASSUME NEW d \in Call, Resend(d) \/ Collect PROVE FALSE
      BY <2>1, <2>4 DEF Resend, Collect
    <2>5. CASE Tick
      BY <2>5 DEF Tick
    <2>6. CASE ~ TrackStep
      BY <2>6, QuietSteps
    <2> QED BY <2>2, <2>3, <2>4, <2>5, <2>6 DEF TrackStep
  <1> QED BY <1>1, Inductive, StopHasHandler, PTL DEF Spec, QuietWhenStopped
=============================================================================
