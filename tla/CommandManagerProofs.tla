------------------------- MODULE CommandManagerProofs -------------------------
(***************************************************************************)
(* Safety of CommandManager for every set of entries, numbers and commands *)
(* and for every maxRetries, timeout and bound on the ages.                *)
(***************************************************************************)
EXTENDS CommandManager, TLAPS

\* A queued entry has been in the queue for a timeout per retransmission, and
\* for the time since the last one.
RetriesTookTime ==
    \A e \in Entry : status[e] = "queued" =>
        life[e] >= AtMost(retry[e] * Timeout + age[e], Lifetime)

Inv ==
    /\ TypeOK
    /\ MapTracksQueue
    /\ TrackedIsNewest
    /\ RetriesTookTime
    /\ GivenUpAfterLifetime

-----------------------------------------------------------------------------
(* Arithmetic, and the steps that leave the entries and the map alone.     *)

LEMMA LifetimeNat == Lifetime \in Nat /\ Timeout <= Lifetime
  <1>1. MaxRetries \in Nat /\ Timeout \in Nat
    BY TimeAssumption
  <1>2. ASSUME NEW r \in Nat, NEW t \in Nat PROVE (r + 1) * t \in Nat /\ t <= (r + 1) * t
    <2>1. (r + 1) * t = r * t + t
      OBVIOUS
    <2>2. r * t \in Nat
      OBVIOUS
    <2> QED BY <2>1, <2>2
  <1> QED BY <1>1, <1>2 DEF Lifetime

LEMMA OneMoreRetry ==
    ASSUME NEW r \in Nat PROVE (r + 1) * Timeout = r * Timeout + Timeout /\ r * Timeout \in Nat
  BY TimeAssumption

\* Every step but these six kinds leaves the entries and the map as they are.
EntryStep ==
    \/ \E e \in Entry : \/ \E c \in Command : AddCommand(e, c)
                        \/ GetNextCommand(e)
                        \/ WorkerGiveUp(e)
                        \/ WorkerRetransmit(e)
    \/ \E n \in Number : HandleAcknowledgment(n)
    \/ Tick

LEMMA QuietSteps ==
    ASSUME [Next]_vars, ~ EntryStep
    PROVE  UNCHANGED <<cmd, status, age, retry, life, forgotten, map>>
  BY DEF Next, Worker, Client, Control, EntryStep, vars, entryVars, threadVars,
         Start, SpawnWorker, SpawnOverThread, Stop, StopNotify, StopJoin, WorkerLock, WorkerExit,
         WorkerWaitEmpty, WorkerWaitUntil, WorkerCrash, WakeFromWait,
         WakeFromWaitUntil, WaitOn, Terminated

-----------------------------------------------------------------------------
(* Type correctness.                                                       *)

LEMMA TypeInit == Init => TypeOK
  <1> SUFFICES ASSUME Init PROVE TypeOK
    OBVIOUS
  <1> USE DEF Init
  <1>1. /\ cmd \in [Entry -> Command \cup {None}]
        /\ status \in [Entry -> {"new", "queued", "taken", "dropped"}]
        /\ map \in [Number -> Entry \cup {None}]
    OBVIOUS
  <1>2. age \in [Entry -> 0 .. MaxAge] /\ retry \in [Entry -> 0 .. MaxRetries]
    BY TimeAssumption
  <1>3. sleep \in 0 .. Timeout
    BY TimeAssumption
  <1>4. life \in [Entry -> 0 .. Lifetime]
    BY LifetimeNat
  <1>5. \A e \in Entry : status[e] = "queued" => cmd[e] \in Command
    OBVIOUS
  <1> QED BY <1>1, <1>2, <1>3, <1>4, <1>5 DEF TypeOK

LEMMA TypeNext == TypeOK /\ [Next]_vars => TypeOK'
  <1> SUFFICES ASSUME TypeOK, [Next]_vars PROVE TypeOK'
    OBVIOUS
  <1> USE TimeAssumption, LifetimeNat DEF TypeOK
  <1>1. ASSUME NEW e \in Entry, NEW c \in Command, AddCommand(e, c) PROVE TypeOK'
    <2>1. c.num \in Number
      BY CommandAssumption
    <2> QED BY <1>1, <2>1 DEF AddCommand, Track, Notified, Waiting
  <1>2. ASSUME NEW e \in Entry, GetNextCommand(e) PROVE TypeOK'
    <2>1. forgotten' \in [Entry -> BOOLEAN]
      BY <1>2 DEF GetNextCommand, Forget
    <2>2. map' \in [Number -> Entry \cup {None}]
      BY <1>2 DEF GetNextCommand, Untrack
    <2>3. /\ cmd' \in [Entry -> Command \cup {None}]
          /\ \A f \in Entry : status'[f] = "queued" => cmd'[f] \in Command
      BY <1>2 DEF GetNextCommand
    <2>4. /\ status' \in [Entry -> {"new", "queued", "taken", "dropped"}]
          /\ age' \in [Entry -> 0 .. MaxAge]
          /\ retry' \in [Entry -> 0 .. MaxRetries]
          /\ life' \in [Entry -> 0 .. Lifetime]
          /\ Lifetime' = Lifetime
      BY <1>2 DEF GetNextCommand, Lifetime
    <2> QED BY <1>2, <2>1, <2>2, <2>3, <2>4 DEF GetNextCommand, threadVars
  <1>3. ASSUME NEW e \in Entry, WorkerGiveUp(e) PROVE TypeOK'
    <2>1. forgotten' \in [Entry -> BOOLEAN]
      BY <1>3 DEF WorkerGiveUp, Forget
    <2>2. map' \in [Number -> Entry \cup {None}]
      BY <1>3 DEF WorkerGiveUp, Untrack
    <2>3. /\ cmd' \in [Entry -> Command \cup {None}]
          /\ \A f \in Entry : status'[f] = "queued" => cmd'[f] \in Command
      BY <1>3 DEF WorkerGiveUp
    <2>4. /\ status' \in [Entry -> {"new", "queued", "taken", "dropped"}]
          /\ age' \in [Entry -> 0 .. MaxAge]
          /\ retry' \in [Entry -> 0 .. MaxRetries]
          /\ life' \in [Entry -> 0 .. Lifetime]
          /\ Lifetime' = Lifetime
      BY <1>3 DEF WorkerGiveUp, Lifetime
    <2> QED BY <1>3, <2>1, <2>2, <2>3, <2>4 DEF WorkerGiveUp, threadVars
  <1>4. ASSUME NEW e \in Entry, WorkerRetransmit(e) PROVE TypeOK'
    BY <1>4 DEF WorkerRetransmit, RetriesLeft, Refresh, Count, threadVars
  <1>5. ASSUME NEW n \in Number, HandleAcknowledgment(n) PROVE TypeOK'
    <2>1. forgotten' \in [Entry -> BOOLEAN]
      BY <1>5 DEF HandleAcknowledgment, Forget
    <2> QED BY <1>5, <2>1 DEF HandleAcknowledgment, Untrack, threadVars
  <1>6. CASE Tick
    BY <1>6 DEF Tick, AtMost
  <1>7. ASSUME NEW e \in Entry, WorkerWaitUntil(e) PROVE TypeOK'
    <2>1. age[e] \in Nat /\ age[e] < Timeout
      BY <1>7 DEF WorkerWaitUntil, Due
    <2>2. sleep' \in 0 .. Timeout
      BY <1>7, <2>1 DEF WorkerWaitUntil
    <2> QED BY <1>7, <2>2 DEF WorkerWaitUntil, entryVars
  <1>8. CASE WorkerLock \/ WorkerExit \/ WorkerWaitEmpty \/ WakeFromWait \/ WakeFromWaitUntil \/ WaitOn
    <2>1. /\ UNCHANGED <<cmd, status, age, retry, life, forgotten, map, running, owner, crashed,
                        overlapped>>
          /\ worker' \in {"none", "starting", "holding", "waitEmpty", "waitUntil", "exited"}
          /\ sleep' \in {sleep, 0}
          /\ signalled' \in BOOLEAN
      BY <1>8 DEF WorkerLock, WorkerExit, WorkerWaitEmpty, WakeFromWait, WakeFromWaitUntil,
                  WaitOn, entryVars
    <2> QED BY <2>1
  <1>9. CASE Control
    <2>1. PICK o \in Owner : \/ Start(o) \/ SpawnWorker(o) \/ SpawnOverThread(o)
                             \/ Stop(o) \/ StopNotify(o) \/ StopJoin(o)
      BY <1>9 DEF Control
    <2>2. /\ UNCHANGED <<entryVars, map, sleep>>
          /\ running' \in BOOLEAN /\ signalled' \in BOOLEAN
      BY <2>1 DEF Start, SpawnWorker, SpawnOverThread, Stop, StopNotify, StopJoin, Notified,
                  Waiting
    <2>3. worker' \in {worker, "starting", "none"} /\ crashed' \in BOOLEAN
      BY <2>1 DEF Start, SpawnWorker, SpawnOverThread, Stop, StopNotify, StopJoin
    <2>4. owner' \in [Owner -> {"idle", "spawning", "notifying", "joining"}]
      BY <2>1 DEF Start, SpawnWorker, SpawnOverThread, Stop, StopNotify, StopJoin, Proceed
    <2>5. overlapped' \in BOOLEAN
      BY <2>1 DEF Start, SpawnWorker, SpawnOverThread, Stop, StopNotify, StopJoin, Overlaps
    <2> QED BY <2>2, <2>3, <2>4, <2>5 DEF entryVars
  <1>10. ASSUME NEW e \in Entry, WorkerCrash(e) PROVE TypeOK'
    BY <1>10 DEF WorkerCrash, entryVars
  <1>11. CASE UNCHANGED vars
    BY <1>11 DEF vars
  <1> QED
    BY <1>1, <1>2, <1>3, <1>4, <1>5, <1>6, <1>7, <1>8, <1>9, <1>10, <1>11
    DEF Next, Worker, Client, Terminated

\* Every variable keeps its type; in particular retryCount never exceeds maxRetries.
THEOREM TypeCorrect == Spec => []TypeOK
  BY TypeInit, TypeNext, PTL DEF Spec

-----------------------------------------------------------------------------
(* The inductive invariant, one conjunct at a time.                        *)

LEMMA InvInit == Init => Inv
  <1> SUFFICES ASSUME Init PROVE Inv
    OBVIOUS
  <1>1. TypeOK
    BY TypeInit
  <1>2. RetriesTookTime /\ GivenUpAfterLifetime
    BY DEF Init, RetriesTookTime, GivenUpAfterLifetime
  <1>3. MapTracksQueue /\ TrackedIsNewest
    BY DEF Init, MapTracksQueue, TrackedIsNewest, Queue
  <1> QED BY <1>1, <1>2, <1>3 DEF Inv

LEMMA MapNext == TypeOK /\ MapTracksQueue /\ [Next]_vars => MapTracksQueue'
  <1> SUFFICES ASSUME TypeOK, MapTracksQueue, [Next]_vars PROVE MapTracksQueue'
    OBVIOUS
  <1> USE NoneAssumption DEF TypeOK, MapTracksQueue
  <1>1. ASSUME NEW e \in Entry, NEW c \in Command, AddCommand(e, c) PROVE MapTracksQueue'
    <2>1. c.num \in Number
      BY CommandAssumption
    <2> QED BY <1>1, <2>1 DEF AddCommand, Track
  <1>2. ASSUME NEW e \in Entry, GetNextCommand(e) \/ WorkerGiveUp(e) PROVE MapTracksQueue'
    <2>1. cmd[e].num \in Number
      BY <1>2, CommandAssumption DEF GetNextCommand, Untrack, WorkerGiveUp, IsTop, Queue
    <2> QED BY <1>2, <2>1 DEF GetNextCommand, Untrack, WorkerGiveUp
  <1>3. ASSUME NEW e \in Entry, WorkerRetransmit(e) PROVE MapTracksQueue'
    BY <1>3 DEF WorkerRetransmit
  <1>4. ASSUME NEW n \in Number, HandleAcknowledgment(n) PROVE MapTracksQueue'
    BY <1>4 DEF HandleAcknowledgment, Untrack
  <1>5. CASE Tick
    BY <1>5 DEF Tick
  <1>6. CASE ~ EntryStep
    BY <1>6, QuietSteps
  <1> QED BY <1>1, <1>2, <1>3, <1>4, <1>5, <1>6 DEF EntryStep

Newest(e) ==
    e \in Queue /\ \A f \in Queue \ {e} : cmd[f].num = cmd[e].num => life[e] < life[f]

\* Time passes for every queued entry alike, a new entry is the youngest, and an
\* entry becomes the youngest only when another one of its number leaves.
LEMMA NewestNext ==
    TypeOK /\ MapTracksQueue /\ TrackedIsNewest /\ [Next]_vars => TrackedIsNewest'
  <1> SUFFICES ASSUME TypeOK, MapTracksQueue, TrackedIsNewest, [Next]_vars
               PROVE  TrackedIsNewest'
    OBVIOUS
  <1> DEFINE NoneOlder ==
        \A n \in Number : map[n] # None =>
            \A f \in Queue : cmd[f].num = n => life[map[n]] <= life[f]
  <1> DEFINE Tracked == \A e \in Entry : Newest(e) => map[cmd[e].num] = IF forgotten[e] THEN None ELSE e
  <1>0. /\ TrackedIsNewest <=> NoneOlder /\ Tracked
        /\ TrackedIsNewest' <=> NoneOlder' /\ Tracked'
    BY DEF TrackedIsNewest, Newest, Queue
  <1> USE NoneAssumption, LifetimeNat DEF TypeOK, MapTracksQueue, Queue
  <1>1. ASSUME NEW e \in Entry, NEW c \in Command, AddCommand(e, c) PROVE TrackedIsNewest'
    <2>1. c.num \in Number /\ life'[e] = 0 /\ cmd'[e] = c /\ status'[e] = "queued"
      BY <1>1, CommandAssumption DEF AddCommand
    <2>2. NoneOlder'
      BY <1>0, <1>1, <2>1 DEF AddCommand, Track
    <2>3. ASSUME NEW f \in Entry, Newest(f)' PROVE map'[cmd'[f].num] = IF forgotten'[f] THEN None ELSE f
      <3>1. CASE f = e
        BY <1>1, <2>1, <3>1 DEF AddCommand, Track
      <3>2. CASE f # e
        <4>0. life'[f] \in Nat /\ ~ life'[f] < life'[e]
          BY <1>1, <2>1, <3>2 DEF AddCommand
        <4>1. cmd'[f].num # c.num
          BY <2>1, <2>3, <3>2, <4>0 DEF Newest
        <4>2. Newest(f) /\ cmd'[f] = cmd[f] /\ forgotten'[f] = forgotten[f]
          BY <1>1, <2>3, <3>2 DEF Newest, AddCommand
        <4>3. map'[cmd[f].num] = map[cmd[f].num]
          BY <1>1, <4>1, <4>2, CommandAssumption DEF AddCommand, Track, Newest
        <4> QED BY <1>0, <4>2, <4>3
      <3> QED BY <3>1, <3>2
    <2> QED BY <1>0, <2>2, <2>3
  <1>2. ASSUME NEW e \in Entry, GetNextCommand(e) \/ WorkerGiveUp(e) PROVE TrackedIsNewest'
    <2> DEFINE num == cmd[e].num
    <2>1. num \in Number /\ status[e] = "queued" /\ map' = [map EXCEPT ![num] = None]
      BY <1>2, CommandAssumption DEF GetNextCommand, WorkerGiveUp, IsTop, Untrack
    <2>2. \A f \in Entry : status'[f] = "queued" =>
              f # e /\ status[f] = "queued" /\ cmd'[f] = cmd[f] /\ life'[f] = life[f]
      BY <1>2 DEF GetNextCommand, WorkerGiveUp
    <2>3. \A f \in Entry : status'[f] = "queued" =>
              forgotten'[f] = (forgotten[f] \/ cmd[f].num = num)
      BY <1>2 DEF GetNextCommand, WorkerGiveUp, Forget
    <2>4. \A n \in Number : map'[n] # None => map'[n] = map[n] /\ n # num
      BY <2>1
    <2>5. NoneOlder'
      <3>1. ASSUME NEW n \in Number, map'[n] # None, NEW f \in Queue', cmd'[f].num = n
            PROVE  life'[map'[n]] <= life'[f]
        <4>1. map[n] # None /\ status[map[n]] = "queued" /\ cmd[map[n]].num = n /\ n # num
          BY <3>1, <2>4
        <4>2. map[n] # e /\ life'[map[n]] = life[map[n]]
          BY <1>2, <4>1 DEF GetNextCommand, WorkerGiveUp
        <4>3. f \in Queue /\ life'[f] = life[f] /\ cmd[f].num = n
          BY <3>1, <2>2
        <4> QED BY <1>0, <2>4, <3>1, <4>1, <4>2, <4>3
      <3> QED BY <3>1
    <2>6. ASSUME NEW f \in Entry, Newest(f)' PROVE map'[cmd'[f].num] = IF forgotten'[f] THEN None ELSE f
      <3>1. status'[f] = "queued" /\ status[f] = "queued" /\ cmd'[f] = cmd[f] /\ cmd[f].num \in Number
        BY <2>2, <2>6, CommandAssumption DEF Newest
      <3>2. CASE cmd[f].num = num
        BY <2>1, <2>3, <3>1, <3>2
      <3>3. CASE cmd[f].num # num
        <4>1. \A g \in Entry : status[g] = "queued" /\ g # e =>
                  status'[g] = "queued" /\ cmd'[g] = cmd[g] /\ life'[g] = life[g]
          BY <1>2 DEF GetNextCommand, WorkerGiveUp
        <4>2. life'[f] = life[f]
          BY <2>2, <3>1
        <4>3. ASSUME NEW g \in Entry, status[g] = "queued", g # f, cmd[g].num = cmd[f].num
              PROVE  life[f] < life[g]
          <5>1. g # e
            BY <3>3, <4>3
          <5> QED BY <2>6, <3>1, <4>1, <4>2, <4>3, <5>1 DEF Newest
        <4>4. Newest(f)
          BY <3>1, <4>3 DEF Newest
        <4> QED BY <1>0, <2>1, <2>3, <3>1, <3>3, <4>4
      <3> QED BY <3>2, <3>3
    <2> QED BY <1>0, <2>5, <2>6
  <1>3. ASSUME NEW e \in Entry, WorkerRetransmit(e) PROVE TrackedIsNewest'
    BY <1>0, <1>3 DEF WorkerRetransmit, Newest
  <1>4. ASSUME NEW n \in Number, HandleAcknowledgment(n) PROVE TrackedIsNewest'
    <2>1. UNCHANGED <<cmd, status, life>> /\ map' = [map EXCEPT ![n] = None]
      BY <1>4 DEF HandleAcknowledgment, Untrack
    <2>2. \A f \in Entry : status[f] = "queued" =>
              forgotten'[f] = (forgotten[f] \/ cmd[f].num = n)
      BY <1>4, <2>1 DEF HandleAcknowledgment, Forget
    <2>3. NoneOlder'
      BY <1>0, <2>1
    <2>4. ASSUME NEW f \in Entry, Newest(f)' PROVE map'[cmd'[f].num] = IF forgotten'[f] THEN None ELSE f
      <3>1. Newest(f) /\ cmd[f].num \in Number /\ status[f] = "queued"
        BY <2>1, <2>4, CommandAssumption DEF Newest
      <3> QED BY <1>0, <2>1, <2>2, <3>1
    <2> QED BY <1>0, <2>3, <2>4
  <1>5. CASE Tick
    <2>1. UNCHANGED <<cmd, status, map, forgotten>>
      BY <1>5 DEF Tick
    <2>2. \A e, f \in Queue : life[e] <= life[f] => life'[e] <= life'[f]
      BY <1>5 DEF Tick, AtMost
    <2>3. NoneOlder'
      BY <1>0, <2>1, <2>2
    <2>4. ASSUME NEW f \in Entry, Newest(f)' PROVE Newest(f)
      <3>1. \A g \in Queue : life'[f] < life'[g] => life[f] < life[g]
        <4>1. f \in Queue
          BY <2>1, <2>4 DEF Newest
        <4>2. \A g \in Queue : life[g] \in Nat /\ life'[g] \in Nat /\ life[f] \in Nat /\ life'[f] \in Nat
          BY <1>5, <4>1 DEF Tick, AtMost
        <4> QED BY <2>2, <4>1, <4>2
      <3> QED BY <2>1, <2>4, <3>1 DEF Newest
    <2> QED BY <1>0, <2>1, <2>3, <2>4
  <1>6. CASE ~ EntryStep
    BY <1>0, <1>6, QuietSteps DEF Newest
  <1> QED BY <1>1, <1>2, <1>3, <1>4, <1>5, <1>6 DEF EntryStep

LEMMA RetriesNext ==
    TypeOK /\ RetriesTookTime /\ [Next]_vars => RetriesTookTime'
  <1> SUFFICES ASSUME TypeOK, RetriesTookTime, [Next]_vars
               PROVE  RetriesTookTime'
    OBVIOUS
  <1> USE TimeAssumption, LifetimeNat DEF TypeOK, RetriesTookTime, AtMost
  <1>1. ASSUME NEW e \in Entry, NEW c \in Command, AddCommand(e, c) PROVE RetriesTookTime'
    <2>1. retry'[e] * Timeout + age'[e] = 0 /\ life'[e] = 0
      BY <1>1 DEF AddCommand
    <2>2. Lifetime' = Lifetime
      BY DEF Lifetime
    <2>3. \A f \in Entry \ {e} : status'[f] = status[f] /\ retry'[f] = retry[f]
                                 /\ age'[f] = age[f] /\ life'[f] = life[f]
      BY <1>1 DEF AddCommand
    <2> QED BY <2>1, <2>2, <2>3
  <1>2. ASSUME NEW e \in Entry, GetNextCommand(e) \/ WorkerGiveUp(e) PROVE RetriesTookTime'
    <2>1. Lifetime' = Lifetime
      BY DEF Lifetime
    <2>2. \A f \in Entry : status'[f] = "queued" =>
              status[f] = "queued" /\ retry'[f] = retry[f] /\ age'[f] = age[f] /\ life'[f] = life[f]
      BY <1>2 DEF GetNextCommand, WorkerGiveUp
    <2> QED BY <2>1, <2>2
  <1>3. ASSUME NEW e \in Entry, WorkerRetransmit(e) PROVE RetriesTookTime'
    <2>1. (retry[e] + 1) * Timeout = retry[e] * Timeout + Timeout
      BY OneMoreRetry
    <2>2. retry[e] * Timeout \in Nat
      BY OneMoreRetry
    <2>3. age[e] >= Timeout /\ status[e] = "queued"
      BY <1>3 DEF WorkerRetransmit, Refresh, Count, Due, IsTop, Queue
    <2>4. life[e] >= AtMost((retry[e] + 1) * Timeout, Lifetime)
      BY <2>1, <2>2, <2>3
    <2>5. life'[e] >= AtMost(retry'[e] * Timeout + age'[e], Lifetime)
      BY <1>3, <2>1, <2>2, <2>4 DEF WorkerRetransmit, Refresh, Count
    <2>6. ASSUME NEW f \in Entry, f # e
          PROVE  status'[f] = status[f] /\ retry'[f] = retry[f] /\ age'[f] = age[f] /\ life'[f] = life[f]
      BY <1>3, <2>6 DEF WorkerRetransmit, Refresh, Count
    <2>7. Lifetime' = Lifetime
      BY DEF Lifetime
    <2> QED BY <2>5, <2>6, <2>7
  <1>4. ASSUME NEW n \in Number, HandleAcknowledgment(n) PROVE RetriesTookTime'
    BY <1>4 DEF HandleAcknowledgment, Lifetime
  <1>5. CASE Tick
    <2>1. ASSUME NEW e \in Entry, status'[e] = "queued"
          PROVE  life'[e] >= AtMost(retry'[e] * Timeout + age'[e], Lifetime')
      <3> DEFINE spent == retry[e] * Timeout
      <3>1. spent \in Nat
        BY OneMoreRetry
      <3>2. e \in Queue
        BY <1>5, <2>1 DEF Tick, Queue
      <3>3. life[e] >= AtMost(spent + age[e], Lifetime)
        BY <3>2 DEF Queue
      <3>4. life'[e] = AtMost(life[e] + 1, Lifetime) /\ age'[e] = AtMost(age[e] + 1, MaxAge)
        BY <1>5, <3>2 DEF Tick
      <3>5. retry'[e] * Timeout = spent /\ Lifetime' = Lifetime
        BY <1>5 DEF Tick, Lifetime
      <3> HIDE DEF spent
      <3> QED BY <3>1, <3>3, <3>4, <3>5
    <2> QED BY <2>1
  <1>6. CASE ~ EntryStep
    BY <1>6, QuietSteps DEF Lifetime
  <1> QED BY <1>1, <1>2, <1>3, <1>4, <1>5, <1>6 DEF EntryStep

LEMMA GivenUpNext ==
    TypeOK /\ RetriesTookTime /\ GivenUpAfterLifetime /\ [Next]_vars => GivenUpAfterLifetime'
  <1> SUFFICES ASSUME TypeOK, RetriesTookTime, GivenUpAfterLifetime, [Next]_vars
               PROVE  GivenUpAfterLifetime'
    OBVIOUS
  <1> USE TimeAssumption, LifetimeNat DEF TypeOK, GivenUpAfterLifetime
  <1>0. Lifetime' = Lifetime
    BY DEF Lifetime
  <1>1. ASSUME NEW e \in Entry, NEW c \in Command, AddCommand(e, c) PROVE GivenUpAfterLifetime'
    BY <1>0, <1>1 DEF AddCommand
  <1>2. ASSUME NEW e \in Entry, GetNextCommand(e) PROVE GivenUpAfterLifetime'
    BY <1>0, <1>2 DEF GetNextCommand
  <1>3. ASSUME NEW e \in Entry, WorkerGiveUp(e) PROVE GivenUpAfterLifetime'
    <2>1. retry[e] = MaxRetries /\ age[e] >= Timeout /\ status[e] = "queued"
      BY <1>3 DEF WorkerGiveUp, RetriesLeft, Due, IsTop, Queue
    <2>2. Lifetime = MaxRetries * Timeout + Timeout /\ MaxRetries * Timeout \in Nat
      BY OneMoreRetry DEF Lifetime
    <2>3. life[e] = Lifetime
      BY <2>1, <2>2 DEF RetriesTookTime, AtMost
    <2> QED BY <1>0, <1>3, <2>1, <2>3 DEF WorkerGiveUp, RetriesLeft
  <1>4. ASSUME NEW e \in Entry, WorkerRetransmit(e) PROVE GivenUpAfterLifetime'
    BY <1>0, <1>4 DEF WorkerRetransmit, RetriesLeft, Refresh, Count, IsTop, Queue
  <1>5. ASSUME NEW n \in Number, HandleAcknowledgment(n) PROVE GivenUpAfterLifetime'
    BY <1>0, <1>5 DEF HandleAcknowledgment
  <1>6. CASE Tick
    BY <1>0, <1>6 DEF Tick, Queue
  <1>7. CASE ~ EntryStep
    BY <1>0, <1>7, QuietSteps
  <1> QED BY <1>1, <1>2, <1>3, <1>4, <1>5, <1>6, <1>7 DEF EntryStep

-----------------------------------------------------------------------------

LEMMA Inductive == Spec => []Inv
  <1>1. Inv /\ [Next]_vars => Inv'
    BY TypeNext, MapNext, NewestNext, RetriesNext, GivenUpNext DEF Inv
  <1> QED BY InvInit, <1>1, PTL DEF Spec

\* The map holds only queued commands, under their own numbers.
THEOREM MapCorrect == Spec => []MapTracksQueue
  <1>1. Inv => MapTracksQueue
    BY DEF Inv
  <1> QED BY Inductive, <1>1, PTL

\* Of several queued commands with one number the map never holds one older than
\* another, and it holds the youngest from its addCommand until the number is
\* acknowledged or another command of the number leaves, and from then on none.
THEOREM NewestTracked == Spec => []TrackedIsNewest
  <1>1. Inv => TrackedIsNewest
    BY DEF Inv
  <1> QED BY Inductive, <1>1, PTL

\* A command is given up only after maxRetries retransmissions, and after it has
\* spent (maxRetries + 1) timeouts in the queue.
THEOREM GivenUpLate == Spec => []GivenUpAfterLifetime
  <1>1. Inv => GivenUpAfterLifetime
    BY DEF Inv
  <1> QED BY Inductive, <1>1, PTL

-----------------------------------------------------------------------------
(* Wakeups, and what a stop() in progress waits for.                       *)

\* A worker in either of its waits has been notified of what ends it: of a command
\* in the queue, and of the cleared flag unless stop() is about to notify.
NoWakeupLost ==
    /\ worker = "waitEmpty" /\ Queue # {} => signalled
    /\ Waiting /\ ~ running => signalled \/ \E o \in Owner : owner[o] = "notifying"

\* As long as no call of start() or stop() overlapped another: while the object is
\* started there is a worker, which leaves its loop only when the flag has been
\* cleared; a stop() in progress always has one to join.
OneAtATime ==
    \A o, p \in Owner : owner[o] # "idle" /\ owner[p] # "idle" => o = p

WorkerLives == ~ overlapped =>
    /\ OneAtATime
    /\ worker = "none" <=> \/ \E o \in Owner : owner[o] = "spawning"
                           \/ ~ running /\ \A o \in Owner : owner[o] = "idle"
    /\ \A o \in Owner : owner[o] = "spawning" => running
    /\ \A o \in Owner : owner[o] \in {"notifying", "joining"} => ~ running
    /\ worker = "exited" => ~ running

LEMMA WakeupNext == TypeOK /\ NoWakeupLost /\ [Next]_vars => NoWakeupLost'
  <1> SUFFICES ASSUME TypeOK, NoWakeupLost, [Next]_vars PROVE NoWakeupLost'
    OBVIOUS
  <1> USE DEF NoWakeupLost, Waiting, Queue
  <1>1. ASSUME NEW e \in Entry, NEW c \in Command, AddCommand(e, c) PROVE NoWakeupLost'
    <2>1. Waiting => signalled'
      BY <1>1, Zenon DEF AddCommand, Notified
    <2> QED BY <1>1, <2>1 DEF AddCommand
  <1>2. ASSUME NEW e \in Entry, GetNextCommand(e) \/ WorkerGiveUp(e) PROVE NoWakeupLost'
    <2>1. /\ UNCHANGED <<running, worker, signalled, owner>>
          /\ Queue' \subseteq Queue
      BY <1>2 DEF GetNextCommand, WorkerGiveUp, threadVars, TypeOK
    <2> QED BY <2>1
  <1>3. ASSUME NEW e \in Entry, WorkerRetransmit(e) \/ WorkerCrash(e) PROVE NoWakeupLost'
    BY <1>3 DEF WorkerRetransmit, WorkerCrash, entryVars, threadVars
  <1>4. ASSUME NEW e \in Entry, WorkerWaitUntil(e) PROVE NoWakeupLost'
    BY <1>4 DEF WorkerWaitUntil, WorkerTurn, entryVars
  <1>5. CASE WorkerWaitEmpty
    BY <1>5 DEF WorkerWaitEmpty, WorkerTurn, entryVars
  <1>6. CASE WaitOn
    BY <1>6 DEF WaitOn, entryVars
  <1>7. CASE WorkerLock \/ WorkerExit \/ WakeFromWait \/ WakeFromWaitUntil
    BY <1>7 DEF WorkerLock, WorkerExit, WakeFromWait, WakeFromWaitUntil, entryVars
  <1>8. ASSUME NEW n \in Number, HandleAcknowledgment(n) PROVE NoWakeupLost'
    BY <1>8 DEF HandleAcknowledgment, threadVars
  <1>9. ASSUME NEW o \in Owner, StopNotify(o) PROVE NoWakeupLost'
    <2>1. Waiting => signalled'
      BY <1>9, Zenon DEF StopNotify, Notified
    <2> QED BY <1>9, <2>1 DEF StopNotify, entryVars
  <1>10. ASSUME NEW o \in Owner,
                Start(o) \/ SpawnWorker(o) \/ SpawnOverThread(o) \/ Stop(o) \/ StopJoin(o)
         PROVE  NoWakeupLost'
    <2>1. /\ UNCHANGED <<status, signalled>>
          /\ Waiting' => Waiting
      BY <1>10 DEF Start, SpawnWorker, SpawnOverThread, Stop, StopJoin, entryVars
    <2>2. CASE Stop(o)
      <3>1. owner'[o] = "notifying"
        BY <2>2 DEF Stop, Proceed, TypeOK
      <3> QED BY <2>1, <2>2, <3>1 DEF Stop
    <2>3. CASE SpawnOverThread(o)
      BY <2>3 DEF SpawnOverThread, entryVars
    <2>4. CASE Start(o)
      BY <2>4 DEF Start, entryVars
    <2>5. CASE SpawnWorker(o) \/ StopJoin(o)
      BY <2>5 DEF SpawnWorker, StopJoin, entryVars
    <2> QED BY <1>10, <2>2, <2>3, <2>4, <2>5
  <1>11. CASE Tick \/ UNCHANGED vars
    BY <1>11 DEF Tick, vars
  <1> HIDE DEF NoWakeupLost
  <1> QED
    BY <1>1, <1>2, <1>3, <1>4, <1>5, <1>6, <1>7, <1>8, <1>9, <1>10, <1>11
    DEF Next, Worker, Client, Control, Terminated

LEMMA LivesNext == TypeOK /\ WorkerLives /\ [Next]_vars => WorkerLives'
  <1> SUFFICES ASSUME TypeOK, WorkerLives, [Next]_vars PROVE WorkerLives'
    OBVIOUS
  <1> USE DEF WorkerLives, OneAtATime
  <1>0. ASSUME ~ overlapped, NEW o \in Owner, Start(o) \/ Stop(o), ~ overlapped'
        PROVE  \A p \in Owner : owner[p] = "idle"
    BY <1>0 DEF Start, Stop, At, Overlaps
  <1>1. ASSUME NEW o \in Owner, Start(o) \/ SpawnWorker(o) \/ SpawnOverThread(o)
                                \/ Stop(o) \/ StopNotify(o) \/ StopJoin(o)
        PROVE  WorkerLives'
    <2> SUFFICES ASSUME ~ overlapped' PROVE WorkerLives'
      OBVIOUS
    <2>0. ~ overlapped
      BY <1>1 DEF Start, SpawnWorker, SpawnOverThread, Stop, StopNotify, StopJoin, Overlaps
    <2>1. CASE Start(o)
      <3>1. \A p \in Owner : owner'[p] = IF p = o THEN "spawning" ELSE "idle"
        <4>1. \A p \in Owner : owner[p] = "idle"
          BY <1>0, <2>0, <2>1
        <4>2. owner' = [owner EXCEPT ![o] = "spawning"]
          BY <2>1 DEF Start, Proceed
        <4>3. owner \in [Owner -> {"idle", "spawning", "notifying", "joining"}]
          BY DEF TypeOK
        <4> HIDE DEF WorkerLives
        <4> QED BY <4>1, <4>2, <4>3
      <3>2. worker = "none" /\ worker' = worker /\ running'
        BY <1>0, <2>0, <2>1 DEF Start
      <3>3. owner'[o] = "spawning" /\ OneAtATime'
        BY <3>1
      <3>4. \A p \in Owner : owner'[p] \notin {"notifying", "joining"}
        BY <3>1
      <3> QED BY <3>2, <3>3, <3>4
    <2>2. CASE SpawnWorker(o)
      <3>1. \A p \in Owner : owner'[p] = "idle"
        BY <2>0, <2>2 DEF SpawnWorker, At, Proceed, TypeOK
      <3>2. worker' = "starting" /\ running'
        BY <2>0, <2>2 DEF SpawnWorker, At
      <3> QED BY <3>1, <3>2
    <2>3. CASE SpawnOverThread(o)
      BY <2>0, <2>3 DEF SpawnOverThread
    <2>4. CASE Stop(o)
      <3>1. \A p \in Owner : owner'[p] = IF p = o THEN "notifying" ELSE "idle"
        <4>1. \A p \in Owner : owner[p] = "idle"
          BY <1>0, <2>0, <2>4
        <4>2. owner' = [owner EXCEPT ![o] = "notifying"]
          BY <2>4 DEF Stop, Proceed
        <4>3. owner \in [Owner -> {"idle", "spawning", "notifying", "joining"}]
          BY DEF TypeOK
        <4> HIDE DEF WorkerLives
        <4> QED BY <4>1, <4>2, <4>3
      <3>2. worker # "none" /\ worker' = worker /\ ~ running'
        BY <1>0, <2>0, <2>4 DEF Stop
      <3>3. owner'[o] = "notifying" /\ OneAtATime'
        BY <3>1
      <3>4. \A p \in Owner : owner'[p] # "spawning"
        BY <3>1
      <3> QED BY <3>2, <3>3, <3>4
    <2>5. CASE StopNotify(o)
      <3>1. \A p \in Owner : owner'[p] = IF p = o THEN "joining" ELSE "idle"
        BY <2>0, <2>5 DEF StopNotify, At, Proceed, TypeOK
      <3>2. worker # "none" /\ UNCHANGED <<worker, running>> /\ ~ running
        BY <2>0, <2>5 DEF StopNotify, At
      <3>3. owner'[o] = "joining" /\ OneAtATime'
        BY <3>1
      <3>4. \A p \in Owner : owner'[p] # "spawning"
        BY <3>1
      <3> QED BY <3>2, <3>3, <3>4
    <2>6. CASE StopJoin(o)
      <3>1. \A p \in Owner : owner'[p] = "idle"
        BY <2>0, <2>6 DEF StopJoin, At, Proceed, TypeOK
      <3>2. worker' = "none" /\ ~ running'
        BY <2>0, <2>6 DEF StopJoin, At
      <3> QED BY <3>1, <3>2
    <2> QED BY <1>1, <2>1, <2>2, <2>3, <2>4, <2>5, <2>6
  <1>2. ASSUME NEW e \in Entry,
               WorkerWaitUntil(e) \/ WorkerGiveUp(e) \/ WorkerRetransmit(e) \/ WorkerCrash(e)
        PROVE  WorkerLives'
    BY <1>2 DEF WorkerWaitUntil, WorkerGiveUp, WorkerRetransmit, WorkerCrash, WorkerTurn,
                threadVars
  <1>3. CASE WorkerLock \/ WorkerExit \/ WorkerWaitEmpty \/ WakeFromWait \/ WakeFromWaitUntil \/ WaitOn
    BY <1>3 DEF WorkerLock, WorkerExit, WorkerWaitEmpty, WorkerTurn, WakeFromWait,
                WakeFromWaitUntil, WaitOn
  <1>4. CASE Client
    BY <1>4 DEF Client, AddCommand, GetNextCommand, HandleAcknowledgment, threadVars
  <1>5. CASE Tick \/ UNCHANGED vars
    BY <1>5 DEF Tick, vars
  <1> HIDE DEF WorkerLives
  <1> QED BY <1>1, <1>2, <1>3, <1>4, <1>5 DEF Next, Worker, Control, Terminated

\* addCommand and stop() lose no wakeup, although stop() notifies without the lock:
\* both change what the worker waits for under the lock, and the worker tests it and
\* blocks without giving the lock up in between.
THEOREM WorkerWoken == Spec => []NoWakeupLost
  <1>1. Init => NoWakeupLost
    BY DEF Init, NoWakeupLost, Waiting
  <1>2. TypeOK /\ NoWakeupLost /\ [Next]_vars => NoWakeupLost'
    BY WakeupNext
  <1> QED BY <1>1, <1>2, TypeCorrect, PTL DEF Spec

\* As long as no call of start() or stop() overlaps another, whichever threads make
\* them: no started manager is without its worker, and stop() never joins a thread
\* that does not exist or that runs on.
THEOREM StopHasWorker == Spec => []WorkerLives
  <1>1. Init => WorkerLives
    BY DEF Init, WorkerLives, OneAtATime
  <1>2. TypeOK /\ WorkerLives /\ [Next]_vars => WorkerLives'
    BY LivesNext
  <1> QED BY <1>1, <1>2, TypeCorrect, PTL DEF Spec

\* start() never assigns over a thread that has not been joined, unless calls of
\* start() and stop() have overlapped.
THEOREM RestartIsSafe == Spec => []RestartSafe
  <1>1. WorkerLives => RestartSafe
    BY DEF WorkerLives, RestartSafe
  <1> QED BY StopHasWorker, <1>1, PTL

\* The abstraction the facade is built on: every step of the manager is a step of
\* CommandQueue or leaves it alone.
THEOREM QueueImplemented == Spec => ImplementsQueue
  <1>1. Init => Promise!Init
    BY DEF Init, Promise!Init
  <1>2. Inv /\ [Next]_vars => [Promise!Next]_status
    <2> SUFFICES ASSUME Inv, [Next]_vars
                 PROVE  [Promise!Next]_status
      OBVIOUS
    <2> USE DEF Promise!Next, Promise!Add, Promise!Take, Promise!Drop, Promise!Move
    <2>1. CASE \E e \in Entry, c \in Command : AddCommand(e, c)
      BY <2>1 DEF AddCommand
    <2>2. CASE \E e \in Entry : GetNextCommand(e)
      BY <2>2 DEF GetNextCommand, IsTop, Queue
    <2>3. CASE \E e \in Entry : WorkerGiveUp(e)
      BY <2>3 DEF WorkerGiveUp, IsTop, Queue
    <2>4. CASE UNCHANGED status
      BY <2>4
    <2>5. \/ \E e \in Entry, c \in Command : AddCommand(e, c)
          \/ \E e \in Entry : GetNextCommand(e)
          \/ \E e \in Entry : WorkerGiveUp(e)
          \/ UNCHANGED status
      <3>1. CASE UNCHANGED vars
        BY <3>1 DEF vars
      <3>2. CASE Client
        BY <3>2 DEF Client, HandleAcknowledgment
      <3>3. CASE Control
        BY <3>3 DEF Control, Start, SpawnWorker, SpawnOverThread, Stop, StopNotify, StopJoin,
                    entryVars
      <3>4. CASE Worker
        BY <3>4 DEF Worker, WorkerLock, WorkerExit, WorkerWaitEmpty, WakeFromWait,
                    WakeFromWaitUntil, WaitOn, WorkerWaitUntil, WorkerRetransmit,
                    WorkerCrash, entryVars
      <3>5. CASE Tick \/ Terminated
        BY <3>5 DEF Tick, Terminated, vars
      <3> QED BY <3>1, <3>2, <3>3, <3>4, <3>5 DEF Next
    <2> QED BY <2>1, <2>2, <2>3, <2>4, <2>5
  <1> QED BY <1>1, <1>2, Inductive, PTL DEF Spec, ImplementsQueue, Promise!Spec
=============================================================================
