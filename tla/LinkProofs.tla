------------------------------- MODULE LinkProofs -------------------------------
(***************************************************************************)
(* Proofs about Link: every payload, command and telemetry that a packet   *)
(* can carry arrives over an undisturbed link, and whatever the link makes *)
(* of the bytes, the receivers find payloads of bytes in them.             *)
(***************************************************************************)
EXTENDS Link, ScalpelProofs, FiniteSetTheorems

\* t is found behind the first m elements of all.
IsSlice(all, m, t, n) == \A k \in 1 .. n : all[m + k] = t[k]

CutsOut(all, m, t, n) == SubSeq(all, m + 1, m + n) = t

LEMMA Slice ==
    ASSUME NEW S, NEW all, NEW m \in Nat, NEW t \in Seq(S), NEW n \in Nat, n = Len(t),
           IsSlice(all, m, t, n)
    PROVE  CutsOut(all, m, t, n)
  <1>1. \A k \in 1 .. n : all[m + k] = t[k]
    BY DEF IsSlice
  <1> DEFINE u == SubSeq(all, m + 1, m + n)
  <1>2. /\ u \in Seq(S) /\ Len(u) = n
        /\ \A i \in 1 .. n : u[i] = all[m + i]
    <2>1. \A i \in m + 1 .. m + n : all[i] \in S
      <3>1. \A i \in m + 1 .. m + n : i - m \in 1 .. n /\ m + (i - m) = i
        OBVIOUS
      <3>2. \A k \in 1 .. n : t[k] \in S
        OBVIOUS
      <3> QED BY <1>1, <3>1, <3>2
    <2>2. /\ m + 1 \in Int /\ m + n \in Int
          /\ (IF m + 1 <= m + n THEN (m + n) - (m + 1) + 1 ELSE 0) = n /\ (m + n) - (m + 1) + 1 = n
          /\ \A i \in 1 .. n : (m + 1) + i - 1 = m + i
      OBVIOUS
    <2> QED BY <2>1, <2>2, SubSeqProperties
  <1> HIDE DEF u
  <1>3. u = t
    BY <1>1, <1>2, SeqEqual
  <1> QED BY <1>3 DEF u, CutsOut

\* The second of two sequences that are joined is found behind the first.
LEMMA Suffix ==
    ASSUME NEW S, NEW all, NEW s, NEW m \in Nat, NEW t \in Seq(S), NEW n \in Nat, n = Len(t),
           IsJoined(all, S, s, m, t, n)
    PROVE  CutsOut(all, m, t, n)
  <1>1. IsSlice(all, m, t, n)
    BY DEF IsJoined, IsSlice
  <1> QED BY <1>1, Slice
-----------------------------------------------------------------------------
(* Commands and telemetry.                                                 *)

CommandType == [sender : 0 .. 15, receiver : 0 .. 15, number : Byte, payload : Seq(Byte)]

LEMMA PackedParts ==
    ASSUME NEW sender \in 0 .. 15, NEW receiver \in 0 .. 15
    PROVE  /\ Pack(sender, receiver) \in Byte
           /\ Pack(sender, receiver) % 16 = sender
           /\ Pack(sender, receiver) \div 16 = receiver
  BY DEF Pack, Byte

\* Where the fields of a command are, the payload of l bytes behind the header.
IsEncoded(e, c, l) ==
    /\ e \in Seq(Byte) /\ Len(e) = 4 + l /\ l = Len(c.payload)
    /\ e[1] = Pack(c.sender, c.receiver) /\ e[2] = COMMAND /\ e[3] = c.number /\ e[4] = l
    /\ SubSeq(e, 5, 4 + l) = c.payload

LEMMA CommandLayout ==
    ASSUME NEW c \in CommandType, NEW e
    PROVE  e \in EncodeCommand(c) => \E l \in 0 .. 255 : IsEncoded(e, c, l)
  <1>0. SUFFICES ASSUME e \in EncodeCommand(c)
                 PROVE  \E l \in 0 .. 255 : IsEncoded(e, c, l)
    OBVIOUS
  <1>1. /\ c.sender \in 0 .. 15 /\ c.receiver \in 0 .. 15 /\ c.number \in Byte
        /\ c.payload \in Seq(Byte)
        /\ c = [sender |-> c.sender, receiver |-> c.receiver, number |-> c.number,
                payload |-> c.payload]
    BY DEF CommandType
  <1>2. PICK l \in 0 .. 255 : l = Len(c.payload)
    <2>1. PICK l \in Nat : l = Len(c.payload)
      BY <1>1
    <2>2. l <= 255
      BY <1>0, <2>1 DEF EncodeCommand
    <2>3. l \in 0 .. 255
      BY <2>2
    <2> QED BY <2>1, <2>3
  <1> DEFINE header == <<Pack(c.sender, c.receiver), COMMAND, c.number, l>>
  <1>3. e = header \o c.payload
    BY <1>0, <1>2 DEF EncodeCommand
  <1>4. header \in Seq(Byte) /\ Len(header) = 4
    <2>1. Pack(c.sender, c.receiver) \in Byte /\ COMMAND \in Byte /\ l \in Byte
      <3>1. COMMAND \in Byte /\ l \in Byte
        BY DEF COMMAND, Byte
      <3> QED BY <1>1, <3>1, PackedParts
    <2> QED BY <1>1, <2>1
  <1>5. header[1] = Pack(c.sender, c.receiver) /\ header[2] = COMMAND
        /\ header[3] = c.number /\ header[4] = l
    OBVIOUS
  <1> HIDE DEF header
  <1>6. PICK four \in Nat : four = 4
    OBVIOUS
  <1>7. IsJoined(e, Byte, header, four, c.payload, l)
    <2>1. l \in Nat /\ four = Len(header)
      BY <1>4, <1>6
    <2>2. IsJoined(header \o c.payload, Byte, header, four, c.payload, l)
      BY <1>1, <1>2, <1>4, <2>1, Joined
    <2> QED BY <1>3, <2>2
  <1>8. e \in Seq(Byte) /\ Len(e) = 4 + l /\ \A k \in 1 .. 4 : e[k] = header[k]
    BY <1>6, <1>7 DEF IsJoined
  <1>9. SubSeq(e, 5, 4 + l) = c.payload
    <2>1. CutsOut(e, four, c.payload, l)
      <3>1. PICK t \in Seq(Byte) : t = c.payload
        BY <1>1
      <3>2. l \in Nat /\ l = Len(t) /\ IsJoined(e, Byte, header, four, t, l)
        BY <1>2, <1>7, <3>1
      <3>3. CutsOut(e, four, t, l)
        BY <1>6, <3>2, Suffix, ZenonT(40)
      <3> QED BY <3>1, <3>3
    <2> QED BY <1>6, <2>1 DEF CutsOut
  <1>10. e[1] = Pack(c.sender, c.receiver) /\ e[2] = COMMAND /\ e[3] = c.number /\ e[4] = l
    BY <1>5, <1>8
  <1> QED BY <1>2, <1>8, <1>9, <1>10 DEF IsEncoded

\* Of what Command::encode makes of a command, the handler of its descriptor makes that
\* command again, its addresses, number and payload included (Command.cpp).
THEOREM CommandRoundTrip ==
    ASSUME NEW c \in CommandType, NEW e
    PROVE  e \in EncodeCommand(c) =>
               e \in Seq(Byte) /\ HandleIncomingPacket(e) = {<<"command", c>>}
  <1>0. SUFFICES ASSUME e \in EncodeCommand(c)
                 PROVE  e \in Seq(Byte) /\ HandleIncomingPacket(e) = {<<"command", c>>}
    OBVIOUS
  <1>1. /\ c.sender \in 0 .. 15 /\ c.receiver \in 0 .. 15
        /\ c = [sender |-> c.sender, receiver |-> c.receiver, number |-> c.number,
                payload |-> c.payload]
    BY DEF CommandType
  <1>2. PICK l \in 0 .. 255 : IsEncoded(e, c, l)
    BY <1>0, CommandLayout
  <1>3. e \in Seq(Byte) /\ Len(e) = 4 + l
    BY <1>2 DEF IsEncoded
  <1>4. SubSeq(e, 5, 4 + l) = c.payload
    BY <1>2 DEF IsEncoded
  <1>5. e[1] = Pack(c.sender, c.receiver) /\ e[2] = COMMAND /\ e[3] = c.number /\ e[4] = l
    BY <1>2 DEF IsEncoded
  <1>6. ~ (Len(e) < 2) /\ ~ (Len(e) < 4) /\ ~ (Len(e) < 4 + l)
    <2>1. PICK m \in Nat : m = 4 + l /\ ~ (m < 2) /\ ~ (m < 4)
      OBVIOUS
    <2>2. Len(e) = m
      BY <1>3, <2>1
    <2> QED BY <2>1, <2>2
  <1>7. DecodeCommand(e) = {c}
    <2>1. ~ (Len(e) < 4) /\ ~ (Len(e) < 4 + l)
      BY <1>6
    <2>2. e[1] % 16 = c.sender /\ e[1] \div 16 = c.receiver
      BY <1>1, <1>5, PackedParts
    <2> QED BY <1>1, <1>4, <1>5, <2>1, <2>2 DEF DecodeCommand
  <1>8. Handled(COMMAND, e) = {<<"command", c>>}
    BY <1>7 DEF Handled, COMMAND, ACKNOWLEDGMENT, TELEMETRY_A, TELEMETRY_B
  <1> QED BY <1>3, <1>5, <1>6, <1>8 DEF HandleIncomingPacket

IsWord(word, i) ==
    IF i > 2 THEN -32768 <= word /\ word <= 32767 ELSE 0 <= word /\ word <= 65535

LEMMA WordBytes ==
    ASSUME NEW word \in Int
    PROVE  EncodeWord(word)[1] \in Byte /\ EncodeWord(word)[2] \in Byte
  BY DEF EncodeWord, Byte

LEMMA WordRoundTrip ==
    ASSUME NEW i \in 1 .. 11, NEW word \in Int
    PROVE  IsWord(word, i) =>
               DecodeWord(EncodeWord(word)[1], EncodeWord(word)[2], i > 2) = word
  <1>0. SUFFICES ASSUME IsWord(word, i)
                 PROVE  DecodeWord(EncodeWord(word)[1], EncodeWord(word)[2], i > 2) = word
    OBVIOUS
  <1> DEFINE high == (word \div 256) % 256
             low == word % 256
  <1>1. EncodeWord(word)[1] = high /\ EncodeWord(word)[2] = low
    BY DEF EncodeWord
  <1>2. CASE i > 2
    <2>1. -32768 <= word /\ word <= 32767
      BY <1>0, <1>2 DEF IsWord
    <2>2. CASE word >= 0
      <3>1. 256 * high + low = word /\ ~ (256 * high + low >= 32768)
        BY <2>1, <2>2
      <3> HIDE DEF high, low
      <3> QED BY <1>1, <1>2, <3>1 DEF DecodeWord
    <2>3. CASE word < 0
      <3>1. 256 * high + low = word + 65536 /\ 256 * high + low >= 32768
        BY <2>1, <2>3
      <3>2. (word + 65536) - 65536 = word
        BY <2>1
      <3> HIDE DEF high, low
      <3> QED BY <1>1, <1>2, <3>1, <3>2 DEF DecodeWord
    <2> QED BY <2>1, <2>2, <2>3
  <1>3. CASE ~ (i > 2)
    <2>1. 0 <= word /\ word <= 65535
      BY <1>0, <1>3 DEF IsWord
    <2>2. 256 * high + low = word
      BY <2>1
    <2> HIDE DEF high, low
    <2> QED BY <1>1, <1>3, <2>2 DEF DecodeWord
  <1> QED BY <1>2, <1>3

TelemetryType ==
    {t \in [sender : 0 .. 15, receiver : 0 .. 15, descriptor : {TELEMETRY_A, TELEMETRY_B},
            words : [1 .. 11 -> Int], memory : [1 .. 3 -> Byte], status : Byte] :
        \A i \in 1 .. 11 : IsWord(t.words[i], i)}

\* The bytes of the eleven words.
WordBytesOf(words) == [i \in 1 .. 22 |-> EncodeWord(words[(i + 1) \div 2])[2 - (i % 2)]]

LEMMA WordsPlaced ==
    ASSUME NEW words \in [1 .. 11 -> Int]
    PROVE  /\ WordBytesOf(words) \in Seq(Byte) /\ Len(WordBytesOf(words)) = 22
           /\ \A i \in 1 .. 11 : /\ WordBytesOf(words)[2 * i - 1] = EncodeWord(words[i])[1]
                                 /\ WordBytesOf(words)[2 * i] = EncodeWord(words[i])[2]
  <1>1. ASSUME NEW i \in 1 .. 22 PROVE EncodeWord(words[(i + 1) \div 2])[2 - (i % 2)] \in Byte
    <2>1. (i + 1) \div 2 \in 1 .. 11 /\ 2 - (i % 2) \in {1, 2}
      OBVIOUS
    <2>2. words[(i + 1) \div 2] \in Int
      BY <2>1
    <2> QED BY <2>1, <2>2, WordBytes
  <1>2. WordBytesOf(words) \in [1 .. 22 -> Byte]
    BY <1>1 DEF WordBytesOf
  <1>3. WordBytesOf(words) \in Seq(Byte) /\ Len(WordBytesOf(words)) = 22
    <2> DEFINE w == WordBytesOf(words)
    <2>1. PICK n \in Nat : n = 22
      OBVIOUS
    <2>2. w \in [1 .. n -> Byte]
      BY <1>2, <2>1
    <2> HIDE DEF w
    <2>3. w \in Seq(Byte) /\ Len(w) = n
      BY <2>2, SMTT(30)
    <2> QED BY <2>1, <2>3 DEF w
  <1>4. ASSUME NEW i \in 1 .. 11
        PROVE  /\ WordBytesOf(words)[2 * i - 1] = EncodeWord(words[i])[1]
               /\ WordBytesOf(words)[2 * i] = EncodeWord(words[i])[2]
    <2>1. /\ 2 * i - 1 \in 1 .. 22 /\ ((2 * i - 1) + 1) \div 2 = i /\ 2 - ((2 * i - 1) % 2) = 1
          /\ 2 * i \in 1 .. 22 /\ (2 * i + 1) \div 2 = i /\ 2 - ((2 * i) % 2) = 2
      OBVIOUS
    <2> QED BY <2>1 DEF WordBytesOf
  <1> QED BY <1>3, <1>4

\* What is known of the 28 bytes of telemetry.
IsFilled(e, a, b, words, memory, d) ==
    /\ e \in Seq(Byte) /\ Len(e) = 28
    /\ e[1] = a /\ e[2] = b /\ e[28] = d
    /\ \A k \in 1 .. 22 : e[2 + k] = words[k]
    /\ SubSeq(e, 25, 27) = memory

LEMMA TelemetryLayout ==
    ASSUME NEW a \in Byte, NEW b \in Byte, NEW words \in Seq(Byte), NEW memory \in Seq(Byte),
           NEW d \in Byte
    PROVE  Len(words) = 22 /\ Len(memory) = 3 =>
           IsFilled(<<a, b>> \o words \o memory \o <<d>>, a, b, words, memory, d)
  <1>0. SUFFICES ASSUME Len(words) = 22, Len(memory) = 3
                 PROVE  IsFilled(<<a, b>> \o words \o memory \o <<d>>, a, b, words, memory, d)
    OBVIOUS
  <1>1. PICK one, two, three, w, u, v \in Nat :
            one = 1 /\ two = 2 /\ three = 3 /\ w = 22 /\ u = 24 /\ v = 27
    OBVIOUS
  <1> DEFINE head == <<a, b>>
             front == head \o words
             most == front \o memory
             tail == <<d>>
             e == most \o tail
  <1>2. head \in Seq(Byte) /\ Len(head) = 2 /\ head[1] = a /\ head[2] = b
    OBVIOUS
  <1>3. tail \in Seq(Byte) /\ Len(tail) = 1 /\ tail[1] = d
    OBVIOUS
  <1> HIDE DEF head, tail, front, most, e
  <1>4. IsJoined(front, Byte, head, two, words, w)
    BY <1>0, <1>1, <1>2, Joined DEF front
  <1>5. /\ front \in Seq(Byte) /\ Len(front) = 24
        /\ \A k \in 1 .. 2 : front[k] = head[k]
        /\ \A k \in 1 .. 22 : front[2 + k] = words[k]
    BY <1>1, <1>4 DEF IsJoined
  <1>6. IsJoined(most, Byte, front, u, memory, three)
    BY <1>0, <1>1, <1>5, Joined DEF most
  <1>7. /\ most \in Seq(Byte) /\ Len(most) = 27
        /\ \A k \in 1 .. 24 : most[k] = front[k]
    BY <1>1, <1>6 DEF IsJoined
  <1>8. IsJoined(e, Byte, most, v, tail, one)
    BY <1>1, <1>3, <1>7, Joined DEF e
  <1>9. /\ e \in Seq(Byte) /\ Len(e) = 28
        /\ \A k \in 1 .. 27 : e[k] = most[k]
        /\ \A k \in 1 .. 1 : e[27 + k] = tail[k]
    BY <1>1, <1>8 DEF IsJoined
  <1>10. e[1] = a /\ e[2] = b
    <2>1. 1 \in 1 .. 27 /\ 1 \in 1 .. 24 /\ 1 \in 1 .. 2 /\ 2 \in 1 .. 27 /\ 2 \in 1 .. 24 /\ 2 \in 1 .. 2
      OBVIOUS
    <2> QED BY <1>2, <1>5, <1>7, <1>9, <2>1
  <1>11. e[28] = d
    <2>1. 1 \in 1 .. 1 /\ 27 + 1 = 28
      OBVIOUS
    <2>2. e[27 + 1] = tail[1]
      BY <1>9, <2>1
    <2> QED BY <1>3, <2>1, <2>2
  <1>12. ASSUME NEW k \in 1 .. 22 PROVE e[2 + k] = words[k]
    <2>1. 2 + k \in 1 .. 27 /\ 2 + k \in 1 .. 24
      OBVIOUS
    <2> QED BY <1>5, <1>7, <1>9, <2>1, ZenonT(40)
  <1>13. SubSeq(e, 25, 27) = memory
    <2>1. \A k \in 1 .. 3 : 24 + k \in 1 .. 27
      OBVIOUS
    <2>2. \A k \in 1 .. 3 : most[24 + k] = memory[k]
      BY <1>1, <1>6 DEF IsJoined
    <2>3. IsSlice(e, u, memory, three)
      BY <1>1, <1>9, <2>1, <2>2 DEF IsSlice
    <2>4. CutsOut(e, u, memory, three)
      <3>1. three = Len(memory)
        BY <1>0, <1>1
      <3> QED BY <2>3, <3>1, Slice
    <2>5. u + 1 = 25 /\ u + three = 27
      BY <1>1
    <2> QED BY <2>4, <2>5 DEF CutsOut
  <1>14. IsFilled(e, a, b, words, memory, d)
    BY <1>9, <1>10, <1>11, <1>12, <1>13 DEF IsFilled
  <1> QED BY <1>14 DEF e, most, front, head, tail

\* Telemetry::encode makes 28 bytes, which fill a packet, and the handler of either of its
\* descriptors decodes them to the same fields, the signed ones with their sign (Telemetry.cpp).
THEOREM TelemetryRoundTrip ==
    ASSUME NEW t \in TelemetryType
    PROVE  /\ EncodeTelemetry(t) \in Seq(Byte)
           /\ Len(EncodeTelemetry(t)) = 28
           /\ HandleIncomingPacket(EncodeTelemetry(t)) = {<<"telemetry", t>>}
  <1>1. /\ t.sender \in 0 .. 15 /\ t.receiver \in 0 .. 15 /\ t.descriptor \in {TELEMETRY_A, TELEMETRY_B}
        /\ t.words \in [1 .. 11 -> Int] /\ t.memory \in [1 .. 3 -> Byte] /\ t.status \in Byte
        /\ t = [sender |-> t.sender, receiver |-> t.receiver, descriptor |-> t.descriptor,
                words |-> t.words, memory |-> t.memory, status |-> t.status]
        /\ \A i \in 1 .. 11 : IsWord(t.words[i], i)
    BY DEF TelemetryType
  <1> DEFINE e == EncodeTelemetry(t)
             word == WordBytesOf(t.words)
  <1>2. /\ word \in Seq(Byte) /\ Len(word) = 22
        /\ \A i \in 1 .. 11 : /\ word[2 * i - 1] = EncodeWord(t.words[i])[1]
                              /\ word[2 * i] = EncodeWord(t.words[i])[2]
    BY <1>1, WordsPlaced
  <1>3. t.memory \in Seq(Byte) /\ Len(t.memory) = 3
    <2>1. PICK n \in Nat : n = 3
      OBVIOUS
    <2>2. t.memory \in [1 .. n -> Byte]
      BY <1>1, <2>1
    <2>3. t.memory \in Seq(Byte) /\ Len(t.memory) = n
      BY <2>2
    <2> QED BY <2>1, <2>3
  <1>4. t.descriptor \in Byte /\ Pack(t.sender, t.receiver) \in Byte
    <2>1. TELEMETRY_A \in Byte /\ TELEMETRY_B \in Byte
      BY DEF TELEMETRY_A, TELEMETRY_B, Byte
    <2> QED BY <1>1, <2>1, PackedParts
  <1>5. e = <<Pack(t.sender, t.receiver), t.descriptor>> \o word \o t.memory \o <<t.status>>
    BY DEF EncodeTelemetry, WordBytesOf
  <1> HIDE DEF e, word
  <1>6. /\ e \in Seq(Byte) /\ Len(e) = 28
        /\ e[1] = Pack(t.sender, t.receiver) /\ e[2] = t.descriptor /\ e[28] = t.status
        /\ \A k \in 1 .. 22 : e[2 + k] = word[k]
        /\ SubSeq(e, 25, 27) = t.memory
    <2>1. IsFilled(e, Pack(t.sender, t.receiver), t.descriptor, word, t.memory, t.status)
      BY <1>1, <1>2, <1>3, <1>4, <1>5, TelemetryLayout
    <2> QED BY <2>1 DEF IsFilled
  <1>7. ASSUME NEW i \in 1 .. 11 PROVE DecodeWord(e[2*i + 1], e[2*i + 2], i > 2) = t.words[i]
    <2>1. 2 * i - 1 \in 1 .. 22 /\ 2 * i \in 1 .. 22 /\ 2 + (2 * i - 1) = 2 * i + 1 /\ 2 + 2 * i = 2 * i + 2
      OBVIOUS
    <2>2. e[2 + (2 * i - 1)] = word[2 * i - 1] /\ e[2 + 2 * i] = word[2 * i]
      BY <1>6, <2>1
    <2>3. e[2 * i + 1] = EncodeWord(t.words[i])[1] /\ e[2 * i + 2] = EncodeWord(t.words[i])[2]
      BY <1>2, <2>1, <2>2
    <2>4. t.words[i] \in Int /\ IsWord(t.words[i], i)
      BY <1>1
    <2> QED BY <2>3, <2>4, WordRoundTrip
  <1>8. [i \in 1 .. 11 |-> DecodeWord(e[2*i + 1], e[2*i + 2], i > 2)] = t.words
    BY <1>1, <1>7
  <1>9. e[1] % 16 = t.sender /\ e[1] \div 16 = t.receiver
    <2>1. e[1] = Pack(t.sender, t.receiver)
      BY <1>6
    <2>2. Pack(t.sender, t.receiver) % 16 = t.sender /\ Pack(t.sender, t.receiver) \div 16 = t.receiver
      BY <1>1, PackedParts
    <2> QED BY <2>1, <2>2
  <1>10. DecodeTelemetry(e) = {t}
    <2>1. ~ (Len(e) < 28)
      BY <1>6
    <2>2. DecodeTelemetry(e) =
            {[sender |-> e[1] % 16, receiver |-> e[1] \div 16, descriptor |-> e[2],
              words |-> [i \in 1 .. 11 |-> DecodeWord(e[2*i + 1], e[2*i + 2], i > 2)],
              memory |-> SubSeq(e, 25, 27), status |-> e[28]]}
      BY <2>1 DEF DecodeTelemetry
    <2> QED BY <1>1, <1>6, <1>8, <1>9, <2>2
  <1>11. Handled(t.descriptor, e) = {<<"telemetry", t>>}
    <2>1. t.descriptor # COMMAND /\ t.descriptor # ACKNOWLEDGMENT
      BY <1>1 DEF COMMAND, ACKNOWLEDGMENT, TELEMETRY_A, TELEMETRY_B
    <2>2. Handled(t.descriptor, e) = {<<"telemetry", x>> : x \in DecodeTelemetry(e)}
      BY <1>1, <2>1 DEF Handled
    <2> QED BY <1>10, <2>2
  <1>12. HandleIncomingPacket(e) = {<<"telemetry", t>>}
    <2>1. ~ (Len(e) < 2)
      BY <1>6
    <2> QED BY <1>6, <1>11, <2>1 DEF HandleIncomingPacket
  <1> QED BY <1>6, <1>12 DEF e
-----------------------------------------------------------------------------
(* The frames of the radios.                                               *)

Wide == {crc \in Nat : crc < 65536}

LEMMA XorWide ==
    ASSUME NEW a \in Wide, NEW b \in Wide
    PROVE  Xor16(a, b) \in Wide
  <1>1. /\ a \div 256 \in Byte /\ b \div 256 \in Byte
        /\ a % 256 \in Byte /\ b % 256 \in Byte
    BY DEF Wide, Byte
  <1>2. PICK high, low \in Byte :
            high = Xor[a \div 256][b \div 256] /\ low = Xor[a % 256][b % 256]
    BY <1>1, XorByte
  <1>3. 256 * high + low \in Wide
    BY DEF Wide, Byte
  <1> QED BY <1>2, <1>3 DEF Xor16

LEMMA TakeByteWide ==
    ASSUME NEW crc \in Wide, NEW byte \in Byte
    PROVE  TakeByte(crc, byte) \in Wide
  <1>1. \A c \in Wide : ShiftCRC16(c) \in Wide
    <2> SUFFICES ASSUME NEW c \in Wide PROVE ShiftCRC16(c) \in Wide
      OBVIOUS
    <2>1. (2 * c) % 65536 \in Wide /\ 4129 \in Wide
      BY DEF Wide
    <2> QED BY <2>1, XorWide DEF ShiftCRC16
  <1>2. \A c \in Wide : FourRounds16(c) \in Wide
    BY <1>1 DEF FourRounds16
  <1>3. \A b \in Byte : CRC16Table[b] \in Wide
    <2>1. \A b \in Byte : 256 * b \in Wide
      BY DEF Wide, Byte
    <2> QED BY <1>2, <2>1 DEF CRC16Table
  <1>4. crc \div 256 \in Byte /\ 256 * (crc % 256) \in Wide
    BY DEF Wide, Byte
  <1>5. Xor[crc \div 256][byte] \in Byte
    BY <1>4, XorByte
  <1> QED BY <1>3, <1>4, <1>5, XorWide DEF TakeByte

LEMMA CRC16Wide ==
    ASSUME NEW data \in Seq(Byte)
    PROVE  CRC16(data) \in Wide
  <1> DEFINE n == Len(data)
             step == [i \in 1 .. n |-> [c \in Wide |-> TakeByte(c, data[i])]]
             F == CHOOSE crc : crc = [i \in 0 .. n |->
                                 IF i = 0 THEN FirstCRC ELSE TakeByte(crc[i - 1], data[i])]
  <1>1. /\ n \in Nat /\ FirstCRC \in Wide
        /\ \A i \in 1 .. n : data[i] \in Byte /\ i - 1 \in 0 .. n /\ i \in 0 .. n /\ i # 0
    <2>1. FirstCRC \in Wide
      BY DEF Wide, FirstCRC
    <2> QED BY <2>1
  <1>2. \A i \in 1 .. n, c \in Wide : TakeByte(c, data[i]) \in Wide
    BY <1>1, TakeByteWide
  <1>3. PICK g \in [0 .. n -> Wide] : FromLeft(g, n, FirstCRC, step)
    <2>1. StepsIn(step, n, Wide)
      BY <1>2 DEF StepsIn
    <2> HIDE DEF n, step
    <2> QED BY <1>1, <2>1, LeftExists
  <1>4. g = [i \in 0 .. n |-> IF i = 0 THEN FirstCRC ELSE TakeByte(g[i - 1], data[i])]
    <2>1. \A i \in 1 .. n : g[i] = TakeByte(g[i - 1], data[i])
      <3>1. \A i \in 1 .. n : g[i - 1] \in Wide /\ g[i] = step[i][g[i - 1]]
        BY <1>1, <1>3 DEF FromLeft
      <3> QED BY <3>1
    <2> QED BY <1>3, <2>1 DEF FromLeft
  <1>5. F = [i \in 0 .. n |-> IF i = 0 THEN FirstCRC ELSE TakeByte(F[i - 1], data[i])]
    BY <1>4, Zenon
  <1>6. CRC16(data) = F[n]
    BY DEF CRC16
  <1> HIDE DEF F
  <1>7. F[0] = FirstCRC /\ \A i \in 1 .. n : F[i] = TakeByte(F[i - 1], data[i])
    <2> HIDE DEF n
    <2>1. 0 \in 0 .. n
      BY <1>1
    <2> QED BY <1>1, <1>5, <2>1
  <1>8. \A i \in 0 .. n : F[i] \in Wide
    <2>1. F[0] \in Wide /\ \A i \in 1 .. n : F[i - 1] \in Wide => F[i] \in Wide
      BY <1>1, <1>2, <1>7
    <2> HIDE DEF n
    <2> QED BY <1>1, <2>1, LeftStaysIn, Zenon
  <1>9. n \in 0 .. n
    BY <1>1
  <1> QED BY <1>6, <1>8, <1>9

LEMMA ByteIsNat == \A byte \in Byte : byte \in Nat
  BY DEF Byte

LEMMA ByteSumSteps ==
    ASSUME NEW data \in Seq(Byte), NEW l \in Nat, l = Len(data)
    PROVE  \E F : /\ ByteSum(data) = F[l] /\ F[0] = 0
                  /\ \A i \in 0 .. l : F[i] \in Byte
                  /\ \A i \in 1 .. l : F[i] = (F[i - 1] + data[i]) % 256
  <1> DEFINE n == Len(data)
             step == [i \in 1 .. n |-> [s \in Byte |-> (s + data[i]) % 256]]
             F == CHOOSE sum : sum = [i \in 0 .. n |->
                                 IF i = 0 THEN 0 ELSE (sum[i - 1] + data[i]) % 256]
  <1>1. /\ n \in Nat /\ 0 \in Byte
        /\ \A i \in 1 .. n : data[i] \in Byte /\ i - 1 \in 0 .. n /\ i \in 0 .. n /\ i # 0
    <2>1. 0 \in Byte
      BY DEF Byte
    <2> QED BY <2>1
  <1>2. \A i \in 1 .. n, s \in Byte : (s + data[i]) % 256 \in Byte
    <2>1. \A s, byte \in Byte : (s + byte) % 256 \in Byte
      BY DEF Byte
    <2> QED BY <1>1, <2>1
  <1>3. PICK g \in [0 .. n -> Byte] : FromLeft(g, n, 0, step)
    <2>1. StepsIn(step, n, Byte)
      BY <1>2 DEF StepsIn
    <2> HIDE DEF n, step
    <2> QED BY <1>1, <2>1, LeftExists
  <1>4. g = [i \in 0 .. n |-> IF i = 0 THEN 0 ELSE (g[i - 1] + data[i]) % 256]
    <2>1. \A i \in 1 .. n : g[i] = (g[i - 1] + data[i]) % 256
      <3>1. \A i \in 1 .. n : g[i - 1] \in Byte /\ g[i] = step[i][g[i - 1]]
        BY <1>1, <1>3, SMTT(30) DEF FromLeft
      <3> QED BY <3>1
    <2> QED BY <1>3, <2>1 DEF FromLeft
  <1>5. F = [i \in 0 .. n |-> IF i = 0 THEN 0 ELSE (F[i - 1] + data[i]) % 256]
    BY <1>4, ZenonT(30)
  <1>6. ByteSum(data) = F[n]
    BY DEF ByteSum
  <1> HIDE DEF F
  <1>7. F[0] = 0 /\ \A i \in 1 .. n : F[i] = (F[i - 1] + data[i]) % 256
    <2> HIDE DEF n
    <2>1. 0 \in 0 .. n
      BY <1>1
    <2> QED BY <1>1, <1>5, <2>1
  <1>8. \A i \in 0 .. n : F[i] \in Byte
    <2>1. F[0] \in Byte /\ \A i \in 1 .. n : F[i - 1] \in Byte => F[i] \in Byte
      BY <1>1, <1>2, <1>7
    <2> HIDE DEF n
    <2> QED BY <1>1, <2>1, LeftStaysIn
  <1>9. l = n
    OBVIOUS
  <1> HIDE DEF n
  <1>10. /\ ByteSum(data) = F[l] /\ F[0] = 0
         /\ \A i \in 0 .. l : F[i] \in Byte
         /\ \A i \in 1 .. l : F[i] = (F[i - 1] + data[i]) % 256
    BY <1>6, <1>7, <1>8, <1>9
  <1> QED BY <1>10

LEMMA ByteSumByte ==
    ASSUME NEW data \in Seq(Byte)
    PROVE  ByteSum(data) \in Byte
  <1>1. PICK l \in Nat : l = Len(data)
    OBVIOUS
  <1>2. l \in 0 .. l
    OBVIOUS
  <1> QED BY <1>1, <1>2, ByteSumSteps

\* A read loop: from position i on it finds nothing, or what the frame that comes next
\* holds and what it finds behind that frame.
IsLoop(from, idle, head, next) ==
    \A i \in Nat \ {0} : from[i] = IF i \in idle THEN <<>> ELSE head[i] \o from[next[i]]

Advances(n, S, idle, head, next) ==
    \A i \in Nat \ {0} :
        i \notin idle => i <= n /\ head[i] \in Seq(S) /\ next[i] \in Nat /\ next[i] > i

LEMMA LoopExists ==
    ASSUME NEW n \in Nat, NEW S, NEW idle, NEW head, NEW next, Advances(n, S, idle, head, next)
    PROVE  \E from \in [Nat \ {0} -> Seq(S)] : IsLoop(from, idle, head, next)
  <1> DEFINE T == Seq(S)
             step == [i \in 1 .. n |-> [found \in T |-> IF i \in idle THEN <<>> ELSE head[i] \o found]]
             to == [i \in 1 .. n |-> IF i \in idle THEN i + 1 ELSE next[i]]
  <1>1. \A i \in 1 .. n : i \notin idle => head[i] \in T /\ next[i] \in Nat /\ next[i] > i
    BY DEF Advances
  <1>2. StepsIn(step, n, T)
    <2>1. \A i \in 1 .. n, found \in T : (IF i \in idle THEN <<>> ELSE head[i] \o found) \in T
      BY <1>1, EmptySeq, ConcatProperties
    <2> HIDE DEF T
    <2> QED BY <2>1 DEF StepsIn
  <1>3. Further(to, n)
    BY <1>1 DEF Further
  <1>4. PICK g \in [Nat \ {0} -> T] : FromRight(g, n, <<>>, step, to)
    <2>1. <<>> \in T
      BY EmptySeq
    <2> HIDE DEF T, step, to
    <2> QED BY <1>2, <1>3, <2>1, RightExists
  <1>5. ASSUME NEW i \in Nat \ {0}
        PROVE  g[i] = IF i \in idle THEN <<>> ELSE head[i] \o g[next[i]]
    <2>1. CASE i > n
      <3>1. i \in idle
        BY <2>1 DEF Advances
      <3>2. g[i] = <<>>
        <4> HIDE DEF T, step, to
        <4> QED BY <1>4, <2>1 DEF FromRight
      <3> QED BY <3>1, <3>2
    <2>2. CASE i \in 1 .. n
      <3>1. g[i] = step[i][g[to[i]]]
        <4>1. ~ (i > n)
          BY <2>2
        <4> HIDE DEF T, step, to
        <4> QED BY <1>4, <4>1 DEF FromRight
      <3>2. g[to[i]] \in T
        <4>1. to[i] \in Nat \ {0}
          BY <1>3, <2>2 DEF Further
        <4> HIDE DEF T, to
        <4> QED BY <4>1
      <3>3. g[i] = IF i \in idle THEN <<>> ELSE head[i] \o g[to[i]]
        <4> HIDE DEF T, to
        <4> QED BY <2>2, <3>1, <3>2
      <3>4. i \notin idle => to[i] = next[i]
        BY <2>2
      <3> HIDE DEF T, to, step
      <3> QED BY <3>3, <3>4
    <2>3. i > n \/ i \in 1 .. n
      OBVIOUS
    <2> HIDE DEF T, to, step
    <2> QED BY <2>1, <2>2, <2>3
  <1>6. IsLoop(g, idle, head, next)
    BY <1>5 DEF IsLoop
  <1> QED BY <1>6

LEMMA LoopFinds ==
    ASSUME NEW n \in Nat, NEW S, NEW idle, NEW head, NEW next, Advances(n, S, idle, head, next),
           NEW from, IsLoop(from, idle, head, next)
    PROVE  \A i \in Nat \ {0} : from[i] \in Seq(S)
  <1>1. \A i \in Nat \ {0} : i > n => from[i] \in Seq(S)
    <2> SUFFICES ASSUME NEW i \in Nat \ {0}, i > n PROVE from[i] \in Seq(S)
      OBVIOUS
    <2>1. i \in idle
      BY DEF Advances
    <2>2. from[i] = <<>>
      BY <2>1 DEF IsLoop
    <2> QED BY <2>2, EmptySeq
  <1> DEFINE G == {i \in 1 .. n : from[i] \in Seq(S)}
  <1>2. ASSUME NEW i \in 1 .. n, \A j \in i + 1 .. n : j \in G PROVE i \in G
    <2>0. i \in Nat \ {0}
      OBVIOUS
    <2>1. CASE i \in idle
      <3>1. from[i] = <<>>
        BY <2>0, <2>1 DEF IsLoop
      <3> QED BY <3>1, EmptySeq
    <2>2. CASE i \notin idle
      <3>1. from[i] = head[i] \o from[next[i]]
        BY <2>0, <2>2 DEF IsLoop
      <3>2. head[i] \in Seq(S) /\ next[i] \in Nat /\ next[i] > i
        BY <2>0, <2>2 DEF Advances
      <3>3. from[next[i]] \in Seq(S)
        <4>1. PICK j \in Nat : j = next[i] /\ j > i
          BY <3>2
        <4>2. CASE j > n
          BY <1>1, <4>1, <4>2
        <4>3. CASE j \in i + 1 .. n
          BY <1>2, <4>1, <4>3
        <4> QED BY <4>1, <4>2, <4>3
      <3>4. head[i] \o from[next[i]] \in Seq(S)
        BY <3>2, <3>3, ConcatProperties
      <3> QED BY <3>1, <3>4
    <2> QED BY <2>1, <2>2
  <1>3. \A i \in 1 .. n : i \in G
    <2> HIDE DEF G
    <2> QED BY <1>2, Downward
  <1> QED BY <1>1, <1>3

LEMMA SetToSeqOne ==
    ASSUME NEW x
    PROVE  SetToSeq({x}) = <<x>>
  <1>1. Cardinality({x}) = 1
    BY FS_Singleton
  <1> DEFINE f == [i \in 1 .. 1 |-> x]
  <1>2. f \in [1 .. 1 -> {x}] /\ IsInjective(f)
    BY DEF IsInjective
  <1>3. SetToSeq({x}) \in [1 .. 1 -> {x}]
    BY <1>1, <1>2 DEF SetToSeq
  <1> QED BY <1>3

LEMMA SetToSeqNone == SetToSeq({}) = <<>>
  <1> DEFINE f == <<>>
  <1>1. Cardinality({}) = 0
    BY FS_EmptySet
  <1>2. f \in [1 .. 0 -> {}] /\ IsInjective(f)
    BY DEF IsInjective
  <1>3. SetToSeq({}) \in [1 .. 0 -> {}]
    BY <1>1, <1>2 DEF SetToSeq
  <1> QED BY <1>3

LEMMA NoPackets ==
    ASSUME NEW data, Disassemble(data) = {}
    PROVE  Packets(data) = <<>>
  BY SetToSeqNone DEF Packets

LEMMA PacketsOf ==
    ASSUME NEW data \in Seq(Byte)
    PROVE  /\ Packets(data) \in Seq(Seq(Byte))
           /\ \A payload : Disassemble(data) = {payload} => Packets(data) = <<payload>>
  <1>1. \A payload : Disassemble(data) = {payload} => Packets(data) = <<payload>>
    BY SetToSeqOne DEF Packets
  <1>2. Disassemble(data) \in AtMostOne(Seq(Byte))
    BY DisassembleType
  <1>3. CASE Disassemble(data) = {}
    <2>1. Packets(data) = <<>>
      BY <1>3, NoPackets
    <2> QED BY <1>1, <1>3, <2>1, EmptySeq
  <1>4. ASSUME NEW payload \in Disassemble(data)
        PROVE  Packets(data) \in Seq(Seq(Byte))
    <2>1. payload \in Seq(Byte) /\ Disassemble(data) = {payload}
      BY <1>2 DEF AtMostOne
    <2>2. Packets(data) = <<payload>>
      BY <1>1, <2>1
    <2> HIDE DEF Packets
    <2>3. <<payload>> \in Seq(Seq(Byte))
      BY <2>1
    <2> QED BY <2>2, <2>3
  <1> QED BY <1>1, <1>3, <1>4

-----------------------------------------------------------------------------
(* The RFD900: what ProcessFrame does is such a loop.                      *)

FramesFrom(data, n, i) ==
    {j \in i .. n - 8 : data[j] = MAVLINK_START /\ j + data[j + 1] + 7 <= n}

\* The packet in the frame at position first.
InFrame(data, first) == Packets(SubSeq(data, first + 6, first + 5 + data[first + 1]))

NoFrame(data, n) == {i \in Nat \ {0} : FramesFrom(data, n, i) = {}}

FoundFrom(data, n) == [i \in Nat \ {0} |-> InFrame(data, Min(FramesFrom(data, n, i)))]

NextFrom(data, n) ==
    [i \in Nat \ {0} |-> LET first == Min(FramesFrom(data, n, i))
                         IN Behind(first, data[first + 1])]

LEMMA MinIs ==
    ASSUME NEW S \in SUBSET Nat, S # {}
    PROVE  Min(S) \in S /\ \A x \in S : Min(S) <= x
  <1>1. \E m \in S : \A x \in S : m <= x
    BY Least
  <1> QED BY <1>1 DEF Min

LEMMA FrameFound ==
    ASSUME NEW data \in Seq(Byte), NEW n \in Nat, n = Len(data), NEW i \in Nat \ {0},
           FramesFrom(data, n, i) # {}
    PROVE  \E first \in Nat, length \in Byte :
               /\ first = Min(FramesFrom(data, n, i))
               /\ length = data[first + 1]
               /\ i <= first /\ first + length + 7 <= n
  <1>1. FramesFrom(data, n, i) \in SUBSET Nat
    BY DEF FramesFrom
  <1>2. PICK first \in FramesFrom(data, n, i) : first = Min(FramesFrom(data, n, i))
    BY <1>1, MinIs
  <1>3. first \in Nat /\ i <= first /\ first + 1 \in 1 .. n /\ first + data[first + 1] + 7 <= n
    BY <1>2 DEF FramesFrom
  <1>4. data[first + 1] \in Byte
    BY <1>3
  <1> QED BY <1>2, <1>3, <1>4

LEMMA ProcessAdvances ==
    ASSUME NEW data \in Seq(Byte), NEW n \in Nat, n = Len(data)
    PROVE  Advances(n, Seq(Byte), NoFrame(data, n), FoundFrom(data, n), NextFrom(data, n))
  <1> SUFFICES ASSUME NEW i \in Nat \ {0}, i \notin NoFrame(data, n)
               PROVE  /\ i <= n /\ FoundFrom(data, n)[i] \in Seq(Seq(Byte))
                      /\ NextFrom(data, n)[i] \in Nat /\ NextFrom(data, n)[i] > i
    BY DEF Advances
  <1>1. FramesFrom(data, n, i) # {}
    BY DEF NoFrame
  <1>2. PICK first \in Nat, length \in Byte :
               /\ first = Min(FramesFrom(data, n, i))
               /\ length = data[first + 1]
               /\ i <= first /\ first + length + 7 <= n
    BY <1>1, FrameFound
  <1>3. FoundFrom(data, n)[i] = Packets(SubSeq(data, first + 6, first + 5 + length))
    BY <1>2 DEF FoundFrom, InFrame
  <1>4. NextFrom(data, n)[i] = first + length + 8
    BY <1>2 DEF NextFrom, Behind
  <1>5. length \in Nat
    BY DEF Byte
  <1>6. SubSeq(data, first + 6, first + 5 + length) \in Seq(Byte)
    <2>1. first + length + 7 <= n
      BY <1>2
    <2>2. first + 6 \in 1 .. n + 1 /\ first + 5 + length \in (first + 6) - 1 .. n
      BY <1>5, <2>1
    <2>3. first + 6 \in 1 .. Len(data) + 1 /\ first + 5 + length \in (first + 6) - 1 .. Len(data)
      BY <2>2
    <2> QED BY <2>3, SubSeqProperties
  <1>7. Packets(SubSeq(data, first + 6, first + 5 + length)) \in Seq(Seq(Byte))
    BY <1>6, PacketsOf
  <1>8. i <= n /\ first + length + 8 \in Nat /\ first + length + 8 > i
    BY <1>2, <1>5
  <1> QED BY <1>3, <1>4, <1>7, <1>8

LEMMA ProcessLoop ==
    ASSUME NEW data \in Seq(Byte), NEW n \in Nat, n = Len(data)
    PROVE  \E from : /\ IsLoop(from, NoFrame(data, n), FoundFrom(data, n), NextFrom(data, n))
                     /\ ProcessFrame(data) = from[1]
  <1> DEFINE idle == NoFrame(data, n)
             head == FoundFrom(data, n)
             next == NextFrom(data, n)
             F == CHOOSE from : from = [i \in Nat \ {0} |->
                      IF FramesFrom(data, n, i) = {} THEN <<>>
                      ELSE InFrame(data, Min(FramesFrom(data, n, i)))
                               \o from[Behind(Min(FramesFrom(data, n, i)),
                                              data[Min(FramesFrom(data, n, i)) + 1])]]
  <1>1. PICK g \in [Nat \ {0} -> Seq(Seq(Byte))] : IsLoop(g, idle, head, next)
    BY ProcessAdvances, LoopExists
  <1>2. ASSUME NEW from
        PROVE  \A i \in Nat \ {0} :
                   (IF i \in idle THEN <<>> ELSE head[i] \o from[next[i]])
                       = IF FramesFrom(data, n, i) = {} THEN <<>>
                         ELSE InFrame(data, Min(FramesFrom(data, n, i)))
                                  \o from[Behind(Min(FramesFrom(data, n, i)),
                                                 data[Min(FramesFrom(data, n, i)) + 1])]
    BY DEF NoFrame, FoundFrom, NextFrom
  <1>3. g = [i \in Nat \ {0} |->
                      IF FramesFrom(data, n, i) = {} THEN <<>>
                      ELSE InFrame(data, Min(FramesFrom(data, n, i)))
                               \o g[Behind(Min(FramesFrom(data, n, i)),
                                              data[Min(FramesFrom(data, n, i)) + 1])]]
    <2> HIDE DEF idle, head, next
    <2> QED BY <1>1, <1>2 DEF IsLoop
  <1>4. F = [i \in Nat \ {0} |->
                      IF FramesFrom(data, n, i) = {} THEN <<>>
                      ELSE InFrame(data, Min(FramesFrom(data, n, i)))
                               \o F[Behind(Min(FramesFrom(data, n, i)),
                                              data[Min(FramesFrom(data, n, i)) + 1])]]
    BY <1>3, Zenon
  <1>5. ProcessFrame(data) = F[1]
    BY DEF ProcessFrame, FramesFrom, InFrame
  <1> HIDE DEF F
  <1>6. IsLoop(F, idle, head, next)
    <2>1. \A i \in Nat \ {0} : F[i] = IF i \in idle THEN <<>> ELSE head[i] \o F[next[i]]
      <3>1. \A i \in Nat \ {0} :
                F[i] = IF FramesFrom(data, n, i) = {} THEN <<>>
                       ELSE InFrame(data, Min(FramesFrom(data, n, i)))
                               \o F[Behind(Min(FramesFrom(data, n, i)),
                                              data[Min(FramesFrom(data, n, i)) + 1])]
        BY <1>4, Zenon
      <3> HIDE DEF idle, head, next
      <3> QED BY <1>2, <3>1, ZenonT(40)
    <2> QED BY <2>1 DEF IsLoop
  <1> QED BY <1>5, <1>6

LEMMA ProcessFrameType ==
    ASSUME NEW data \in Seq(Byte)
    PROVE  ProcessFrame(data) \in Seq(Seq(Byte))
  <1>1. PICK n \in Nat : n = Len(data)
    OBVIOUS
  <1>2. PICK from : /\ IsLoop(from, NoFrame(data, n), FoundFrom(data, n), NextFrom(data, n))
                    /\ ProcessFrame(data) = from[1]
    BY <1>1, ProcessLoop
  <1>3. Advances(n, Seq(Byte), NoFrame(data, n), FoundFrom(data, n), NextFrom(data, n))
    BY <1>1, ProcessAdvances
  <1> QED BY <1>2, <1>3, LoopFinds

\* body lies between front and back.
IsBetween(all, front, m, body, n, back, k) ==
    /\ all \in Seq(Byte) /\ Len(all) = m + n + k
    /\ \A i \in 1 .. m : all[i] = front[i]
    /\ IsSlice(all, m, body, n) /\ CutsOut(all, m, body, n)
    /\ \A i \in 1 .. k : all[m + n + i] = back[i]

LEMMA Between ==
    ASSUME NEW front \in Seq(Byte), NEW body \in Seq(Byte), NEW back \in Seq(Byte),
           NEW m \in Nat, m = Len(front), NEW n \in Nat, n = Len(body), NEW k \in Nat, k = Len(back)
    PROVE  IsBetween(front \o body \o back, front, m, body, n, back, k)
  <1> DEFINE half == front \o body
             all == half \o back
  <1>1. IsJoined(half, Byte, front, m, body, n)
    BY Joined
  <1>2. CutsOut(half, m, body, n)
    BY <1>1, Suffix
  <1>3. half \in Seq(Byte) /\ Len(half) = m + n /\ \A i \in 1 .. m : half[i] = front[i]
    BY <1>1 DEF IsJoined
  <1>4. PICK o \in Nat : o = m + n
    OBVIOUS
  <1> HIDE DEF half
  <1>5. IsJoined(all, Byte, half, o, back, k)
    BY <1>3, <1>4, Joined
  <1> HIDE DEF all
  <1>6. /\ all \in Seq(Byte) /\ Len(all) = o + k
        /\ \A i \in 1 .. o : all[i] = half[i]
        /\ \A i \in 1 .. k : all[o + i] = back[i]
    BY <1>5 DEF IsJoined
  <1>7. \A i \in 1 .. m : all[i] = front[i]
    <2>1. \A i \in 1 .. m : i \in 1 .. o
      BY <1>4
    <2> QED BY <1>3, <1>6, <2>1
  <1>8. IsSlice(all, m, body, n) /\ CutsOut(all, m, body, n)
    <2>1. \A i \in 1 .. n : half[m + i] = body[i]
      BY <1>1 DEF IsJoined
    <2>2. \A i \in 1 .. n : m + i \in 1 .. o
      BY <1>4
    <2>3. IsSlice(all, m, body, n)
      BY <1>6, <2>1, <2>2 DEF IsSlice
    <2> QED BY <2>3, Slice
  <1>9. IsBetween(all, front, m, body, n, back, k)
    BY <1>4, <1>6, <1>7, <1>8 DEF IsBetween
  <1> QED BY <1>9 DEF all, half

\* The frame of a packet of n bytes.
IsMAVLink(frame, packet, n) ==
    /\ frame \in Seq(Byte) /\ Len(frame) = n + 8
    /\ frame[1] = MAVLINK_START /\ frame[2] = n
    /\ IsSlice(frame, 6, packet, n) /\ SubSeq(frame, 7, n + 6) = packet

LEMMA MAVLinkLayout ==
    ASSUME NEW packet \in Seq(Byte), NEW n \in 0 .. 33
    PROVE  n = Len(packet) => IsMAVLink(MAVLinkFrame(packet), packet, n)
  <1>0. SUFFICES ASSUME n = Len(packet) PROVE IsMAVLink(MAVLinkFrame(packet), packet, n)
    OBVIOUS
  <1> DEFINE front == <<MAVLINK_START, n, 0, 1, 1, 0>>
             crc == CRC16(front \o packet)
             back == <<crc % 256, crc \div 256>>
             frame == MAVLinkFrame(packet)
  <1>1. frame = front \o packet \o back
    <2>1. n % 256 = n
      OBVIOUS
    <2>2. Len(packet) % 256 = n
      BY <1>0, <2>1
    <2> QED BY <2>2, ZenonT(40) DEF MAVLinkFrame
  <1>2. front \in Seq(Byte) /\ Len(front) = 6 /\ front[1] = MAVLINK_START /\ front[2] = n
    <2>1. MAVLINK_START \in Byte /\ n \in Byte /\ 0 \in Byte /\ 1 \in Byte
      BY DEF MAVLINK_START, Byte
    <2> QED BY <2>1
  <1> HIDE DEF front
  <1>3. front \o packet \in Seq(Byte)
    BY <1>2, ConcatProperties
  <1>4. back \in Seq(Byte) /\ Len(back) = 2
    <2>1. crc \in Wide
      BY <1>3, CRC16Wide
    <2> HIDE DEF crc
    <2>2. crc % 256 \in Byte /\ crc \div 256 \in Byte
      BY <2>1 DEF Wide, Byte
    <2> QED BY <2>2
  <1> HIDE DEF back, frame
  <1>5. PICK six, two \in Nat : six = 6 /\ two = 2
    OBVIOUS
  <1>6. IsBetween(frame, front, six, packet, n, back, two)
    <2>1. n \in Nat
      OBVIOUS
    <2> QED BY <1>0, <1>1, <1>2, <1>4, <1>5, <2>1, Between
  <1>7. frame \in Seq(Byte) /\ Len(frame) = n + 8 /\ \A i \in 1 .. 6 : frame[i] = front[i]
    <2>1. /\ frame \in Seq(Byte) /\ Len(frame) = six + n + two
          /\ \A i \in 1 .. six : frame[i] = front[i]
      BY <1>6 DEF IsBetween
    <2>2. six + n + two = n + 8 /\ 1 .. six = 1 .. 6
      BY <1>5
    <2> QED BY <2>1, <2>2
  <1>8. SubSeq(frame, 7, n + 6) = packet
    <2>1. SubSeq(frame, six + 1, six + n) = packet
      BY <1>6 DEF IsBetween, CutsOut
    <2>2. six + 1 = 7 /\ six + n = n + 6
      BY <1>5
    <2> QED BY <2>1, <2>2
  <1>9. frame[1] = MAVLINK_START /\ frame[2] = n
    <2>1. 1 \in 1 .. 6 /\ 2 \in 1 .. 6
      OBVIOUS
    <2> QED BY <1>2, <1>7, <2>1
  <1>10. IsMAVLink(frame, packet, n)
    <2>1. IsSlice(frame, 6, packet, n)
      BY <1>5, <1>6 DEF IsBetween
    <2> QED BY <1>7, <1>8, <1>9, <2>1 DEF IsMAVLink
  <1> QED BY <1>10 DEF frame

\* What processFrame makes of one frame alone, whose CRC it does not look at.
LEMMA MAVLinkAlone ==
    ASSUME NEW frame, NEW packet \in Seq(Byte), NEW n \in 1 .. 33
    PROVE  IsMAVLink(frame, packet, n) =>
               frame \in Seq(Byte) /\ ProcessFrame(frame) = Packets(packet)
  <1>2. SUFFICES ASSUME IsMAVLink(frame, packet, n)
                 PROVE  frame \in Seq(Byte) /\ ProcessFrame(frame) = Packets(packet)
    OBVIOUS
  <1>3. PICK m \in Nat : m = n + 8
    OBVIOUS
  <1>4. frame \in Seq(Byte) /\ m = Len(frame)
    BY <1>2, <1>3 DEF IsMAVLink
  <1>5. PICK from : /\ IsLoop(from, NoFrame(frame, m), FoundFrom(frame, m), NextFrom(frame, m))
                    /\ ProcessFrame(frame) = from[1]
    BY <1>4, ProcessLoop
  <1>6. Min(FramesFrom(frame, m, 1)) = 1 /\ FramesFrom(frame, m, 1) # {}
    <2>1. frame[1] = MAVLINK_START /\ frame[1 + 1] = n
      BY <1>2 DEF IsMAVLink
    <2>2. 1 + n + 7 <= m
      BY <1>3
    <2>3. 1 \in 1 .. m - 8
      BY <1>3
    <2>4. 1 \in FramesFrom(frame, m, 1)
      BY <2>1, <2>2, <2>3 DEF FramesFrom
    <2>5. FramesFrom(frame, m, 1) \in SUBSET Nat /\ \A i \in FramesFrom(frame, m, 1) : i >= 1
      BY DEF FramesFrom
    <2> QED BY <2>4, <2>5, MinIs
  <1>7. from[1] = InFrame(frame, 1) \o from[n + 9]
    <2>1. 1 \notin NoFrame(frame, m)
      BY <1>6 DEF NoFrame
    <2>2. FoundFrom(frame, m)[1] = InFrame(frame, 1)
      BY <1>6 DEF FoundFrom
    <2>3. NextFrom(frame, m)[1] = n + 9
      <3>1. frame[1 + 1] = n
        BY <1>2 DEF IsMAVLink
      <3> QED BY <1>6, <3>1 DEF NextFrom, Behind
    <2>4. 1 \in Nat \ {0}
      OBVIOUS
    <2>5. from[1] = FoundFrom(frame, m)[1] \o from[NextFrom(frame, m)[1]]
      BY <1>5, <2>1, <2>4 DEF IsLoop
    <2> QED BY <2>2, <2>3, <2>5
  <1>8. from[n + 9] = <<>>
    <2>1. FramesFrom(frame, m, n + 9) = {} /\ n + 9 \in Nat \ {0}
      BY <1>3 DEF FramesFrom
    <2>2. n + 9 \in NoFrame(frame, m)
      BY <2>1 DEF NoFrame
    <2> QED BY <1>5, <2>1, <2>2 DEF IsLoop
  <1>9. InFrame(frame, 1) = Packets(packet)
    <2>1. frame[1 + 1] = n /\ SubSeq(frame, 7, n + 6) = packet
      BY <1>2 DEF IsMAVLink
    <2>2. InFrame(frame, 1) = Packets(SubSeq(frame, 1 + 6, 1 + 5 + n))
      BY <2>1 DEF InFrame
    <2>3. 1 + 6 = 7 /\ 1 + 5 + n = n + 6
      OBVIOUS
    <2> QED BY <2>1, <2>2, <2>3
  <1>10. Packets(packet) \in Seq(Seq(Byte))
    BY PacketsOf
  <1> QED BY <1>4, <1>5, <1>7, <1>8, <1>9, <1>10, ConcatEmptySeq

\* In the MAVLink frame that an RFD900 sends, processFrame finds the one packet it was made
\* of, whatever the bytes of the packet are (RFD900.cpp).
THEOREM FrameProcessed ==
    ASSUME NEW packet \in Seq(Byte), NEW n \in 1 .. 33
    PROVE  n = Len(packet) =>
               /\ MAVLinkFrame(packet) \in Seq(Byte)
               /\ ProcessFrame(MAVLinkFrame(packet)) = Packets(packet)
  <1>1. SUFFICES ASSUME n = Len(packet)
                 PROVE  /\ MAVLinkFrame(packet) \in Seq(Byte)
                        /\ ProcessFrame(MAVLinkFrame(packet)) = Packets(packet)
    OBVIOUS
  <1>2. n \in 0 .. 33
    OBVIOUS
  <1> QED BY <1>1, <1>2, MAVLinkLayout, MAVLinkAlone

-----------------------------------------------------------------------------
(* The XBeePro900HP: ReadFrames is such a loop as well.                    *)

StartsFrom(data, n, i) == {j \in i .. n : data[j] = DELIMITER}

APIEnd(data, n, i) == IF i + 2 > n THEN n + 1 ELSE i + (256 * data[i + 1] + data[i + 2]) + 3

TakenAt(data, n, i) ==
    LET last == APIEnd(data, n, i) - 1
    IN IF ChecksumHolds(SubSeq(data, i + 3, last), data[last + 1])
       THEN <<SubSeq(data, i, last)>>
       ELSE <<>>

NoAPIFrame(data, n) ==
    {i \in Nat \ {0} : StartsFrom(data, n, i) = {} \/ APIEnd(data, n, Min(StartsFrom(data, n, i))) > n}

TakenFrom(data, n) == [i \in Nat \ {0} |-> TakenAt(data, n, Min(StartsFrom(data, n, i)))]

ReadOnFrom(data, n) == [i \in Nat \ {0} |-> APIEnd(data, n, Min(StartsFrom(data, n, i))) + 1]

LEMMA SubSeqByte ==
    ASSUME NEW data \in Seq(Byte), NEW n \in Nat, n = Len(data),
           NEW a \in Nat \ {0}, NEW b \in Int, b <= n
    PROVE  SubSeq(data, a, b) \in Seq(Byte)
  <1>1. \A i \in a .. b : i \in 1 .. n
    OBVIOUS
  <1>2. \A i \in a .. b : data[i] \in Byte
    BY <1>1
  <1>3. a \in Int
    OBVIOUS
  <1> QED BY <1>2, <1>3, SubSeqProperties

LEMMA ProcessAPIFrameType ==
    ASSUME NEW frame \in Seq(Byte)
    PROVE  ProcessAPIFrame(frame) \subseteq Seq(Byte)
  <1>1. PICK n \in Nat : n = Len(frame)
    OBVIOUS
  <1>2. SubSeq(frame, 15, n) \in Seq(Byte)
    BY <1>1, SubSeqByte
  <1>3. Disassemble(SubSeq(frame, 15, n)) \subseteq Seq(Byte)
    BY <1>2, DisassembleType DEF AtMostOne
  <1> QED BY <1>1, <1>3 DEF ProcessAPIFrame, ParseRxPacket

LEMMA APIFrameFound ==
    ASSUME NEW data \in Seq(Byte), NEW n \in Nat, n = Len(data), NEW i \in Nat \ {0},
           i \notin NoAPIFrame(data, n)
    PROVE  \E first, end \in Nat :
               /\ first = Min(StartsFrom(data, n, i))
               /\ end = APIEnd(data, n, first)
               /\ i <= first /\ first + 3 <= end /\ end <= n
  <1>1. StartsFrom(data, n, i) # {} /\ ~ (APIEnd(data, n, Min(StartsFrom(data, n, i))) > n)
    BY DEF NoAPIFrame
  <1>2. StartsFrom(data, n, i) \in SUBSET Nat
    BY DEF StartsFrom
  <1>3. PICK first \in StartsFrom(data, n, i) : first = Min(StartsFrom(data, n, i))
    BY <1>1, <1>2, MinIs
  <1>4. first \in Nat /\ i <= first /\ first <= n
    BY <1>3 DEF StartsFrom
  <1>5. ~ (first + 2 > n)
    <2>1. SUFFICES ASSUME first + 2 > n PROVE FALSE
      OBVIOUS
    <2>2. APIEnd(data, n, first) = n + 1
      BY <2>1 DEF APIEnd
    <2> QED BY <1>1, <1>3, <2>2
  <1>6. PICK high, low \in Nat : high = data[first + 1] /\ low = data[first + 2]
    <2>1. first + 1 \in 1 .. n /\ first + 2 \in 1 .. n
      BY <1>4, <1>5
    <2>2. data[first + 1] \in Byte /\ data[first + 2] \in Byte
      BY <2>1
    <2>3. \A byte \in Byte : byte \in Nat
      BY DEF Byte
    <2>4. data[first + 1] \in Nat /\ data[first + 2] \in Nat
      BY <2>2, <2>3
    <2> QED BY <2>4
  <1>7. PICK length \in Nat : length = 256 * high + low
    BY <1>6
  <1>8. APIEnd(data, n, first) = first + length + 3
    BY <1>5, <1>6, <1>7 DEF APIEnd
  <1>9. PICK end \in Nat : end = first + length + 3
    BY <1>4
  <1>10. first + 3 <= end
    BY <1>4, <1>9
  <1> QED BY <1>1, <1>3, <1>4, <1>8, <1>9, <1>10

LEMMA ReadAdvances ==
    ASSUME NEW data \in Seq(Byte), NEW n \in Nat, n = Len(data)
    PROVE  Advances(n, Seq(Byte), NoAPIFrame(data, n), TakenFrom(data, n), ReadOnFrom(data, n))
  <1> SUFFICES ASSUME NEW i \in Nat \ {0}, i \notin NoAPIFrame(data, n)
               PROVE  /\ i <= n /\ TakenFrom(data, n)[i] \in Seq(Seq(Byte))
                      /\ ReadOnFrom(data, n)[i] \in Nat /\ ReadOnFrom(data, n)[i] > i
    BY DEF Advances
  <1>1. PICK first, end \in Nat :
               /\ first = Min(StartsFrom(data, n, i))
               /\ end = APIEnd(data, n, first)
               /\ i <= first /\ first + 3 <= end /\ end <= n
    BY APIFrameFound
  <1>2. TakenFrom(data, n)[i] = TakenAt(data, n, first)
    BY <1>1 DEF TakenFrom
  <1>3. ReadOnFrom(data, n)[i] = end + 1
    BY <1>1 DEF ReadOnFrom
  <1>4. TakenAt(data, n, first) \in Seq(Seq(Byte))
    <2>1. first \in Nat \ {0} /\ end - 1 \in Int /\ end - 1 <= n
      BY <1>1
    <2>2. SubSeq(data, first, end - 1) \in Seq(Byte)
      BY <2>1, SubSeqByte
    <2>3. <<SubSeq(data, first, end - 1)>> \in Seq(Seq(Byte))
      BY <2>2
    <2>4. <<>> \in Seq(Seq(Byte))
      BY EmptySeq
    <2> QED BY <1>1, <2>3, <2>4 DEF TakenAt
  <1>5. i <= n /\ end + 1 \in Nat /\ end + 1 > i
    BY <1>1
  <1> QED BY <1>2, <1>3, <1>4, <1>5

LEMMA ReadLoop ==
    ASSUME NEW data \in Seq(Byte), NEW n \in Nat, n = Len(data)
    PROVE  \E from : /\ IsLoop(from, NoAPIFrame(data, n), TakenFrom(data, n), ReadOnFrom(data, n))
                     /\ ReadFrames(data) = from[1]
  <1> DEFINE idle == NoAPIFrame(data, n)
             head == TakenFrom(data, n)
             next == ReadOnFrom(data, n)
             F == CHOOSE from : from = [i \in Nat \ {0} |->
                      IF \/ StartsFrom(data, n, i) = {}
                         \/ APIEnd(data, n, Min(StartsFrom(data, n, i))) > n
                      THEN <<>>
                      ELSE TakenAt(data, n, Min(StartsFrom(data, n, i)))
                               \o from[APIEnd(data, n, Min(StartsFrom(data, n, i))) + 1]]
  <1>1. PICK g \in [Nat \ {0} -> Seq(Seq(Byte))] : IsLoop(g, idle, head, next)
    BY ReadAdvances, LoopExists
  <1>2. ASSUME NEW from
        PROVE  \A i \in Nat \ {0} :
                   (IF i \in idle THEN <<>> ELSE head[i] \o from[next[i]])
                       = IF \/ StartsFrom(data, n, i) = {}
                            \/ APIEnd(data, n, Min(StartsFrom(data, n, i))) > n
                         THEN <<>>
                         ELSE TakenAt(data, n, Min(StartsFrom(data, n, i)))
                                  \o from[APIEnd(data, n, Min(StartsFrom(data, n, i))) + 1]
    BY DEF NoAPIFrame, TakenFrom, ReadOnFrom
  <1>3. g = [i \in Nat \ {0} |->
                      IF \/ StartsFrom(data, n, i) = {}
                         \/ APIEnd(data, n, Min(StartsFrom(data, n, i))) > n
                      THEN <<>>
                      ELSE TakenAt(data, n, Min(StartsFrom(data, n, i)))
                               \o g[APIEnd(data, n, Min(StartsFrom(data, n, i))) + 1]]
    <2> HIDE DEF idle, head, next
    <2> QED BY <1>1, <1>2 DEF IsLoop
  <1>4. F = [i \in Nat \ {0} |->
                      IF \/ StartsFrom(data, n, i) = {}
                         \/ APIEnd(data, n, Min(StartsFrom(data, n, i))) > n
                      THEN <<>>
                      ELSE TakenAt(data, n, Min(StartsFrom(data, n, i)))
                               \o F[APIEnd(data, n, Min(StartsFrom(data, n, i))) + 1]]
    BY <1>3, Zenon
  <1>5. ReadFrames(data) = F[1]
    BY DEF ReadFrames, StartsFrom, APIEnd, EndOfFrame, TakenAt
  <1> HIDE DEF F
  <1>6. IsLoop(F, idle, head, next)
    <2>1. \A i \in Nat \ {0} : F[i] = IF i \in idle THEN <<>> ELSE head[i] \o F[next[i]]
      <3>1. \A i \in Nat \ {0} :
                F[i] = IF \/ StartsFrom(data, n, i) = {}
                          \/ APIEnd(data, n, Min(StartsFrom(data, n, i))) > n
                       THEN <<>>
                       ELSE TakenAt(data, n, Min(StartsFrom(data, n, i)))
                               \o F[APIEnd(data, n, Min(StartsFrom(data, n, i))) + 1]
        BY <1>4, Zenon
      <3> HIDE DEF idle, head, next
      <3> QED BY <1>2, <3>1, ZenonT(40)
    <2> QED BY <2>1 DEF IsLoop
  <1> QED BY <1>5, <1>6

LEMMA ReadFramesType ==
    ASSUME NEW data \in Seq(Byte)
    PROVE  ReadFrames(data) \in Seq(Seq(Byte))
  <1>1. PICK n \in Nat : n = Len(data)
    OBVIOUS
  <1>2. PICK from : /\ IsLoop(from, NoAPIFrame(data, n), TakenFrom(data, n), ReadOnFrom(data, n))
                    /\ ReadFrames(data) = from[1]
    BY <1>1, ReadLoop
  <1>3. Advances(n, Seq(Byte), NoAPIFrame(data, n), TakenFrom(data, n), ReadOnFrom(data, n))
    BY <1>1, ReadAdvances
  <1> QED BY <1>2, <1>3, LoopFinds

LEMMA PacketsReadType ==
    ASSUME NEW data \in Seq(Byte)
    PROVE  PacketsRead(data) \in SUBSET Seq(Byte)
  <1>1. ReadFrames(data) \in Seq(Seq(Byte))
    BY ReadFramesType
  <1>2. \A frame \in ToSet(ReadFrames(data)) : frame \in Seq(Byte)
    BY <1>1 DEF ToSet
  <1>3. \A frame \in ToSet(ReadFrames(data)) : ProcessAPIFrame(frame) \subseteq Seq(Byte)
    BY <1>2, ProcessAPIFrameType
  <1> QED BY <1>3 DEF PacketsRead

\* The frame around front and packet.
IsAPI(frame, front, k, packet, n) ==
    /\ frame \in Seq(Byte) /\ Len(frame) = k + n + 4
    /\ frame[1] = DELIMITER /\ frame[2] = 0 /\ frame[3] = k + n
    /\ \A i \in 1 .. k : frame[3 + i] = front[i]
    /\ IsSlice(frame, 3 + k, packet, n)
    /\ SubSeq(frame, 4, k + n + 3) = front \o packet
    /\ frame[k + n + 4] = 255 - ByteSum(front \o packet)

LEMMA APILayout ==
    ASSUME NEW front \in Seq(Byte), NEW packet \in Seq(Byte), NEW k \in 0 .. 20, NEW n \in 0 .. 33
    PROVE  k = Len(front) /\ n = Len(packet) => IsAPI(APIFrame(front \o packet), front, k, packet, n)
  <1>0. SUFFICES ASSUME k = Len(front), n = Len(packet)
                 PROVE  IsAPI(APIFrame(front \o packet), front, k, packet, n)
    OBVIOUS
  <1>1. PICK inside : inside = front \o packet
    OBVIOUS
  <1>2. PICK m, three, one, l, o \in Nat : m = k + n /\ three = 3 /\ one = 1 /\ l = k /\ o = n
    OBVIOUS
  <1>3. IsJoined(inside, Byte, front, l, packet, o)
    <2>1. l = Len(front) /\ o = Len(packet)
      BY <1>0, <1>2
    <2>2. IsJoined(front \o packet, Byte, front, l, packet, o)
      BY <2>1, Joined
    <2> QED BY <1>1, <2>2
  <1>4. inside \in Seq(Byte) /\ m = Len(inside)
    BY <1>2, <1>3 DEF IsJoined
  <1> DEFINE head == <<DELIMITER, 0, m>>
             back == <<255 - ByteSum(inside)>>
             frame == APIFrame(inside)
  <1>5. frame = head \o inside \o back
    <2>1. m \div 256 = 0 /\ m % 256 = m
      BY <1>2
    <2>2. Len(inside) \div 256 = 0 /\ Len(inside) % 256 = m
      BY <1>4, <2>1
    <2> QED BY <2>2 DEF APIFrame
  <1>6. head \in Seq(Byte) /\ Len(head) = 3 /\ head[1] = DELIMITER /\ head[2] = 0 /\ head[3] = m
    <2>1. DELIMITER \in Byte /\ m \in Byte /\ 0 \in Byte
      BY <1>2 DEF DELIMITER, Byte
    <2> QED BY <2>1
  <1>7. back \in Seq(Byte) /\ Len(back) = 1 /\ back[1] = 255 - ByteSum(inside)
    <2>1. \A byte \in Byte : 255 - byte \in Byte
      BY DEF Byte
    <2>2. 255 - ByteSum(inside) \in Byte
      BY <1>4, <2>1, ByteSumByte
    <2> QED BY <2>2
  <1> HIDE DEF head, back, frame
  <1>8. IsBetween(frame, head, three, inside, m, back, one)
    <2>1. three = Len(head) /\ one = Len(back)
      BY <1>2, <1>6, <1>7
    <2> QED BY <1>4, <1>5, <1>6, <1>7, <2>1, Between
  <1>9. /\ frame \in Seq(Byte) /\ Len(frame) = 3 + m + 1
        /\ \A i \in 1 .. 3 : frame[i] = head[i]
        /\ \A i \in 1 .. m : frame[3 + i] = inside[i]
        /\ SubSeq(frame, 3 + 1, 3 + m) = inside
        /\ \A i \in 1 .. 1 : frame[3 + m + i] = back[i]
    BY <1>2, <1>8 DEF IsBetween, IsSlice, CutsOut
  <1>10. frame[1] = DELIMITER /\ frame[2] = 0 /\ frame[3] = m
    <2>1. 1 \in 1 .. 3 /\ 2 \in 1 .. 3 /\ 3 \in 1 .. 3
      OBVIOUS
    <2> QED BY <1>6, <1>9, <2>1
  <1>11. ASSUME NEW i \in 1 .. k PROVE frame[3 + i] = front[i]
    <2>1. i \in 1 .. l /\ i \in 1 .. m
      BY <1>2
    <2> QED BY <1>3, <1>9, <2>1 DEF IsJoined
  <1>12. IsSlice(frame, 3 + k, packet, n)
    <2>1. ASSUME NEW i \in 1 .. n PROVE frame[3 + k + i] = packet[i]
      <3>1. i \in 1 .. o /\ l + i \in 1 .. m /\ 3 + (l + i) = 3 + k + i
        BY <1>2
      <3>2. inside[l + i] = packet[i]
        BY <1>3, <3>1 DEF IsJoined
      <3> QED BY <1>9, <3>1, <3>2
    <2> QED BY <2>1 DEF IsSlice
  <1>13. frame[k + n + 4] = 255 - ByteSum(inside) /\ Len(frame) = k + n + 4
    <2>1. 3 + m + 1 = k + n + 4 /\ 1 \in 1 .. 1
      BY <1>2
    <2> QED BY <1>7, <1>9, <2>1
  <1>14. SubSeq(frame, 4, k + n + 3) = inside
    <2>1. 3 + 1 = 4 /\ 3 + m = k + n + 3
      BY <1>2
    <2> QED BY <1>9, <2>1
  <1>15. IsAPI(frame, front, k, packet, n)
    BY <1>1, <1>2, <1>9, <1>10, <1>11, <1>12, <1>13, <1>14 DEF IsAPI
  <1> QED BY <1>1, <1>15 DEF frame

LEMMA JoinedBytes ==
    ASSUME NEW s \in Seq(Byte), NEW t \in Seq(Byte)
    PROVE  /\ s \o t \in Seq(Byte)
           /\ Len(s \o t) = Len(s) + Len(t)
           /\ Len(s) > 0 => (s \o t)[1] = s[1]
  <1>1. PICK m, n \in Nat : m = Len(s) /\ n = Len(t)
    OBVIOUS
  <1>2. IsJoined(s \o t, Byte, s, m, t, n)
    BY <1>1, Joined
  <1>3. /\ s \o t \in Seq(Byte) /\ Len(s \o t) = m + n
        /\ \A k \in 1 .. m : (s \o t)[k] = s[k]
    BY <1>2 DEF IsJoined
  <1>4. m > 0 => 1 \in 1 .. m
    OBVIOUS
  <1> QED BY <1>1, <1>3, <1>4

\* The same byte n times.
LEMMA SameBytes ==
    ASSUME NEW byte \in Byte, NEW n \in Nat
    PROVE  [i \in 1 .. n |-> byte] \in Seq(Byte) /\ Len([i \in 1 .. n |-> byte]) = n
  OBVIOUS

LEMMA RequestedPacket ==
    ASSUME NEW packet \in Seq(Byte), NEW n \in 0 .. 33
    PROVE  n = Len(packet) =>
               /\ TransmitRequest(packet) \in Seq(Byte)
               /\ SubSeq(TransmitRequest(packet), 18, Len(TransmitRequest(packet)) - 1) = packet
  <1>0. SUFFICES ASSUME n = Len(packet)
                 PROVE  /\ TransmitRequest(packet) \in Seq(Byte)
                        /\ SubSeq(TransmitRequest(packet), 18, Len(TransmitRequest(packet)) - 1)
                               = packet
    OBVIOUS
  <1> DEFINE a == <<TRANSMIT_REQUEST, 1>>
             b == [i \in 1 .. 9 |-> 255]
             c == <<254, 0, 0>>
             front == a \o b \o c
             request == TransmitRequest(packet)
  <1>1. a \in Seq(Byte) /\ Len(a) = 2 /\ c \in Seq(Byte) /\ Len(c) = 3
    <2>1. TRANSMIT_REQUEST \in Byte /\ 1 \in Byte /\ 0 \in Byte /\ 254 \in Byte
      BY DEF TRANSMIT_REQUEST, Byte
    <2> QED BY <2>1
  <1>2. b \in Seq(Byte) /\ Len(b) = 9
    <2>1. PICK nine \in Nat : nine = 9
      OBVIOUS
    <2>2. PICK byte \in Byte : byte = 255
      BY DEF Byte
    <2>3. b = [i \in 1 .. nine |-> byte]
      BY <2>1, <2>2
    <2> HIDE DEF b
    <2> QED BY <2>1, <2>3, SameBytes
  <1>3. request = APIFrame(front \o packet)
    BY DEF TransmitRequest
  <1> HIDE DEF a, b, c, request
  <1>4. front \in Seq(Byte) /\ Len(front) = 14
    <2>1. a \o b \in Seq(Byte) /\ Len(a \o b) = 11
      <3>1. a \in Seq(Byte) /\ b \in Seq(Byte)
        BY <1>1, <1>2
      <3>2. a \o b \in Seq(Byte) /\ Len(a \o b) = Len(a) + Len(b)
        BY <3>1, JoinedBytes, Zenon
      <3> QED BY <1>1, <1>2, <3>2
    <2>2. front \in Seq(Byte) /\ Len(front) = Len(a \o b) + Len(c)
      BY <1>1, <2>1, JoinedBytes, Zenon
    <2> QED BY <1>1, <2>1, <2>2
  <1> HIDE DEF front
  <1>5. PICK k \in 0 .. 20 : k = 14
    OBVIOUS
  <1>6. IsAPI(request, front, k, packet, n)
    BY <1>0, <1>3, <1>4, <1>5, APILayout
  <1>7. request \in Seq(Byte) /\ Len(request) - 1 = n + 17
    BY <1>5, <1>6 DEF IsAPI
  <1>8. SubSeq(request, 18, n + 17) = packet
    <2>1. PICK m, l \in Nat : m = 17 /\ l = n
      OBVIOUS
    <2>2. 3 + k = m
      BY <1>5, <2>1
    <2>3. IsSlice(request, m, packet, l)
      BY <1>6, <2>1, <2>2 DEF IsAPI
    <2>4. CutsOut(request, m, packet, l)
      BY <1>0, <2>1, <2>3, Slice
    <2>5. m + 1 = 18 /\ m + l = n + 17
      BY <2>1
    <2> QED BY <2>4, <2>5 DEF CutsOut
  <1> QED BY <1>7, <1>8 DEF request

\* The modem hands the packet over behind the addresses and the options.
LEMMA ReceivedLayout ==
    ASSUME NEW packet \in Seq(Byte), NEW n \in 0 .. 33, NEW options \in Byte
    PROVE  n = Len(packet) =>
               \E front \in Seq(Byte) :
                   /\ Len(front) = 12
                   /\ IsAPI(Received(TransmitRequest(packet), options), front, 12, packet, n)
  <1>0. SUFFICES ASSUME n = Len(packet)
                 PROVE  \E front \in Seq(Byte) :
                            /\ Len(front) = 12
                            /\ IsAPI(Received(TransmitRequest(packet), options), front, 12,
                                     packet, n)
    OBVIOUS
  <1> DEFINE a == <<RECEIVE_PACKET>>
             b == [i \in 1 .. 10 |-> 0]
             c == <<options>>
             front == a \o b \o c
             frame == Received(TransmitRequest(packet), options)
  <1>1. a \in Seq(Byte) /\ Len(a) = 1 /\ c \in Seq(Byte) /\ Len(c) = 1
    <2>1. RECEIVE_PACKET \in Byte
      BY DEF RECEIVE_PACKET, Byte
    <2> QED BY <2>1
  <1>2. b \in Seq(Byte) /\ Len(b) = 10
    <2>1. PICK ten \in Nat : ten = 10
      OBVIOUS
    <2>2. PICK byte \in Byte : byte = 0
      BY DEF Byte
    <2>3. b = [i \in 1 .. ten |-> byte]
      BY <2>1, <2>2
    <2> HIDE DEF b
    <2> QED BY <2>1, <2>3, SameBytes
  <1>3. frame = APIFrame(front \o packet)
    <2>1. SubSeq(TransmitRequest(packet), 18, Len(TransmitRequest(packet)) - 1) = packet
      BY <1>0, RequestedPacket
    <2> QED BY <2>1 DEF Received
  <1> HIDE DEF a, b, c, frame
  <1>4. front \in Seq(Byte) /\ Len(front) = 12
    <2>1. a \o b \in Seq(Byte) /\ Len(a \o b) = 11
      <3>1. a \in Seq(Byte) /\ b \in Seq(Byte)
        BY <1>1, <1>2
      <3>2. a \o b \in Seq(Byte) /\ Len(a \o b) = Len(a) + Len(b)
        BY <3>1, JoinedBytes, Zenon
      <3> QED BY <1>1, <1>2, <3>2
    <2>2. front \in Seq(Byte) /\ Len(front) = Len(a \o b) + Len(c)
      BY <1>1, <2>1, JoinedBytes, Zenon
    <2> QED BY <1>1, <2>1, <2>2
  <1> HIDE DEF front
  <1>5. PICK k \in 0 .. 20 : k = 12
    OBVIOUS
  <1>6. IsAPI(frame, front, k, packet, n)
    BY <1>0, <1>3, <1>4, <1>5, APILayout
  <1>7. IsAPI(frame, front, 12, packet, n)
    BY <1>5, <1>6
  <1> QED BY <1>4, <1>7 DEF frame

\* What the modem escapes stays bytes.
LEMMA EscapedType ==
    ASSUME NEW frame \in Seq(Byte)
    PROVE  Escaped(frame) \in Seq(Byte)
  <1> DEFINE n == Len(frame)
             S == Seq(Byte)
             step == [i \in 1 .. n |-> [s \in S |-> s \o EscapedByte(i, frame[i])]]
             F == CHOOSE sent : sent = [i \in 0 .. n |->
                                 IF i = 0 THEN <<>> ELSE sent[i - 1] \o EscapedByte(i, frame[i])]
  <1>1. /\ n \in Nat /\ <<>> \in S
        /\ \A i \in 1 .. n : frame[i] \in Byte /\ i - 1 \in 0 .. n /\ i \in 0 .. n /\ i # 0
    BY EmptySeq
  <1>2. \A i \in 1 .. n, s \in S : s \o EscapedByte(i, frame[i]) \in S
    <2>1. ASSUME NEW i \in 1 .. n PROVE EscapedByte(i, frame[i]) \in Seq(Byte)
      <3>1. 32 \in Byte /\ ESCAPE \in Byte
        BY DEF Byte, ESCAPE
      <3>2. Xor[frame[i]][32] \in Byte
        BY <1>1, <3>1, XorByte
      <3>3. <<ESCAPE, Xor[frame[i]][32]>> \in Seq(Byte) /\ <<frame[i]>> \in Seq(Byte)
        BY <1>1, <3>1, <3>2
      <3> QED BY <3>3 DEF EscapedByte
    <2> QED BY <2>1, ConcatProperties
  <1>3. PICK g \in [0 .. n -> S] : FromLeft(g, n, <<>>, step)
    <2>1. StepsIn(step, n, S)
      <3> HIDE DEF S
      <3> QED BY <1>2 DEF StepsIn
    <2> HIDE DEF n, step, S
    <2> QED BY <1>1, <2>1, LeftExists
  <1> HIDE DEF S
  <1>4. g = [i \in 0 .. n |-> IF i = 0 THEN <<>> ELSE g[i - 1] \o EscapedByte(i, frame[i])]
    <2>1. \A i \in 1 .. n : g[i] = g[i - 1] \o EscapedByte(i, frame[i])
      <3>1. \A i \in 1 .. n : g[i - 1] \in S /\ g[i] = step[i][g[i - 1]]
        BY <1>1, <1>3 DEF FromLeft
      <3> QED BY <3>1
    <2>2. g[0] = <<>>
      BY <1>3 DEF FromLeft
    <2> HIDE DEF n, step, F
    <2>3. \A i \in 0 .. n : g[i] = IF i = 0 THEN <<>> ELSE g[i - 1] \o EscapedByte(i, frame[i])
      <3>1. \A i \in 0 .. n : i # 0 => i \in 1 .. n
        BY <1>1
      <3> QED BY <2>1, <2>2, <3>1
    <2> QED BY <1>3, <2>3
  <1>5. F = [i \in 0 .. n |-> IF i = 0 THEN <<>> ELSE F[i - 1] \o EscapedByte(i, frame[i])]
    BY <1>4, Zenon
  <1>6. Escaped(frame) = F[n]
    BY DEF Escaped
  <1> HIDE DEF F
  <1>7. F[0] = <<>> /\ \A i \in 1 .. n : F[i] = F[i - 1] \o EscapedByte(i, frame[i])
    <2> HIDE DEF n
    <2>1. 0 \in 0 .. n
      BY <1>1
    <2> QED BY <1>1, <1>5, <2>1
  <1>8. \A i \in 0 .. n : F[i] \in S
    <2>1. F[0] \in S /\ \A i \in 1 .. n : F[i - 1] \in S => F[i] \in S
      BY <1>1, <1>2, <1>7
    <2> HIDE DEF n
    <2> QED BY <1>1, <2>1, LeftStaysIn, Zenon
  <1>9. n \in 0 .. n
    BY <1>1
  <1> QED BY <1>6, <1>8, <1>9 DEF S

\* What lies in a part of a sequence lies in the sequence.
LEMMA SliceOfSlice ==
    ASSUME NEW all, NEW m \in Nat, NEW part, NEW l \in Nat, NEW k \in Nat, NEW t, NEW n \in Nat
    PROVE  IsSlice(all, m, part, l) /\ IsSlice(part, k, t, n) /\ k + n <= l
               => IsSlice(all, m + k, t, n)
  <1>0. SUFFICES ASSUME IsSlice(all, m, part, l), IsSlice(part, k, t, n), k + n <= l
                 PROVE  IsSlice(all, m + k, t, n)
    OBVIOUS
  <1>1. ASSUME NEW i \in 1 .. n PROVE all[m + k + i] = t[i]
    <2>1. k + i \in 1 .. l /\ m + (k + i) = m + k + i
      BY <1>0
    <2>2. all[m + (k + i)] = part[k + i] /\ part[k + i] = t[i]
      BY <1>0, <2>1 DEF IsSlice
    <2> QED BY <2>1, <2>2
  <1> QED BY <1>1 DEF IsSlice

\* The beginning of a sequence.
LEMMA Prefix ==
    ASSUME NEW t \in Seq(Byte), NEW n \in Nat, NEW k \in 0 .. n
    PROVE  n = Len(t) =>
               /\ SubSeq(t, 1, k) \in Seq(Byte) /\ Len(SubSeq(t, 1, k)) = k
               /\ \A i \in 1 .. k : SubSeq(t, 1, k)[i] = t[i]
  <1>0. SUFFICES ASSUME n = Len(t)
                 PROVE  /\ SubSeq(t, 1, k) \in Seq(Byte) /\ Len(SubSeq(t, 1, k)) = k
                        /\ \A i \in 1 .. k : SubSeq(t, 1, k)[i] = t[i]
    OBVIOUS
  <1>1. \A i \in 1 .. n : t[i] \in Byte
    BY <1>0
  <1>2. \A i \in 1 .. k : t[i] \in Byte
    BY <1>1
  <1>3. /\ 1 \in Int /\ k \in Int /\ (IF 1 <= k THEN k - 1 + 1 ELSE 0) = k
        /\ \A i \in 1 .. k : 1 + i - 1 = i
    OBVIOUS
  <1> QED BY <1>2, <1>3, SubSeqProperties

\* A frame is in data where readLoop looks for one.
FrameAt(data, m, at, frame, front, k, packet, n) ==
    /\ data \in Seq(Byte) /\ front \in Seq(Byte) /\ packet \in Seq(Byte)
    /\ m = Len(data) /\ k = Len(front) /\ n = Len(packet)
    /\ IsAPI(frame, front, k, packet, n)
    /\ IsSlice(data, at - 1, frame, k + n + 4) /\ at + k + n + 3 <= m

\* The loop takes the first l bytes of the frame at position at.
TakenWhole(data, m, at, frame, l) ==
    APIEnd(data, m, at) = at + l /\ TakenAt(data, m, at) = <<SubSeq(frame, 1, l)>>

\* What readLoop takes there is that frame without its checksum.
LEMMA FrameTaken ==
    ASSUME NEW data, NEW m \in Nat, NEW at \in Nat \ {0}, NEW frame, NEW front, NEW packet,
           NEW k \in 0 .. 20, NEW n \in 0 .. 33
    PROVE  FrameAt(data, m, at, frame, front, k, packet, n)
           => TakenWhole(data, m, at, frame, k + n + 3)
  <1>0. SUFFICES ASSUME data \in Seq(Byte), front \in Seq(Byte), packet \in Seq(Byte),
                        m = Len(data), k = Len(front), n = Len(packet),
                        IsAPI(frame, front, k, packet, n),
                        IsSlice(data, at - 1, frame, k + n + 4), at + k + n + 3 <= m
                 PROVE  /\ APIEnd(data, m, at) = at + (k + n + 3)
                        /\ TakenAt(data, m, at) = <<SubSeq(frame, 1, k + n + 3)>>
    BY DEF FrameAt, TakenWhole
  <1>1. /\ frame \in Seq(Byte) /\ Len(frame) = k + n + 4
        /\ frame[2] = 0 /\ frame[3] = k + n
        /\ SubSeq(frame, 4, k + n + 3) = front \o packet
        /\ frame[k + n + 4] = 255 - ByteSum(front \o packet)
    BY <1>0 DEF IsAPI
  <1>2. PICK l, o \in Nat : l = k + n /\ o = at - 1
    OBVIOUS
  <1>3. \A i \in 1 .. l + 4 : data[o + i] = frame[i]
    BY <1>0, <1>2 DEF IsSlice
  <1>4. APIEnd(data, m, at) = at + l + 3
    <2>1. o + 2 = at + 1 /\ o + 3 = at + 2 /\ 2 \in 1 .. l + 4 /\ 3 \in 1 .. l + 4
      BY <1>2
    <2>2. data[at + 1] = 0 /\ data[at + 2] = l
      BY <1>1, <1>2, <1>3, <2>1
    <2>3. ~ (at + 2 > m) /\ at + (256 * 0 + l) + 3 = at + l + 3
      BY <1>0, <1>2
    <2> QED BY <2>2, <2>3 DEF APIEnd
  <1>5. IsJoined(front \o packet, Byte, front, k, packet, n)
    <2>1. k \in Nat /\ n \in Nat
      OBVIOUS
    <2> QED BY <1>0, <2>1, Joined
  <1>6. SubSeq(data, at + 3, at + l + 2) = front \o packet
    <2>1. PICK inside : inside = front \o packet
      OBVIOUS
    <2>2. inside \in Seq(Byte) /\ l = Len(inside)
      BY <1>2, <1>5, <2>1 DEF IsJoined
    <2>3. PICK q \in Nat : q = at + 2
      OBVIOUS
    <2>4. ASSUME NEW i \in 1 .. l PROVE data[q + i] = inside[i]
      <3>1. 3 + i \in 1 .. l + 4 /\ o + (3 + i) = q + i
        BY <1>2, <2>3
      <3>2. data[q + i] = frame[3 + i]
        BY <1>3, <3>1
      <3>3. frame[3 + i] = inside[i]
        <4>1. CASE i <= k
          <5>1. i \in 1 .. k
            BY <4>1
          <5>2. frame[3 + i] = front[i]
            BY <1>0, <5>1 DEF IsAPI
          <5>3. inside[i] = front[i]
            BY <1>5, <2>1, <5>1 DEF IsJoined
          <5> QED BY <5>2, <5>3
        <4>2. CASE i > k
          <5>1. PICK j \in 1 .. n : i = k + j
            <6>1. i - k \in 1 .. n /\ i = k + (i - k)
              BY <1>2, <4>2
            <6> QED BY <6>1
          <5>2. frame[3 + k + j] = packet[j]
            BY <1>0 DEF IsAPI, IsSlice
          <5>3. inside[k + j] = packet[j]
            BY <1>5, <2>1 DEF IsJoined
          <5>4. 3 + k + j = 3 + i
            BY <5>1
          <5> QED BY <5>1, <5>2, <5>3, <5>4
        <4> QED BY <4>1, <4>2
      <3> QED BY <3>2, <3>3
    <2>5. IsSlice(data, q, inside, l)
      BY <2>4 DEF IsSlice
    <2>6. CutsOut(data, q, inside, l)
      BY <2>2, <2>5, Slice
    <2>7. q + 1 = at + 3 /\ q + l = at + l + 2
      BY <2>3
    <2> QED BY <2>1, <2>6, <2>7 DEF CutsOut
  <1>7. data[at + l + 3] = 255 - ByteSum(front \o packet)
    <2>1. o + (l + 4) = at + l + 3 /\ l + 4 \in 1 .. l + 4
      BY <1>2
    <2>2. data[at + l + 3] = frame[l + 4]
      BY <1>3, <2>1
    <2> QED BY <1>1, <1>2, <2>2
  <1>8. SubSeq(data, at, at + l + 2) = SubSeq(frame, 1, l + 3)
    <2>1. PICK prefix, p : prefix = SubSeq(frame, 1, l + 3) /\ p = l + 3
      OBVIOUS
    <2>2. p \in Nat /\ p \in 0 .. l + 4 /\ l + 4 \in Nat
      BY <1>2, <2>1
    <2>3. prefix \in Seq(Byte) /\ Len(prefix) = p /\ \A i \in 1 .. p : prefix[i] = frame[i]
      BY <1>1, <1>2, <2>1, <2>2, Prefix
    <2>4. \A i \in 1 .. p : data[o + i] = prefix[i]
      BY <1>3, <2>1, <2>3
    <2>5. IsSlice(data, o, prefix, p)
      BY <2>4 DEF IsSlice
    <2>6. CutsOut(data, o, prefix, p)
      BY <1>2, <2>2, <2>3, <2>5, Slice
    <2>7. o + 1 = at /\ o + p = at + l + 2
      BY <1>2, <2>1
    <2> QED BY <2>1, <2>6, <2>7 DEF CutsOut
  <1>9. TakenAt(data, m, at) = <<SubSeq(frame, 1, l + 3)>>
    <2>1. APIEnd(data, m, at) - 1 = at + l + 2 /\ (at + l + 2) + 1 = at + l + 3
      BY <1>2, <1>4
    <2>2. ChecksumHolds(SubSeq(data, at + 3, at + l + 2), data[at + l + 3])
      BY <1>6, <1>7 DEF ChecksumHolds
    <2> QED BY <1>8, <2>1, <2>2 DEF TakenAt
  <1> QED BY <1>2, <1>4, <1>9

IsConcat(all, s, t) == all = s \o t

\* Nothing from i to the position before at begins a frame.
Clear(data, start, i, at) == \A j \in i .. at - 1 : data[j] # start

\* The loop from comes from position i to the start of that frame.
ReadsAt(data, m, i, at, from, frame, front, k, packet, n) ==
    /\ FrameAt(data, m, at, frame, front, k, packet, n)
    /\ IsLoop(from, NoAPIFrame(data, m), TakenFrom(data, m), ReadOnFrom(data, m))
    /\ i <= at /\ Clear(data, DELIMITER, i, at)

\* readLoop, from position i on: the next start is at, where a frame begins.
LEMMA ReadNext ==
    ASSUME NEW data, NEW m \in Nat, NEW i \in Nat \ {0}, NEW at \in Nat, NEW from, NEW frame,
           NEW front, NEW packet, NEW k \in 0 .. 20, NEW n \in 0 .. 33
    PROVE  ReadsAt(data, m, i, at, from, frame, front, k, packet, n)
           => IsConcat(from[i], <<SubSeq(frame, 1, k + n + 3)>>, from[at + k + n + 4])
  <1>0. SUFFICES ASSUME FrameAt(data, m, at, frame, front, k, packet, n),
                        IsLoop(from, NoAPIFrame(data, m), TakenFrom(data, m), ReadOnFrom(data, m)),
                        i <= at, Clear(data, DELIMITER, i, at)
                 PROVE  from[i] = <<SubSeq(frame, 1, k + n + 3)>> \o from[at + k + n + 4]
    BY DEF ReadsAt, IsConcat
  <1>1. at \in Nat \ {0}
    BY <1>0
  <1>2. /\ APIEnd(data, m, at) = at + k + n + 3
        /\ TakenAt(data, m, at) = <<SubSeq(frame, 1, k + n + 3)>>
    <2>1. FrameAt(data, m, at, frame, front, k, packet, n)
      BY <1>0
    <2>2. TakenWhole(data, m, at, frame, k + n + 3)
      BY <1>1, <2>1, FrameTaken, Zenon
    <2>3. APIEnd(data, m, at) = at + (k + n + 3)
      BY <2>2 DEF TakenWhole
    <2>4. at + (k + n + 3) = at + k + n + 3
      OBVIOUS
    <2> QED BY <2>2, <2>3, <2>4 DEF TakenWhole
  <1>3. data[at] = DELIMITER
    <2>1. 1 \in 1 .. k + n + 4 /\ (at - 1) + 1 = at
      OBVIOUS
    <2>2. data[(at - 1) + 1] = frame[1]
      BY <1>0, <2>1 DEF FrameAt, IsSlice
    <2>3. frame[1] = DELIMITER
      BY <1>0 DEF FrameAt, IsAPI
    <2> QED BY <2>1, <2>2, <2>3
  <1>4. StartsFrom(data, m, i) # {} /\ Min(StartsFrom(data, m, i)) = at
    <2>0. at + k + n + 3 <= m /\ m \in Nat /\ k \in Nat /\ n \in Nat
      BY <1>0 DEF FrameAt
    <2>1. at \in i .. m
      BY <1>0, <2>0
    <2>2. at \in StartsFrom(data, m, i)
      BY <1>3, <2>1 DEF StartsFrom
    <2>3. \A j \in StartsFrom(data, m, i) : j \in Nat /\ at <= j
      <3>1. ASSUME NEW j \in i .. m, data[j] = DELIMITER PROVE at <= j
        <4>1. ~ (j \in i .. at - 1)
          BY <1>0, <3>1 DEF Clear
        <4> QED BY <4>1
      <3> QED BY <3>1 DEF StartsFrom
    <2>4. StartsFrom(data, m, i) \in SUBSET Nat
      BY <2>3
    <2>5. /\ Min(StartsFrom(data, m, i)) \in StartsFrom(data, m, i)
          /\ Min(StartsFrom(data, m, i)) <= at
      BY <2>2, <2>4, MinIs
    <2>6. at <= Min(StartsFrom(data, m, i)) /\ Min(StartsFrom(data, m, i)) \in Nat
      BY <2>3, <2>5
    <2> HIDE <1>0
    <2> QED BY <2>2, <2>5, <2>6
  <1>5. i \notin NoAPIFrame(data, m)
    <2>1. ~ (at + k + n + 3 > m)
      BY <1>0 DEF FrameAt
    <2> QED BY <1>2, <1>4, <2>1 DEF NoAPIFrame
  <1>6. TakenFrom(data, m)[i] = TakenAt(data, m, at) /\ ReadOnFrom(data, m)[i] = at + k + n + 4
    <2>1. (at + k + n + 3) + 1 = at + k + n + 4
      OBVIOUS
    <2> QED BY <1>2, <1>4, <2>1 DEF TakenFrom, ReadOnFrom
  <1>7. from[i] = TakenFrom(data, m)[i] \o from[ReadOnFrom(data, m)[i]]
    BY <1>0, <1>5 DEF IsLoop
  <1> QED BY <1>2, <1>6, <1>7

-----------------------------------------------------------------------------
(* Frames one behind the other.                                            *)

\* Four sequences in a row.
IsRow(data, n, a, la, b, lb, c, lc, d, ld) ==
    /\ data \in Seq(Byte) /\ n = Len(data) /\ n = la + lb + lc + ld
    /\ IsSlice(data, 0, a, la) /\ IsSlice(data, la, b, lb)
    /\ IsSlice(data, la + lb, c, lc) /\ IsSlice(data, la + lb + lc, d, ld)

LEMMA Row ==
    ASSUME NEW a, NEW la \in Nat, NEW b, NEW lb \in Nat, NEW c, NEW lc \in Nat,
           NEW d, NEW ld \in Nat, NEW data, NEW n
    PROVE  /\ a \in Seq(Byte) /\ b \in Seq(Byte) /\ c \in Seq(Byte) /\ d \in Seq(Byte)
           /\ la = Len(a) /\ lb = Len(b) /\ lc = Len(c) /\ ld = Len(d)
           /\ data = a \o b \o c \o d /\ n = la + lb + lc + ld
           => IsRow(data, n, a, la, b, lb, c, lc, d, ld)
  <1>0. SUFFICES ASSUME a \in Seq(Byte), b \in Seq(Byte), c \in Seq(Byte), d \in Seq(Byte),
                        la = Len(a), lb = Len(b), lc = Len(c), ld = Len(d),
                        data = a \o b \o c \o d, n = la + lb + lc + ld
                 PROVE  IsRow(data, n, a, la, b, lb, c, lc, d, ld)
    OBVIOUS
  <1>1. PICK two, three : two = a \o b /\ three = two \o c
    OBVIOUS
  <1>2. PICK m, o \in Nat : m = la + lb /\ o = la + lb + lc
    OBVIOUS
  <1>3. IsJoined(two, Byte, a, la, b, lb)
    BY <1>0, <1>1, Joined
  <1>4. two \in Seq(Byte) /\ m = Len(two)
    BY <1>2, <1>3 DEF IsJoined
  <1>5. IsJoined(three, Byte, two, m, c, lc)
    BY <1>0, <1>1, <1>4, Joined
  <1>6. three \in Seq(Byte) /\ o = Len(three)
    <2>1. o = m + lc
      BY <1>2
    <2> QED BY <1>5, <2>1 DEF IsJoined
  <1>7. IsJoined(data, Byte, three, o, d, ld)
    <2>1. data = three \o d
      BY <1>0, <1>1
    <2>2. IsJoined(three \o d, Byte, three, o, d, ld)
      BY <1>0, <1>6, Joined
    <2> QED BY <2>1, <2>2
  <1>8. ASSUME NEW i \in 1 .. la PROVE data[i] = a[i]
    <2>1. i \in 1 .. m /\ i \in 1 .. o
      BY <1>2
    <2> QED BY <1>3, <1>5, <1>7, <2>1 DEF IsJoined
  <1>9. ASSUME NEW i \in 1 .. lb PROVE data[la + i] = b[i]
    <2>1. la + i \in 1 .. m /\ la + i \in 1 .. o
      BY <1>2
    <2>2. two[la + i] = b[i]
      BY <1>3 DEF IsJoined
    <2>3. three[la + i] = two[la + i]
      BY <1>5, <2>1 DEF IsJoined
    <2>4. data[la + i] = three[la + i]
      BY <1>7, <2>1 DEF IsJoined
    <2> QED BY <2>2, <2>3, <2>4
  <1>10. ASSUME NEW i \in 1 .. lc PROVE data[m + i] = c[i]
    <2>1. m + i \in 1 .. o
      BY <1>2
    <2>2. three[m + i] = c[i]
      BY <1>5 DEF IsJoined
    <2>3. data[m + i] = three[m + i]
      BY <1>7, <2>1 DEF IsJoined
    <2> QED BY <2>2, <2>3
  <1>11. ASSUME NEW i \in 1 .. ld PROVE data[o + i] = d[i]
    BY <1>7 DEF IsJoined
  <1>12. IsSlice(data, 0, a, la)
    <2>1. \A i \in 1 .. la : 0 + i = i
      OBVIOUS
    <2> QED BY <1>8, <2>1 DEF IsSlice
  <1>13. IsSlice(data, la, b, lb) /\ IsSlice(data, m, c, lc) /\ IsSlice(data, o, d, ld)
    BY <1>9, <1>10, <1>11 DEF IsSlice
  <1>14. data \in Seq(Byte) /\ n = Len(data)
    <2>1. n = o + ld
      BY <1>0, <1>2
    <2> QED BY <1>7, <2>1 DEF IsJoined
  <1> QED BY <1>0, <1>2, <1>12, <1>13, <1>14 DEF IsRow

\* What lies before the first frame holds no start, then nothing before it begins one.
LEMMA ClearBefore ==
    ASSUME NEW data, NEW before, NEW l \in Nat, NEW start
    PROVE  /\ before \in Seq(Byte) /\ l = Len(before) /\ IsSlice(data, 0, before, l)
           /\ start \notin ToSet(before)
           => Clear(data, start, 1, l + 1)
  <1>0. SUFFICES ASSUME before \in Seq(Byte), l = Len(before), IsSlice(data, 0, before, l),
                        start \notin ToSet(before), NEW j \in 1 .. l
                 PROVE  data[j] # start
    <2>1. (l + 1) - 1 = l
      OBVIOUS
    <2> QED BY <2>1 DEF Clear
  <1>1. 0 + j = j
    OBVIOUS
  <1>2. data[j] = before[j]
    BY <1>0, <1>1 DEF IsSlice
  <1>3. before[j] \in ToSet(before)
    <2>1. DOMAIN before = 1 .. l
      BY <1>0
    <2> QED BY <2>1 DEF ToSet
  <1> QED BY <1>0, <1>2, <1>3

\* The frame of a packet is in data where processFrame looks for one.
MAVLinkAt(data, m, at, frame, packet, n) ==
    /\ data \in Seq(Byte) /\ packet \in Seq(Byte) /\ m = Len(data) /\ n = Len(packet)
    /\ IsMAVLink(frame, packet, n)
    /\ IsSlice(data, at - 1, frame, n + 8) /\ at + n + 7 <= m

\* The loop from comes from position i to the start of that frame.
ProcessesAt(data, m, i, at, from, frame, packet, n) ==
    /\ MAVLinkAt(data, m, at, frame, packet, n)
    /\ IsLoop(from, NoFrame(data, m), FoundFrom(data, m), NextFrom(data, m))
    /\ i <= at /\ Clear(data, MAVLINK_START, i, at)

LEMMA ProcessNext ==
    ASSUME NEW data, NEW m \in Nat, NEW i \in Nat \ {0}, NEW at \in Nat, NEW from, NEW frame,
           NEW packet, NEW n \in 1 .. 33
    PROVE  ProcessesAt(data, m, i, at, from, frame, packet, n)
           => IsConcat(from[i], Packets(packet), from[at + n + 8])
  <1>0. SUFFICES ASSUME MAVLinkAt(data, m, at, frame, packet, n),
                        IsLoop(from, NoFrame(data, m), FoundFrom(data, m), NextFrom(data, m)),
                        i <= at, Clear(data, MAVLINK_START, i, at)
                 PROVE  from[i] = Packets(packet) \o from[at + n + 8]
    BY DEF ProcessesAt, IsConcat
  <1>1. /\ data \in Seq(Byte) /\ packet \in Seq(Byte) /\ m = Len(data) /\ n = Len(packet)
        /\ frame[1] = MAVLINK_START /\ frame[2] = n /\ IsSlice(frame, 6, packet, n)
        /\ IsSlice(data, at - 1, frame, n + 8) /\ at + n + 7 <= m
    BY <1>0 DEF MAVLinkAt, IsMAVLink
  <1>2. PICK o, l, six \in Nat : o = at - 1 /\ l = n /\ six = 6
    BY <1>0
  <1>3. \A k \in 1 .. l + 8 : data[o + k] = frame[k]
    BY <1>1, <1>2 DEF IsSlice
  <1>4. data[at] = MAVLINK_START /\ data[at + 1] = n
    <2>1. o + 1 = at /\ o + 2 = at + 1 /\ 1 \in 1 .. l + 8 /\ 2 \in 1 .. l + 8
      BY <1>0, <1>2
    <2> QED BY <1>1, <1>3, <2>1
  <1>5. FramesFrom(data, m, i) # {} /\ Min(FramesFrom(data, m, i)) = at
    <2>0. at + n + 7 <= m /\ i <= at
      BY <1>0, <1>1
    <2>1. at \in i .. m - 8 /\ at + n + 7 <= m
      BY <2>0
    <2>2. at \in FramesFrom(data, m, i)
      BY <1>4, <2>1 DEF FramesFrom
    <2>3. \A j \in FramesFrom(data, m, i) : j \in Nat /\ at <= j
      <3>1. ASSUME NEW j \in i .. m - 8, data[j] = MAVLINK_START PROVE at <= j
        <4>1. ~ (j \in i .. at - 1)
          BY <1>0, <3>1 DEF Clear
        <4> QED BY <4>1
      <3> QED BY <3>1 DEF FramesFrom
    <2>4. FramesFrom(data, m, i) \in SUBSET Nat
      BY <2>3
    <2>5. /\ Min(FramesFrom(data, m, i)) \in FramesFrom(data, m, i)
          /\ Min(FramesFrom(data, m, i)) <= at
      BY <2>2, <2>4, MinIs
    <2>6. at <= Min(FramesFrom(data, m, i)) /\ Min(FramesFrom(data, m, i)) \in Nat
      BY <2>3, <2>5
    <2> HIDE <1>0
    <2> QED BY <2>2, <2>5, <2>6
  <1>6. InFrame(data, at) = Packets(packet)
    <2>1. PICK p \in Nat : p = at + 5
      OBVIOUS
    <2>2. IsSlice(data, p, packet, l)
      <3>1. o + six = p /\ six + l <= l + 8 /\ l + 8 \in Nat
        BY <1>2, <2>1
      <3>2. IsSlice(data, o, frame, l + 8) /\ IsSlice(frame, six, packet, l)
        BY <1>1, <1>2
      <3>3. IsSlice(data, o + six, packet, l)
        BY <3>1, <3>2, SliceOfSlice
      <3> QED BY <3>1, <3>3
    <2>3. CutsOut(data, p, packet, l)
      BY <1>1, <1>2, <2>2, Slice
    <2>4. p + 1 = at + 6 /\ p + l = at + 5 + n
      BY <1>2, <2>1
    <2>5. SubSeq(data, at + 6, at + 5 + n) = packet
      BY <2>3, <2>4 DEF CutsOut
    <2> QED BY <1>4, <2>5 DEF InFrame
  <1>7. i \notin NoFrame(data, m)
    BY <1>5 DEF NoFrame
  <1>8. FoundFrom(data, m)[i] = Packets(packet) /\ NextFrom(data, m)[i] = at + n + 8
    BY <1>4, <1>5, <1>6 DEF FoundFrom, NextFrom, Behind
  <1>9. from[i] = FoundFrom(data, m)[i] \o from[NextFrom(data, m)[i]]
    BY <1>0, <1>7 DEF IsLoop
  <1> QED BY <1>8, <1>9

\* Two frames in a row, clear of starts before them.
MAVLinkRow(data, m, a, la, b, lb, c, lc, d, ld, p, np, q, nq) ==
    /\ IsRow(data, m, a, la, b, lb, c, lc, d, ld)
    /\ p \in Seq(Byte) /\ np = Len(p) /\ IsMAVLink(b, p, np) /\ lb = np + 8
    /\ q \in Seq(Byte) /\ nq = Len(q) /\ IsMAVLink(c, q, nq) /\ lc = nq + 8
    /\ Clear(data, MAVLINK_START, 1, la + 1)

\* processFrame finds both frames, whatever short piece of another one comes behind.
LEMMA ProcessRow ==
    ASSUME NEW data, NEW m \in Nat, NEW a, NEW la \in Nat, NEW b, NEW lb \in Nat, NEW c,
           NEW lc \in Nat, NEW d, NEW ld \in 0 .. 8, NEW p, NEW np \in 1 .. 33,
           NEW q, NEW nq \in 1 .. 33
    PROVE  MAVLinkRow(data, m, a, la, b, lb, c, lc, d, ld, p, np, q, nq)
           => IsConcat(ProcessFrame(data), Packets(p), Packets(q))
  <1>0. SUFFICES ASSUME IsRow(data, m, a, la, b, lb, c, lc, d, ld),
                        p \in Seq(Byte), np = Len(p), IsMAVLink(b, p, np), lb = np + 8,
                        q \in Seq(Byte), nq = Len(q), IsMAVLink(c, q, nq), lc = nq + 8,
                        Clear(data, MAVLINK_START, 1, la + 1)
                 PROVE  ProcessFrame(data) = Packets(p) \o Packets(q)
    BY DEF MAVLinkRow, IsConcat
  <1>1. /\ data \in Seq(Byte) /\ m = Len(data) /\ m = la + lb + lc + ld
        /\ IsSlice(data, la, b, lb) /\ IsSlice(data, la + lb, c, lc)
    BY <1>0 DEF IsRow
  <1>2. PICK from : /\ IsLoop(from, NoFrame(data, m), FoundFrom(data, m), NextFrom(data, m))
                    /\ ProcessFrame(data) = from[1]
    BY <1>1, ProcessLoop
  <1>3. PICK one, first, second, last \in Nat :
            one = 1 /\ first = la + 1 /\ second = la + lb + 1 /\ last = la + lb + lc + 1
    OBVIOUS
  <1>4. /\ one \in Nat \ {0} /\ second \in Nat \ {0} /\ last \in Nat \ {0}
        /\ first - 1 = la /\ second - 1 = la + lb
        /\ first + np + 8 = second /\ second + nq + 8 = last
        /\ first + np + 7 <= m /\ second + nq + 7 <= m /\ one <= first /\ second <= second
        /\ last > m - 8
    BY <1>0, <1>1, <1>3, SMTT(30)
  <1>5. ProcessesAt(data, m, one, first, from, b, p, np)
    <2>1. IsSlice(data, first - 1, b, np + 8)
      BY <1>0, <1>1, <1>4
    <2>2. MAVLinkAt(data, m, first, b, p, np)
      BY <1>0, <1>1, <1>4, <2>1 DEF MAVLinkAt
    <2>3. Clear(data, MAVLINK_START, one, first)
      BY <1>0, <1>3
    <2> QED BY <1>2, <1>4, <2>2, <2>3 DEF ProcessesAt
  <1>6. ProcessesAt(data, m, second, second, from, c, q, nq)
    <2>1. IsSlice(data, second - 1, c, nq + 8)
      BY <1>0, <1>1, <1>4
    <2>2. MAVLinkAt(data, m, second, c, q, nq)
      BY <1>0, <1>1, <1>4, <2>1 DEF MAVLinkAt
    <2>3. Clear(data, MAVLINK_START, second, second)
      BY DEF Clear
    <2> QED BY <1>2, <1>4, <2>2, <2>3 DEF ProcessesAt
  <1>7. IsConcat(from[one], Packets(p), from[second])
    <2>1. IsConcat(from[one], Packets(p), from[first + np + 8])
      BY <1>4, <1>5, ProcessNext
    <2> QED BY <1>4, <2>1
  <1>8. IsConcat(from[second], Packets(q), from[last])
    <2>1. IsConcat(from[second], Packets(q), from[second + nq + 8])
      BY <1>4, <1>6, ProcessNext
    <2> QED BY <1>4, <2>1
  <1>9. from[last] = <<>>
    <2>1. FramesFrom(data, m, last) = {}
      BY <1>4 DEF FramesFrom
    <2>2. last \in NoFrame(data, m)
      BY <1>4, <2>1 DEF NoFrame
    <2> QED BY <1>2, <1>4, <2>2 DEF IsLoop
  <1>10. Packets(q) \in Seq(Seq(Byte))
    BY <1>0, PacketsOf
  <1>11. from[second] = Packets(q)
    BY <1>8, <1>9, <1>10, ConcatEmptySeq DEF IsConcat
  <1> QED BY <1>2, <1>3, <1>7, <1>11 DEF IsConcat

\* Two frames in a row, clear of starts before them, and the beginning of the first behind.
APIRow(data, m, a, la, b, lb, c, lc, d, ld, e, f, p, np, q, nq) ==
    /\ IsRow(data, m, a, la, b, lb, c, lc, d, ld) /\ ld \in {2, 6}
    /\ e \in Seq(Byte) /\ Len(e) = 12 /\ f \in Seq(Byte) /\ Len(f) = 12
    /\ p \in Seq(Byte) /\ np = Len(p) /\ IsAPI(b, e, 12, p, np) /\ lb = np + 16
    /\ q \in Seq(Byte) /\ nq = Len(q) /\ IsAPI(c, f, 12, q, nq) /\ lc = nq + 16
    /\ \A j \in 1 .. ld : d[j] = b[j]
    /\ Clear(data, DELIMITER, 1, la + 1)

\* What readLoop takes of two frames, when the beginning of another one comes behind: both
\* without their checksums.  Of the third it waits for the end.
LEMMA ReadRow ==
    ASSUME NEW data, NEW m \in Nat, NEW a, NEW la \in Nat, NEW b, NEW lb \in Nat, NEW c,
           NEW lc \in Nat, NEW d, NEW ld \in 0 .. 8, NEW e, NEW f,
           NEW p, NEW np \in 1 .. 33, NEW q, NEW nq \in 1 .. 33
    PROVE  APIRow(data, m, a, la, b, lb, c, lc, d, ld, e, f, p, np, q, nq)
           => IsConcat(ReadFrames(data), <<SubSeq(b, 1, np + 15)>>, <<SubSeq(c, 1, nq + 15)>>)
  <1>0. SUFFICES ASSUME IsRow(data, m, a, la, b, lb, c, lc, d, ld), ld \in {2, 6},
                        e \in Seq(Byte), Len(e) = 12, f \in Seq(Byte), Len(f) = 12,
                        p \in Seq(Byte), np = Len(p), IsAPI(b, e, 12, p, np), lb = np + 16,
                        q \in Seq(Byte), nq = Len(q), IsAPI(c, f, 12, q, nq), lc = nq + 16,
                        \A j \in 1 .. ld : d[j] = b[j],
                        Clear(data, DELIMITER, 1, la + 1)
                 PROVE  ReadFrames(data) = <<SubSeq(b, 1, np + 15)>> \o <<SubSeq(c, 1, nq + 15)>>
    BY DEF APIRow, IsConcat
  <1>1. /\ data \in Seq(Byte) /\ m = Len(data) /\ m = la + lb + lc + ld
        /\ IsSlice(data, la, b, lb) /\ IsSlice(data, la + lb, c, lc)
        /\ IsSlice(data, la + lb + lc, d, ld)
    BY <1>0 DEF IsRow
  <1>2. PICK from : /\ IsLoop(from, NoAPIFrame(data, m), TakenFrom(data, m), ReadOnFrom(data, m))
                    /\ ReadFrames(data) = from[1]
    BY <1>1, ReadLoop
  <1>3. PICK one, first, second, last \in Nat :
            one = 1 /\ first = la + 1 /\ second = la + lb + 1 /\ last = la + lb + lc + 1
    OBVIOUS
  <1>4. PICK k \in 0 .. 20, o \in 0 .. 33, r \in 0 .. 33 : k = 12 /\ o = np /\ r = nq
    OBVIOUS
  <1>5. /\ one \in Nat \ {0} /\ second \in Nat \ {0} /\ last \in Nat \ {0}
        /\ first - 1 = la /\ second - 1 = la + lb
        /\ first + k + o + 4 = second /\ second + k + r + 4 = last
        /\ first + k + o + 3 <= m /\ second + k + r + 3 <= m /\ one <= first /\ second <= second
        /\ k + o + 4 = lb /\ k + r + 4 = lc /\ k + o + 3 = np + 15 /\ k + r + 3 = nq + 15
        /\ m = la + lb + lc + ld /\ last + ld = m + 1
    <2>1. lb = np + 16 /\ lc = nq + 16
      BY <1>0
    <2>2. m = la + lb + lc + ld /\ ld \in Nat
      BY <1>1
    <2>3. np \in Nat /\ nq \in Nat
      OBVIOUS
    <2> HIDE <1>0, <1>1
    <2> QED BY <1>3, <1>4, <2>1, <2>2, <2>3
  <1>6. ReadsAt(data, m, one, first, from, b, e, k, p, o)
    <2>1. IsSlice(data, first - 1, b, k + o + 4)
      BY <1>1, <1>5
    <2>2. IsAPI(b, e, k, p, o) /\ k = Len(e) /\ o = Len(p)
      BY <1>0, <1>4
    <2>3. FrameAt(data, m, first, b, e, k, p, o)
      BY <1>0, <1>1, <1>5, <2>1, <2>2 DEF FrameAt
    <2>4. Clear(data, DELIMITER, one, first)
      BY <1>0, <1>3
    <2> QED BY <1>2, <1>5, <2>3, <2>4 DEF ReadsAt
  <1>7. ReadsAt(data, m, second, second, from, c, f, k, q, r)
    <2>1. IsSlice(data, second - 1, c, k + r + 4)
      BY <1>1, <1>5
    <2>2. IsAPI(c, f, k, q, r) /\ k = Len(f) /\ r = Len(q)
      BY <1>0, <1>4
    <2>3. FrameAt(data, m, second, c, f, k, q, r)
      BY <1>0, <1>1, <1>5, <2>1, <2>2 DEF FrameAt
    <2>4. Clear(data, DELIMITER, second, second)
      BY DEF Clear
    <2> QED BY <1>2, <1>5, <2>3, <2>4 DEF ReadsAt
  <1>8. IsConcat(from[one], <<SubSeq(b, 1, np + 15)>>, from[second])
    <2>1. IsConcat(from[one], <<SubSeq(b, 1, k + o + 3)>>, from[first + k + o + 4])
      BY <1>5, <1>6, ReadNext
    <2> QED BY <1>5, <2>1
  <1>9. IsConcat(from[second], <<SubSeq(c, 1, nq + 15)>>, from[last])
    <2>1. IsConcat(from[second], <<SubSeq(c, 1, k + r + 3)>>, from[second + k + r + 4])
      BY <1>5, <1>7, ReadNext
    <2> QED BY <1>5, <2>1
  <1>10. from[last] = <<>>
    <2>0. ld \in Nat /\ ld >= 1
      BY <1>0
    <2>1. PICK s \in Nat : s = la + lb + lc
      OBVIOUS
    <2>2. \A j \in 1 .. ld : data[s + j] = b[j]
      BY <1>0, <1>1, <2>1 DEF IsSlice
    <2>3. data[last] = DELIMITER
      <3>1. 1 \in 1 .. ld /\ s + 1 = last
        BY <1>3, <2>0, <2>1
      <3>2. b[1] = DELIMITER
        BY <1>0 DEF IsAPI
      <3> QED BY <2>2, <3>1, <3>2
    <2>4. StartsFrom(data, m, last) # {} /\ Min(StartsFrom(data, m, last)) = last
      <3>1. last \in last .. m
        BY <1>5, <2>0
      <3>2. last \in StartsFrom(data, m, last)
        BY <2>3, <3>1 DEF StartsFrom
      <3>3. \A j \in StartsFrom(data, m, last) : j \in Nat /\ last <= j
        BY <1>5 DEF StartsFrom
      <3>4. StartsFrom(data, m, last) \in SUBSET Nat
        BY <3>3
      <3>5. /\ Min(StartsFrom(data, m, last)) \in StartsFrom(data, m, last)
            /\ Min(StartsFrom(data, m, last)) <= last
        BY <3>2, <3>4, MinIs
      <3>6. last <= Min(StartsFrom(data, m, last)) /\ Min(StartsFrom(data, m, last)) \in Nat
        BY <3>3, <3>5
      <3> QED BY <3>2, <3>5, <3>6
    <2>5. APIEnd(data, m, last) > m
      <3>1. CASE ld = 2
        <4>1. last + 2 > m /\ m + 1 > m
          BY <1>5, <3>1
        <4> QED BY <4>1 DEF APIEnd
      <3>2. CASE ld = 6
        <4>1. ~ (last + 2 > m) /\ last + (256 * 0 + (12 + np)) + 3 > m
          BY <1>5, <3>2
        <4>2. 2 \in 1 .. ld /\ 3 \in 1 .. ld /\ s + 2 = last + 1 /\ s + 3 = last + 2
          BY <1>3, <2>1, <3>2
        <4>3. b[2] = 0 /\ b[3] = 12 + np
          BY <1>0 DEF IsAPI
        <4>4. data[last + 1] = 0 /\ data[last + 2] = 12 + np
          BY <2>2, <4>2, <4>3
        <4> QED BY <4>1, <4>4 DEF APIEnd
      <3> QED BY <1>0, <3>1, <3>2
    <2>6. last \in NoAPIFrame(data, m)
      BY <1>5, <2>4, <2>5 DEF NoAPIFrame
    <2> QED BY <1>2, <1>5, <2>6 DEF IsLoop
  <1>11. <<SubSeq(c, 1, nq + 15)>> \in Seq(Seq(Byte))
    <2>1. c \in Seq(Byte) /\ nq + 16 = Len(c)
      <3>1. 12 + nq + 4 = nq + 16
        OBVIOUS
      <3> QED BY <1>0, <3>1 DEF IsAPI
    <2>2. nq + 16 \in Nat /\ nq + 15 \in 0 .. nq + 16
      OBVIOUS
    <2>3. SubSeq(c, 1, nq + 15) \in Seq(Byte)
      BY <2>1, <2>2, Prefix
    <2> QED BY <2>3
  <1>12. from[second] = <<SubSeq(c, 1, nq + 15)>>
    BY <1>9, <1>10, <1>11, ConcatEmptySeq DEF IsConcat
  <1> QED BY <1>2, <1>3, <1>8, <1>12 DEF IsConcat

\* A part of a frame, that frame, another one and the beginning of the first, one behind
\* the other.
Disturbed(frame, cut, other) ==
    SubSeq(frame, cut, Len(frame)) \o frame \o other \o SubSeq(frame, 1, cut)

Disturbs(frame, n, other, k, cut, start) ==
    /\ frame \in Seq(Byte) /\ n = Len(frame) /\ n > 6
    /\ other \in Seq(Byte) /\ k = Len(other)
    /\ start \notin ToSet(SubSeq(frame, cut, Len(frame)))

RowOf(data, frame, n, other, k, cut, start) ==
    \E a, tail : \E m, la \in Nat :
        /\ IsRow(data, m, a, la, frame, n, other, k, tail, cut)
        /\ Clear(data, start, 1, la + 1)
        /\ \A j \in 1 .. cut : tail[j] = frame[j]

LEMMA DisturbedRow ==
    ASSUME NEW frame, NEW n \in Nat, NEW other, NEW k \in Nat, NEW cut \in {2, 6}, NEW start
    PROVE  Disturbs(frame, n, other, k, cut, start)
           => RowOf(Disturbed(frame, cut, other), frame, n, other, k, cut, start)
  <1>0. SUFFICES ASSUME frame \in Seq(Byte), n = Len(frame), n > 6,
                        other \in Seq(Byte), k = Len(other),
                        start \notin ToSet(SubSeq(frame, cut, Len(frame)))
                 PROVE  RowOf(Disturbed(frame, cut, other), frame, n, other, k, cut, start)
    BY DEF Disturbs
  <1>1. PICK a, tail, data : /\ a = SubSeq(frame, cut, n) /\ tail = SubSeq(frame, 1, cut)
                             /\ data = Disturbed(frame, cut, other)
    OBVIOUS
  <1>2. cut \in 0 .. n /\ cut \in Nat \ {0} /\ n \in Int /\ n <= n
    BY <1>0
  <1>3. /\ tail \in Seq(Byte) /\ cut = Len(tail)
        /\ \A j \in 1 .. cut : tail[j] = frame[j]
    BY <1>0, <1>1, <1>2, Prefix
  <1>4. a \in Seq(Byte)
    BY <1>0, <1>1, <1>2, SubSeqByte
  <1>5. PICK la \in Nat : la = Len(a)
    BY <1>4
  <1>6. PICK m \in Nat : m = la + n + k + cut
    BY <1>2
  <1>7. data = a \o frame \o other \o tail
    BY <1>0, <1>1 DEF Disturbed
  <1>8. IsRow(data, m, a, la, frame, n, other, k, tail, cut)
    BY <1>0, <1>2, <1>3, <1>4, <1>5, <1>6, <1>7, Row
  <1>9. IsSlice(data, 0, a, la)
    BY <1>8 DEF IsRow
  <1>10. Clear(data, start, 1, la + 1)
    BY <1>0, <1>1, <1>4, <1>5, <1>9, ClearBefore
  <1>11. RowOf(data, frame, n, other, k, cut, start)
    BY <1>3, <1>8, <1>10 DEF RowOf
  <1> QED BY <1>1, <1>11

\* processFrame finds the packets of both frames.
LEMMA MAVLinkRecovered ==
    ASSUME NEW first, NEW second, NEW cut \in {2, 6}
    PROVE  /\ first \in Seq(Byte) /\ Len(first) \in 5 .. 33
           /\ second \in Seq(Byte) /\ Len(second) \in 5 .. 33
           /\ MAVLINK_START \notin
                ToSet(SubSeq(MAVLinkFrame(first), cut, Len(MAVLinkFrame(first))))
           => ProcessFrame(Disturbed(MAVLinkFrame(first), cut, MAVLinkFrame(second)))
                = Packets(first) \o Packets(second)
  <1>0. SUFFICES ASSUME first \in Seq(Byte), Len(first) \in 5 .. 33,
                        second \in Seq(Byte), Len(second) \in 5 .. 33,
                        MAVLINK_START \notin
                            ToSet(SubSeq(MAVLinkFrame(first), cut, Len(MAVLinkFrame(first))))
                 PROVE  ProcessFrame(Disturbed(MAVLinkFrame(first), cut, MAVLinkFrame(second)))
                            = Packets(first) \o Packets(second)
    OBVIOUS
  <1>1. PICK frame, other : frame = MAVLinkFrame(first) /\ other = MAVLinkFrame(second)
    OBVIOUS
  <1>2. PICK np, nq \in 1 .. 33 : np = Len(first) /\ nq = Len(second)
    BY <1>0
  <1>3. PICK n, k \in Nat : n = np + 8 /\ k = nq + 8 /\ n > 6
    OBVIOUS
  <1>4. IsMAVLink(frame, first, np) /\ IsMAVLink(other, second, nq)
    <2>1. np \in 0 .. 33 /\ nq \in 0 .. 33
      OBVIOUS
    <2>2. IsMAVLink(MAVLinkFrame(first), first, np)
      BY <1>0, <1>2, <2>1, MAVLinkLayout
    <2>3. IsMAVLink(MAVLinkFrame(second), second, nq)
      BY <1>0, <1>2, <2>1, MAVLinkLayout
    <2> QED BY <1>1, <2>2, <2>3
  <1>5. frame \in Seq(Byte) /\ n = Len(frame) /\ other \in Seq(Byte) /\ k = Len(other)
    BY <1>3, <1>4 DEF IsMAVLink
  <1>6. PICK data : data = Disturbed(frame, cut, other)
    OBVIOUS
  <1>7. PICK a, tail, m, la : /\ m \in Nat /\ la \in Nat
                              /\ IsRow(data, m, a, la, frame, n, other, k, tail, cut)
                              /\ Clear(data, MAVLINK_START, 1, la + 1)
    <2>1. MAVLINK_START \notin ToSet(SubSeq(frame, cut, Len(frame)))
      BY <1>0, <1>1
    <2>2. Disturbs(frame, n, other, k, cut, MAVLINK_START)
      BY <1>3, <1>5, <2>1 DEF Disturbs
    <2>3. RowOf(data, frame, n, other, k, cut, MAVLINK_START)
      BY <1>3, <1>6, <2>2, DisturbedRow
    <2> QED BY <2>3 DEF RowOf
  <1>8. cut \in 0 .. 8
    OBVIOUS
  <1>9. ProcessFrame(data) = Packets(first) \o Packets(second)
    <2>1. MAVLinkRow(data, m, a, la, frame, n, other, k, tail, cut, first, np, second, nq)
      BY <1>0, <1>2, <1>3, <1>4, <1>7 DEF MAVLinkRow
    <2>2. m \in Nat /\ la \in Nat
      BY <1>7
    <2>3. IsConcat(ProcessFrame(data), Packets(first), Packets(second))
      BY <1>2, <1>3, <1>8, <2>1, <2>2, ProcessRow
    <2> QED BY <2>3 DEF IsConcat
  <1> QED BY <1>1, <1>6, <1>9

LEMMA InARow ==
    ASSUME NEW S, NEW x \in S, NEW y \in S
    PROVE  <<x>> \o <<y>> = <<x, y>>
  <1>1. PICK s, t, u : s = <<x>> /\ t = <<y>> /\ u = s \o t
    OBVIOUS
  <1>2. s \in Seq(S) /\ Len(s) = 1 /\ s[1] = x /\ t \in Seq(S) /\ Len(t) = 1 /\ t[1] = y
    BY <1>1
  <1>3. u \in Seq(S) /\ Len(u) = 2 /\ u[1] = x /\ u[2] = y
    BY <1>1, <1>2, ConcatProperties
  <1>4. u = <<x, y>>
    BY <1>3
  <1> QED BY <1>1, <1>4

\* The frame in which the modem hands over that packet.
HandedOver(frame, packet, options) == frame = Received(TransmitRequest(packet), options)

Delimits(frame, cut, other) ==
    ReadFrames(Disturbed(frame, cut, other)) = <<Front(frame), Front(other)>>

\* readLoop finds both frames.
LEMMA APIDelimited ==
    ASSUME NEW first, NEW second, NEW frame, NEW other, NEW options \in Byte, NEW cut \in {2, 6}
    PROVE  /\ first \in Seq(Byte) /\ Len(first) \in 5 .. 33
           /\ second \in Seq(Byte) /\ Len(second) \in 5 .. 33
           /\ HandedOver(frame, first, options) /\ HandedOver(other, second, options)
           /\ DELIMITER \notin ToSet(SubSeq(frame, cut, Len(frame)))
           => Delimits(frame, cut, other)
  <1>0. SUFFICES ASSUME first \in Seq(Byte), Len(first) \in 5 .. 33,
                        second \in Seq(Byte), Len(second) \in 5 .. 33,
                        frame = Received(TransmitRequest(first), options),
                        other = Received(TransmitRequest(second), options),
                        DELIMITER \notin ToSet(SubSeq(frame, cut, Len(frame)))
                 PROVE  ReadFrames(Disturbed(frame, cut, other)) = <<Front(frame), Front(other)>>
    BY DEF HandedOver, Delimits
  <1>1. PICK np, nq \in 1 .. 33 : np = Len(first) /\ nq = Len(second)
    BY <1>0
  <1>2. PICK n, k \in Nat : n = np + 16 /\ k = nq + 16 /\ n > 6
    OBVIOUS
  <1>3. np \in 0 .. 33 /\ nq \in 0 .. 33
    OBVIOUS
  <1>4. PICK e \in Seq(Byte) : Len(e) = 12 /\ IsAPI(frame, e, 12, first, np)
    BY <1>0, <1>1, <1>3, ReceivedLayout
  <1>5. PICK f \in Seq(Byte) : Len(f) = 12 /\ IsAPI(other, f, 12, second, nq)
    BY <1>0, <1>1, <1>3, ReceivedLayout
  <1>6. frame \in Seq(Byte) /\ n = Len(frame) /\ other \in Seq(Byte) /\ k = Len(other)
    <2>1. 12 + np + 4 = n /\ 12 + nq + 4 = k
      BY <1>2
    <2> QED BY <1>4, <1>5, <2>1 DEF IsAPI
  <1>7. PICK data : data = Disturbed(frame, cut, other)
    OBVIOUS
  <1>8. PICK a, tail, m, la : /\ m \in Nat /\ la \in Nat
                              /\ IsRow(data, m, a, la, frame, n, other, k, tail, cut)
                              /\ Clear(data, DELIMITER, 1, la + 1)
                              /\ \A j \in 1 .. cut : tail[j] = frame[j]
    <2>1. Disturbs(frame, n, other, k, cut, DELIMITER)
      BY <1>0, <1>2, <1>6 DEF Disturbs
    <2>2. RowOf(data, frame, n, other, k, cut, DELIMITER)
      BY <1>2, <1>7, <2>1, DisturbedRow
    <2> QED BY <2>2 DEF RowOf
  <1>9. ReadFrames(data) = <<SubSeq(frame, 1, np + 15)>> \o <<SubSeq(other, 1, nq + 15)>>
    <2>1. APIRow(data, m, a, la, frame, n, other, k, tail, cut, e, f, first, np, second, nq)
      BY <1>0, <1>1, <1>2, <1>4, <1>5, <1>8 DEF APIRow
    <2>2. m \in Nat /\ la \in Nat /\ cut \in 0 .. 8
      BY <1>8
    <2>3. IsConcat(ReadFrames(data), <<SubSeq(frame, 1, np + 15)>>, <<SubSeq(other, 1, nq + 15)>>)
      BY <1>1, <1>2, <2>1, <2>2, ReadRow
    <2> QED BY <2>3 DEF IsConcat
  <1>10. Front(frame) = SubSeq(frame, 1, np + 15) /\ Front(other) = SubSeq(other, 1, nq + 15)
    <2>1. n - 1 = np + 15 /\ k - 1 = nq + 15
      BY <1>2
    <2> QED BY <1>6, <2>1 DEF Front
  <1>11. SubSeq(frame, 1, np + 15) \in Seq(Byte) /\ SubSeq(other, 1, nq + 15) \in Seq(Byte)
    <2>1. np + 15 \in 0 .. n /\ nq + 15 \in 0 .. k
      BY <1>2
    <2> QED BY <1>6, <2>1, Prefix
  <1> QED BY <1>7, <1>9, <1>10, <1>11, InARow

-----------------------------------------------------------------------------
(* What is sent, and what the link and the receivers make of it.           *)

\* What assemble makes of content, if it does not throw.
LEMMA Assembled ==
    ASSUME NEW payload \in Seq(Byte), NEW packet
    PROVE  packet \in Assemble(payload) =>
               /\ packet \in Seq(Byte) /\ Len(packet) \in 5 .. 33
               /\ Disassemble(packet) = {payload}
               /\ Packets(packet) = <<payload>>
  <1>0. SUFFICES ASSUME packet \in Assemble(payload)
                 PROVE  /\ packet \in Seq(Byte) /\ Len(packet) \in 5 .. 33
                        /\ Disassemble(packet) = {payload}
                        /\ Packets(packet) = <<payload>>
    OBVIOUS
  <1>1. Len(payload) <= MAX_PAYLOAD_LENGTH
    BY <1>0 DEF Assemble
  <1>2. PICK p \in Seq(Byte) : /\ Assemble(payload) = {p}
                               /\ Len(p) = Len(payload) + 5
                               /\ Disassemble(p) = {payload}
    BY <1>1, PacketRoundTrip
  <1>3. p = packet
    BY <1>0, <1>2
  <1>4. Len(packet) \in 5 .. 33
    <2>1. PICK n \in Nat : n = Len(payload)
      OBVIOUS
    <2>2. n <= 28
      BY <1>1, <2>1 DEF MAX_PAYLOAD_LENGTH
    <2>3. n + 5 \in 5 .. 33
      BY <2>2
    <2> QED BY <1>2, <1>3, <2>1, <2>3
  <1>5. Packets(packet) = <<payload>>
    BY <1>2, <1>3, PacketsOf
  <1> QED BY <1>2, <1>3, <1>4, <1>5

LEMMA FrameType ==
    ASSUME NEW payload \in Seq(Byte), NEW frame
    PROVE  frame \in Frame(payload) => frame.encoded \in Seq(Byte)
  <1>0. SUFFICES ASSUME frame \in Frame(payload) PROVE frame.encoded \in Seq(Byte)
    OBVIOUS
  <1>1. PICK packet \in Assemble(payload) :
            frame \in COBSEncode(Append(packet, CalculateCRC8(payload)))
    BY <1>0 DEF Frame
  <1>2. packet \in Seq(Byte) /\ Len(packet) \in 5 .. 33
    BY <1>1, Assembled
  <1>3. CalculateCRC8(payload) \in Byte
    BY CRC8Byte
  <1>4. PICK input : input = Append(packet, CalculateCRC8(payload))
    OBVIOUS
  <1>5. input \in Seq(Byte) /\ Len(input) <= Longest
    <2>1. input \in Seq(Byte) /\ Len(input) = Len(packet) + 1
      BY <1>2, <1>3, <1>4, AppendProperties
    <2>2. \A l \in 5 .. 33 : l + 1 <= Longest
      BY DEF Longest, START_BYTE
    <2> QED BY <1>2, <2>1, <2>2
  <1>6. PICK r : COBSEncode(input) = {r} /\ r.encoded \in Seq(Byte \ {START_BYTE})
    BY <1>5, COBSRoundTrip
  <1>7. r.encoded \in Seq(Byte)
    BY <1>6
  <1> QED BY <1>1, <1>4, <1>6, <1>7

LEMMA OnDataReceivedType ==
    ASSUME NEW data \in Seq(Byte)
    PROVE  OnDataReceived(data) \subseteq Seq(Byte)
  <1>1. ASSUME NEW decoded \in COBSDecode(data, 0), decoded # <<>>
        PROVE  Disassemble(Front(decoded)) \subseteq Seq(Byte)
    <2>1. decoded \in Seq(Byte)
      BY <1>1, COBSDecodeType DEF AtMostOne
    <2>2. PICK n \in Nat : n = Len(decoded)
      BY <2>1
    <2>3. Front(decoded) \in Seq(Byte)
      <3>1. 1 \in Nat \ {0} /\ n - 1 \in Int /\ n - 1 <= n
        OBVIOUS
      <3>2. SubSeq(decoded, 1, n - 1) \in Seq(Byte)
        BY <2>1, <2>2, <3>1, SubSeqByte
      <3> QED BY <2>2, <3>2 DEF Front
    <2>4. Disassemble(Front(decoded)) \in AtMostOne(Seq(Byte))
      BY <2>3, DisassembleType
    <2> QED BY <2>4 DEF AtMostOne
  <1> QED BY <1>1 DEF OnDataReceived

LEMMA InvertedType ==
    ASSUME NEW data \in Seq(Byte), NEW i \in 1 .. Len(data), NEW weight \in Weight
    PROVE  [data EXCEPT ![i] = Xor[@][weight]] \in Seq(Byte)
  <1>1. weight \in Byte /\ data[i] \in Byte
    <2>1. \A w \in Weight : w \in Byte
      BY DEF Weight, Byte
    <2> QED BY <2>1
  <1>2. PICK byte \in Byte : byte = Xor[data[i]][weight]
    BY <1>1, XorByte
  <1>3. [data EXCEPT ![i] = byte] \in Seq(Byte)
    BY ExceptSeq
  <1> QED BY <1>2, <1>3

LEMMA ShortenedType ==
    ASSUME NEW data \in Seq(Byte), NEW i \in 1 .. Len(data)
    PROVE  RemoveAt(data, i) \in Seq(Byte)
  <1>1. PICK n, k \in Nat : n = Len(data) /\ k = i /\ k >= 1 /\ k <= n
    OBVIOUS
  <1>2. SubSeq(data, 1, k - 1) \in Seq(Byte)
    <2>1. 1 \in Nat \ {0} /\ k - 1 \in Int /\ k - 1 <= n
      BY <1>1
    <2> QED BY <1>1, <2>1, SubSeqByte
  <1>3. SubSeq(data, k + 1, n) \in Seq(Byte)
    <2>1. k + 1 \in Nat \ {0} /\ n \in Int /\ n <= n
      OBVIOUS
    <2> QED BY <1>1, <2>1, SubSeqByte
  <1>4. SubSeq(data, 1, k - 1) \o SubSeq(data, k + 1, n) \in Seq(Byte)
    BY <1>2, <1>3, JoinedBytes
  <1> QED BY <1>1, <1>4 DEF RemoveAt

LEMMA ContentsType == Contents \subseteq Seq(Byte)
  <1>1. \A c \in Command : EncodeCommand(c) \subseteq Seq(Byte)
    BY CommandAssumption, CommandRoundTrip DEF CommandType
  <1>2. \A t \in Telemetry : EncodeTelemetry(t) \in Seq(Byte)
    <2>1. Telemetry \subseteq TelemetryType
      BY TelemetryAssumption DEF TelemetryType, IsWord
    <2> QED BY <2>1, TelemetryRoundTrip
  <1>3. ASSUME NEW x \in Contents PROVE x \in Seq(Byte)
    <2>1. \/ x \in Payload
          \/ \E c \in Command : x \in EncodeCommand(c)
          \/ \E t \in Telemetry : x = EncodeTelemetry(t)
      BY DEF Contents
    <2>2. x \in Payload => x \in Seq(Byte)
      BY PayloadAssumption
    <2> QED BY <1>1, <1>2, <2>1, <2>2
  <1> QED BY <1>3

-----------------------------------------------------------------------------
(* The invariants.                                                         *)

\* The ways a packet goes by itself or through an RFD900.
Plain == {"packet", "rfd900"}

\* What the receiver of such a way makes of the bytes on the link.
Found(by, bytes) ==
    CASE by = "packet" -> Disassemble(bytes)
      [] by = "rfd900" -> ToSet(ProcessFrame(bytes))

\* While nothing has altered them, the receiver would find the payload in the bytes that
\* are under way, and it has found it in those that have arrived.
Undisturbed ==
    damage = 0 /\ route \in Plain =>
        /\ phase = "sent" => Found(route, wire) = {content}
        /\ phase = "received" => result = {content}

NothingSent == phase = "idle" => damage = 0

LinkInv == TypeOK /\ NothingSent /\ Undisturbed

LEMMA InitLinkInv == Init => LinkInv
  <1> SUFFICES ASSUME Init PROVE LinkInv
    OBVIOUS
  <1>1. <<>> \in Seq(Byte)
    BY EmptySeq
  <1> QED BY <1>1 DEF Init, LinkInv, TypeOK, NothingSent, Undisturbed, Route

\* What is sent by a way is bytes, and what the receiver of that way finds in them.
LEMMA SendKeeps ==
    ASSUME LinkInv, NEW by \in Route, NEW what \in Seq(Byte), Send(by, what), wire' \in Seq(Byte),
           by \in Plain => Found(by, wire') = {what}
    PROVE  LinkInv'
  <1> USE DEF Send
  <1>1. TypeOK'
    BY DEF LinkInv, TypeOK
  <1>2. NothingSent'
    BY DEF NothingSent
  <1>3. Undisturbed'
    BY DEF Undisturbed
  <1> QED BY <1>1, <1>2, <1>3 DEF LinkInv

LEMMA SingletonSet == \A x : ToSet(<<x>>) = {x}
  BY DEF ToSet

LEMMA SendPlainKeeps ==
    ASSUME LinkInv, NEW payload \in Contents,
           SendPacket(payload) \/ SendRFD900(payload) \/ SendXBee(payload)
    PROVE  LinkInv'
  <1>1. payload \in Seq(Byte)
    BY ContentsType
  <1>2. PICK packet \in Assemble(payload) :
            \/ Send("packet", payload) /\ wire' = packet
            \/ Send("rfd900", payload) /\ wire' = MAVLinkFrame(packet)
            \/ Send("xbee", payload) /\ \E options \in Options :
                  wire' \in {Received(TransmitRequest(packet), options),
                            Escaped(Received(TransmitRequest(packet), options))}
    BY DEF SendPacket, SendRFD900, SendXBee
  <1>3. /\ packet \in Seq(Byte)
        /\ Disassemble(packet) = {payload}
        /\ Packets(packet) = <<payload>>
    BY <1>1, Assembled
  <1>4. PICK n \in 1 .. 33 : n = Len(packet)
    <2>1. Len(packet) \in 5 .. 33
      BY <1>1, Assembled
    <2> QED BY <2>1
  <1>5. "packet" \in Route /\ "rfd900" \in Route /\ "xbee" \in Route
    BY DEF Route
  <1>6. CASE Send("packet", payload) /\ wire' = packet
    <2>1. Found("packet", wire') = {payload}
      BY <1>3, <1>6 DEF Found
    <2> QED BY <1>1, <1>3, <1>5, <1>6, <2>1, SendKeeps
  <1>7. CASE Send("rfd900", payload) /\ wire' = MAVLinkFrame(packet)
    <2>1. wire' \in Seq(Byte) /\ ProcessFrame(wire') = <<payload>>
      BY <1>3, <1>4, <1>7, FrameProcessed
    <2>2. Found("rfd900", wire') = {payload}
      BY <2>1, SingletonSet DEF Found
    <2> QED BY <1>1, <1>5, <1>7, <2>1, <2>2, SendKeeps
  <1>8. ASSUME Send("xbee", payload), NEW options \in Options,
               wire' \in {Received(TransmitRequest(packet), options),
                          Escaped(Received(TransmitRequest(packet), options))}
        PROVE  LinkInv'
    <2>1. Received(TransmitRequest(packet), options) \in Seq(Byte)
      <3>1. n \in 0 .. 33 /\ options \in Byte
        BY OptionsAssumption
      <3> QED BY <1>3, <1>4, <3>1, ReceivedLayout DEF IsAPI
    <2>2. wire' \in Seq(Byte)
      BY <1>8, <2>1, EscapedType
    <2>3. "xbee" \notin Plain
      BY DEF Plain
    <2> QED BY <1>1, <1>5, <1>8, <2>2, <2>3, SendKeeps
  <1> QED BY <1>2, <1>6, <1>7, <1>8

LEMMA SendAVCKeeps ==
    ASSUME LinkInv, NEW encoded \in Seq(Byte), NEW by \in {"avc", "resend"}, Send(by, encoded),
           wire' \in Seq(Byte)
    PROVE  LinkInv'
  <1>1. by \in Route /\ by \notin Plain
    BY DEF Route, Plain
  <1> QED BY <1>1, SendKeeps

LEMMA SendCommandKeeps ==
    ASSUME LinkInv, NEW c \in Command, SendCommand(c) \/ ResendCommand(c)
    PROVE  LinkInv'
  <1>1. EncodeCommand(c) \subseteq Seq(Byte)
    BY CommandAssumption, CommandRoundTrip DEF CommandType
  <1>2. CASE SendCommand(c)
    <2>1. PICK encoded, frame : /\ encoded \in EncodeCommand(c) /\ frame \in Frame(encoded)
                                /\ Send("avc", encoded) /\ wire' = frame.encoded
      BY <1>2 DEF SendCommand
    <2>2. encoded \in Seq(Byte)
      BY <1>1, <2>1
    <2>3. wire' \in Seq(Byte)
      BY <2>1, <2>2, FrameType
    <2> QED BY <2>1, <2>2, <2>3, SendAVCKeeps
  <1>3. CASE ResendCommand(c)
    <2>1. PICK encoded \in EncodeCommand(c) : Send("resend", encoded) /\ wire' = encoded
      BY <1>3 DEF ResendCommand
    <2>2. encoded \in Seq(Byte)
      BY <1>1
    <2> QED BY <2>1, <2>2, SendAVCKeeps
  <1> QED BY <1>2, <1>3

LEMMA SendTelemetryKeeps ==
    ASSUME LinkInv, NEW t \in Telemetry, SendTelemetry(t)
    PROVE  LinkInv'
  <1>1. EncodeTelemetry(t) \in Seq(Byte)
    <2>1. t \in TelemetryType
      BY TelemetryAssumption DEF TelemetryType, IsWord
    <2> QED BY <2>1, TelemetryRoundTrip
  <1>2. PICK frame : frame \in Frame(EncodeTelemetry(t)) /\ Send("avc", EncodeTelemetry(t))
                     /\ wire' = frame.encoded
    BY DEF SendTelemetry
  <1>3. wire' \in Seq(Byte)
    BY <1>1, <1>2, FrameType
  <1> QED BY <1>1, <1>2, <1>3, SendAVCKeeps

LEMMA AlterKeeps ==
    ASSUME LinkInv, NEW bytes \in Seq(Byte), Alter(bytes)
    PROVE  LinkInv'
  <1> USE DEF Alter
  <1>1. damage \in Nat
    BY DEF LinkInv, TypeOK
  <1>2. damage' \in Nat /\ damage' # 0
    BY <1>1
  <1>3. TypeOK'
    BY <1>2 DEF LinkInv, TypeOK
  <1>4. NothingSent' /\ Undisturbed'
    BY <1>2 DEF NothingSent, Undisturbed
  <1> QED BY <1>3, <1>4 DEF LinkInv

LEMMA ReceiveKeeps ==
    ASSUME LinkInv, NEW by, NEW value \in SUBSET Seq(Byte), Receive(by, value),
           by \in Plain => value = Found(by, wire)
    PROVE  LinkInv'
  <1> USE DEF Receive
  <1>1. TypeOK'
    BY DEF LinkInv, TypeOK
  <1>2. NothingSent'
    BY DEF NothingSent
  <1>3. Undisturbed'
    BY DEF LinkInv, Undisturbed
  <1> QED BY <1>1, <1>2, <1>3 DEF LinkInv

LEMMA PayloadsFound ==
    ASSUME NEW found \in Seq(Seq(Byte))
    PROVE  ToSet(found) \in SUBSET Seq(Byte)
  BY DEF ToSet

LEMMA NextLinkInv == LinkInv /\ [Next]_vars => LinkInv'
  <1> SUFFICES ASSUME LinkInv, [Next]_vars PROVE LinkInv'
    OBVIOUS
  <1>0. wire \in Seq(Byte)
    BY DEF LinkInv, TypeOK
  <1>1. ASSUME NEW payload \in Contents,
               SendPacket(payload) \/ SendRFD900(payload) \/ SendXBee(payload)
        PROVE  LinkInv'
    BY <1>1, SendPlainKeeps
  <1>2. ASSUME NEW c \in Command, SendCommand(c) \/ ResendCommand(c)
        PROVE  LinkInv'
    BY <1>2, SendCommandKeeps
  <1>3. ASSUME NEW t \in Telemetry, SendTelemetry(t)
        PROVE  LinkInv'
    BY <1>3, SendTelemetryKeeps
  <1>4. ASSUME NEW i \in 1 .. Len(wire), LoseByte(i)
        PROVE  LinkInv'
    BY <1>0, <1>4, ShortenedType, AlterKeeps DEF LoseByte
  <1>5. ASSUME NEW i \in 1 .. Len(wire), NEW weight \in Weight, InvertBit(i, weight)
        PROVE  LinkInv'
    BY <1>0, <1>5, InvertedType, AlterKeeps DEF InvertBit
  <1>6. CASE ReceivePacket
    <2>1. Disassemble(wire) \in SUBSET Seq(Byte)
      BY <1>0, DisassembleType DEF AtMostOne
    <2>2. Found("packet", wire) = Disassemble(wire)
      BY DEF Found
    <2> QED BY <1>6, <2>1, <2>2, ReceiveKeeps DEF ReceivePacket
  <1>7. CASE ReceiveRFD900
    <2>1. ToSet(ProcessFrame(wire)) \in SUBSET Seq(Byte)
      BY <1>0, ProcessFrameType, PayloadsFound
    <2>2. Found("rfd900", wire) = ToSet(ProcessFrame(wire))
      BY DEF Found
    <2> QED BY <1>7, <2>1, <2>2, ReceiveKeeps DEF ReceiveRFD900
  <1>8. CASE ReceiveXBee
    <2>1. PacketsRead(wire) \in SUBSET Seq(Byte)
      BY <1>0, PacketsReadType
    <2>2. "xbee" \notin Plain
      BY DEF Plain
    <2> QED BY <1>8, <2>1, <2>2, ReceiveKeeps DEF ReceiveXBee
  <1>9. CASE ReceiveData
    <2>1. OnDataReceived(wire) \in SUBSET Seq(Byte)
      BY <1>0, OnDataReceivedType
    <2>2. "avc" \notin Plain /\ "resend" \notin Plain
      BY DEF Plain
    <2> QED BY <1>9, <2>1, <2>2, ReceiveKeeps DEF ReceiveData
  <1>10. CASE UNCHANGED vars
    BY <1>10 DEF vars, LinkInv, TypeOK, NothingSent, Undisturbed
  <1> QED BY <1>1, <1>2, <1>3, <1>4, <1>5, <1>6, <1>7, <1>8, <1>9, <1>10 DEF Next, Finished

LEMMA LinkInvHolds == Spec => []LinkInv
  <1> QED BY InitLinkInv, NextLinkInv, PTL DEF Spec

\* What is under way, what has arrived and what the receivers make of it are bytes,
\* whatever the link does to them on the way.
THEOREM LinkTypeCorrect == Spec => []TypeOK
  <1>1. LinkInv => TypeOK
    BY DEF LinkInv
  <1> QED BY <1>1, LinkInvHolds, PTL

\* Every payload that a packet can carry arrives unchanged over an undisturbed link, by
\* itself and in the frame of an RFD900.
THEOREM PacketsDelivered == Spec => []PacketsArrive
  <1>1. LinkInv => PacketsArrive
    BY DEF LinkInv, Undisturbed, PacketsArrive, Plain
  <1> QED BY <1>1, LinkInvHolds, PTL

\* assemble never throws for a payload that is not too long, and in the packet only the
\* first byte, and by chance the checksum, is a start byte.
THEOREM StuffingSucceeds == Spec => []StuffingNeverFails
  <1>1. StuffingNeverFails
    <2> SUFFICES ASSUME NEW payload \in Contents, Len(payload) <= MAX_PAYLOAD_LENGTH
                 PROVE  \E packet \in Assemble(payload) :
                            \A i \in 1 .. Len(packet) - 1 : packet[i] = START_BYTE <=> i = 1
      BY DEF StuffingNeverFails
    <2>1. payload \in Seq(Byte)
      BY ContentsType
    <2>2. PICK packet : /\ Assemble(payload) = {packet}
                        /\ \A i \in 1 .. Len(packet) - 1 : packet[i] = START_BYTE <=> i = 1
      BY <2>1, PacketRoundTrip
    <2> QED BY <2>2
  <1> QED BY <1>1, PTL

\* A command that comes out of a packet is the one that went in, and goes to the handler
\* of commands.
THEOREM CommandsDelivered == Spec => []CommandsSurvive
  <1>1. LinkInv => CommandsSurvive
    <2> SUFFICES ASSUME LinkInv, NEW c \in Command, phase = "received", route = "packet",
                        damage = 0, content \in EncodeCommand(c)
                 PROVE  \E data \in result : HandleIncomingPacket(data) = {<<"command", c>>}
      BY DEF CommandsSurvive
    <2>1. result = {content}
      BY DEF LinkInv, Undisturbed, Plain
    <2>2. HandleIncomingPacket(content) = {<<"command", c>>}
      BY CommandAssumption, CommandRoundTrip DEF CommandType
    <2> QED BY <2>1, <2>2
  <1> QED BY <1>1, LinkInvHolds, PTL

\* Telemetry too, every field with its sign and in its place.
THEOREM TelemetryDelivered == Spec => []TelemetrySurvives
  <1>1. LinkInv => TelemetrySurvives
    <2> SUFFICES ASSUME LinkInv, NEW t \in Telemetry, phase = "received", route = "packet",
                        damage = 0, content = EncodeTelemetry(t)
                 PROVE  \E data \in result : HandleIncomingPacket(data) = {<<"telemetry", t>>}
      BY DEF TelemetrySurvives
    <2>1. result = {content}
      BY DEF LinkInv, Undisturbed, Plain
    <2>2. t \in TelemetryType
      BY TelemetryAssumption DEF TelemetryType, IsWord
    <2>3. HandleIncomingPacket(content) = {<<"telemetry", t>>}
      BY <2>2, TelemetryRoundTrip
    <2> QED BY <2>1, <2>3
  <1> QED BY <1>1, LinkInvHolds, PTL

\* MAVLink frames in a row are found and in their order, a part of one before them and the
\* beginning of one behind them notwithstanding.
THEOREM FramesFound == Spec => []FramesRecovered
  <1>1. ASSUME NEW p \in Contents, NEW q \in {EncodeTelemetry(t) : t \in Telemetry},
               NEW cut \in {2, 6}, NEW first \in Assemble(p), NEW second \in Assemble(q)
        PROVE  MAVLINK_START \notin
                      ToSet(SubSeq(MAVLinkFrame(first), cut, Len(MAVLinkFrame(first))))
                  => ProcessFrame(Disturbed(MAVLinkFrame(first), cut, MAVLinkFrame(second)))
                        = <<p, q>>
    <2>1. p \in Seq(Byte) /\ q \in Seq(Byte)
      BY ContentsType DEF Contents
    <2>2. /\ first \in Seq(Byte) /\ Len(first) \in 5 .. 33 /\ Packets(first) = <<p>>
          /\ second \in Seq(Byte) /\ Len(second) \in 5 .. 33 /\ Packets(second) = <<q>>
      BY <2>1, Assembled
    <2>3. Packets(first) \o Packets(second) = <<p, q>>
      BY <2>1, <2>2, InARow
    <2> QED BY <2>2, <2>3, MAVLinkRecovered
  <1>2. FramesRecovered
    <2> SUFFICES ASSUME NEW p \in Contents, NEW q \in {EncodeTelemetry(t) : t \in Telemetry},
                        NEW cut \in {2, 6}, NEW first \in Assemble(p), NEW second \in Assemble(q),
                        NEW data \in Rows(MAVLINK_START, cut, MAVLinkFrame(first),
                                          MAVLinkFrame(second))
                 PROVE  ProcessFrame(data) = <<p, q>>
      BY DEF FramesRecovered
    <2>1. /\ MAVLINK_START \notin
                    ToSet(SubSeq(MAVLinkFrame(first), cut, Len(MAVLinkFrame(first))))
          /\ data = Disturbed(MAVLinkFrame(first), cut, MAVLinkFrame(second))
      BY DEF Rows, Disturbed
    <2> QED BY <1>1, <2>1
  <1> QED BY <1>2, PTL

\* API frames in a row, laid out as XBeePro900HP.cpp:245 says and not escaped, are handed to
\* processFrame whole and in their order, whatever their packets and options are.
THEOREM FramesRead == Spec => []FramesDelimited
  <1>1. FramesDelimited
    <2> SUFFICES ASSUME NEW p \in Contents, NEW q \in {EncodeTelemetry(t) : t \in Telemetry},
                        NEW cut \in {2, 6}, NEW options \in Options,
                        NEW first \in Assemble(p), NEW second \in Assemble(q),
                        NEW frame, HandedOver(frame, first, options),
                        NEW other, HandedOver(other, second, options),
                        NEW data \in Rows(DELIMITER, cut, frame, other)
                 PROVE  ReadFrames(data) = <<Front(frame), Front(other)>>
      BY DEF FramesDelimited, HandedOver
    <2>1. /\ DELIMITER \notin ToSet(SubSeq(frame, cut, Len(frame)))
          /\ data = Disturbed(frame, cut, other)
      BY DEF Rows, Disturbed
    <2>2. p \in Seq(Byte) /\ q \in Seq(Byte) /\ options \in Byte
      BY ContentsType, OptionsAssumption DEF Contents
    <2>3. /\ first \in Seq(Byte) /\ Len(first) \in 5 .. 33
          /\ second \in Seq(Byte) /\ Len(second) \in 5 .. 33
      BY <2>2, Assembled
    <2>4. Delimits(frame, cut, other)
      BY <2>1, <2>2, <2>3, APIDelimited, Zenon
    <2> QED BY <2>1, <2>4 DEF Delimits
  <1> QED BY <1>1, PTL

-----------------------------------------------------------------------------
(* A packet that the link has altered once.                                *)

\* What is under way is the packet itself until the link alters it; altered once, it is
\* one that disassemble rejects, and so is what has arrived.
Rejected ==
    route = "packet" =>
        /\ phase = "sent" /\ damage = 0 => wire \in Assemble(content)
        /\ phase = "sent" /\ damage = 1 => Disassemble(wire) = {}
        /\ phase = "received" /\ damage = 1 => result = {}

LEMMA SendRejected ==
    ASSUME NothingSent, NEW by, NEW what, Send(by, what), by = "packet" => wire' \in Assemble(what)
    PROVE  Rejected'
  <1>1. damage' = 0 /\ phase' = "sent" /\ route' = by /\ content' = what
    BY DEF NothingSent, Send
  <1> QED BY <1>1 DEF Rejected

LEMMA AlterRejected ==
    ASSUME LinkInv, Rejected, NEW bytes, Alter(bytes),
           ASSUME wire \in Assemble(content) PROVE Disassemble(bytes) = {}
    PROVE  Rejected'
  <1>1. /\ phase = "sent" /\ phase' = "sent" /\ wire' = bytes
        /\ damage \in Nat /\ damage' = damage + 1 /\ route' = route
    BY DEF Alter, LinkInv, TypeOK
  <1>2. route = "packet" /\ damage' = 1 => Disassemble(bytes) = {}
    <2>1. damage' = 1 => damage = 0
      BY <1>1
    <2>2. route = "packet" /\ damage = 0 => wire \in Assemble(content)
      BY <1>1 DEF Rejected
    <2> QED BY <2>1, <2>2
  <1>3. damage' # 0
    BY <1>1
  <1> QED BY <1>1, <1>2, <1>3 DEF Rejected

LEMMA ReceiveRejected ==
    ASSUME Rejected, NEW by, NEW value, Receive(by, value),
           by = "packet" => value = Disassemble(wire)
    PROVE  Rejected'
  <1>1. /\ phase = "sent" /\ phase' = "received" /\ route = by
        /\ result' = value /\ damage' = damage /\ route' = route
    BY DEF Receive
  <1> QED BY <1>1 DEF Rejected

LEMMA NextRejected == LinkInv /\ Rejected /\ [Next]_vars => Rejected'
  <1> SUFFICES ASSUME LinkInv, Rejected, [Next]_vars PROVE Rejected'
    OBVIOUS
  <1>0. NothingSent /\ content \in Seq(Byte)
    BY DEF LinkInv, TypeOK
  <1>1. ASSUME NEW payload \in Contents,
               SendPacket(payload) \/ SendRFD900(payload) \/ SendXBee(payload)
        PROVE  Rejected'
    <2>1. CASE SendPacket(payload)
      BY <1>0, <2>1, SendRejected DEF SendPacket
    <2>2. CASE SendRFD900(payload)
      BY <1>0, <2>2, SendRejected DEF SendRFD900
    <2>3. CASE SendXBee(payload)
      BY <1>0, <2>3, SendRejected DEF SendXBee
    <2> QED BY <1>1, <2>1, <2>2, <2>3
  <1>2. ASSUME NEW c \in Command, SendCommand(c) \/ ResendCommand(c)
        PROVE  Rejected'
    BY <1>0, <1>2, SendRejected DEF SendCommand, ResendCommand
  <1>3. ASSUME NEW t \in Telemetry, SendTelemetry(t)
        PROVE  Rejected'
    BY <1>0, <1>3, SendRejected DEF SendTelemetry
  <1>4. ASSUME NEW i \in 1 .. Len(wire), LoseByte(i)
        PROVE  Rejected'
    <2>1. ASSUME wire \in Assemble(content) PROVE Disassemble(RemoveAt(wire, i)) = {}
      BY <1>0, <2>1, LostByteRejected
    <2> QED BY <1>4, <2>1, AlterRejected DEF LoseByte
  <1>5. ASSUME NEW i \in 1 .. Len(wire), NEW weight \in Weight, InvertBit(i, weight)
        PROVE  Rejected'
    <2>1. ASSUME wire \in Assemble(content)
          PROVE  Disassemble([wire EXCEPT ![i] = Xor[@][weight]]) = {}
      BY <1>0, <2>1, InvertedBitRejected
    <2> QED BY <1>5, <2>1, AlterRejected DEF InvertBit
  <1>6. CASE ReceivePacket \/ ReceiveRFD900 \/ ReceiveXBee \/ ReceiveData
    BY <1>6, ReceiveRejected DEF ReceivePacket, ReceiveRFD900, ReceiveXBee, ReceiveData
  <1>7. CASE UNCHANGED vars
    BY <1>7 DEF vars, Rejected
  <1> QED BY <1>1, <1>2, <1>3, <1>4, <1>5, <1>6, <1>7 DEF Next, Finished

\* Of a packet in which the link has inverted one bit, whichever it is, or of which it has
\* lost one byte, disassemble makes nothing, whatever the payload.
THEOREM DamageNoticed == Spec => []DamageDetected
  <1>1. Init => Rejected
    BY DEF Init, Rejected
  <1>2. Rejected => DamageDetected
    BY DEF Rejected, DamageDetected
  <1> QED BY <1>1, <1>2, LinkInvHolds, NextRejected, PTL DEF Spec

-----------------------------------------------------------------------------
(* What the library makes of its own transmissions.                        *)

\* Decoded for index 0 there is one block, and what it holds begins with the second byte.
LEMMA NoPacketInside ==
    ASSUME NEW data \in Seq(Byte), Len(data) \in 2 .. 254, data[2] # START_BYTE
    PROVE  OnDataReceived(data) = {}
  <1>1. PICK n \in Nat : n = Len(data) /\ 2 <= n /\ n < 255
    <2>1. \A k \in 2 .. 254 : k \in Nat /\ 2 <= k /\ k < 255
      OBVIOUS
    <2> QED BY <2>1
  <1>2. ASSUME NEW decoded \in COBSDecode(data, 0)
        PROVE  Disassemble(Front(decoded)) = {}
    <2>1. decoded = SubSeq(data, 2, n)
      BY <1>1, DecodedBlock
    <2>2. Len(decoded) = n - 1 /\ decoded[1] = data[2]
      BY <1>1, <2>1
    <2>3. Len(Front(decoded)) < 4 \/ Front(decoded)[1] = data[2]
      BY <1>1, <2>1, <2>2 DEF Front
    <2> QED BY <2>3 DEF Disassemble
  <1> QED BY <1>2 DEF OnDataReceived

\* A frame begins with the byte that COBS puts before a packet, and holds no start byte.
LEMMA FrameIgnored ==
    ASSUME NEW payload \in Seq(Byte), NEW frame \in Frame(payload)
    PROVE  OnDataReceived(frame.encoded) = {}
  <1>1. PICK packet \in Assemble(payload) :
            frame \in COBSEncode(Append(packet, CalculateCRC8(payload)))
    BY DEF Frame
  <1>2. PICK n \in 5 .. 33 : packet \in Seq(Byte) /\ Len(packet) = n
    BY <1>1, Assembled
  <1>3. PICK input : input = Append(packet, CalculateCRC8(payload))
    OBVIOUS
  <1>4. input \in Seq(Byte) /\ Len(input) = n + 1
    BY <1>2, <1>3, CRC8Byte, AppendProperties
  <1>5. n + 1 \in Nat /\ n + 1 <= Longest /\ (n + 1) + 1 \in 2 .. 254
    BY DEF Longest, START_BYTE
  <1>6. PICK r : /\ COBSEncode(input) = {r} /\ r.encoded \in Seq(Byte \ {START_BYTE})
                 /\ Len(r.encoded) = Len(input) + 1
    BY <1>4, <1>5, COBSRoundTrip
  <1>7. frame = r
    BY <1>1, <1>3, <1>6
  <1>8. Len(r.encoded) \in 2 .. 254
    BY <1>4, <1>5, <1>6
  <1>9. r.encoded \in Seq(Byte) /\ r.encoded[2] # START_BYTE
    <2>1. \A k \in 2 .. 254 : 2 \in 1 .. k
      OBVIOUS
    <2>2. 2 \in 1 .. Len(r.encoded)
      BY <1>8, <2>1
    <2> QED BY <1>6, <2>2
  <1> QED BY <1>7, <1>8, <1>9, NoPacketInside

\* A retransmission begins with the addresses and the descriptor of a command.
LEMMA ResentIgnored ==
    ASSUME NEW c \in CommandType, NEW encoded \in EncodeCommand(c), Frame(encoded) # {}
    PROVE  OnDataReceived(encoded) = {}
  <1>1. encoded \in Seq(Byte) /\ HandleIncomingPacket(encoded) = {<<"command", c>>}
    BY CommandRoundTrip
  <1>2. Len(encoded) <= 28
    BY DEF Frame, Assemble, MAX_PAYLOAD_LENGTH
  <1>3. ~ (Len(encoded) < 2) /\ Handled(encoded[2], encoded) # {}
    BY <1>1 DEF HandleIncomingPacket
  <1>4. encoded[2] # START_BYTE
    BY <1>3 DEF Handled, START_BYTE, COMMAND, ACKNOWLEDGMENT, TELEMETRY_A, TELEMETRY_B
  <1>5. Len(encoded) \in 2 .. 254
    <2>1. \A k \in Nat : k <= 28 /\ ~ (k < 2) => k \in 2 .. 254
      OBVIOUS
    <2>2. Len(encoded) \in Nat
      BY <1>1
    <2> QED BY <1>2, <1>3, <2>1, <2>2
  <1> QED BY <1>1, <1>4, <1>5, NoPacketInside

\* Undisturbed, nothing is taken in of what an AVCProtocol has sent: not a frame, which
\* onDataReceived decodes for an index that is not its own, and not a retransmission.
NothingTakenIn ==
    phase = "received" /\ route \in {"avc", "resend"} /\ damage = 0 => result = {}

Ignored ==
    phase = "sent" /\ route \in {"avc", "resend"} /\ damage = 0 => OnDataReceived(wire) = {}

LEMMA NextIgnored ==
    LinkInv /\ Ignored /\ NothingTakenIn /\ [Next]_vars => Ignored' /\ NothingTakenIn'
  <1> SUFFICES ASSUME LinkInv, Ignored, NothingTakenIn, [Next]_vars
               PROVE  Ignored' /\ NothingTakenIn'
    OBVIOUS
  <1>1. ASSUME NEW payload \in Contents,
               SendPacket(payload) \/ SendRFD900(payload) \/ SendXBee(payload)
        PROVE  Ignored' /\ NothingTakenIn'
    <2>1. phase' = "sent" /\ route' \notin {"avc", "resend"}
      BY <1>1 DEF SendPacket, SendRFD900, SendXBee, Send
    <2> QED BY <2>1 DEF Ignored, NothingTakenIn
  <1>2. ASSUME NEW c \in Command, SendCommand(c) \/ ResendCommand(c)
        PROVE  Ignored' /\ NothingTakenIn'
    <2>1. c \in CommandType
      BY CommandAssumption DEF CommandType
    <2>2. phase' = "sent"
      BY <1>2 DEF SendCommand, ResendCommand, Send
    <2>3. CASE SendCommand(c)
      <3>1. PICK encoded \in EncodeCommand(c) :
                    \E frame \in Frame(encoded) : wire' = frame.encoded
        BY <2>3 DEF SendCommand
      <3>2. encoded \in Seq(Byte)
        BY <2>1, CommandRoundTrip
      <3>3. OnDataReceived(wire') = {}
        BY <3>1, <3>2, FrameIgnored
      <3> QED BY <2>2, <3>3 DEF Ignored, NothingTakenIn
    <2>4. CASE ResendCommand(c)
      <3>1. PICK encoded \in EncodeCommand(c) : Frame(encoded) # {} /\ wire' = encoded
        BY <2>4 DEF ResendCommand
      <3>2. OnDataReceived(wire') = {}
        BY <2>1, <3>1, ResentIgnored
      <3> QED BY <2>2, <3>2 DEF Ignored, NothingTakenIn
    <2> QED BY <1>2, <2>3, <2>4
  <1>3. ASSUME NEW t \in Telemetry, SendTelemetry(t)
        PROVE  Ignored' /\ NothingTakenIn'
    <2>1. EncodeTelemetry(t) \in Seq(Byte)
      <3>1. t \in TelemetryType
        BY TelemetryAssumption DEF TelemetryType, IsWord
      <3> QED BY <3>1, TelemetryRoundTrip
    <2>2. PICK frame \in Frame(EncodeTelemetry(t)) : wire' = frame.encoded
      BY <1>3 DEF SendTelemetry
    <2>3. phase' = "sent" /\ OnDataReceived(wire') = {}
      BY <1>3, <2>1, <2>2, FrameIgnored DEF SendTelemetry, Send
    <2> QED BY <2>3 DEF Ignored, NothingTakenIn
  <1>4. ASSUME NEW bytes, Alter(bytes)
        PROVE  Ignored' /\ NothingTakenIn'
    <2>1. phase' = "sent" /\ damage' # 0
      BY <1>4 DEF Alter, LinkInv, TypeOK
    <2> QED BY <2>1 DEF Ignored, NothingTakenIn
  <1>5. ASSUME NEW by, NEW value, Receive(by, value),
               by \in {"avc", "resend"} => value = OnDataReceived(wire)
        PROVE  Ignored' /\ NothingTakenIn'
    BY <1>5 DEF Receive, Ignored, NothingTakenIn
  <1>6. CASE UNCHANGED vars
    BY <1>6 DEF vars, Ignored, NothingTakenIn
  <1>7. CASE ReceivePacket \/ ReceiveRFD900 \/ ReceiveXBee \/ ReceiveData
    BY <1>5, <1>7 DEF ReceivePacket, ReceiveRFD900, ReceiveXBee, ReceiveData
  <1> QED BY <1>1, <1>2, <1>3, <1>4, <1>6, <1>7 DEF Next, Finished, LoseByte, InvertBit

\* Whatever commands and telemetry an AVCProtocol sends, a peer that hears every byte of
\* it takes in none: neither a frame, nor the frame it sends again without its packet.
THEOREM OwnFramesIgnored == Spec => []NothingTakenIn
  <1>1. Init => Ignored /\ NothingTakenIn
    BY DEF Init, Ignored, NothingTakenIn
  <1> QED BY <1>1, LinkInvHolds, NextIgnored, PTL DEF Spec

-----------------------------------------------------------------------------
(* One alteration of the frame of a radio, and of the packet inside it.    *)

\* What a packet of n bytes is known by.
IsWrapped(packet, payload, n) ==
    /\ packet \in Assemble(payload) /\ packet \in Seq(Byte) /\ n = Len(packet)
    /\ \A i \in 2 .. n - 1 : packet[i] # START_BYTE
    /\ Disassemble(packet) = {payload}

LEMMA Wrapped ==
    ASSUME NEW payload \in Seq(Byte), NEW packet \in Assemble(payload)
    PROVE  \E n \in 5 .. 33 : IsWrapped(packet, payload, n)
  <1>1. packet \in Seq(Byte) /\ Len(packet) \in 5 .. 33 /\ Disassemble(packet) = {payload}
    BY Assembled
  <1>2. PICK n \in 5 .. 33 : n = Len(packet)
    BY <1>1
  <1>3. Len(payload) <= MAX_PAYLOAD_LENGTH
    BY DEF Assemble
  <1>4. PICK p \in Seq(Byte) : /\ Assemble(payload) = {p}
                               /\ \A i \in 1 .. Len(p) - 1 : p[i] = START_BYTE <=> i = 1
    BY <1>3, PacketRoundTrip
  <1>5. p = packet
    BY <1>4
  <1>6. \A i \in 2 .. n - 1 : i \in 1 .. n - 1 /\ i # 1
    OBVIOUS
  <1> QED BY <1>1, <1>2, <1>4, <1>5, <1>6 DEF IsWrapped

\* An empty payload is encoded as one byte, which the checksum in the COBS byte counts.
LEMMA EncodedNone ==
    ASSUME NEW e \in Seq(Byte), Len(e) = 1, COBSDecode(e, 0) # {}
    PROVE  Calculate2BitChecksum(e) = 1
  <1>1. PICK payload : payload \in COBSDecode(e, 0)
    OBVIOUS
  <1>2. e[1] = 1
    <2>1. PICK l \in Nat : l = 1 /\ 0 < l /\ l < 255 /\ l = Len(e)
      OBVIOUS
    <2> QED BY <1>1, <2>1, DecodedBlock
  <1>3. PICK f \in Seq(Byte) : Len(f) = 0
    <2>1. <<>> \in Seq(Byte) /\ Len(<<>>) = 0
      BY EmptySeq
    <2> QED BY <2>1
  <1>4. Calculate2BitChecksum(f) = 0
    BY <1>3, ChecksumOfNone
  <1>5. Calculate2BitChecksum(e) = (Ones(e[1]) + 0) % 4
    <2>1. PICK l \in Nat : l = 0 /\ Len(e) = l + 1 /\ Len(f) = l
      BY <1>3
    <2>2. \A k \in 1 .. l : f[k] = e[k + 1]
      BY <2>1
    <2> QED BY <1>4, <2>1, <2>2, ChecksumBehind
  <1>6. Ones(e[1]) = 1
    BY <1>2, OnesValues, Zenon
  <1>7. Calculate2BitChecksum(e) = (1 + 0) % 4
    BY <1>5, <1>6, Zenon
  <1>8. (1 + 0) % 4 = 1
    OBVIOUS
  <1> QED BY <1>7, <1>8, Zenon

\* No bytes are decoded to none.
LEMMA NoneDecoded ==
    ASSUME NEW f \in Seq(Byte), Len(f) = 0, NEW index, NEW found \in COBSDecode(f, index)
    PROVE  Len(found) = 0
  <1>1. PICK n \in Nat : n = 0 /\ n = Len(f)
    OBVIOUS
  <1>2. PICK rest : AreParts(rest, f, n)
    BY <1>1, DecodeSteps DEF AreParts
  <1>3. PICK s : s \in rest[1] /\ found = s.bytes
    BY <1>2 DEF AreParts
  <1>4. s \in rest[n + 1]
    <2>1. n + 1 = 1
      BY <1>1
    <2> QED BY <1>3, <2>1
  <1>5. s.bytes = <<>>
    BY <1>2, <1>4, PartBehind
  <1> QED BY <1>3, <1>5

\* Of a packet that is cut off disassemble makes nothing: its length byte says more.
LEMMA CutRejected ==
    ASSUME NEW payload \in Seq(Byte), NEW packet \in Assemble(payload), NEW k \in Nat
    PROVE  k < Len(packet) => Disassemble(SubSeq(packet, 1, k)) = {}
  <1>0. SUFFICES ASSUME k < Len(packet) PROVE Disassemble(SubSeq(packet, 1, k)) = {}
    OBVIOUS
  <1>1. PICK n \in 0 .. 28 : \E c :
              /\ Len(packet) = n + 5
              /\ IsSent(packet, payload, n, c, EncodeBlocks(payload).encoded, EncodeBlocks(payload).index)
    BY SentPacket
  <1>2. PICK c, e, index :
            /\ e = EncodeBlocks(payload).encoded
            /\ IsSent(packet, payload, n, c, e, index)
    BY <1>1
  <1>3. /\ packet \in Seq(Byte) /\ Len(packet) = n + 5
        /\ e \in Seq(Byte) /\ Len(e) = n + 1
        /\ IsLaidOut(packet, START_BYTE, LengthByte(n), c, e, n + 1, CalculateCRC8(payload))
        /\ LengthByte(n) \in Byte /\ LengthByte(n) \div 4 = n
        /\ COBSDecode(e, index) = {payload} /\ index \in 0 .. n /\ n = Len(payload)
    BY <1>2 DEF IsSent
  <1>4. PICK l \in Nat : l = n + 5 /\ k \in 0 .. l
    BY <1>0, <1>3
  <1>5. PICK q : q = SubSeq(packet, 1, k)
    OBVIOUS
  <1>6. q \in Seq(Byte) /\ Len(q) = k /\ \A i \in 1 .. k : q[i] = packet[i]
    BY <1>3, <1>4, <1>5, Prefix
  <1>7. CASE k < 4
    BY <1>5, <1>6, <1>7 DEF Disassemble
  <1>8. CASE k >= 4
    <2>1. PICK m \in Nat : m = k - 4
      BY <1>8
    <2>2. PICK f \in Seq(Byte) : Len(f) = m /\ IsLaidOut(q, q[1], q[2], q[3], f, m, q[m + 4])
      <3>1. Len(q) = m + 4
        BY <1>6, <2>1
      <3> QED BY <1>6, <3>1, Fields
    <2>3. DisassembledTo(q, q[1], q[2], q[3], f, q[m + 4])
      BY <2>2, FieldsTaken
    <2>4. q[2] \div 4 = n
      <3>1. 2 \in 1 .. k
        BY <1>8
      <3>2. packet[2] = LengthByte(n)
        BY <1>3 DEF IsLaidOut
      <3> QED BY <1>3, <1>6, <3>1, <3>2
    <2>5. CASE m > 0
      <3> SUFFICES ASSUME NEW found \in Disassemble(q) PROVE FALSE
        BY <1>5
      <3>1. found \in COBSDecode(f, q[3] \div 4) /\ Len(found) = n
        BY <2>3, <2>4 DEF DisassembledTo
      <3>2. 0 < m /\ m < 255 /\ m - 1 # n
        <4>1. k < n + 5
          BY <1>0, <1>3
        <4>2. \A i \in 0 .. 28 : k < i + 5 => k - 4 < 255 /\ (k - 4) - 1 # i
          OBVIOUS
        <4>3. k - 4 < 255 /\ (k - 4) - 1 # n
          BY <4>1, <4>2
        <4> QED BY <2>1, <2>5, <4>3
      <3>3. Len(found) = m - 1
        BY <2>2, <3>1, <3>2, DecodedLength
      <3> QED BY <3>1, <3>2, <3>3
    <2>6. CASE m = 0
      <3> SUFFICES ASSUME NEW found \in Disassemble(q) PROVE FALSE
        BY <1>5
      <3>1. found \in COBSDecode(f, q[3] \div 4) /\ Len(found) = n /\ CalculateCRC8(found) = q[m + 4]
        BY <2>3, <2>4 DEF DisassembledTo, PayloadIntact
      <3>2. n = 0
        <4>1. Len(found) = 0
          BY <2>2, <2>6, <3>1, NoneDecoded
        <4> QED BY <3>1, <4>1
      <3>3. Calculate2BitChecksum(e) = 1
        <4>1. index = 0 /\ Len(e) = 1
          BY <1>3, <3>2
        <4> QED BY <1>3, <4>1, EncodedNone
      <3>4. Calculate2BitChecksum(f) = 0
        BY <2>2, <2>6, ChecksumOfNone
      <3>5. q[3] % 4 = 1
        <4>1. packet[3] = c /\ c % 4 = Calculate2BitChecksum(e)
          BY <1>2 DEF IsSent, IsLaidOut
        <4>2. 3 \in 1 .. k
          BY <1>8
        <4> QED BY <1>6, <3>3, <4>1, <4>2
      <3>6. q[3] % 4 = Calculate2BitChecksum(f)
        BY <2>3 DEF DisassembledTo, Refused
      <3> QED BY <3>4, <3>5, <3>6
    <2> QED BY <2>1, <2>5, <2>6
  <1> QED BY <1>7, <1>8

\* The loop of processFrame: what it finds is in S if that holds of every frame that the
\* read holds to its end.
LEMMA ProcessFindsOnly ==
    ASSUME NEW data \in Seq(Byte), NEW n \in Nat, n = Len(data), NEW S,
           \A j \in FramesFrom(data, n, 1) :
               Disassemble(SubSeq(data, j + 6, j + 5 + data[j + 1])) \subseteq S
    PROVE  ToSet(ProcessFrame(data)) \subseteq S
  <1>1. PICK from : /\ IsLoop(from, NoFrame(data, n), FoundFrom(data, n), NextFrom(data, n))
                    /\ ProcessFrame(data) = from[1]
    BY ProcessLoop
  <1>2. Advances(n, Seq(Byte), NoFrame(data, n), FoundFrom(data, n), NextFrom(data, n))
    BY ProcessAdvances
  <1>3. ASSUME NEW i \in Nat \ {0}, i \notin NoFrame(data, n)
        PROVE  FoundFrom(data, n)[i] \in Seq(S)
    <2>1. FramesFrom(data, n, i) # {}
      BY <1>3 DEF NoFrame
    <2>2. FramesFrom(data, n, i) \in SUBSET Nat
      BY DEF FramesFrom
    <2>3. PICK first \in FramesFrom(data, n, i) : first = Min(FramesFrom(data, n, i))
      BY <2>1, <2>2, MinIs
    <2>4. first \in FramesFrom(data, n, 1)
      BY <2>3 DEF FramesFrom
    <2>5. PICK part : part = SubSeq(data, first + 6, first + 5 + data[first + 1])
      OBVIOUS
    <2>6. Disassemble(part) \subseteq S
      BY <2>4, <2>5
    <2>7. part \in Seq(Byte)
      <3>1. PICK length \in Nat : length = data[first + 1] /\ first + length + 7 <= n
        <4>1. first \in Nat /\ first >= 1 /\ first <= n - 8 /\ first + data[first + 1] + 7 <= n
          BY <2>4 DEF FramesFrom
        <4>2. first + 1 \in 1 .. n
          BY <4>1
        <4>3. data[first + 1] \in Byte
          BY <4>2
        <4> QED BY <4>1, <4>3, ByteIsNat
      <3>2. first + 6 \in Nat \ {0} /\ first + 5 + length \in Int /\ first + 5 + length <= n
        BY <2>4, <3>1 DEF FramesFrom
      <3> QED BY <2>5, <3>1, <3>2, SubSeqByte
    <2>8. Packets(part) \in Seq(S)
      <3>1. CASE Disassemble(part) = {}
        <4>1. Packets(part) = <<>>
          BY <3>1, NoPackets
        <4> QED BY <4>1, EmptySeq
      <3>2. ASSUME NEW payload \in Disassemble(part)
            PROVE  Packets(part) \in Seq(S)
        <4>1. Disassemble(part) = {payload}
          BY <2>7, <3>2, DisassembleType DEF AtMostOne
        <4>2. Packets(part) = <<payload>> /\ payload \in S
          BY <2>6, <2>7, <4>1, PacketsOf
        <4>3. <<payload>> \in Seq(S)
          BY <4>2
        <4> HIDE DEF Packets
        <4> QED BY <4>2, <4>3
      <3> QED BY <3>1, <3>2
    <2> QED BY <2>3, <2>5, <2>8 DEF FoundFrom, InFrame
  <1>4. Advances(n, S, NoFrame(data, n), FoundFrom(data, n), NextFrom(data, n))
    BY <1>2, <1>3 DEF Advances
  <1>5. from[1] \in Seq(S)
    <2>1. PICK one \in Nat \ {0} : one = 1
      OBVIOUS
    <2>2. from[one] \in Seq(S)
      BY <1>1, <1>4, LoopFinds
    <2> QED BY <2>1, <2>2
  <1> QED BY <1>1, <1>5 DEF ToSet

\* No start byte is left where a packet could begin that has not begun before position at.
NoStart(data, at, n, last) == \A j \in at .. n - last : data[j] # START_BYTE

\* Then only the first byte of data may begin a frame with a packet.
LEMMA ProcessFindsNone ==
    ASSUME NEW data \in Seq(Byte), NEW n \in Nat, n = Len(data), NoStart(data, 8, n, 3), NEW S,
           1 \in FramesFrom(data, n, 1) =>
               Disassemble(SubSeq(data, 1 + 6, 1 + 5 + data[1 + 1])) \subseteq S
    PROVE  ToSet(ProcessFrame(data)) \subseteq S
  <1>1. ASSUME NEW j \in FramesFrom(data, n, 1)
        PROVE  Disassemble(SubSeq(data, j + 6, j + 5 + data[j + 1])) \subseteq S
    <2>1. j \in Nat /\ j >= 1 /\ j + 1 \in 1 .. n /\ j + data[j + 1] + 7 <= n
      BY DEF FramesFrom
    <2>2. PICK length \in Nat : length = data[j + 1] /\ j + length + 7 <= n
      <3>1. data[j + 1] \in Byte
        BY <2>1
      <3> QED BY <2>1, <3>1, ByteIsNat
    <2>3. CASE j = 1
      BY <2>3
    <2>4. CASE j # 1
      <3>1. PICK a, b \in Nat : a = j + 6 /\ b = j + 5 + length
        BY <2>1
      <3>2. a >= 8 /\ b <= n - 2 /\ a \in Nat \ {0}
        BY <2>1, <2>2, <2>4, <3>1
      <3>3. b - a + 1 >= 4 => data[a] # START_BYTE
        <4>1. b - a + 1 >= 4 => a \in 8 .. n - 3
          BY <3>2
        <4> QED BY <4>1 DEF NoStart
      <3>4. Disassemble(SubSeq(data, a, b)) = {}
        <4>1. PICK q : q = SubSeq(data, a, b)
          OBVIOUS
        <4>2. Len(q) = IF a <= b THEN b - a + 1 ELSE 0
          BY <3>2, <4>1
        <4>3. Len(q) >= 4 => b - a + 1 >= 4 /\ q[1] = data[a]
          BY <3>2, <4>1, <4>2
        <4>4. Len(q) \in Nat
          BY <4>2
        <4>5. Len(q) < 4 \/ q[1] # START_BYTE
          BY <3>3, <4>3, <4>4
        <4>6. Disassemble(q) = {}
          BY <4>5 DEF Disassemble
        <4> QED BY <4>1, <4>6
      <3> QED BY <2>2, <3>1, <3>4
    <2> QED BY <2>3, <2>4
  <1> QED BY <1>1, ProcessFindsOnly

\* Byte i of n is another one.
DiffersAt(data, frame, n, i) ==
    /\ data \in Seq(Byte) /\ Len(data) = n
    /\ data[i] # frame[i] /\ \A j \in 1 .. n : j # i => data[j] = frame[j]

LEMMA InvertedDiffers ==
    ASSUME NEW frame \in Seq(Byte), NEW n \in Nat, n = Len(frame), NEW i \in 1 .. n, NEW weight \in Weight
    PROVE  DiffersAt([frame EXCEPT ![i] = Xor[@][weight]], frame, n, i)
  <1>1. PICK y : y = Xor[frame[i]][weight]
    OBVIOUS
  <1>2. y \in Byte /\ y # frame[i]
    <2>1. IsInverted(frame[i], y)
      BY <1>1, BitInverted
    <2> QED BY <2>1 DEF IsInverted
  <1>3. PICK data : data = [frame EXCEPT ![i] = y]
    OBVIOUS
  <1>4. data \in Seq(Byte) /\ Len(data) = n /\ data[i] = y /\ \A j \in 1 .. n : j # i => data[j] = frame[j]
    BY <1>2, <1>3
  <1> QED BY <1>1, <1>2, <1>3, <1>4 DEF DiffersAt

\* The frame of a packet of l bytes, and what is not in it.
IsMAVLinkOf(frame, packet, payload, l) ==
    /\ IsWrapped(packet, payload, l) /\ IsMAVLink(frame, packet, l)
    /\ \A j \in 8 .. l + 5 : frame[j] # START_BYTE

LEMMA MAVLinkParts ==
    ASSUME NEW payload \in Seq(Byte), NEW packet \in Assemble(payload)
    PROVE  \E l \in 5 .. 33 : IsMAVLinkOf(MAVLinkFrame(packet), packet, payload, l)
  <1>1. PICK l \in 5 .. 33 : IsWrapped(packet, payload, l)
    BY Wrapped
  <1>2. PICK frame : frame = MAVLinkFrame(packet)
    OBVIOUS
  <1>3. IsMAVLink(frame, packet, l)
    <2>1. l \in 0 .. 33
      OBVIOUS
    <2> QED BY <1>1, <1>2, <2>1, MAVLinkLayout DEF IsWrapped
  <1>4. ASSUME NEW j \in 8 .. l + 5 PROVE frame[j] # START_BYTE
    <2>1. j - 6 \in 1 .. l /\ j - 6 \in 2 .. l - 1 /\ 6 + (j - 6) = j
      OBVIOUS
    <2>2. frame[6 + (j - 6)] = packet[j - 6]
      BY <1>3, <2>1 DEF IsMAVLink, IsSlice
    <2> QED BY <1>1, <2>1, <2>2 DEF IsWrapped
  <1> QED BY <1>1, <1>2, <1>3, <1>4 DEF IsMAVLinkOf

\* With a bit inverted in the frame the packet is found as it was, or none is.
LEMMA MAVLinkInverted ==
    ASSUME NEW payload \in Seq(Byte), NEW packet \in Assemble(payload),
           NEW i \in 1 .. Len(MAVLinkFrame(packet)), NEW weight \in Weight
    PROVE  ToSet(ProcessFrame([MAVLinkFrame(packet) EXCEPT ![i] = Xor[@][weight]])) \subseteq {payload}
  <1>1. PICK l \in 5 .. 33 : IsMAVLinkOf(MAVLinkFrame(packet), packet, payload, l)
    BY MAVLinkParts
  <1>0. PICK frame : frame = MAVLinkFrame(packet)
    OBVIOUS
  <1>2. PICK n \in Nat : n = l + 8
    OBVIOUS
  <1>3. /\ frame \in Seq(Byte) /\ n = Len(frame)
        /\ frame[1] = MAVLINK_START /\ frame[2] = l
        /\ \A k \in 1 .. l : frame[6 + k] = packet[k]
    BY <1>0, <1>1, <1>2 DEF IsMAVLinkOf, IsMAVLink, IsSlice
  <1>4. PICK data : data = [frame EXCEPT ![i] = Xor[@][weight]]
    OBVIOUS
  <1>5. i \in 1 .. n
    BY <1>0, <1>3
  <1>6. DiffersAt(data, frame, n, i)
    BY <1>3, <1>4, <1>5, InvertedDiffers
  <1>7. /\ data \in Seq(Byte) /\ Len(data) = n
        /\ data[i] # frame[i] /\ \A j \in 1 .. n : j # i => data[j] = frame[j]
    BY <1>6 DEF DiffersAt
  <1>8. CASE i \in 1 .. 2
    <2>1. NoStart(data, 8, n, 3)
      <3>1. ASSUME NEW j \in 8 .. n - 3 PROVE data[j] # START_BYTE
        <4>1. j \in 8 .. l + 5 /\ j \in 1 .. n /\ j # i
          BY <1>2, <1>8
        <4> QED BY <1>0, <1>1, <1>7, <4>1 DEF IsMAVLinkOf
      <3> QED BY <3>1 DEF NoStart
    <2>2. ASSUME 1 \in FramesFrom(data, n, 1)
          PROVE  Disassemble(SubSeq(data, 1 + 6, 1 + 5 + data[1 + 1])) \subseteq {payload}
      <3>1. data[1] = MAVLINK_START /\ 1 + data[2] + 7 <= n
        BY <2>2 DEF FramesFrom
      <3>2. i = 2
        BY <1>3, <1>5, <1>7, <1>8, <3>1
      <3>3. PICK k \in Nat : k = data[2] /\ k < l
        <4>1. data[2] \in Nat /\ data[2] # l
          <5>1. 2 \in 1 .. n
            BY <1>2
          <5>2. data[2] \in Byte
            BY <1>7, <5>1
          <5> QED BY <1>3, <1>7, <3>2, <5>2, ByteIsNat
        <4>2. data[2] <= l
          BY <1>2, <3>1, <4>1
        <4> QED BY <4>1, <4>2
      <3>4. SubSeq(data, 7, 6 + k) = SubSeq(packet, 1, k)
        <4>1. PICK t : t = SubSeq(packet, 1, k)
          OBVIOUS
        <4>2. packet \in Seq(Byte) /\ l = Len(packet) /\ l \in Nat /\ k \in 0 .. l
          BY <1>1, <3>3 DEF IsMAVLinkOf, IsWrapped
        <4>3. t \in Seq(Byte) /\ Len(t) = k /\ \A j \in 1 .. k : t[j] = packet[j]
          BY <4>1, <4>2, Prefix
        <4>4. PICK six \in Nat : six = 6
          OBVIOUS
        <4>5. ASSUME NEW j \in 1 .. k PROVE data[six + j] = t[j]
          <5>1. six + j \in 1 .. n /\ six + j # i /\ j \in 1 .. l
            BY <1>2, <3>2, <3>3, <4>4
          <5> QED BY <1>3, <1>7, <4>3, <4>4, <5>1
        <4>6. IsSlice(data, six, t, k)
          BY <4>5 DEF IsSlice
        <4>7. CutsOut(data, six, t, k)
          BY <4>3, <4>6, Slice
        <4>8. six + 1 = 7 /\ six + k = 6 + k
          BY <4>4
        <4> QED BY <4>1, <4>7, <4>8 DEF CutsOut
      <3>5. Disassemble(SubSeq(packet, 1, k)) = {}
        <4>1. k < Len(packet)
          BY <1>1, <3>3 DEF IsMAVLinkOf, IsWrapped
        <4> QED BY <4>1, CutRejected
      <3>6. 1 + 6 = 7 /\ 1 + 5 + data[1 + 1] = 6 + k
        BY <3>3
      <3> QED BY <3>4, <3>5, <3>6
    <2>3. ToSet(ProcessFrame(data)) \subseteq {payload}
      BY <1>7, <2>1, <2>2, ProcessFindsNone
    <2> QED BY <1>0, <1>4, <2>3
  <1>9. CASE i \in 3 .. n
    <2>1. PICK q : q = SubSeq(data, 7, l + 6)
      OBVIOUS
    <2>2. q \in Seq(Byte) /\ Len(q) = l /\ \A k \in 1 .. l : q[k] = data[6 + k]
      <3>1. \A j \in 7 .. l + 6 : j \in 1 .. n
        BY <1>2
      <3>2. \A j \in 7 .. l + 6 : data[j] \in Byte
        BY <1>7, <3>1
      <3>3. /\ 7 \in Int /\ l + 6 \in Int
            /\ (IF 7 <= l + 6 THEN (l + 6) - 7 + 1 ELSE 0) = l /\ (l + 6) - 7 + 1 = l
            /\ \A k \in 1 .. l : 7 + k - 1 = 6 + k
        OBVIOUS
      <3> QED BY <2>1, <3>2, <3>3, SubSeqProperties
    <2>3. IsMAVLink(data, q, l)
      <3>1. data[1] = MAVLINK_START /\ data[2] = l
        <4>1. 1 \in 1 .. n /\ 2 \in 1 .. n /\ 1 # i /\ 2 # i
          BY <1>2, <1>9
        <4> QED BY <1>3, <1>7, <4>1
      <3>2. IsSlice(data, 6, q, l)
        BY <2>2 DEF IsSlice
      <3> QED BY <1>2, <1>7, <2>1, <3>1, <3>2 DEF IsMAVLink
    <2>4. ProcessFrame(data) = Packets(q)
      <3>1. l \in 1 .. 33
        OBVIOUS
      <3> QED BY <2>2, <2>3, <3>1, MAVLinkAlone
    <2>5. Disassemble(q) \subseteq {payload}
      <3>1. packet \in Seq(Byte) /\ Len(packet) = l
        BY <1>1 DEF IsMAVLinkOf, IsWrapped
      <3>2. \A k \in 1 .. l : 6 + k \in 1 .. n
        BY <1>2
      <3>3. CASE i \in 7 .. l + 6
        <4>1. PICK k \in 1 .. l : i = 6 + k
          <5>1. i - 6 \in 1 .. l /\ i = 6 + (i - 6)
            BY <3>3
          <5> QED BY <5>1
        <4>2. q = [packet EXCEPT ![k] = Xor[@][weight]]
          <5>1. PICK t : t = [packet EXCEPT ![k] = Xor[@][weight]]
            OBVIOUS
          <5>2. DiffersAt(t, packet, l, k) /\ t[k] = Xor[packet[k]][weight]
            <6>1. l \in Nat /\ l = Len(packet)
              BY <3>1
            <6>2. DiffersAt(t, packet, l, k)
              BY <3>1, <5>1, <6>1, InvertedDiffers
            <6> QED BY <3>1, <5>1, <6>2
          <5>3. data[i] = Xor[frame[i]][weight]
            BY <1>3, <1>4, <1>5
          <5>4. q[k] = t[k]
            BY <1>3, <2>2, <4>1, <5>2, <5>3
          <5>5. ASSUME NEW j \in 1 .. l, j # k PROVE q[j] = t[j]
            <6>1. 6 + j # i
              BY <4>1, <5>5
            <6>2. t[j] = packet[j]
              BY <5>2, <5>5 DEF DiffersAt
            <6> QED BY <1>3, <1>7, <2>2, <3>2, <6>1, <6>2
          <5>6. t \in Seq(Byte) /\ Len(t) = l
            BY <5>2 DEF DiffersAt
          <5>7. q = t
            <6>1. \A j \in 1 .. l : q[j] = t[j]
              BY <5>4, <5>5
            <6> QED BY <2>2, <5>6, <6>1, SeqEqual
          <5> QED BY <5>1, <5>7
        <4>3. k \in 1 .. Len(packet)
          BY <3>1
        <4> QED BY <4>2, <4>3, InvertedBitRejected
      <3>4. CASE i \notin 7 .. l + 6
        <4>1. ASSUME NEW k \in 1 .. l PROVE q[k] = packet[k]
          <5>1. 6 + k # i
            BY <3>4
          <5> QED BY <1>3, <1>7, <2>2, <3>2, <5>1
        <4>2. q = packet
          BY <2>2, <3>1, <4>1, SeqEqual
        <4> QED BY <1>1, <4>2 DEF IsMAVLinkOf, IsWrapped
      <3> QED BY <3>3, <3>4
    <2>6. ToSet(Packets(q)) \subseteq {payload}
      <3>1. CASE Disassemble(q) = {}
        <4>1. Packets(q) = <<>>
          BY <3>1, NoPackets
        <4> QED BY <4>1 DEF ToSet
      <3>2. CASE Disassemble(q) = {payload}
        <4>1. Packets(q) = <<payload>>
          BY <2>2, <3>2, PacketsOf
        <4> QED BY <4>1, SingletonSet
      <3> QED BY <2>5, <3>1, <3>2
    <2> QED BY <1>0, <1>4, <2>4, <2>6
  <1>10. i \in 1 .. 2 \/ i \in 3 .. n
    BY <1>5
  <1> QED BY <1>8, <1>9, <1>10

\* With a byte lost no packet is found in it.
LEMMA MAVLinkShortened ==
    ASSUME NEW payload \in Seq(Byte), NEW packet \in Assemble(payload),
           NEW i \in 1 .. Len(MAVLinkFrame(packet))
    PROVE  ToSet(ProcessFrame(RemoveAt(MAVLinkFrame(packet), i))) = {}
  <1>1. PICK l \in 5 .. 33 : IsMAVLinkOf(MAVLinkFrame(packet), packet, payload, l)
    BY MAVLinkParts
  <1>2. PICK frame : frame = MAVLinkFrame(packet)
    OBVIOUS
  <1>3. PICK n \in Nat : n = l + 7
    OBVIOUS
  <1>4. /\ frame \in Seq(Byte) /\ Len(frame) = n + 1
        /\ frame[1] = MAVLINK_START /\ frame[2] = l
        /\ \A j \in 8 .. l + 5 : frame[j] # START_BYTE
    <2>1. n + 1 = l + 8
      BY <1>3
    <2> QED BY <1>1, <1>2, <2>1 DEF IsMAVLinkOf, IsMAVLink
  <1>5. PICK data : data = RemoveAt(frame, i)
    OBVIOUS
  <1>6. i \in 1 .. n + 1
    BY <1>2, <1>4
  <1>7. /\ data \in Seq(Byte) /\ Len(data) = n
        /\ \A j \in 1 .. n : data[j] = IF j < i THEN frame[j] ELSE frame[j + 1]
    <2>1. IsShortened(RemoveAt(frame, i), frame, n, i)
      BY <1>4, <1>6, ByteLost
    <2> QED BY <1>5, <2>1 DEF IsShortened
  <1>8. NoStart(data, 8, n, 3)
    <2>1. ASSUME NEW j \in 8 .. n - 3 PROVE data[j] # START_BYTE
      <3>1. j \in 8 .. l + 5 /\ j + 1 \in 8 .. l + 5 /\ j \in 1 .. n
        BY <1>3
      <3> QED BY <1>4, <1>7, <3>1
    <2> QED BY <2>1 DEF NoStart
  <1>9. ASSUME 1 \in FramesFrom(data, n, 1)
        PROVE  Disassemble(SubSeq(data, 1 + 6, 1 + 5 + data[1 + 1])) \subseteq {}
    <2>1. data[1] = MAVLINK_START /\ 1 + data[2] + 7 <= n
      BY <1>9 DEF FramesFrom
    <2>2. 1 \in 1 .. n /\ 2 \in 1 .. n /\ 7 \in 1 .. n
      BY <1>3
    <2>3. i # 1
      <3>1. i = 1 => data[1] = frame[2]
        BY <1>7, <2>2
      <3>2. l # MAVLINK_START
        BY DEF MAVLINK_START
      <3> QED BY <1>4, <2>1, <3>1, <3>2
    <2>4. i \notin 3 .. n + 1
      <3>1. i \in 3 .. n + 1 => data[2] = frame[2]
        BY <1>7, <2>2
      <3>2. ~ (1 + l + 7 <= n)
        BY <1>3
      <3> QED BY <1>4, <2>1, <3>1, <3>2
    <2>5. i = 2
      BY <1>6, <2>3, <2>4
    <2>6. data[7] # START_BYTE
      <3>1. data[7] = frame[7 + 1] /\ 7 + 1 \in 8 .. l + 5
        BY <1>7, <2>2, <2>5
      <3> QED BY <1>4, <3>1
    <2>7. PICK k \in Nat : k = data[2]
      <3>1. data[2] \in Byte
        BY <1>7, <2>2
      <3> QED BY <3>1, ByteIsNat
    <2>8. PICK q : q = SubSeq(data, 7, 6 + k)
      OBVIOUS
    <2>9. Len(q) = k /\ (k > 0 => q[1] = data[7])
      BY <2>8
    <2>10. Len(q) < 4 \/ q[1] # START_BYTE
      BY <2>6, <2>9
    <2>11. Disassemble(q) = {}
      BY <2>10 DEF Disassemble
    <2>12. 1 + 6 = 7 /\ 1 + 5 + data[1 + 1] = 6 + k
      BY <2>7
    <2> QED BY <2>8, <2>11, <2>12
  <1>10. ToSet(ProcessFrame(data)) \subseteq {}
    <2>1. PICK none : none = {}
      OBVIOUS
    <2>2. 1 \in FramesFrom(data, n, 1) =>
              Disassemble(SubSeq(data, 1 + 6, 1 + 5 + data[1 + 1])) \subseteq none
      BY <1>9, <2>1
    <2>3. ToSet(ProcessFrame(data)) \subseteq none
      BY <1>7, <1>8, <2>2, ProcessFindsNone
    <2> QED BY <2>1, <2>3
  <1> QED BY <1>2, <1>5, <1>10

-----------------------------------------------------------------------------
(* One alteration of what AVCProtocol sends.                               *)

\* Decoded for index 0 there is one block, and its first byte is the number of its bytes.
LEMMA NoBlock ==
    ASSUME NEW data \in Seq(Byte), Len(data) \in 1 .. 254, data[1] # Len(data)
    PROVE  OnDataReceived(data) = {}
  <1>1. PICK n \in Nat : n = Len(data) /\ 0 < n /\ n < 255
    <2>1. \A k \in 1 .. 254 : k \in Nat /\ 0 < k /\ k < 255
      OBVIOUS
    <2> QED BY <2>1
  <1>2. COBSDecode(data, 0) = {}
    <2> SUFFICES ASSUME NEW decoded \in COBSDecode(data, 0) PROVE FALSE
      OBVIOUS
    <2>1. data[1] = n
      BY <1>1, DecodedBlock
    <2> QED BY <1>1, <2>1
  <1> QED BY <1>2 DEF OnDataReceived

\* A frame: no byte of it is a start byte, and its first block is empty, as a packet begins
\* with one.
IsFramed(bytes, n) ==
    /\ bytes \in Seq(Byte) /\ Len(bytes) = n /\ bytes[1] = 1
    /\ \A k \in 1 .. n : bytes[k] # START_BYTE

LEMMA FrameShape ==
    ASSUME NEW payload \in Seq(Byte), NEW frame \in Frame(payload)
    PROVE  \E n \in 7 .. 35 : IsFramed(frame.encoded, n)
  <1>1. PICK packet \in Assemble(payload) :
            frame \in COBSEncode(Append(packet, CalculateCRC8(payload)))
    BY DEF Frame
  <1>2. PICK m \in 5 .. 33 : packet \in Seq(Byte) /\ Len(packet) = m
    BY <1>1, Assembled
  <1>3. PICK input : input = Append(packet, CalculateCRC8(payload))
    OBVIOUS
  <1>4. PICK l \in Nat : l = m + 1
    OBVIOUS
  <1>5. input \in Seq(Byte) /\ Len(input) = l /\ input[1] = packet[1]
    <2>1. \A k \in 5 .. 33 : 1 \in 1 .. k
      OBVIOUS
    <2> QED BY <1>2, <1>3, <1>4, <2>1, CRC8Byte, AppendProperties
  <1>6. Len(input) <= Longest /\ l + 1 \in 7 .. 35
    <2>1. l <= Longest /\ l + 1 \in 7 .. 35
      BY <1>4 DEF Longest, START_BYTE
    <2> QED BY <1>5, <2>1
  <1>7. PICK r : /\ COBSEncode(input) = {r} /\ r.encoded \in Seq(Byte \ {START_BYTE})
                 /\ Len(r.encoded) = l + 1
    BY <1>5, <1>6, COBSRoundTrip
  <1>8. frame = r /\ frame = EncodeBlocks(input)
    BY <1>1, <1>3, <1>7 DEF COBSEncode
  <1>9. frame.encoded[1] = 1
    <2>1. PICK count : Encoded(input, frame.encoded, count, l)
      <3>1. \E count : IsEncoding(input, Len(input), EncodeBlocks(input), count)
        BY <1>5, <1>6, EncodeBlocksResult
      <3> QED BY <1>5, <1>8, <3>1 DEF IsEncoding
    <2>2. Mark(input, 1) /\ Mark(input, 2)
      <3>1. packet[1] = START_BYTE
        <4>1. Len(payload) <= MAX_PAYLOAD_LENGTH
          BY <1>1 DEF Assemble
        <4>2. PICK p \in Seq(Byte) : /\ Assemble(payload) = {p}
                                     /\ \A i \in 1 .. Len(p) - 1 : p[i] = START_BYTE <=> i = 1
          BY <4>1, PacketRoundTrip
        <4>3. p = packet
          BY <1>1, <4>2
        <4>4. \A k \in 5 .. 33 : 1 \in 1 .. k - 1
          OBVIOUS
        <4>5. 1 \in 1 .. Len(packet) - 1
          BY <1>2, <4>4
        <4> QED BY <4>2, <4>3, <4>5
      <3>2. 2 - 1 = 1
        OBVIOUS
      <3> QED BY <1>5, <3>1, <3>2 DEF Mark
    <2>3. PICK next \in 2 .. l + 2 : Spans(input, frame.encoded, 1, next)
      <3>1. 1 \in 1 .. l + 1 /\ 1 + 1 = 2
        OBVIOUS
      <3> QED BY <2>1, <2>2, <3>1 DEF Encoded
    <2>4. next = 2
      <3>1. 2 \notin 2 .. next - 1
        BY <2>2, <2>3 DEF Spans
      <3> QED BY <3>1
    <2> QED BY <2>3, <2>4 DEF Spans
  <1>10. PICK n \in 7 .. 35 : n = l + 1
    BY <1>6
  <1>11. \A k \in 1 .. n : frame.encoded[k] \in Byte \ {START_BYTE}
    BY <1>7, <1>8, <1>10
  <1>12. frame.encoded \in Seq(Byte)
    BY <1>7, <1>8
  <1> QED BY <1>7, <1>8, <1>9, <1>10, <1>11, <1>12 DEF IsFramed

\* With a byte lost nothing is taken in: no packet begins in its second byte.
LEMMA FrameShortened ==
    ASSUME NEW payload \in Seq(Byte), NEW frame \in Frame(payload), NEW i \in 1 .. Len(frame.encoded)
    PROVE  OnDataReceived(RemoveAt(frame.encoded, i)) = {}
  <1>1. PICK m \in 7 .. 35 : IsFramed(frame.encoded, m)
    BY FrameShape
  <1>2. PICK n \in Nat : n + 1 = m /\ n \in 6 .. 34
    <2>1. m - 1 \in Nat /\ (m - 1) + 1 = m /\ m - 1 \in 6 .. 34
      OBVIOUS
    <2> QED BY <2>1
  <1>3. PICK bytes : bytes = frame.encoded
    OBVIOUS
  <1>4. bytes \in Seq(Byte) /\ Len(bytes) = n + 1 /\ \A k \in 1 .. n + 1 : bytes[k] # START_BYTE
    BY <1>1, <1>2, <1>3 DEF IsFramed
  <1>5. PICK data : data = RemoveAt(bytes, i)
    OBVIOUS
  <1>6. /\ data \in Seq(Byte) /\ Len(data) = n
        /\ \A j \in 1 .. n : data[j] = IF j < i THEN bytes[j] ELSE bytes[j + 1]
    <2>1. i \in 1 .. n + 1
      BY <1>3, <1>4
    <2>2. IsShortened(RemoveAt(bytes, i), bytes, n, i)
      BY <1>4, <2>1, ByteLost
    <2> QED BY <1>5, <2>2 DEF IsShortened
  <1>7. data[2] # START_BYTE
    <2>1. 2 \in 1 .. n /\ 2 \in 1 .. n + 1 /\ 2 + 1 \in 1 .. n + 1
      BY <1>2
    <2> QED BY <1>4, <1>6, <2>1
  <1>8. Len(data) \in 2 .. 254
    BY <1>2, <1>6
  <1> QED BY <1>3, <1>5, <1>6, <1>7, <1>8, NoPacketInside

\* Nor with a bit inverted: in its second byte, it may look like the first of a packet, but
\* then the block in front of it is shorter than the frame.
LEMMA FrameInverted ==
    ASSUME NEW payload \in Seq(Byte), NEW frame \in Frame(payload),
           NEW i \in 1 .. Len(frame.encoded), NEW weight \in Weight
    PROVE  OnDataReceived([frame.encoded EXCEPT ![i] = Xor[@][weight]]) = {}
  <1>1. PICK m \in 7 .. 35 : IsFramed(frame.encoded, m)
    BY FrameShape
  <1>2. PICK n \in Nat : n = m
    OBVIOUS
  <1>3. PICK bytes : bytes = frame.encoded
    OBVIOUS
  <1>4. bytes \in Seq(Byte) /\ n = Len(bytes) /\ bytes[1] = 1 /\ \A k \in 1 .. n : bytes[k] # START_BYTE
    BY <1>1, <1>2, <1>3 DEF IsFramed
  <1>5. PICK data : data = [bytes EXCEPT ![i] = Xor[@][weight]]
    OBVIOUS
  <1>6. i \in 1 .. n
    BY <1>3, <1>4
  <1>7. /\ data \in Seq(Byte) /\ Len(data) = n /\ \A j \in 1 .. n : j # i => data[j] = bytes[j]
    <2>1. DiffersAt(data, bytes, n, i)
      BY <1>4, <1>5, <1>6, InvertedDiffers
    <2> QED BY <2>1 DEF DiffersAt
  <1>8. 1 \in 1 .. n /\ 2 \in 1 .. n /\ n \in 1 .. 254 /\ n \in 2 .. 254 /\ n # 1
    BY <1>2
  <1>9. CASE i = 2
    <2>1. data[1] # Len(data)
      BY <1>4, <1>7, <1>8, <1>9
    <2> QED BY <1>3, <1>5, <1>7, <1>8, <2>1, NoBlock
  <1>10. CASE i # 2
    <2>1. data[2] # START_BYTE
      BY <1>4, <1>7, <1>8, <1>10
    <2> QED BY <1>3, <1>5, <1>7, <1>8, <2>1, NoPacketInside
  <1> QED BY <1>9, <1>10

\* A retransmission of l bytes of payload.
IsResent(bytes, l) ==
    /\ bytes \in Seq(Byte) /\ Len(bytes) = l + 4 /\ bytes[2] = COMMAND /\ bytes[4] = l

LEMMA ResentShape ==
    ASSUME NEW c \in CommandType, NEW encoded \in EncodeCommand(c), Frame(encoded) # {}
    PROVE  \E l \in 0 .. 24 : IsResent(encoded, l)
  <1>1. PICK l \in 0 .. 255 : IsEncoded(encoded, c, l)
    BY CommandLayout
  <1>2. Len(encoded) <= 28
    BY DEF Frame, Assemble, MAX_PAYLOAD_LENGTH
  <1>3. Len(encoded) = l + 4
    <2>1. 4 + l = l + 4
      OBVIOUS
    <2> QED BY <1>1, <2>1 DEF IsEncoded
  <1>4. PICK k \in 0 .. 24 : k = l
    <2>1. l \in 0 .. 24
      BY <1>2, <1>3
    <2> QED BY <2>1
  <1> QED BY <1>1, <1>3, <1>4 DEF IsResent, IsEncoded

\* With a bit inverted, nothing is taken in of it.
LEMMA ResentInverted ==
    ASSUME NEW bytes, NEW l \in 0 .. 24, IsResent(bytes, l), NEW i \in 1 .. Len(bytes), NEW weight \in Weight
    PROVE  OnDataReceived([bytes EXCEPT ![i] = Xor[@][weight]]) = {}
  <1>1. PICK n \in Nat : n = l + 4
    OBVIOUS
  <1>2. bytes \in Seq(Byte) /\ n = Len(bytes) /\ bytes[2] = COMMAND
    BY <1>1 DEF IsResent
  <1>3. PICK data : data = [bytes EXCEPT ![i] = Xor[@][weight]]
    OBVIOUS
  <1>4. i \in 1 .. n
    BY <1>2
  <1>5. /\ data \in Seq(Byte) /\ Len(data) = n /\ \A j \in 1 .. n : j # i => data[j] = bytes[j]
    <2>1. DiffersAt(data, bytes, n, i)
      BY <1>2, <1>3, <1>4, InvertedDiffers
    <2> QED BY <2>1 DEF DiffersAt
  <1>6. 2 \in 1 .. n /\ n \in 2 .. 254
    BY <1>1
  <1>7. data[2] # START_BYTE
    <2>1. CASE i = 2
      <3>1. data[2] = Xor[bytes[2]][weight]
        BY <1>2, <1>3, <1>6, <2>1
      <3>2. PICK x \in Byte : x = bytes[2]
        BY <1>2, <1>6
      <3>3. IsInverted(x, Xor[x][weight])
        BY BitInverted
      <3>4. IsInverted(1, data[2])
        BY <1>2, <3>1, <3>2, <3>3 DEF COMMAND
      <3>5. data[2] \div 4 = 1 \div 4 \/ data[2] % 4 = 1 % 4
        BY <3>4 DEF IsInverted
      <3>6. ~ (170 \div 4 = 1 \div 4) /\ ~ (170 % 4 = 1 % 4)
        OBVIOUS
      <3> QED BY <3>5, <3>6 DEF START_BYTE
    <2>2. CASE i # 2
      BY <1>2, <1>5, <1>6, <2>2 DEF COMMAND, START_BYTE
    <2> QED BY <2>1, <2>2
  <1> QED BY <1>3, <1>5, <1>6, <1>7, NoPacketInside

\* With a byte lost, only the number of the command may be taken for the start of a packet.
LEMMA ResentShortened ==
    ASSUME NEW bytes, NEW l \in 0 .. 24, IsResent(bytes, l), NEW i \in 1 .. Len(bytes), bytes[3] # START_BYTE
    PROVE  OnDataReceived(RemoveAt(bytes, i)) = {}
  <1>1. PICK n \in Nat : n = l + 3
    OBVIOUS
  <1>2. bytes \in Seq(Byte) /\ Len(bytes) = n + 1 /\ bytes[2] = 1
    <2>1. n + 1 = l + 4
      BY <1>1
    <2> QED BY <2>1 DEF IsResent, COMMAND
  <1>3. PICK data : data = RemoveAt(bytes, i)
    OBVIOUS
  <1>4. i \in 1 .. n + 1
    BY <1>2
  <1>5. /\ data \in Seq(Byte) /\ Len(data) = n
        /\ \A j \in 1 .. n : data[j] = IF j < i THEN bytes[j] ELSE bytes[j + 1]
    <2>1. IsShortened(RemoveAt(bytes, i), bytes, n, i)
      BY <1>2, <1>4, ByteLost
    <2> QED BY <1>3, <2>1 DEF IsShortened
  <1>6. 1 \in 1 .. n /\ 2 \in 1 .. n /\ n \in 1 .. 254 /\ n \in 2 .. 254 /\ n # 1
    BY <1>1
  <1>7. CASE i = 1
    <2>1. data[1] = 1
      BY <1>2, <1>5, <1>6, <1>7
    <2>2. data[1] # Len(data)
      BY <1>5, <1>6, <2>1
    <2> QED BY <1>3, <1>5, <1>6, <2>2, NoBlock
  <1>8. CASE i # 1
    <2>1. data[2] = bytes[2] \/ data[2] = bytes[3]
      BY <1>4, <1>5, <1>6, <1>8
    <2>2. data[2] # START_BYTE
      BY <1>2, <2>1 DEF START_BYTE
    <2> QED BY <1>3, <1>5, <1>6, <2>2, NoPacketInside
  <1> QED BY <1>7, <1>8

\* What is taken in then has no descriptor: the payload is at most one byte long.
LEMMA ResentUnhandled ==
    ASSUME NEW bytes, NEW l \in 0 .. 24, IsResent(bytes, l), NEW i \in 1 .. Len(bytes),
           NEW found \in OnDataReceived(RemoveAt(bytes, i))
    PROVE  HandleIncomingPacket(found) = {}
  <1>1. PICK n \in Nat : n = l + 3
    OBVIOUS
  <1>2. bytes \in Seq(Byte) /\ Len(bytes) = n + 1 /\ bytes[2] = 1 /\ bytes[4] = l
    <2>1. n + 1 = l + 4
      BY <1>1
    <2> QED BY <2>1 DEF IsResent, COMMAND
  <1>3. PICK data : data = RemoveAt(bytes, i)
    OBVIOUS
  <1>4. i \in 1 .. n + 1
    BY <1>2
  <1>5. /\ data \in Seq(Byte) /\ Len(data) = n
        /\ \A j \in 1 .. n : data[j] = IF j < i THEN bytes[j] ELSE bytes[j + 1]
    <2>1. IsShortened(RemoveAt(bytes, i), bytes, n, i)
      BY <1>2, <1>4, ByteLost
    <2> QED BY <1>3, <2>1 DEF IsShortened
  <1>6. /\ 1 \in 1 .. n /\ 2 \in 1 .. n /\ 3 \in 1 .. n /\ n \in 1 .. 254 /\ n \in 2 .. 254
        /\ n # 1 /\ 0 < n /\ n < 255
    BY <1>1
  <1>7. OnDataReceived(data) # {}
    BY <1>3
  <1>8. i = 2
    <2>1. i # 1
      <3>1. i = 1 => data[1] = 1
        BY <1>2, <1>5, <1>6
      <3>2. i = 1 => data[1] # Len(data)
        BY <1>5, <1>6, <3>1
      <3> QED BY <1>5, <1>6, <1>7, <3>2, NoBlock
    <2>2. ~ (i > 2)
      <3>1. i > 2 => data[2] = 1
        BY <1>2, <1>5, <1>6
      <3>2. i > 2 => data[2] # START_BYTE
        BY <3>1 DEF START_BYTE
      <3> QED BY <1>5, <1>6, <1>7, <3>2, NoPacketInside
    <2> QED BY <1>4, <2>1, <2>2
  <1>9. data[3] = l
    BY <1>2, <1>5, <1>6, <1>8
  <1>10. PICK decoded \in COBSDecode(data, 0) : found \in Disassemble(Front(decoded))
    BY <1>3 DEF OnDataReceived
  <1>11. PICK q : q = Front(decoded)
    OBVIOUS
  <1>12. decoded = SubSeq(data, 2, n)
    BY <1>5, <1>6, <1>10, DecodedBlock
  <1>13. q = SubSeq(data, 2, n - 1)
    BY <1>1, <1>5, <1>11, <1>12 DEF Front
  <1>14. /\ q \in Seq(Byte) /\ Len(q) = l + 1 /\ (l + 1 >= 2 => q[2] = l)
    <2>1. \A j \in 2 .. n - 1 : j \in 1 .. n
      OBVIOUS
    <2>2. \A j \in 2 .. n - 1 : data[j] \in Byte
      BY <1>5, <2>1
    <2>3. /\ 2 \in Int /\ n - 1 \in Int
          /\ (IF 2 <= n - 1 THEN (n - 1) - 2 + 1 ELSE 0) = l + 1
          /\ \A k \in 1 .. l + 1 : 2 + k - 1 = 1 + k
      BY <1>1
    <2>4. q \in Seq(Byte) /\ Len(q) = l + 1
      BY <1>13, <2>2, <2>3, SubSeqProperties
    <2>5. l + 1 >= 2 => q[2] = data[3]
      BY <1>1, <1>5, <1>13
    <2> QED BY <1>9, <2>4, <2>5
  <1>15. found \in Disassemble(q)
    BY <1>10, <1>11
  <1>16. l >= 3
    <2>1. ~ (Len(q) < 4)
      BY <1>15 DEF Disassemble
    <2> QED BY <1>14, <2>1
  <1>17. PICK m \in Nat : m = l - 3
    BY <1>16
  <1>18. PICK f \in Seq(Byte) : Len(f) = m /\ IsLaidOut(q, q[1], q[2], q[3], f, m, q[m + 4])
    <2>1. Len(q) = m + 4
      BY <1>14, <1>17
    <2> QED BY <1>14, <2>1, Fields
  <1>19. found \in COBSDecode(f, q[3] \div 4) /\ Len(found) = q[2] \div 4
    <2>1. DisassembledTo(q, q[1], q[2], q[3], f, q[m + 4])
      BY <1>18, FieldsTaken
    <2> QED BY <1>15, <2>1 DEF DisassembledTo
  <1>20. Len(found) < 2
    <2>1. CASE m = 0
      <3>1. Len(found) = 0
        BY <1>18, <1>19, <2>1, NoneDecoded
      <3> QED BY <3>1
    <2>2. CASE m > 0
      <3>1. m < 255
        BY <1>17
      <3>2. Len(found) = m - 1
        BY <1>18, <1>19, <2>2, <3>1, DecodedLength
      <3>3. Len(found) = l \div 4
        BY <1>14, <1>16, <1>19
      <3>4. \A k \in 3 .. 24 : (k - 3) - 1 = k \div 4 => (k - 3) - 1 < 2
        OBVIOUS
      <3> QED BY <1>16, <1>17, <3>2, <3>3, <3>4
    <2> QED BY <1>17, <2>1, <2>2
  <1> QED BY <1>20 DEF HandleIncomingPacket

-----------------------------------------------------------------------------
(* One alteration, whatever way the payload takes but the XBee's.          *)

\* The bytes that are sent, by each of these ways, of what is framed.
IsSentBy(by, what, bytes) ==
    /\ by = "packet" => bytes \in Assemble(what)
    /\ by = "rfd900" => \E packet \in Assemble(what) : bytes = MAVLinkFrame(packet)
    /\ by = "avc" => \E frame \in Frame(what) : bytes = frame.encoded
    /\ by = "resend" => bytes = what /\ \E l \in 0 .. 24 : IsResent(what, l)

\* What the receiver makes of bytes.
Heard(by, bytes) == IF by \in Plain THEN Found(by, bytes) ELSE OnDataReceived(bytes)

\* What may be found in the bytes once they have been altered: only of the MAVLink frame
\* there are bytes that processFrame does not look at.
OnlyWhatWasSent(by, what, found) ==
    /\ by \in {"packet", "avc"} => found = {}
    /\ by = "rfd900" => found \subseteq {what}
    /\ by = "resend" =>
           /\ what[3] # START_BYTE => found = {}
           /\ \A data \in found : HandleIncomingPacket(data) = {}

LEMMA LossNoticed ==
    ASSUME NEW by \in Route \ {"xbee"}, NEW what \in Seq(Byte), NEW bytes, IsSentBy(by, what, bytes),
           NEW i \in 1 .. Len(bytes)
    PROVE  OnlyWhatWasSent(by, what, Heard(by, RemoveAt(bytes, i)))
  <1> USE DEF OnlyWhatWasSent, Heard, Found, Plain
  <1>1. CASE by = "packet"
    BY <1>1, LostByteRejected DEF IsSentBy
  <1>2. CASE by = "rfd900"
    BY <1>2, MAVLinkShortened DEF IsSentBy
  <1>3. CASE by = "avc"
    BY <1>3, FrameShortened DEF IsSentBy
  <1>4. CASE by = "resend"
    <2>1. PICK l \in 0 .. 24 : bytes = what /\ IsResent(bytes, l)
      BY <1>4 DEF IsSentBy
    <2>2. what[3] # START_BYTE => OnDataReceived(RemoveAt(bytes, i)) = {}
      BY <2>1, ResentShortened
    <2>3. \A data \in OnDataReceived(RemoveAt(bytes, i)) : HandleIncomingPacket(data) = {}
      BY <2>1, ResentUnhandled
    <2> QED BY <1>4, <2>2, <2>3
  <1> QED BY <1>1, <1>2, <1>3, <1>4 DEF Route

LEMMA InversionNoticed ==
    ASSUME NEW by \in Route \ {"xbee"}, NEW what \in Seq(Byte), NEW bytes, IsSentBy(by, what, bytes),
           NEW i \in 1 .. Len(bytes), NEW weight \in Weight
    PROVE  OnlyWhatWasSent(by, what, Heard(by, [bytes EXCEPT ![i] = Xor[@][weight]]))
  <1> USE DEF OnlyWhatWasSent, Heard, Found, Plain
  <1>1. CASE by = "packet"
    BY <1>1, InvertedBitRejected DEF IsSentBy
  <1>2. CASE by = "rfd900"
    BY <1>2, MAVLinkInverted DEF IsSentBy
  <1>3. CASE by = "avc"
    BY <1>3, FrameInverted DEF IsSentBy
  <1>4. CASE by = "resend"
    <2>1. PICK l \in 0 .. 24 : IsResent(bytes, l)
      BY <1>4 DEF IsSentBy
    <2>2. OnDataReceived([bytes EXCEPT ![i] = Xor[@][weight]]) = {}
      BY <2>1, ResentInverted
    <2> QED BY <1>4, <2>2
  <1> QED BY <1>1, <1>2, <1>3, <1>4 DEF Route

\* What is under way is what was sent, or, altered once, nothing that could be mistaken.
OnceAltered ==
    route # "xbee" =>
        /\ phase = "sent" /\ damage = 0 => IsSentBy(route, content, wire)
        /\ phase = "sent" /\ damage = 1 => OnlyWhatWasSent(route, content, Heard(route, wire))
        /\ phase = "received" /\ damage = 1 => OnlyWhatWasSent(route, content, result)

LEMMA SendOnceAltered ==
    ASSUME NothingSent, NEW by, NEW what, Send(by, what),
           by # "xbee" => IsSentBy(by, what, wire')
    PROVE  OnceAltered'
  <1>1. damage' = 0 /\ phase' = "sent" /\ route' = by /\ content' = what
    BY DEF NothingSent, Send
  <1> QED BY <1>1 DEF OnceAltered

LEMMA AlterOnceAltered ==
    ASSUME LinkInv, OnceAltered, NEW bytes, Alter(bytes),
           ASSUME route # "xbee", IsSentBy(route, content, wire)
           PROVE  OnlyWhatWasSent(route, content, Heard(route, bytes))
    PROVE  OnceAltered'
  <1>1. /\ phase = "sent" /\ phase' = "sent" /\ wire' = bytes /\ content' = content
        /\ damage \in Nat /\ damage' = damage + 1 /\ route' = route
    BY DEF Alter, LinkInv, TypeOK
  <1>2. route # "xbee" /\ damage' = 1 => OnlyWhatWasSent(route, content, Heard(route, bytes))
    <2>1. damage' = 1 => damage = 0
      BY <1>1
    <2>2. route # "xbee" /\ damage = 0 => IsSentBy(route, content, wire)
      BY <1>1 DEF OnceAltered
    <2> QED BY <2>1, <2>2
  <1>3. damage' # 0
    BY <1>1
  <1> QED BY <1>1, <1>2, <1>3 DEF OnceAltered

LEMMA ReceiveOnceAltered ==
    ASSUME OnceAltered, NEW by, NEW value, Receive(by, value),
           by # "xbee" => value = Heard(by, wire)
    PROVE  OnceAltered'
  <1>1. /\ phase = "sent" /\ phase' = "received" /\ route = by /\ content' = content
        /\ result' = value /\ damage' = damage /\ route' = route
    BY DEF Receive
  <1> QED BY <1>1 DEF OnceAltered

LEMMA NextOnceAltered == LinkInv /\ OnceAltered /\ [Next]_vars => OnceAltered'
  <1> SUFFICES ASSUME LinkInv, OnceAltered, [Next]_vars PROVE OnceAltered'
    OBVIOUS
  <1>0. NothingSent /\ content \in Seq(Byte) /\ route \in Route
    BY DEF LinkInv, TypeOK
  <1>1. ASSUME NEW payload \in Contents,
               SendPacket(payload) \/ SendRFD900(payload) \/ SendXBee(payload)
        PROVE  OnceAltered'
    <2>1. CASE SendPacket(payload)
      <3>1. Send("packet", payload) /\ IsSentBy("packet", payload, wire')
        BY <2>1 DEF SendPacket, IsSentBy
      <3> QED BY <1>0, <3>1, SendOnceAltered
    <2>2. CASE SendRFD900(payload)
      <3>1. Send("rfd900", payload) /\ IsSentBy("rfd900", payload, wire')
        BY <2>2 DEF SendRFD900, IsSentBy
      <3> QED BY <1>0, <3>1, SendOnceAltered
    <2>3. CASE SendXBee(payload)
      <3>1. Send("xbee", payload)
        BY <2>3 DEF SendXBee
      <3> QED BY <1>0, <3>1, SendOnceAltered
    <2> QED BY <1>1, <2>1, <2>2, <2>3
  <1>2. ASSUME NEW c \in Command, SendCommand(c) \/ ResendCommand(c)
        PROVE  OnceAltered'
    <2>1. c \in CommandType
      BY CommandAssumption DEF CommandType
    <2>2. CASE SendCommand(c)
      <3>1. PICK encoded \in EncodeCommand(c) :
                Send("avc", encoded) /\ \E frame \in Frame(encoded) : wire' = frame.encoded
        BY <2>2 DEF SendCommand
      <3>2. IsSentBy("avc", encoded, wire')
        BY <3>1 DEF IsSentBy
      <3> QED BY <1>0, <3>1, <3>2, SendOnceAltered
    <2>3. CASE ResendCommand(c)
      <3>1. PICK encoded \in EncodeCommand(c) :
                Send("resend", encoded) /\ Frame(encoded) # {} /\ wire' = encoded
        BY <2>3 DEF ResendCommand
      <3>2. \E l \in 0 .. 24 : IsResent(encoded, l)
        BY <2>1, <3>1, ResentShape
      <3>3. IsSentBy("resend", encoded, wire')
        BY <3>1, <3>2 DEF IsSentBy
      <3> QED BY <1>0, <3>1, <3>3, SendOnceAltered
    <2> QED BY <1>2, <2>2, <2>3
  <1>3. ASSUME NEW t \in Telemetry, SendTelemetry(t)
        PROVE  OnceAltered'
    <2>1. Send("avc", EncodeTelemetry(t)) /\ IsSentBy("avc", EncodeTelemetry(t), wire')
      BY <1>3 DEF SendTelemetry, IsSentBy
    <2> QED BY <1>0, <2>1, SendOnceAltered
  <1>4. ASSUME NEW i \in 1 .. Len(wire), LoseByte(i)
        PROVE  OnceAltered'
    <2>1. ASSUME route # "xbee", IsSentBy(route, content, wire)
          PROVE  OnlyWhatWasSent(route, content, Heard(route, RemoveAt(wire, i)))
      BY <1>0, <2>1, LossNoticed
    <2> QED BY <1>4, <2>1, AlterOnceAltered DEF LoseByte
  <1>5. ASSUME NEW i \in 1 .. Len(wire), NEW weight \in Weight, InvertBit(i, weight)
        PROVE  OnceAltered'
    <2>1. ASSUME route # "xbee", IsSentBy(route, content, wire)
          PROVE  OnlyWhatWasSent(route, content, Heard(route, [wire EXCEPT ![i] = Xor[@][weight]]))
      BY <1>0, <2>1, InversionNoticed
    <2> QED BY <1>5, <2>1, AlterOnceAltered DEF InvertBit
  <1>6. CASE ReceivePacket \/ ReceiveRFD900 \/ ReceiveXBee \/ ReceiveData
    <2>1. PICK by, value : Receive(by, value) /\ (by # "xbee" => value = Heard(by, wire))
      BY <1>6 DEF ReceivePacket, ReceiveRFD900, ReceiveXBee, ReceiveData, Heard, Found, Plain
    <2> QED BY <2>1, ReceiveOnceAltered
  <1>7. CASE UNCHANGED vars
    BY <1>7 DEF vars, OnceAltered
  <1> QED BY <1>1, <1>2, <1>3, <1>4, <1>5, <1>6, <1>7 DEF Next, Finished

LEMMA OnceAlteredHolds == Spec => []OnceAltered
  <1>1. Init => OnceAltered
    BY DEF Init, OnceAltered
  <1> QED BY <1>1, LinkInvHolds, NextOnceAltered, PTL DEF Spec

\* However what is sent is framed, the XBee apart, and whatever becomes of one bit or byte of
\* it on the way, the receiver finds what was sent or nothing; or else it is a retransmission,
\* whose bytes carry no checksum, of a command that has the start byte of a packet for its
\* number, and no handler gets what is found.
THEOREM OnceAlteredNotMisread ==
    Spec => [](damage <= 1 /\ route # "xbee" => NothingMisread)
  <1>1. ASSUME LinkInv, NothingTakenIn, OnceAltered, damage <= 1, route # "xbee",
               phase = "received"
        PROVE  \/ result \subseteq {content}
               \/ /\ route = "resend" /\ content[3] = START_BYTE
                  /\ \A data \in result : HandleIncomingPacket(data) = {}
    <2>1. damage \in Nat /\ route \in Route
      BY <1>1 DEF LinkInv, TypeOK
    <2>2. CASE damage = 0
      <3>1. CASE route \in Plain
        BY <1>1, <2>2, <3>1 DEF LinkInv, Undisturbed
      <3>2. CASE route \in {"avc", "resend"}
        BY <1>1, <2>2, <3>2 DEF NothingTakenIn
      <3> QED BY <1>1, <2>1, <3>1, <3>2 DEF Route, Plain
    <2>3. CASE damage = 1
      BY <1>1, <2>1, <2>3 DEF OnceAltered, OnlyWhatWasSent, Route
    <2> QED BY <1>1, <2>1, <2>2, <2>3
  <1>2. LinkInv /\ NothingTakenIn /\ OnceAltered
        => (damage <= 1 /\ route # "xbee" => NothingMisread)
    BY <1>1 DEF NothingMisread
  <1> QED BY <1>2, LinkInvHolds, OwnFramesIgnored, OnceAlteredHolds, PTL

AlteredDropped ==
    phase = "received" /\ route = "avc" /\ damage = 1 => result = {}

\* Of what an AVCProtocol has framed, nothing is found any more once a bit of it has been
\* inverted or a byte lost: the receiver loses it and invents nothing.
THEOREM AlteredFramesDropped == Spec => []AlteredDropped
  <1>1. OnceAltered => AlteredDropped
    BY DEF OnceAltered, OnlyWhatWasSent, AlteredDropped
  <1> QED BY <1>1, OnceAlteredHolds, PTL

ResentDropped ==
    phase = "received" /\ route = "resend" /\ damage <= 1
        => \A data \in result : HandleIncomingPacket(data) = {}

\* No handler is called with what onDataReceived may make of a retransmission, altered once
\* or not: handleIncomingPacket drops it for want of a descriptor.
THEOREM ResentNotHandled == Spec => []ResentDropped
  <1>1. LinkInv /\ NothingTakenIn /\ OnceAltered => ResentDropped
    <2> SUFFICES ASSUME LinkInv, NothingTakenIn, OnceAltered, phase = "received",
                        route = "resend", damage <= 1, NEW data \in result
                 PROVE  HandleIncomingPacket(data) = {}
      BY DEF ResentDropped
    <2>1. damage = 0 \/ damage = 1
      BY DEF LinkInv, TypeOK
    <2> QED BY <2>1 DEF NothingTakenIn, OnceAltered, OnlyWhatWasSent
  <1> QED BY <1>1, LinkInvHolds, OwnFramesIgnored, OnceAlteredHolds, PTL
=============================================================================
