-------------------------------- MODULE MCLink --------------------------------
(* Instances of Link for TLC. *)
EXTENDS Link

CONSTANTS Letter, ShortLength, Twice

\* Everything short, and at full length every position of a border between
\* START_BYTE and another byte.
MCPayload ==
    UNION {[1 .. n -> Letter] : n \in 0 .. ShortLength} \cup
    {[i \in 1 .. MAX_PAYLOAD_LENGTH |-> IF i <= n THEN a ELSE b] :
        n \in 0 .. MAX_PAYLOAD_LENGTH, <<a, b>> \in {<<0, START_BYTE>>, <<START_BYTE, 1>>}}

\* Packets with contents no longer than Twice may be altered twice, and the others
\* once; frames of the radios only around short contents.
MCMaxDamage ==
    [way \in Route \X (0 .. MAX_PAYLOAD_LENGTH) |->
        CASE way[1] = "packet" /\ way[2] <= Twice -> 2
          [] way[1] \in {"rfd900", "xbee"} /\ way[2] > 6 -> 0
          [] OTHER -> 1]

\* A command longer than a packet holds and an invalid one are never sent.  The last one
\* is what the loss of a byte makes a packet of, when it is sent again.
MCCommand ==
    {[sender |-> 1, receiver |-> 2, number |-> 101, payload |-> <<>>],
     [sender |-> 15, receiver |-> 10, number |-> 101, payload |-> <<1, 170>>],
     [sender |-> 10, receiver |-> 10, number |-> 101, payload |-> [i \in 1 .. 24 |-> 170]],
     [sender |-> 2, receiver |-> 1, number |-> 101, payload |-> [i \in 1 .. 25 |-> 0]],
     [sender |-> 0, receiver |-> 0, number |-> 0, payload |-> <<>>],
     [sender |-> 8, receiver |-> 0, number |-> 170, payload |-> <<0, 2, 7, 21, 241>>]}

\* The ends of the ranges, and words of start bytes.
MCTelemetry ==
    {[sender |-> 1, receiver |-> 2, descriptor |-> 16, status |-> 255, memory |-> <<0, 100, 170>>,
      words |-> <<65535, 43690, -32768, 32767, -1, 0, 1, -21846, 256, -256, 170>>],
     [sender |-> 10, receiver |-> 10, descriptor |-> 17, status |-> 0, memory |-> <<1, 2, 3>>,
      words |-> <<0, 1, 2, 3, 4, 5, 6, 7, 8, 9, 10>>]}
=============================================================================
