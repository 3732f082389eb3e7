----------------------------- MODULE RadioChannel -----------------------------
(***************************************************************************)
(* What a radio driver's receivePacket promises of a link that may lose    *)
(* packets: those that arrive do so in the order in which the peer sent    *)
(* them, each at most once, and nothing arrives that was not sent.         *)
(***************************************************************************)
EXTENDS Integers, Sequences

CONSTANT MaxPackets     \* bound: packets the peer sends, numbered from 1

VARIABLES
    sent,           \* packets sent
    channel,        \* the packets on their way
    delivered       \* packets received, in order

Init == sent = 0 /\ channel = {} /\ delivered = <<>>

\* A packet may be lost at once ...
Send ==
    /\ sent < MaxPackets
    /\ sent' = sent + 1
    /\ channel' \in {channel, channel \cup {sent + 1}}
    /\ UNCHANGED delivered

\* ... or later.
Lose ==
    /\ channel' \in SUBSET channel
    /\ UNCHANGED <<sent, delivered>>

\* The oldest one comes first.
Deliver ==
    \E p \in channel :
        /\ \A q \in channel : p <= q
        /\ delivered' = Append(delivered, p)
        /\ channel' = channel \ {p}
        /\ UNCHANGED sent

Next == Send \/ Lose \/ Deliver

Spec == Init /\ [][Next]_<<sent, channel, delivered>>
=============================================================================
