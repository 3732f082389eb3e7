------------------------------ MODULE FifoChannel ------------------------------
(***************************************************************************)
(* What SCALPEL::Communicator::send promises: frames leave one by one, in  *)
(* the order in which they were accepted, each of them once.               *)
(***************************************************************************)
EXTENDS Sequences

CONSTANT Frame

VARIABLES
    channel,        \* frames accepted and not yet written
    written         \* frames written to the device, in order

Init == channel = <<>> /\ written = <<>>

Accept(f) ==
    /\ channel' = Append(channel, f)
    /\ UNCHANGED written

Write ==
    /\ channel # <<>>
    /\ written' = Append(written, Head(channel))
    /\ channel' = Tail(channel)

Next == Write \/ \E f \in Frame : Accept(f)

Spec == Init /\ [][Next]_<<channel, written>>
=============================================================================
