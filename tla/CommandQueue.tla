----------------------------- MODULE CommandQueue -----------------------------
(***************************************************************************)
(* What the users of AVC::CommandManager rely on: a command that is queued *)
(* leaves the queue once, handed out or given up, before it can be queued  *)
(* again.                                                                  *)
(***************************************************************************)
CONSTANT Entry

VARIABLE status     \* "new", "queued", "taken" by getNextCommand or "dropped"

Init == status = [e \in Entry |-> "new"]

Move(e, to) == status' = [status EXCEPT ![e] = to]

Add(e) == status[e] # "queued" /\ Move(e, "queued")

Take(e) == status[e] = "queued" /\ Move(e, "taken")

Drop(e) == status[e] = "queued" /\ Move(e, "dropped")

Next == \E e \in Entry : Add(e) \/ Take(e) \/ Drop(e)

Spec == Init /\ [][Next]_status
=============================================================================
